--------------------------- MODULE MCSystemCalls ----------------------------
(***************************************************************************)
(* Programs of two and three calls, with room for a child that comes back  *)
(* and makes the remaining calls itself, and one with more redirected      *)
(* calls than descriptors.                                                 *)
(***************************************************************************)
EXTENDS SystemCalls

System == [function |-> "do_system", absolute |-> FALSE]
Relative == [function |-> "do_exec", absolute |-> FALSE]
Run == [function |-> "do_exec", absolute |-> TRUE]
Redirect == [function |-> "do_exec_redirect", absolute |-> TRUE]

MCPrograms == { <<Run, Redirect>>, <<Redirect, Redirect, Redirect>>,
                <<System, Relative, Redirect>> }

=============================================================================
