------------------------ MODULE MCObtainMutexThread -------------------------
(***************************************************************************)
(* Three threads that compete for the mutex with each other and with the   *)
(* caller, which takes it twice.                                           *)
(***************************************************************************)
EXTENDS ObtainMutexThread

CONSTANTS t1, t2, t3

MCThread == {t1, t2, t3}

=============================================================================
