----------------------------- MODULE CommandLog -----------------------------
(***************************************************************************)
(* Abstract specification of struct aesd_circular_buffer: a bounded log    *)
(* of entries, and the pointer the last addition hands back to be freed.   *)
(***************************************************************************)
EXTENDS BoundedLog

CONSTANTS Entry,        \* the entries callers add
          NULL

VARIABLES log,          \* the entries, oldest first
          dropped       \* the pointer of the entry the last addition forgot

vars == <<log, dropped>>

Init == log = << >> /\ dropped = NULL

Add(e) ==
    /\ log' = Push(log, e)
    /\ dropped' = IF Len(log) < MaxWriteOps THEN NULL ELSE Head(log).buffptr

Next == \E e \in Entry : Add(e)

Spec == Init /\ [][Next]_vars

=============================================================================
