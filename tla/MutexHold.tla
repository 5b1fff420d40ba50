----------------------------- MODULE MutexHold ------------------------------
(***************************************************************************)
(* Abstract specification of examples/threading: what threading.h promises *)
(* of the threads that start_thread_obtaining_mutex starts.  Each obtains  *)
(* the mutex once, alone, and reports success exactly if it has released   *)
(* it again.  The thread that starts them uses the mutex as well.          *)
(***************************************************************************)
CONSTANTS Thread,       \* the threads that may be started
          Caller        \* the thread that starts and joins them

VARIABLES phase         \* where each of them is with respect to the mutex

\* A thread that is "stuck" has failed to release and reports failure.
Holding(p) == phase[p] \in {"holding", "stuck"}

Free == \A p \in Thread \cup {Caller} : ~Holding(p)

Init == phase = [p \in Thread \cup {Caller} |->
                    IF p = Caller THEN "outside" ELSE "absent"]

Move(p, from, to) ==
    /\ phase[p] = from
    /\ phase' = [phase EXCEPT ![p] = to]

Obtain(t) == Free /\ Move(t, "waiting", "holding")

\* It can fail before it has the mutex, or because it cannot release it.
Step(t) ==
    \/ Move(t, "absent", "waiting")
    \/ Obtain(t)
    \/ Move(t, "holding", "succeeded")
    \/ Move(t, "waiting", "failed")
    \/ Move(t, "holding", "stuck")

CallerStep ==
    \/ Free /\ Move(Caller, "outside", "holding")
    \/ Move(Caller, "holding", "outside")

Next == CallerStep \/ \E t \in Thread : Step(t)

Spec == Init /\ [][Next]_phase

=============================================================================
