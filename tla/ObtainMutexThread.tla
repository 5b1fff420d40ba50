------------------------- MODULE ObtainMutexThread --------------------------
(***************************************************************************)
(* examples/threading: start_thread_obtaining_mutex starts a thread that   *)
(* sleeps, obtains a mutex, sleeps holding it, releases it and returns its *)
(* thread_data with a success flag, for the joiner to look at and free.    *)
(*                                                                         *)
(* The caller is not part of the repository; it is modelled from the       *)
(* comments of threading.h: it starts threads, joins them, and uses the    *)
(* mutex itself.  A sleep takes any time: only the order of steps matters. *)
(***************************************************************************)
EXTENDS Naturals

CONSTANTS
    Thread,             \* the threads the caller may start
    Caller,             \* the thread that starts and joins them
    NULL,
    Failures,           \* whether malloc and the pthread calls can fail
    MaxCallerLocks      \* how often the caller takes the mutex itself

ASSUME IdentityAssumption ==
    /\ Caller \notin Thread
    /\ NULL \notin Thread \cup {Caller}

ASSUME BoundAssumption == MaxCallerLocks \in Nat

VARIABLES
    pc,                 \* where each thread is
    mutex,              \* the thread that holds it, or NULL
    thread_data,        \* "none", "ready" or "freed": its thread_data
    thread_complete_success,
    known,              \* the caller passed a pthread_t to fill
    starting,           \* the thread whose pthread_create is next, or NULL
    locks               \* how often the caller has taken the mutex

datavars == <<thread_data, thread_complete_success>>
callervars == <<known, starting, locks>>
vars == <<pc, mutex, datavars, callervars>>

Init ==
    /\ pc = [t \in Thread |-> "none"]
    /\ mutex = NULL
    /\ thread_data = [t \in Thread |-> "none"]
    /\ thread_complete_success = [t \in Thread |-> FALSE]
    /\ known = [t \in Thread |-> FALSE]
    /\ starting = NULL
    /\ locks = 0

Goto(t, from, to) ==
    /\ pc[t] = from
    /\ pc' = [pc EXCEPT ![t] = to]

-----------------------------------------------------------------------------
(***************************************************************************)
(* start_thread_obtaining_mutex, in the caller.                            *)
(***************************************************************************)
\* thread_data_init after pthread_create would be too late.
StartInitLater(t) ==
    /\ starting = NULL
    /\ Goto(t, "none", "create")
    /\ starting' = t
    /\ known' \in {known, [known EXCEPT ![t] = TRUE]}
    /\ UNCHANGED <<mutex, datavars, locks>>

\* Leaves the flag as malloc returned it.
StartInitWithoutFlag(t) ==
    /\ starting = NULL
    /\ Goto(t, "none", "create")
    /\ starting' = t
    /\ known' \in {known, [known EXCEPT ![t] = TRUE]}
    /\ thread_data' = [thread_data EXCEPT ![t] = "ready"]
    /\ thread_complete_success' = [thread_complete_success EXCEPT ![t] = NULL]
    /\ UNCHANGED <<mutex, locks>>

\* thread_init and thread_data_init.  With a NULL thread the id goes to
\* memory that the caller never sees.
StartInit(t) ==
    /\ starting = NULL
    /\ Goto(t, "none", "create")
    /\ starting' = t
    /\ known' \in {known, [known EXCEPT ![t] = TRUE]}
    /\ thread_data' = [thread_data EXCEPT ![t] = "ready"]
    /\ thread_complete_success' = [thread_complete_success EXCEPT ![t] = FALSE]
    /\ UNCHANGED <<mutex, locks>>

\* A malloc fails, or the mutex is NULL.
StartFails(t) ==
    /\ Failures
    /\ starting = NULL
    /\ Goto(t, "none", "unstarted")
    /\ UNCHANGED <<mutex, datavars, callervars>>

\* Waits in the caller for the mutex it is to hand to the thread.
CreateWhenFree(t) ==
    /\ mutex = NULL
    /\ Goto(t, "create", "obtain")
    /\ starting' = NULL
    /\ UNCHANGED <<mutex, datavars, known, locks>>

Create(t) ==
    /\ Goto(t, "create", "obtain")
    /\ starting' = NULL
    /\ UNCHANGED <<mutex, datavars, known, locks>>

\* pthread_create fails: the thread_data is not freed.
CreateFails(t) ==
    /\ Failures
    /\ Goto(t, "create", "unstarted")
    /\ starting' = NULL
    /\ UNCHANGED <<mutex, datavars, known, locks>>

-----------------------------------------------------------------------------
(***************************************************************************)
(* threadfunc.  The result of usleep is multiplied by 1000 before it is    *)
(* compared with -1, so a sleep that fails goes on like one that succeeds. *)
(***************************************************************************)
SleepToObtain(t) ==
    /\ Goto(t, "obtain", "lock")
    /\ UNCHANGED <<mutex, datavars, callervars>>

Lock(t) ==
    /\ mutex = NULL
    /\ Goto(t, "lock", "hold")
    /\ mutex' = t
    /\ UNCHANGED <<datavars, callervars>>

Fail(t) ==
    /\ thread_complete_success' = [thread_complete_success EXCEPT ![t] = FALSE]
    /\ UNCHANGED <<mutex, thread_data, callervars>>

\* Goes on as if it had obtained the mutex.
LockFailsUnnoticed(t) ==
    /\ Failures
    /\ Goto(t, "lock", "hold")
    /\ UNCHANGED <<mutex, datavars, callervars>>

LockFails(t) ==
    /\ Failures
    /\ Goto(t, "lock", "returned")
    /\ Fail(t)

SleepToRelease(t) ==
    /\ Goto(t, "hold", "unlock")
    /\ UNCHANGED <<mutex, datavars, callervars>>

\* Leaves out the release.
UnlockNothing(t) ==
    /\ Goto(t, "unlock", "succeed")
    /\ UNCHANGED <<mutex, datavars, callervars>>

Unlock(t) ==
    /\ Goto(t, "unlock", "succeed")
    /\ mutex' = NULL
    /\ UNCHANGED <<datavars, callervars>>

UnlockFails(t) ==
    /\ Failures
    /\ Goto(t, "unlock", "returned")
    /\ Fail(t)

\* Frees the thread_data it returns.
SucceedAndFree(t) ==
    /\ Goto(t, "succeed", "returned")
    /\ thread_complete_success' = [thread_complete_success EXCEPT ![t] = TRUE]
    /\ thread_data' = [thread_data EXCEPT ![t] = "freed"]
    /\ UNCHANGED <<mutex, callervars>>

Succeed(t) ==
    /\ Goto(t, "succeed", "returned")
    /\ thread_complete_success' = [thread_complete_success EXCEPT ![t] = TRUE]
    /\ UNCHANGED <<mutex, thread_data, callervars>>

Proceed(t) ==
    \/ SleepToObtain(t) \/ Lock(t)
    \/ SleepToRelease(t) \/ Unlock(t) \/ Succeed(t)

Run(t) == Proceed(t) \/ LockFails(t) \/ UnlockFails(t)

-----------------------------------------------------------------------------
(***************************************************************************)
(* The rest of the caller.                                                 *)
(***************************************************************************)
\* pthread_join hands over the thread_data, which the joiner frees.
Join(t) ==
    /\ starting = NULL
    /\ known[t]
    /\ Goto(t, "returned", "joined")
    /\ thread_data' = [thread_data EXCEPT ![t] = "freed"]
    /\ UNCHANGED <<mutex, thread_complete_success, callervars>>

CallerLock ==
    /\ starting = NULL
    /\ mutex = NULL
    /\ locks < MaxCallerLocks
    /\ mutex' = Caller
    /\ locks' = locks + 1
    /\ UNCHANGED <<pc, datavars, known, starting>>

CallerUnlock ==
    /\ starting = NULL
    /\ mutex = Caller
    /\ mutex' = NULL
    /\ UNCHANGED <<pc, datavars, callervars>>

Start(t) == StartInit(t) \/ StartFails(t) \/ Create(t) \/ CreateFails(t)

Next ==
    \/ CallerLock \/ CallerUnlock
    \/ \E t \in Thread : Start(t) \/ Run(t) \/ Join(t)

Spec == Init /\ [][Next]_vars

(***************************************************************************)
(* Threads are scheduled, a call that has begun goes on, and a caller that *)
(* has taken the mutex gives it back.  It need not start or join anything, *)
(* and nothing has to fail.                                                *)
(***************************************************************************)
Fairness ==
    /\ \A t \in Thread : WF_vars(Proceed(t)) /\ WF_vars(Create(t))
    /\ WF_vars(CallerUnlock)

FairSpec == Spec /\ Fairness

-----------------------------------------------------------------------------
Running == {"obtain", "lock", "hold", "unlock", "succeed"}

TypeOK ==
    /\ pc \in [Thread -> Running \cup {"none", "create", "unstarted",
                                       "returned", "joined"}]
    /\ mutex \in Thread \cup {Caller, NULL}
    /\ thread_data \in [Thread -> {"none", "ready", "freed"}]
    /\ thread_complete_success \in [Thread -> BOOLEAN]
    /\ known \in [Thread -> BOOLEAN]
    /\ starting \in Thread \cup {NULL}
    /\ locks \in 0..MaxCallerLocks

(***************************************************************************)
(* The thread_data of a thread that runs, or that has returned it, has     *)
(* been initialised and not been freed: by nobody but the joiner           *)
(* (threading.h:5-8, threading.c:124-129).                                 *)
(***************************************************************************)
ThreadOwnsItsData ==
    \A t \in Thread :
        pc[t] \in Running \cup {"returned"} => thread_data[t] = "ready"

(***************************************************************************)
(* The intervals in which threads say they hold the mutex exclude each     *)
(* other and the caller's, and the flag a joiner reads tells whether the   *)
(* thread has had its interval and has ended it: the threads implement     *)
(* MutexHold (threading.c:56-97).                                          *)
(***************************************************************************)
Phase(t) ==
    CASE pc[t] \in {"none", "create", "unstarted"} -> "absent"
      [] pc[t] \in {"obtain", "lock"} -> "waiting"
      [] pc[t] \in {"hold", "unlock"} -> "holding"
      [] pc[t] = "succeed" -> "succeeded"
      [] pc[t] \in {"returned", "joined"} ->
            IF thread_complete_success[t] THEN "succeeded"
            ELSE IF mutex = t THEN "stuck" ELSE "failed"

phase ==
    [p \in Thread \cup {Caller} |->
        IF p = Caller
        THEN IF mutex = Caller THEN "holding" ELSE "outside"
        ELSE Phase(p)]

Abstract == INSTANCE MutexHold

ImplementsHold == Abstract!Spec

\* A thread could not release the mutex: nobody obtains it any more.
MutexIsLost ==
    \E t \in Thread :
        /\ mutex = t
        /\ pc[t] \in {"returned", "joined"}
        /\ ~thread_complete_success[t]

(***************************************************************************)
(* Every thread that has been started returns, however many compete for    *)
(* the mutex and whether or not the caller holds it for a while.           *)
(***************************************************************************)
EveryThreadReturns ==
    \A t \in Thread :
        pc[t] = "obtain" ~> (pc[t] \in {"returned", "joined"} \/ MutexIsLost)

(***************************************************************************)
(* threading.h:32-33: starting a thread does not block, not even while the *)
(* caller itself holds the mutex.                                          *)
(***************************************************************************)
StartDoesNotBlock == starting # NULL ~> starting = NULL

=============================================================================
