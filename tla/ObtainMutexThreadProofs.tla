---------------------- MODULE ObtainMutexThreadProofs -----------------------
(***************************************************************************)
(* The threads of examples/threading implement MutexHold, for any set of   *)
(* threads and any pattern of failures, and keep what thread_data promises.*)
(***************************************************************************)
EXTENDS ObtainMutexThread, TLAPS

\* A thread says it holds the mutex exactly if it does; one that has returned
\* with the mutex has failed to release it, and its flag says so.
HolderIsInside ==
    \A t \in Thread :
        /\ pc[t] \in {"hold", "unlock"} => mutex = t
        /\ mutex = t =>
            \/ pc[t] \in {"hold", "unlock"}
            \/ pc[t] \in {"returned", "joined"} /\ ~thread_complete_success[t]

\* thread_data is complete before pthread_create is called.
CreatedWithData ==
    \A t \in Thread : pc[t] = "create" => thread_data[t] = "ready"

ThreadInv ==
    TypeOK /\ HolderIsInside /\ ThreadOwnsItsData /\ CreatedWithData

LEMMA InitEstablishes == Init => ThreadInv
  BY IdentityAssumption, BoundAssumption
     DEF Init, ThreadInv, TypeOK, HolderIsInside, ThreadOwnsItsData,
         CreatedWithData, Running

-----------------------------------------------------------------------------
(***************************************************************************)
(* Every step keeps the invariant.                                         *)
(***************************************************************************)
LEMMA StartKeeps ==
    ASSUME ThreadInv, NEW t \in Thread, Start(t)
    PROVE  ThreadInv'
<1> USE IdentityAssumption
        DEF ThreadInv, TypeOK, HolderIsInside, ThreadOwnsItsData,
            CreatedWithData, Running, Goto
<1>1. CASE StartInit(t)
  <2>1. known' \in [Thread -> BOOLEAN]
    BY <1>1 DEF StartInit
  <2>2. QED  BY <1>1, <2>1 DEF StartInit
<1>2. CASE StartFails(t)
  BY <1>2 DEF StartFails, datavars, callervars
<1>3. CASE Create(t)
  BY <1>3 DEF Create, datavars
<1>4. CASE CreateFails(t)
  BY <1>4 DEF CreateFails, datavars
<1>5. QED  BY <1>1, <1>2, <1>3, <1>4 DEF Start

LEMMA RunKeeps ==
    ASSUME ThreadInv, NEW t \in Thread, Run(t)
    PROVE  ThreadInv'
<1> USE IdentityAssumption
        DEF ThreadInv, TypeOK, HolderIsInside, ThreadOwnsItsData,
            CreatedWithData, Running, Goto, datavars, callervars
<1>1. CASE SleepToObtain(t)
  BY <1>1 DEF SleepToObtain
<1>2. CASE Lock(t)
  BY <1>2 DEF Lock
<1>3. CASE LockFails(t)
  BY <1>3 DEF LockFails, Fail
<1>4. CASE SleepToRelease(t)
  BY <1>4 DEF SleepToRelease
<1>5. CASE Unlock(t)
  BY <1>5 DEF Unlock
<1>6. CASE UnlockFails(t)
  BY <1>6 DEF UnlockFails, Fail
<1>7. CASE Succeed(t)
  BY <1>7 DEF Succeed
<1>8. QED
  BY <1>1, <1>2, <1>3, <1>4, <1>5, <1>6, <1>7 DEF Run, Proceed

LEMMA CallerKeeps ==
    ASSUME ThreadInv,
           CallerLock \/ CallerUnlock \/ \E t \in Thread : Join(t)
    PROVE  ThreadInv'
<1> USE IdentityAssumption, BoundAssumption
        DEF ThreadInv, TypeOK, HolderIsInside, ThreadOwnsItsData,
            CreatedWithData, Running, Goto, datavars, callervars
<1>1. CASE CallerLock
  BY <1>1 DEF CallerLock
<1>2. CASE CallerUnlock
  BY <1>2 DEF CallerUnlock
<1>3. ASSUME NEW t \in Thread, Join(t) PROVE ThreadInv'
  BY <1>3 DEF Join
<1>4. QED  BY <1>1, <1>2, <1>3

LEMMA StepKeeps == ThreadInv /\ [Next]_vars => ThreadInv'
<1> SUFFICES ASSUME ThreadInv, [Next]_vars PROVE ThreadInv'
  OBVIOUS
<1>1. CASE UNCHANGED vars
  BY <1>1 DEF vars, datavars, callervars, ThreadInv, TypeOK, HolderIsInside,
              ThreadOwnsItsData, CreatedWithData
<1>2. QED  BY <1>1, StartKeeps, RunKeeps, CallerKeeps DEF Next

LEMMA AlwaysThreadInv == Spec => []ThreadInv
  BY InitEstablishes, StepKeeps, PTL DEF Spec

\* Every variable keeps its type, for any number of threads.
THEOREM ThreadTypes == Spec => []TypeOK
<1>1. ThreadInv => TypeOK
  BY DEF ThreadInv
<1>2. QED  BY <1>1, AlwaysThreadInv, PTL

\* threading.h:5-8: thread_data is ready for as long as its thread uses it,
\* and until the joiner has it.
THEOREM DataIsOwned == Spec => []ThreadOwnsItsData
<1>1. ThreadInv => ThreadOwnsItsData
  BY DEF ThreadInv
<1>2. QED  BY <1>1, AlwaysThreadInv, PTL

-----------------------------------------------------------------------------
(***************************************************************************)
(* Every step is one of MutexHold or leaves all phases alone.              *)
(***************************************************************************)
LEMMA PhaseIs ==
    /\ phase[Caller] = IF mutex = Caller THEN "holding" ELSE "outside"
    /\ \A t \in Thread : phase[t] = Phase(t)
  BY IdentityAssumption DEF phase

LEMMA PhaseWillBe ==
    /\ phase'[Caller] = IF mutex' = Caller THEN "holding" ELSE "outside"
    /\ \A t \in Thread : phase'[t] = Phase(t)'
  BY IdentityAssumption DEF phase

\* A step that changes the phase of one participant.
LEMMA MoveIsMove ==
    ASSUME NEW p \in Thread \cup {Caller}, NEW from, NEW to,
           phase[p] = from, phase'[p] = to,
           \A q \in (Thread \cup {Caller}) \ {p} : phase'[q] = phase[q]
    PROVE  Abstract!Move(p, from, to)
<1>1. phase' = [phase EXCEPT ![p] = to]
  BY DEF phase
<1>2. QED  BY <1>1 DEF Abstract!Move

\* A step that changes none of them.
LEMMA StayIsStutter ==
    ASSUME \A q \in Thread \cup {Caller} : phase'[q] = phase[q]
    PROVE  UNCHANGED phase
  BY DEF phase

\* If the mutex is free then no participant claims to hold it.
LEMMA FreeMutexIsFree ==
    ASSUME ThreadInv, mutex = NULL
    PROVE  Abstract!Free
  BY IdentityAssumption, PhaseIs
     DEF ThreadInv, TypeOK, HolderIsInside, Running, Phase,
         Abstract!Free, Abstract!Holding

LEMMA StartImplements ==
    ASSUME ThreadInv, NEW t \in Thread, Start(t)
    PROVE  [Abstract!Next]_phase
<1> USE IdentityAssumption, PhaseIs, PhaseWillBe
        DEF ThreadInv, TypeOK, HolderIsInside, Running, Goto, Phase,
            datavars, callervars
<1>1. CASE StartInit(t)
  <2>1. \A q \in Thread \cup {Caller} : phase'[q] = phase[q]
    BY <1>1 DEF StartInit
  <2>2. QED  BY <2>1, StayIsStutter
<1>2. CASE StartFails(t)
  <2>1. \A q \in Thread \cup {Caller} : phase'[q] = phase[q]
    BY <1>2 DEF StartFails
  <2>2. QED  BY <2>1, StayIsStutter
<1>3. CASE Create(t)
  <2>1. /\ phase[t] = "absent" /\ phase'[t] = "waiting"
        /\ \A q \in (Thread \cup {Caller}) \ {t} : phase'[q] = phase[q]
    BY <1>3 DEF Create
  <2>2. Abstract!Move(t, "absent", "waiting")
    BY <2>1, MoveIsMove
  <2>3. QED  BY <2>2 DEF Abstract!Next, Abstract!Step
<1>4. CASE CreateFails(t)
  <2>1. \A q \in Thread \cup {Caller} : phase'[q] = phase[q]
    BY <1>4 DEF CreateFails
  <2>2. QED  BY <2>1, StayIsStutter
<1>5. QED  BY <1>1, <1>2, <1>3, <1>4 DEF Start

LEMMA RunImplements ==
    ASSUME ThreadInv, NEW t \in Thread, Run(t)
    PROVE  [Abstract!Next]_phase
<1> USE IdentityAssumption, PhaseIs, PhaseWillBe
        DEF ThreadInv, TypeOK, HolderIsInside, Running, Goto, Phase,
            datavars, callervars
<1>1. CASE SleepToObtain(t) \/ SleepToRelease(t) \/ Succeed(t)
  <2>1. \A q \in Thread \cup {Caller} : phase'[q] = phase[q]
    BY <1>1 DEF SleepToObtain, SleepToRelease, Succeed
  <2>2. QED  BY <2>1, StayIsStutter
<1>2. CASE Lock(t)
  <2>1. /\ phase[t] = "waiting" /\ phase'[t] = "holding"
        /\ \A q \in (Thread \cup {Caller}) \ {t} : phase'[q] = phase[q]
    BY <1>2 DEF Lock
  <2>2. Abstract!Move(t, "waiting", "holding")
    BY <2>1, MoveIsMove
  <2>3. Abstract!Free
    BY <1>2, FreeMutexIsFree DEF Lock
  <2>4. QED  BY <2>2, <2>3 DEF Abstract!Next, Abstract!Step, Abstract!Obtain
<1>3. CASE LockFails(t)
  <2>1. /\ phase[t] = "waiting" /\ phase'[t] = "failed"
        /\ \A q \in (Thread \cup {Caller}) \ {t} : phase'[q] = phase[q]
    BY <1>3 DEF LockFails, Fail
  <2>2. Abstract!Move(t, "waiting", "failed")
    BY <2>1, MoveIsMove
  <2>3. QED  BY <2>2 DEF Abstract!Next, Abstract!Step
<1>4. CASE Unlock(t)
  <2>1. /\ phase[t] = "holding" /\ phase'[t] = "succeeded"
        /\ \A q \in (Thread \cup {Caller}) \ {t} : phase'[q] = phase[q]
    BY <1>4 DEF Unlock
  <2>2. Abstract!Move(t, "holding", "succeeded")
    BY <2>1, MoveIsMove
  <2>3. QED  BY <2>2 DEF Abstract!Next, Abstract!Step
<1>5. CASE UnlockFails(t)
  <2>1. /\ phase[t] = "holding" /\ phase'[t] = "stuck"
        /\ \A q \in (Thread \cup {Caller}) \ {t} : phase'[q] = phase[q]
    BY <1>5 DEF UnlockFails, Fail
  <2>2. Abstract!Move(t, "holding", "stuck")
    BY <2>1, MoveIsMove
  <2>3. QED  BY <2>2 DEF Abstract!Next, Abstract!Step
<1>6. QED
  BY <1>1, <1>2, <1>3, <1>4, <1>5 DEF Run, Proceed

LEMMA CallerImplements ==
    ASSUME ThreadInv,
           CallerLock \/ CallerUnlock \/ \E t \in Thread : Join(t)
    PROVE  [Abstract!Next]_phase
<1> USE IdentityAssumption, PhaseIs, PhaseWillBe
        DEF ThreadInv, TypeOK, HolderIsInside, Running, Goto, Phase,
            datavars, callervars
<1>1. CASE CallerLock
  <2>1. /\ phase[Caller] = "outside" /\ phase'[Caller] = "holding"
        /\ \A q \in (Thread \cup {Caller}) \ {Caller} : phase'[q] = phase[q]
    BY <1>1 DEF CallerLock
  <2>2. Abstract!Move(Caller, "outside", "holding")
    BY <2>1, MoveIsMove
  <2>3. Abstract!Free
    BY <1>1, FreeMutexIsFree DEF CallerLock
  <2>4. QED  BY <2>2, <2>3 DEF Abstract!Next, Abstract!CallerStep
<1>2. CASE CallerUnlock
  <2>1. /\ phase[Caller] = "holding" /\ phase'[Caller] = "outside"
        /\ \A q \in (Thread \cup {Caller}) \ {Caller} : phase'[q] = phase[q]
    BY <1>2 DEF CallerUnlock
  <2>2. Abstract!Move(Caller, "holding", "outside")
    BY <2>1, MoveIsMove
  <2>3. QED  BY <2>2 DEF Abstract!Next, Abstract!CallerStep
<1>3. ASSUME NEW t \in Thread, Join(t) PROVE [Abstract!Next]_phase
  <2>1. \A q \in Thread \cup {Caller} : phase'[q] = phase[q]
    BY <1>3 DEF Join
  <2>2. QED  BY <2>1, StayIsStutter
<1>4. QED  BY <1>1, <1>2, <1>3

LEMMA StepImplements == ThreadInv /\ [Next]_vars => [Abstract!Next]_phase
<1> SUFFICES ASSUME ThreadInv, [Next]_vars PROVE [Abstract!Next]_phase
  OBVIOUS
<1>1. CASE UNCHANGED vars
  BY <1>1 DEF vars, datavars, callervars, phase, Phase
<1>2. QED
  BY <1>1, StartImplements, RunImplements, CallerImplements DEF Next

\* threading.c:56-97: whatever fails, the intervals in which the threads and
\* their caller hold the mutex exclude each other, each thread has at most
\* one, and it reports success exactly if it has had and ended it.
THEOREM ThreadsImplementHold == Spec => ImplementsHold
<1>1. Init => Abstract!Init
  BY IdentityAssumption DEF Init, Abstract!Init, phase, Phase
<1>2. QED
  BY <1>1, StepImplements, AlwaysThreadInv, PTL
     DEF Spec, Abstract!Spec, ImplementsHold

=============================================================================
