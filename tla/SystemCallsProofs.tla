------------------------- MODULE SystemCallsProofs --------------------------
(***************************************************************************)
(* The system-call examples, for any program, any number of processes and  *)
(* descriptors and any pattern of failures: a call answers for its own     *)
(* child and leaves none behind, only the child is redirected, and the     *)
(* descriptors that stay open are counted exactly.                         *)
(***************************************************************************)
EXTENDS SystemCalls, FiniteSetTheorems, TLAPS

\* The caller is nobody's child, and never where only a child is.
RootIsCaller ==
    /\ parent[Root] = NoChild
    /\ pc[Root] \in {"user", "open", "fork", "wait", "zombie"}

AbsentIsUnborn == \A q \in Pid : pc[q] = "absent" => parent[q] = NoChild

\* A process is in the call it was forked in until it has become the command
\* or has come back; it ends as the one or the other.
Inside == {"user", "open", "fork", "wait"}

PlacesFollowBirth ==
    \A q \in Pid :
        /\ born[q] <= at[q]
        /\ pc[q] \in Inside => born[q] < at[q]
        /\ pc[q] = "command" => execed[q]
        /\ pc[q] \in {"zombie", "reaped"} => execed[q] \/ born[q] < at[q]

\* A parent waits for the child of its present call, which is still there.
WaitsForOwnChild ==
    \A p \in Pid : pc[p] = "wait" /\ pid[p] # Failed =>
        /\ pid[p] \in Pid
        /\ parent[pid[p]] = p
        /\ born[pid[p]] = at[p]
        /\ pc[pid[p]] \notin {"absent", "reaped"}

AnsweredByReaped ==
    \A p \in Pid : Answered(p) => pc[waited[p]] = "reaped"

ChildIsWaitedFor ==
    \A q \in Pid :
        parent[q] \in Pid /\ pc[q] \notin {"absent", "reaped"} =>
            \/ q \in abandoned
            \/ pc[parent[q]] = "wait" /\ pid[parent[q]] = q

FileIsOpen ==
    \A p \in Pid :
        /\ pc[p] = "open" => Redirects(CallOf(p))
        /\ pc[p] = "fork" /\ Redirects(CallOf(p)) => fds[p] > 0
        /\ pc[p] = "dup2" => fds[p] > 0

\* The output of the caller's children, from fork to the command.
ChildIsRedirected ==
    /\ stdout[Root] = "inherited"
    /\ \A q \in Pid : parent[q] = Root =>
        /\ pc[q] = "dup2" => Redirects(program[born[q]])
        /\ pc[q] \in {"execv", "command"} =>
                (stdout[q] = "file" <=> Redirects(program[born[q]]))

DescriptorsCounted ==
    LET left == Cardinality(RedirectedBy(Root)) IN
    /\ pc[Root] \in {"user", "open", "wait"} => fds[Root] = left
    /\ pc[Root] = "fork" =>
        fds[Root] = IF Redirects(CallOf(Root)) THEN left + 1 ELSE left

CallsInv ==
    /\ TypeOK /\ RootIsCaller /\ AbsentIsUnborn /\ PlacesFollowBirth
    /\ WaitsForOwnChild /\ AnsweredByReaped /\ AnswersForItsCommand
    /\ ChildIsWaitedFor /\ FileIsOpen /\ ChildIsRedirected
    /\ DescriptorsCounted

LEMMA PidFacts ==
    /\ Root \in Pid /\ Failed \notin Pid /\ NoChild \notin Pid
    /\ NoChild # Failed
    /\ Pid \subseteq Nat /\ IsFiniteSet(Pid)
<1>1. MaxPid \in Nat \ {0}
  BY BoundAssumption
<1>2. IsFiniteSet(Pid)
  BY <1>1, FS_Interval DEF Pid
<1>3. QED  BY <1>1, <1>2 DEF Pid, Root, Failed, NoChild

LEMMA InitHolds == Init => CallsInv
<1> SUFFICES ASSUME Init PROVE CallsInv
  OBVIOUS
<1> USE PidFacts
<1>1. TypeOK
  BY BoundAssumption DEF Init, TypeOK
<1>2. /\ RootIsCaller /\ AbsentIsUnborn /\ PlacesFollowBirth
      /\ WaitsForOwnChild /\ ChildIsWaitedFor
  BY DEF Init, RootIsCaller, AbsentIsUnborn, PlacesFollowBirth,
         WaitsForOwnChild, ChildIsWaitedFor, Inside
<1>3. AnsweredByReaped /\ AnswersForItsCommand
  BY DEF Init, AnsweredByReaped, AnswersForItsCommand, Answered
<1>4. FileIsOpen /\ ChildIsRedirected
  BY DEF Init, FileIsOpen, ChildIsRedirected
<1>5. DescriptorsCounted
  <2>1. RedirectedBy(Root) = {}
    BY DEF Init, RedirectedBy
  <2>2. Cardinality(RedirectedBy(Root)) = 0
    BY <2>1, FS_EmptySet
  <2>3. QED  BY <2>2 DEF Init, DescriptorsCounted
<1>6. QED  BY <1>1, <1>2, <1>3, <1>4, <1>5 DEF CallsInv

-----------------------------------------------------------------------------
(***************************************************************************)
(* Types, and the descriptors that a step closes are open.                 *)
(***************************************************************************)
LEMMA TypesProceed ==
    ASSUME CallsInv, NEW p \in Pid, Proceed(p)
    PROVE  TypeOK' /\ FileIsOpen'
<1> USE PidFacts
    DEF CallsInv, TypeOK, FileIsOpen, InCall, Goto, Return, CallOf, childvars,
        callvars, filevars
<1>1. CASE DoSystem(p)
  <2>1. \E value \in BOOLEAN : result' = [result EXCEPT ![p] = value]
    BY <1>1 DEF DoSystem
  <2>2. QED  BY <1>1, <2>1 DEF DoSystem, InProgram
<1>2. CASE RelativePath(p)
  BY <1>2 DEF RelativePath, InProgram
<1>3. CASE Exec(p)
  <2>1. TypeOK'
    BY <1>3 DEF Exec
  <2>2. FileIsOpen'
    BY <1>3 DEF Exec
  <2>3. QED  BY <2>1, <2>2
<1>4. CASE Open(p)
  BY <1>4, BoundAssumption DEF Open
<1>5. CASE Fork(p)
  <2>1. PICK q \in Unused :
            /\ pc' = [pc EXCEPT ![p] = "wait",
                        ![q] = IF Redirects(CallOf(p)) THEN "dup2" ELSE "execv"]
            /\ pid' = [pid EXCEPT ![p] = q]
            /\ parent' = [parent EXCEPT ![q] = p]
            /\ born' = [born EXCEPT ![q] = at[p]]
            /\ at' = [at EXCEPT ![q] = at[p]]
            /\ fds' = [fds EXCEPT ![q] = fds[p]]
            /\ stdout' = [stdout EXCEPT ![q] = stdout[p]]
    BY <1>5 DEF Fork
  <2>2. q \in Pid /\ pc[q] = "absent" /\ pc[p] = "fork" /\ q # p
    BY <1>5 DEF Fork, Unused
  <2>3. /\ UNCHANGED <<program, abandoned, execed, exit, result, waited>>
    BY <1>5 DEF Fork
  <2>4. TypeOK'
    BY <2>1, <2>2, <2>3
  <2>5. FileIsOpen'
    BY <2>1, <2>2, <2>3
  <2>6. QED  BY <2>4, <2>5
<1>6. CASE Dup2(p)
  BY <1>6, BoundAssumption DEF Dup2
<1>7. CASE Execv(p)
  BY <1>7 DEF Execv
<1>8. CASE CommandEnds(p) \/ ProgramEnds(p)
  <2>1. PICK status \in {"zero", "nonzero", "signal"} :
            exit' = [exit EXCEPT ![p] = status]
    BY <1>8 DEF CommandEnds, ProgramEnds, Exit
  <2>2. /\ pc' = [pc EXCEPT ![p] = "zombie"]
        /\ parent' = [q \in Pid |->
                        IF q \in Children(p) THEN NoChild ELSE parent[q]]
        /\ UNCHANGED <<program, abandoned, born, execed, callvars, filevars>>
    BY <1>8 DEF CommandEnds, ProgramEnds, Exit
  <2>3. parent' \in [Pid -> Pid \cup {NoChild}]
    BY <2>2
  <2>4. TypeOK'
    BY <2>1, <2>2, <2>3
  <2>5. FileIsOpen'
    BY <2>2
  <2>6. QED  BY <2>4, <2>5
<1>9. ASSUME NEW q \in Pid, Reap(p, q) PROVE TypeOK' /\ FileIsOpen'
  <2>1. (exit[q] = "zero") \in BOOLEAN
    OBVIOUS
  <2>2. QED  BY <1>9, <2>1 DEF Reap
<1>10. CASE Wait(p) \/ WaitAfterFailedFork(p)
  BY <1>9, <1>10 DEF Wait, WaitAfterFailedFork, Children, WaitsForOwnChild,
                     Reap
<1>11. QED
  BY <1>1, <1>2, <1>3, <1>4, <1>5, <1>6, <1>7, <1>8, <1>10 DEF Proceed

LEMMA TypesFail ==
    ASSUME CallsInv, NEW p \in Pid, Fail(p)
    PROVE  TypeOK' /\ FileIsOpen'
<1> USE PidFacts
    DEF CallsInv, TypeOK, FileIsOpen, InCall, Goto, Return, CallOf, childvars,
        callvars, filevars
<1>1. CASE OpenFails(p)
  BY <1>1 DEF OpenFails
<1>2. CASE ForkFails(p)
  <2>1. CASE Redirects(CallOf(p))
    <3>1. /\ pc[p] = "fork"
          /\ pc' = [pc EXCEPT ![p] = "wait"]
          /\ fds' = [fds EXCEPT ![p] = @ - 1]
          /\ pid' = [pid EXCEPT ![p] = Failed]
          /\ UNCHANGED <<program, abandoned, parent, born, execed, exit, at,
                         result, waited, stdout>>
      BY <1>2, <2>1 DEF ForkFails
    <3>2. fds[p] > 0
      BY <2>1, <3>1
    <3>3. fds' \in [Pid -> 0..MaxFds]
      BY <3>1, <3>2, BoundAssumption
    <3>4. TypeOK'
      BY <3>1, <3>3
    <3>5. FileIsOpen'
      BY <3>1
    <3>6. QED  BY <3>4, <3>5
  <2>2. CASE ~Redirects(CallOf(p))
    <3>1. /\ pc' = [pc EXCEPT ![p] = "user"]
          /\ Return(p, FALSE, NoChild)
          /\ UNCHANGED <<program, abandoned, childvars, stdout, fds, pid>>
      BY <1>2, <2>2 DEF ForkFails
    <3>2. QED  BY <3>1
  <2>3. QED  BY <2>1, <2>2
<1>3. CASE Dup2Fails(p)
  BY <1>3, BoundAssumption DEF Dup2Fails
<1>4. CASE ExecvFails(p)
  BY <1>4 DEF ExecvFails
<1>5. CASE WaitFails(p)
  <2>1. pid[p] \in Pid \cup {Failed}
    <3>1. pc[p] = "wait"
      BY <1>5 DEF WaitFails
    <3>2. CASE pid[p] # Failed
      BY <3>1, <3>2 DEF WaitsForOwnChild
    <3>3. QED  BY <3>2
  <2>2. PICK value \in BOOLEAN : Return(p, value, Failed)
    BY <1>5 DEF WaitFails
  <2>3. /\ pc' = [pc EXCEPT ![p] = "user"]
        /\ abandoned' = abandoned \cup {pid[p]}
        /\ UNCHANGED <<program, pid, childvars, filevars>>
    BY <1>5 DEF WaitFails
  <2>4. abandoned' \subseteq Pid \cup {Failed}
    BY <2>1, <2>3
  <2>5. TypeOK'
    BY <2>2, <2>3, <2>4
  <2>6. FileIsOpen'
    BY <2>2, <2>3
  <2>7. QED  BY <2>5, <2>6
<1>6. QED  BY <1>1, <1>2, <1>3, <1>4, <1>5 DEF Fail

-----------------------------------------------------------------------------
(***************************************************************************)
(* Who waits for whom.  All steps but fork, exit and waitpid move one      *)
(* process and change what is its own.                                     *)
(***************************************************************************)
Family ==
    /\ RootIsCaller /\ AbsentIsUnborn /\ PlacesFollowBirth
    /\ WaitsForOwnChild /\ ChildIsWaitedFor

Alone(p) ==
    \/ DoSystem(p) \/ RelativePath(p) \/ Exec(p) \/ Open(p) \/ OpenFails(p)
    \/ ForkFails(p) \/ Dup2(p) \/ Dup2Fails(p) \/ Execv(p) \/ ExecvFails(p)
    \/ WaitFails(p)

LEMMA FamilyAlone ==
    ASSUME CallsInv, NEW p \in Pid, Alone(p)
    PROVE  Family'
<1> USE PidFacts
    DEF CallsInv, TypeOK, Family, InCall, Inside, Goto, Return, childvars,
        callvars, filevars
<1> DEFINE Rest == WaitsForOwnChild' /\ ChildIsWaitedFor'
           Own == RootIsCaller' /\ AbsentIsUnborn' /\ PlacesFollowBirth'
<1>1. CASE DoSystem(p)
  <2>1. Own
    BY <1>1 DEF DoSystem, InProgram, RootIsCaller, AbsentIsUnborn, PlacesFollowBirth
  <2>2. Rest
    BY <1>1 DEF DoSystem, InProgram, WaitsForOwnChild, ChildIsWaitedFor
  <2>3. QED  BY <2>1, <2>2
<1>2. CASE RelativePath(p)
  <2>1. Own
    BY <1>2 DEF RelativePath, InProgram, RootIsCaller, AbsentIsUnborn, PlacesFollowBirth
  <2>2. Rest
    BY <1>2 DEF RelativePath, InProgram, WaitsForOwnChild, ChildIsWaitedFor
  <2>3. QED  BY <2>1, <2>2
<1>3. CASE Exec(p)
  <2>1. Own
    BY <1>3 DEF Exec, InProgram, RootIsCaller, AbsentIsUnborn, PlacesFollowBirth
  <2>2. Rest
    BY <1>3 DEF Exec, InProgram, WaitsForOwnChild, ChildIsWaitedFor
  <2>3. QED  BY <2>1, <2>2
<1>4. CASE Open(p)
  <2>1. Own
    BY <1>4 DEF Open, RootIsCaller, AbsentIsUnborn, PlacesFollowBirth
  <2>2. Rest
    BY <1>4 DEF Open, WaitsForOwnChild, ChildIsWaitedFor
  <2>3. QED  BY <2>1, <2>2
<1>5. CASE OpenFails(p)
  <2>1. Own
    BY <1>5 DEF OpenFails, RootIsCaller, AbsentIsUnborn, PlacesFollowBirth
  <2>2. Rest
    BY <1>5 DEF OpenFails, WaitsForOwnChild, ChildIsWaitedFor
  <2>3. QED  BY <2>1, <2>2
<1>6. CASE ForkFails(p)
  <2>1. Own
    BY <1>6 DEF ForkFails, RootIsCaller, AbsentIsUnborn, PlacesFollowBirth
  <2>2. Rest
    <3>1. CASE Redirects(CallOf(p))
      <4>1. /\ pc[p] = "fork" /\ pc' = [pc EXCEPT ![p] = "wait"]
            /\ pid' = [pid EXCEPT ![p] = Failed]
            /\ UNCHANGED <<parent, born, at, abandoned>>
        BY <1>6, <3>1 DEF ForkFails
      <4>2. WaitsForOwnChild'
        BY <4>1 DEF WaitsForOwnChild
      <4>3. ChildIsWaitedFor'
        BY <4>1 DEF ChildIsWaitedFor
      <4>4. QED  BY <4>2, <4>3
    <3>2. CASE ~Redirects(CallOf(p))
      <4>1. /\ pc[p] = "fork" /\ pc' = [pc EXCEPT ![p] = "user"]
            /\ at' = [at EXCEPT ![p] = @ + 1]
            /\ UNCHANGED <<parent, born, pid, abandoned>>
        BY <1>6, <3>2 DEF ForkFails
      <4>2. QED  BY <4>1 DEF WaitsForOwnChild, ChildIsWaitedFor
    <3>3. QED  BY <3>1, <3>2
  <2>3. QED  BY <2>1, <2>2
<1>7. CASE Dup2(p)
  <2>1. Own
    BY <1>7 DEF Dup2, RootIsCaller, AbsentIsUnborn, PlacesFollowBirth
  <2>2. Rest
    BY <1>7 DEF Dup2, WaitsForOwnChild, ChildIsWaitedFor
  <2>3. QED  BY <2>1, <2>2
<1>8. CASE Dup2Fails(p)
  <2>1. Own
    BY <1>8 DEF Dup2Fails, RootIsCaller, AbsentIsUnborn, PlacesFollowBirth
  <2>2. Rest
    BY <1>8 DEF Dup2Fails, WaitsForOwnChild, ChildIsWaitedFor
  <2>3. QED  BY <2>1, <2>2
<1>9. CASE Execv(p)
  <2>1. Own
    BY <1>9 DEF Execv, RootIsCaller, AbsentIsUnborn, PlacesFollowBirth
  <2>2. Rest
    BY <1>9 DEF Execv, WaitsForOwnChild, ChildIsWaitedFor
  <2>3. QED  BY <2>1, <2>2
<1>10. CASE ExecvFails(p)
  <2>1. Own
    BY <1>10 DEF ExecvFails, RootIsCaller, AbsentIsUnborn, PlacesFollowBirth
  <2>2. Rest
    BY <1>10 DEF ExecvFails, WaitsForOwnChild, ChildIsWaitedFor
  <2>3. QED  BY <2>1, <2>2
<1>11. CASE WaitFails(p)
  <2>1. Own
    BY <1>11 DEF WaitFails, RootIsCaller, AbsentIsUnborn, PlacesFollowBirth
  <2>2. Rest
    BY <1>11 DEF WaitFails, WaitsForOwnChild, ChildIsWaitedFor
  <2>3. QED  BY <2>1, <2>2
<1>12. QED
  BY <1>1, <1>2, <1>3, <1>4, <1>5, <1>6, <1>7, <1>8, <1>9, <1>10, <1>11 DEF Alone
LEMMA WaitedForChild ==
    ASSUME ChildIsWaitedFor, NEW r \in Pid, parent[r] \in Pid,
           pc[r] # "absent", pc[r] # "reaped"
    PROVE  r \in abandoned \/ (pc[parent[r]] = "wait" /\ pid[parent[r]] = r)
BY DEF ChildIsWaitedFor

LEMMA FamilyGrows ==
    ASSUME CallsInv, NEW p \in Pid, Fork(p)
    PROVE  Family'
<1> USE PidFacts DEF CallsInv, TypeOK, InCall, Inside
<1>1. PICK q \in Unused :
          /\ pc' = [pc EXCEPT ![p] = "wait",
                      ![q] = IF Redirects(CallOf(p)) THEN "dup2" ELSE "execv"]
          /\ pid' = [pid EXCEPT ![p] = q]
          /\ parent' = [parent EXCEPT ![q] = p]
          /\ born' = [born EXCEPT ![q] = at[p]]
          /\ at' = [at EXCEPT ![q] = at[p]]
  BY DEF Fork
<1>2. /\ q \in Pid /\ pc[q] = "absent" /\ pc[p] = "fork" /\ q # p
      /\ UNCHANGED <<abandoned, execed>>
  BY DEF Fork, Unused
<1>3. RootIsCaller'
  BY <1>1, <1>2 DEF RootIsCaller
<1>4. AbsentIsUnborn'
  BY <1>1, <1>2 DEF AbsentIsUnborn
<1>5. PlacesFollowBirth'
  BY <1>1, <1>2 DEF PlacesFollowBirth
<1>6. ASSUME NEW r \in Pid, pc'[r] = "wait", pid'[r] # Failed
      PROVE  /\ pid'[r] \in Pid /\ parent'[pid'[r]] = r
             /\ born'[pid'[r]] = at'[r]
             /\ pc'[pid'[r]] \notin {"absent", "reaped"}
  <2>1. CASE r = p
    BY <1>1, <1>2, <2>1
  <2>2. CASE r # p
    <3>1. pc[r] = "wait" /\ pid[r] # Failed /\ r # q /\ pid'[r] = pid[r]
      BY <1>1, <1>2, <1>6, <2>2
    <3>2. /\ pid[r] \in Pid /\ parent[pid[r]] = r /\ born[pid[r]] = at[r]
          /\ pc[pid[r]] \notin {"absent", "reaped"}
      BY <3>1 DEF WaitsForOwnChild
    <3>3. pid[r] # q
      BY <1>2, <3>2
    <3>4. QED  BY <1>1, <1>2, <2>2, <3>1, <3>2, <3>3
  <2>3. QED  BY <2>1, <2>2
<1>7. ASSUME NEW r \in Pid, parent'[r] \in Pid,
             pc'[r] \notin {"absent", "reaped"}
      PROVE  \/ r \in abandoned'
             \/ pc'[parent'[r]] = "wait" /\ pid'[parent'[r]] = r
  <2>1. CASE r = q
    BY <1>1, <1>2, <2>1
  <2>2. CASE r # q
    <3>1. /\ parent'[r] = parent[r] /\ parent[r] \in Pid
          /\ pc[r] # "absent" /\ pc[r] # "reaped"
      BY <1>1, <1>2, <1>7, <2>2
    <3>2. r \in abandoned \/ (pc[parent[r]] = "wait" /\ pid[parent[r]] = r)
      BY <3>1, WaitedForChild
    <3>3. pc[parent[r]] = "wait" => parent[r] # p /\ parent[r] # q
      BY <1>2
    <3>4. QED  BY <1>1, <1>2, <1>7, <3>1, <3>2, <3>3
  <2>3. QED  BY <2>1, <2>2
<1>8. QED  BY <1>3, <1>4, <1>5, <1>6, <1>7
           DEF Family, WaitsForOwnChild, ChildIsWaitedFor

\* A process that ends leaves its children to init.
LEMMA FamilyEnds ==
    ASSUME CallsInv, NEW p \in Pid, CommandEnds(p) \/ ProgramEnds(p)
    PROVE  Family'
<1> USE PidFacts DEF CallsInv, TypeOK, InCall, Inside
<1>1. /\ pc[p] \in {"command", "user"}
      /\ pc' = [pc EXCEPT ![p] = "zombie"]
      /\ parent' = [q \in Pid |->
                      IF q \in Children(p) THEN NoChild ELSE parent[q]]
      /\ UNCHANGED <<abandoned, born, execed, at, pid>>
  BY DEF CommandEnds, ProgramEnds, Exit, callvars, filevars
<1>2. \A q \in Pid : parent'[q] # NoChild => parent'[q] = parent[q]
  BY <1>1
<1>3. \A q \in Pid : parent[q] # p => parent'[q] = parent[q]
  BY <1>1 DEF Children
<1>4. \A q \in Pid : parent'[q] = p => pc[q] \in {"absent", "reaped"}
  BY <1>1 DEF Children
<1>5. RootIsCaller' /\ AbsentIsUnborn'
  BY <1>1, <1>3 DEF RootIsCaller, AbsentIsUnborn
<1>6. PlacesFollowBirth'
  BY <1>1 DEF PlacesFollowBirth
<1>7. WaitsForOwnChild'
  BY <1>1, <1>3 DEF WaitsForOwnChild
<1>8. ChildIsWaitedFor'
  BY <1>1, <1>2, <1>4 DEF ChildIsWaitedFor
<1>9. QED  BY <1>5, <1>6, <1>7, <1>8 DEF Family

LEMMA FamilyReaps ==
    ASSUME CallsInv, NEW p \in Pid, Wait(p) \/ WaitAfterFailedFork(p)
    PROVE  Family'
<1> USE PidFacts DEF CallsInv, TypeOK, InCall, Inside
<1>1. PICK q \in Pid :
          /\ Reap(p, q) /\ parent[q] = p
          /\ pid[p] # Failed => q = pid[p]
  BY DEF Wait, WaitAfterFailedFork, Children, WaitsForOwnChild, Reap
<1>2. /\ pc[p] = "wait" /\ pc[q] = "zombie"
      /\ pc' = [pc EXCEPT ![p] = "user", ![q] = "reaped"]
      /\ at' = [at EXCEPT ![p] = @ + 1]
      /\ UNCHANGED <<abandoned, parent, born, execed, pid>>
  BY <1>1 DEF Reap, Return, childvars
<1>3. RootIsCaller' /\ AbsentIsUnborn'
  BY <1>1, <1>2 DEF RootIsCaller, AbsentIsUnborn
<1>4. PlacesFollowBirth'
  BY <1>2 DEF PlacesFollowBirth
<1>5. WaitsForOwnChild'
  BY <1>1, <1>2 DEF WaitsForOwnChild
<1>6. ASSUME NEW r \in Pid, parent'[r] \in Pid,
             pc'[r] \notin {"absent", "reaped"}
      PROVE  \/ r \in abandoned'
             \/ pc'[parent'[r]] = "wait" /\ pid'[parent'[r]] = r
  <2>1. /\ parent'[r] = parent[r] /\ parent[r] \in Pid /\ r # q
        /\ pc[r] # "absent" /\ pc[r] # "reaped"
    BY <1>2, <1>6
  <2>2. r \in abandoned \/ (pc[parent[r]] = "wait" /\ pid[parent[r]] = r)
    BY <2>1, WaitedForChild
  <2>3. pc[parent[r]] = "wait" /\ pid[parent[r]] = r => parent[r] # p
    BY <1>1, <2>1
  <2>4. QED  BY <1>2, <2>1, <2>2, <2>3
<1>7. QED  BY <1>3, <1>4, <1>5, <1>6 DEF Family, ChildIsWaitedFor
-----------------------------------------------------------------------------
(***************************************************************************)
(* What a call answers.  A child that has been reaped is out of the reach  *)
(* of every step, and the answer of a process out of that of the others.   *)
(***************************************************************************)
Step(p) == Proceed(p) \/ Fail(p)

LEMMA StepCases ==
    ASSUME NEW p, Step(p)
    PROVE  \/ Alone(p) \/ Fork(p) \/ CommandEnds(p) \/ ProgramEnds(p)
           \/ Wait(p) \/ WaitAfterFailedFork(p)
BY DEF Step, Proceed, Fail, Alone

\* What a step of p alone changes.
LEMMA AloneFrame ==
    ASSUME CallsInv, NEW p \in Pid, Alone(p)
    PROVE  /\ pc[p] \in {"user", "open", "fork", "dup2", "execv", "wait"}
           /\ UNCHANGED <<program, parent, born, exit>>
           /\ \A r \in Pid \ {p} :
                /\ pc'[r] = pc[r] /\ at'[r] = at[r] /\ pid'[r] = pid[r]
                /\ fds'[r] = fds[r] /\ stdout'[r] = stdout[r]
                /\ execed'[r] = execed[r] /\ result'[r] = result[r]
                /\ waited'[r] = waited[r]
           /\ ~Answered(p)'
<1> USE PidFacts
    DEF CallsInv, TypeOK, Answered, Goto, Return, childvars, callvars, filevars
<1>1. CASE DoSystem(p)
  BY <1>1 DEF DoSystem, InProgram
<1>2. CASE RelativePath(p) \/ Exec(p)
  BY <1>2 DEF RelativePath, Exec, InProgram
<1>3. CASE Open(p) \/ OpenFails(p)
  BY <1>3 DEF Open, OpenFails
<1>4. CASE ForkFails(p)
  BY <1>4 DEF ForkFails
<1>5. CASE Dup2(p) \/ Dup2Fails(p)
  BY <1>5 DEF Dup2, Dup2Fails
<1>6. CASE Execv(p) \/ ExecvFails(p)
  BY <1>6 DEF Execv, ExecvFails
<1>7. CASE WaitFails(p)
  BY <1>7 DEF WaitFails
<1>8. QED
  BY <1>1, <1>2, <1>3, <1>4, <1>5, <1>6, <1>7 DEF Alone

\* What a step that is not of p alone changes.
LEMMA OtherFrame ==
    ASSUME CallsInv, NEW p \in Pid, Step(p), ~Alone(p)
    PROVE  /\ UNCHANGED <<program, execed>>
           /\ \A r \in Pid : pc[r] = "reaped" =>
                /\ pc'[r] = pc[r] /\ at'[r] = at[r] /\ born'[r] = born[r]
                /\ exit'[r] = exit[r]
           /\ \A r \in Pid \ {p} : Answered(r)' =>
                /\ Answered(r) /\ at'[r] = at[r]
                /\ result'[r] = result[r] /\ waited'[r] = waited[r]
<1> USE PidFacts DEF CallsInv, TypeOK, Answered, childvars, callvars, filevars
<1>1. CASE Fork(p)
  BY <1>1 DEF Fork, Unused
<1>2. CASE CommandEnds(p) \/ ProgramEnds(p)
  BY <1>2 DEF CommandEnds, ProgramEnds, Exit
<1>3. CASE Wait(p) \/ WaitAfterFailedFork(p)
  BY <1>3 DEF Wait, WaitAfterFailedFork, WaitsForOwnChild, Children, Reap,
              Return
<1>4. QED  BY <1>1, <1>2, <1>3, StepCases
LEMMA AnswersHold ==
    ASSUME CallsInv, NEW p \in Pid, Step(p)
    PROVE  AnsweredByReaped' /\ AnswersForItsCommand'
<1> DEFINE Kept(r) ==
        /\ pc'[r] = pc[r] /\ at'[r] = at[r] /\ born'[r] = born[r]
        /\ exit'[r] = exit[r] /\ execed'[r] = execed[r]
    Right(r) ==
        /\ pc[waited[r]] = "reaped"
        /\ born[waited[r]] = at[r] - 1
        /\ result[r] <=> exit[waited[r]] = "zero"
        /\ execed[waited[r]] \/ CameBack(waited[r])
<1>1. ASSUME NEW r \in Pid, Answered(r)
      PROVE  waited[r] \in Pid /\ Right(r)
  BY <1>1 DEF CallsInv, AnsweredByReaped, AnswersForItsCommand, Answered
<1>2. \A r \in Pid : pc[r] = "reaped" => Kept(r)
  <2>1. CASE Alone(p)
    BY <2>1, AloneFrame
  <2>2. CASE ~Alone(p)
    BY <2>2, OtherFrame
  <2>3. QED  BY <2>1, <2>2
<1>3. \A r \in Pid \ {p} : Answered(r)' =>
        /\ Answered(r) /\ at'[r] = at[r]
        /\ result'[r] = result[r] /\ waited'[r] = waited[r]
  <2>1. CASE Alone(p)
    BY <2>1, AloneFrame DEF Answered
  <2>2. CASE ~Alone(p)
    BY <2>2, OtherFrame
  <2>3. QED  BY <2>1, <2>2
<1>4. ASSUME NEW r \in Pid, Answered(r)'
      PROVE  Right(r)'
  <2>1. CASE r # p
    <3> DEFINE c == waited[r]
    <3>1. /\ Answered(r) /\ at'[r] = at[r]
          /\ result'[r] = result[r] /\ waited'[r] = c
      BY <1>3, <1>4, <2>1
    <3>2. c \in Pid /\ Right(r)
      BY <1>1, <3>1
    <3>3. Kept(c)
      BY <1>2, <3>2
    <3>4. QED  BY <3>1, <3>2, <3>3 DEF CameBack
  <2>2. CASE r = p
    <3>1. Wait(p)
      <4>1. ~Alone(p)
        BY <1>4, <2>2, AloneFrame
      <4>2. ~Fork(p) /\ ~CommandEnds(p) /\ ~ProgramEnds(p)
        BY <1>4, <2>2, PidFacts
        DEF CallsInv, TypeOK, Answered, Fork, Unused, CommandEnds, ProgramEnds,
            Exit
      <4>3. ~WaitAfterFailedFork(p)
        BY <1>4, <2>2
        DEF Answered, WaitAfterFailedFork, Reap
      <4>4. QED  BY <4>1, <4>2, <4>3, StepCases
    <3> DEFINE q == pid[p]
    <3>2. /\ q \in Pid /\ born[q] = at[p] /\ at[p] \in Nat \ {0} /\ p # q
          /\ at[q] \in Nat
          /\ execed[q] \/ born[q] < at[q]
      BY <3>1, PidFacts
      DEF CallsInv, TypeOK, Wait, Reap, WaitsForOwnChild, PlacesFollowBirth
    <3>3. /\ pc'[q] = "reaped" /\ waited'[p] = q /\ at'[p] = at[p] + 1
          /\ result'[p] = (exit[q] = "zero")
          /\ at'[q] = at[q] /\ UNCHANGED <<born, exit, execed>>
      BY <3>1, <3>2 DEF CallsInv, TypeOK, Wait, Reap, Return, childvars
    <3>4. exit'[q] = exit[q] /\ born'[q] = born[q] /\ execed'[q] = execed[q]
      BY <3>3
    <3>5. result'[p] <=> exit'[waited'[p]] = "zero"
      BY <3>3, <3>4, Zenon
    <3>6. execed'[q] \/ (born'[q] # 0 /\ at'[q] > born'[q])
      BY <3>2, <3>3, <3>4
    <3>7. born'[q] = at'[p] - 1
      BY <3>2, <3>3, <3>4
    <3> HIDE DEF q
    <3>8. QED  BY <2>2, <3>3, <3>5, <3>6, <3>7 DEF CameBack
  <2>3. QED  BY <2>1, <2>2
<1>5. QED  BY <1>4 DEF AnsweredByReaped, AnswersForItsCommand

-----------------------------------------------------------------------------
(***************************************************************************)
(* Output and descriptors of the caller and its children.                  *)
(***************************************************************************)
LEMMA OutputHolds ==
    ASSUME CallsInv, NEW p \in Pid, Step(p)
    PROVE  ChildIsRedirected'
<1> USE PidFacts
    DEF CallsInv, TypeOK, RootIsCaller, ChildIsRedirected, Goto, Return,
        childvars, callvars, filevars
<1>1. CASE Alone(p)
  <2>1. CASE DoSystem(p) \/ RelativePath(p) \/ Exec(p)
    BY <2>1 DEF DoSystem, RelativePath, Exec, InProgram
  <2>2. CASE Open(p) \/ OpenFails(p)
    BY <2>2 DEF Open, OpenFails
  <2>3. CASE ForkFails(p)
    BY <2>3 DEF ForkFails
  <2>4. CASE Dup2(p) \/ Dup2Fails(p)
    BY <2>4 DEF Dup2, Dup2Fails
  <2>5. CASE Execv(p) \/ ExecvFails(p)
    BY <2>5 DEF Execv, ExecvFails
  <2>6. CASE WaitFails(p)
    BY <2>6 DEF WaitFails
  <2>7. QED  BY <1>1, <2>1, <2>2, <2>3, <2>4, <2>5, <2>6 DEF Alone
<1>2. CASE Fork(p)
  BY <1>2 DEF Fork, Unused, CallOf, AbsentIsUnborn
<1>3. CASE CommandEnds(p) \/ ProgramEnds(p)
  <2>1. \A q \in Pid : parent'[q] = Root => parent[q] = Root
    BY <1>3 DEF CommandEnds, ProgramEnds, Exit
  <2>2. QED  BY <1>3, <2>1 DEF CommandEnds, ProgramEnds, Exit
<1>4. CASE Wait(p) \/ WaitAfterFailedFork(p)
  BY <1>4 DEF Wait, WaitAfterFailedFork, WaitsForOwnChild, Children, Reap
<1>5. QED  BY <1>1, <1>2, <1>3, <1>4, StepCases
\* A step of another process leaves the caller's descriptors and the calls
\* that have taken them as they are.
LEMMA OthersLeaveFiles ==
    ASSUME CallsInv, NEW p \in Pid \ {Root}, Step(p)
    PROVE  /\ pc'[Root] = pc[Root] /\ at'[Root] = at[Root]
           /\ fds'[Root] = fds[Root] /\ program' = program
           /\ RedirectedBy(Root)' = RedirectedBy(Root)
<1> USE PidFacts
    DEF CallsInv, TypeOK, RootIsCaller, childvars, callvars, filevars
<1>1. CASE Alone(p)
  <2>1. UNCHANGED <<program, parent, born>>
    BY <1>1, AloneFrame
  <2>2. RedirectedBy(Root)' = RedirectedBy(Root)
    BY <2>1 DEF RedirectedBy
  <2>3. QED  BY <1>1, <2>1, <2>2, AloneFrame
<1>2. CASE Fork(p)
  <2>1. PICK q \in Unused : /\ pc' = [pc EXCEPT ![p] = "wait",
                                ![q] = IF Redirects(CallOf(p)) THEN "dup2"
                                       ELSE "execv"]
                            /\ parent' = [parent EXCEPT ![q] = p]
                            /\ born' = [born EXCEPT ![q] = at[p]]
                            /\ at' = [at EXCEPT ![q] = at[p]]
                            /\ fds' = [fds EXCEPT ![q] = fds[p]]
    BY <1>2 DEF Fork
  <2>2. /\ q \in Pid /\ q # Root /\ parent[q] # Root /\ program' = program
    BY <1>2 DEF Fork, Unused, AbsentIsUnborn
  <2>3. RedirectedBy(Root)' = RedirectedBy(Root)
    BY <2>1, <2>2 DEF RedirectedBy
  <2>4. QED  BY <2>1, <2>2, <2>3
<1>3. CASE CommandEnds(p) \/ ProgramEnds(p)
  <2>1. /\ pc' = [pc EXCEPT ![p] = "zombie"]
        /\ parent' = [q \in Pid |->
                        IF q \in Children(p) THEN NoChild ELSE parent[q]]
        /\ UNCHANGED <<program, born, at, fds>>
    BY <1>3 DEF CommandEnds, ProgramEnds, Exit
  <2>2. \A q \in Pid : parent'[q] = Root <=> parent[q] = Root
    BY <2>1 DEF Children
  <2>3. RedirectedBy(Root)' = RedirectedBy(Root)
    BY <2>1, <2>2 DEF RedirectedBy
  <2>4. QED  BY <2>1, <2>3
<1>4. CASE Wait(p) \/ WaitAfterFailedFork(p)
  <2>1. PICK q \in Pid : Reap(p, q) /\ parent[q] = p
    BY <1>4 DEF Wait, WaitAfterFailedFork, Children, WaitsForOwnChild, Reap
  <2>2. /\ q # Root /\ UNCHANGED <<program, parent, born, fds>>
        /\ pc'[Root] = pc[Root] /\ at'[Root] = at[Root]
    BY <2>1 DEF Reap, Return
  <2>3. RedirectedBy(Root)' = RedirectedBy(Root)
    BY <2>2 DEF RedirectedBy
  <2>4. QED  BY <2>2, <2>3
<1>5. QED  BY <1>1, <1>2, <1>3, <1>4, StepCases

LEMMA DescriptorsHold ==
    ASSUME CallsInv, NEW p \in Pid, Step(p)
    PROVE  DescriptorsCounted'
<1> DEFINE left == Cardinality(RedirectedBy(Root))
<1> USE PidFacts
<1>1. DescriptorsCounted /\ IsFiniteSet(RedirectedBy(Root)) /\ left \in Nat
  <2>1. RedirectedBy(Root) \subseteq Pid
    BY DEF RedirectedBy
  <2>2. QED  BY <2>1, FS_Subset, FS_CardinalityType DEF CallsInv
<1>2. CASE p # Root
  BY <1>1, <1>2, OthersLeaveFiles DEF DescriptorsCounted, CallOf, Redirects
<1>3. CASE p = Root /\ Fork(Root)
  <2>1. PICK q \in Unused :
            /\ pc' = [pc EXCEPT ![Root] = "wait",
                        ![q] = IF Redirects(CallOf(Root)) THEN "dup2"
                               ELSE "execv"]
            /\ parent' = [parent EXCEPT ![q] = Root]
            /\ born' = [born EXCEPT ![q] = at[Root]]
            /\ fds' = [fds EXCEPT ![q] = fds[Root]]
    BY <1>3 DEF Fork
  <2>2. /\ q \in Pid /\ q # Root /\ parent[q] # Root /\ program' = program
        /\ pc[Root] = "fork" /\ pc'[Root] = "wait" /\ fds'[Root] = fds[Root]
    BY <1>3, <2>1 DEF CallsInv, TypeOK, Fork, Unused, AbsentIsUnborn
  <2>3. q \notin RedirectedBy(Root)
    BY <2>2 DEF RedirectedBy
  <2>4. RedirectedBy(Root)' = IF Redirects(CallOf(Root))
                              THEN RedirectedBy(Root) \cup {q}
                              ELSE RedirectedBy(Root)
    BY <2>1, <2>2 DEF CallsInv, TypeOK, RedirectedBy, CallOf
  <2>5. left' = IF Redirects(CallOf(Root)) THEN left + 1 ELSE left
    BY <1>1, <2>3, <2>4, FS_AddElement
  <2>6. QED  BY <1>1, <2>2, <2>5 DEF DescriptorsCounted
<1>4. CASE p = Root /\ ~Fork(Root) /\ ~ProgramEnds(Root)
  <2> USE DEF CallsInv, TypeOK, RootIsCaller, DescriptorsCounted, Goto, Return,
              CallOf, childvars, callvars, filevars
  <2>1. RedirectedBy(Root)' = RedirectedBy(Root)
    <3>1. CASE Alone(Root)
      BY <3>1, AloneFrame DEF RedirectedBy
    <3>2. CASE Wait(Root) \/ WaitAfterFailedFork(Root)
      BY <3>2 DEF Wait, WaitAfterFailedFork, Reap, RedirectedBy
    <3>3. QED  BY <1>4, <3>1, <3>2, StepCases DEF CommandEnds
  <2> HIDE DEF left
  <2>2. left' = left
    BY <2>1 DEF left
  <2>3. CASE DoSystem(Root) \/ RelativePath(Root)
    BY <1>1, <2>2, <2>3 DEF DoSystem, RelativePath, InProgram, left
  <2>4. CASE Exec(Root)
    BY <1>1, <2>2, <2>4 DEF Exec, InProgram, left
  <2>5. CASE Open(Root) \/ OpenFails(Root)
    BY <1>1, <2>2, <2>5 DEF Open, OpenFails, FileIsOpen, left
  <2>6. CASE ForkFails(Root)
    BY <1>1, <2>2, <2>6 DEF ForkFails, left
  <2>7. CASE WaitFails(Root)
    BY <1>1, <2>2, <2>7 DEF WaitFails, left
  <2>8. CASE Wait(Root) \/ WaitAfterFailedFork(Root)
    BY <1>1, <2>2, <2>8 DEF Wait, WaitAfterFailedFork, Reap, left
  <2>9. ~Dup2(Root) /\ ~Dup2Fails(Root) /\ ~Execv(Root) /\ ~ExecvFails(Root)
        /\ ~CommandEnds(Root)
    BY DEF Dup2, Dup2Fails, Execv, ExecvFails, CommandEnds
  <2>10. QED
    BY <1>4, <2>3, <2>4, <2>5, <2>6, <2>7, <2>8, <2>9, StepCases DEF Alone
<1>5. CASE p = Root /\ ProgramEnds(Root)
  BY <1>5 DEF CallsInv, TypeOK, DescriptorsCounted, ProgramEnds, Exit
<1>6. QED  BY <1>2, <1>3, <1>4, <1>5
-----------------------------------------------------------------------------
LEMMA CallsHold == Spec => []CallsInv
<1>1. CallsInv /\ [Next]_vars => CallsInv'
  <2> SUFFICES ASSUME CallsInv, [Next]_vars PROVE CallsInv'
    OBVIOUS
  <2>1. CASE Next
    <3>1. PICK p \in Pid : Step(p)
      BY <2>1 DEF Next, Step
    <3>2. TypeOK' /\ FileIsOpen'
      BY <3>1, TypesProceed, TypesFail DEF Step
    <3>3. Family'
      BY <3>1, StepCases, FamilyAlone, FamilyGrows, FamilyEnds, FamilyReaps
    <3>4. AnsweredByReaped' /\ AnswersForItsCommand'
      BY <3>1, AnswersHold
    <3>5. ChildIsRedirected' /\ DescriptorsCounted'
      BY <3>1, OutputHolds, DescriptorsHold
    <3>6. QED  BY <3>2, <3>3, <3>4, <3>5 DEF CallsInv, Family
  <2>2. CASE UNCHANGED vars
    <3> USE <2>2 DEF CallsInv, vars, childvars, callvars, filevars
    <3>1. TypeOK' /\ FileIsOpen'
      BY DEF TypeOK, FileIsOpen, CallOf
    <3>2. /\ RootIsCaller' /\ AbsentIsUnborn' /\ PlacesFollowBirth'
          /\ WaitsForOwnChild' /\ ChildIsWaitedFor'
      BY DEF RootIsCaller, AbsentIsUnborn, PlacesFollowBirth,
             WaitsForOwnChild, ChildIsWaitedFor
    <3>3. AnsweredByReaped' /\ AnswersForItsCommand'
      BY DEF AnsweredByReaped, AnswersForItsCommand, Answered, CameBack
    <3>4. ChildIsRedirected' /\ DescriptorsCounted'
      BY DEF ChildIsRedirected, DescriptorsCounted, RedirectedBy, CallOf
    <3>5. QED  BY <3>1, <3>2, <3>3, <3>4
  <2>3. QED  BY <2>1, <2>2
<1>2. QED  BY <1>1, InitHolds, PTL DEF Spec

(***************************************************************************)
(* Every process is somewhere in do_system, do_exec or do_exec_redirect,   *)
(* in the caller's program, in the command or ended, and never has more    *)
(* or fewer files open than it may (systemcalls.c:9-212).                  *)
(***************************************************************************)
THEOREM SystemCallsTypes == Spec => []TypeOK
<1>1. CallsInv => TypeOK
  BY DEF CallsInv
<1>2. QED  BY <1>1, CallsHold, PTL

(***************************************************************************)
(* What do_exec and do_exec_redirect return after waitpid is the status of *)
(* the child they have forked (systemcalls.c:100-109, 196-205), whatever   *)
(* fails and however many copies of the program a failed execv has left.   *)
(***************************************************************************)
THEOREM AnswersAreOwn == Spec => []AnswersForItsCommand
<1>1. CallsInv => AnswersForItsCommand
  BY DEF CallsInv
<1>2. QED  BY <1>1, CallsHold, PTL

(***************************************************************************)
(* Back in the caller's program a process has no child that runs or is     *)
(* unreaped, except one whose waitpid has failed (systemcalls.c:100, 196). *)
(***************************************************************************)
THEOREM ChildrenAreReaped == Spec => []NoChildIsLeft
<1>1. CallsInv => NoChildIsLeft
  BY PidFacts DEF CallsInv, ChildIsWaitedFor, NoChildIsLeft, Children
<1>2. QED  BY <1>1, CallsHold, PTL

(***************************************************************************)
(* A command the caller has started writes to the output file exactly if   *)
(* its call was do_exec_redirect, and the caller never does                *)
(* (systemcalls.c:175-190).                                                *)
(***************************************************************************)
THEOREM OnlyTheChildIsRedirected == Spec => []OutputGoesWhereItsCallSays
<1>1. CallsInv => OutputGoesWhereItsCallSays
  BY DEF CallsInv, ChildIsRedirected, OutputGoesWhereItsCallSays
<1>2. QED  BY <1>1, CallsHold, PTL

(***************************************************************************)
(* The caller is left with one open descriptor for each do_exec_redirect   *)
(* that has forked, and with none for one that failed before               *)
(* (systemcalls.c:154-172, which the parent leaves without a close).       *)
(***************************************************************************)
THEOREM DescriptorsAreCounted == Spec => []DescriptorsLeft
<1>1. CallsInv => DescriptorsLeft
  BY DEF CallsInv, DescriptorsCounted, DescriptorsLeft
<1>2. QED  BY <1>1, CallsHold, PTL

=============================================================================
