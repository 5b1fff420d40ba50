---------------------------- MODULE SystemCalls -----------------------------
(***************************************************************************)
(* examples/systemcalls: do_system, do_exec and do_exec_redirect, with the *)
(* processes they create.  A child whose execv fails does not exit: it     *)
(* returns from the function and goes on, as a second process, with the    *)
(* program of its caller.                                                  *)
(*                                                                         *)
(* The caller is not part of the repository.  It is a sequence of calls,   *)
(* after which a process exits with a status of its choice.                *)
(***************************************************************************)
EXTENDS Integers, FiniteSets

CONSTANTS
    MaxPid,             \* processes are 1..MaxPid, the first is the caller
    MaxFds,             \* how many output files a process may have open
    Programs,           \* the sequences of calls the caller may make
    Failures            \* whether open, fork, dup2, execv and waitpid fail

(***************************************************************************)
(* A call: its function and whether its command is an absolute path.       *)
(***************************************************************************)
Functions == {"do_system", "do_exec", "do_exec_redirect"}

Calls == [function : Functions, absolute : BOOLEAN]

ASSUME BoundAssumption == MaxPid \in Nat \ {0} /\ MaxFds \in Nat

Root == 1
Pid == 1..MaxPid

\* The value of pid after a failed fork, and the child of no call.
Failed == -1
NoChild == 0

VARIABLES
    program,            \* the calls the caller makes
    pc,                 \* where each process is
    at,                 \* the call it makes, or makes next
    parent,             \* the process that forked it
    born,               \* the call it was forked in
    pid,                \* the local variable pid of a call
    fds,                \* how many output files it has open
    stdout,             \* "inherited", or "file": the output file
    execed,             \* it has become the command
    exit,               \* how it ended: status "zero", "nonzero", "signal"
    result,             \* what its last call returned
    waited,             \* whose status that was, or Failed: of no child
    abandoned           \* history: the children whose waitpid has failed

childvars == <<parent, born, execed, exit>>
callvars == <<at, pid, result, waited>>
filevars == <<fds, stdout>>
vars == <<program, pc, childvars, callvars, filevars, abandoned>>

Init ==
    /\ program \in Programs
    /\ pc = [p \in Pid |-> IF p = Root THEN "user" ELSE "absent"]
    /\ at = [p \in Pid |-> 1]
    /\ parent = [p \in Pid |-> NoChild]
    /\ born = [p \in Pid |-> 0]
    /\ pid = [p \in Pid |-> NoChild]
    /\ fds = [p \in Pid |-> 0]
    /\ stdout = [p \in Pid |-> "inherited"]
    /\ execed = [p \in Pid |-> FALSE]
    /\ exit = [p \in Pid |-> "none"]
    /\ result = [p \in Pid |-> FALSE]
    /\ waited = [p \in Pid |-> NoChild]
    /\ abandoned = {}

-----------------------------------------------------------------------------
CallOf(p) == program[at[p]]

Redirects(call) == call.function = "do_exec_redirect"

Goto(p, from, to) ==
    /\ pc[p] = from
    /\ pc' = [pc EXCEPT ![p] = to]

\* The call returns value, which is the status of child.
Return(p, value, child) ==
    /\ result' = [result EXCEPT ![p] = value]
    /\ waited' = [waited EXCEPT ![p] = child]
    /\ at' = [at EXCEPT ![p] = @ + 1]

InProgram(p) == pc[p] = "user" /\ at[p] \in DOMAIN program

\* system() does all of its own: it fails, or there is a status.
DoSystem(p) ==
    /\ InProgram(p)
    /\ CallOf(p).function = "do_system"
    /\ \E status \in {-1, 0, 1} : Return(p, status = 0, NoChild)
    /\ UNCHANGED <<program, abandoned, pc, pid, childvars, filevars>>

RelativePath(p) ==
    /\ InProgram(p)
    /\ CallOf(p).function # "do_system"
    /\ ~CallOf(p).absolute
    /\ Return(p, FALSE, NoChild)
    /\ UNCHANGED <<program, abandoned, pc, pid, childvars, filevars>>

Exec(p) ==
    /\ InProgram(p)
    /\ CallOf(p).function # "do_system"
    /\ CallOf(p).absolute
    /\ Goto(p, "user", IF Redirects(CallOf(p)) THEN "open" ELSE "fork")
    /\ UNCHANGED <<program, abandoned, childvars, callvars, filevars>>

Open(p) ==
    /\ Goto(p, "open", "fork")
    /\ fds[p] < MaxFds
    /\ fds' = [fds EXCEPT ![p] = @ + 1]
    /\ UNCHANGED <<program, abandoned, childvars, callvars, stdout>>

OpenFails(p) ==
    /\ Failures \/ fds[p] = MaxFds
    /\ Goto(p, "open", "user")
    /\ Return(p, FALSE, NoChild)
    /\ UNCHANGED <<program, abandoned, pid, childvars, filevars>>

Unused == {q \in Pid : pc[q] = "absent"}

\* Redirects standard output before it forks.
ForkRedirected(p) ==
    /\ pc[p] = "fork"
    /\ \E q \in Unused :
        /\ \A r \in Unused : q <= r
        /\ pc' = [pc EXCEPT ![p] = "wait", ![q] = "dup2"]
        /\ pid' = [pid EXCEPT ![p] = q]
        /\ parent' = [parent EXCEPT ![q] = p]
        /\ born' = [born EXCEPT ![q] = at[p]]
        /\ at' = [at EXCEPT ![q] = at[p]]
        /\ fds' = [fds EXCEPT ![q] = fds[p]]
        /\ stdout' = [stdout EXCEPT ![p] = "file", ![q] = "file"]
    /\ UNCHANGED <<program, abandoned, execed, exit, result, waited>>

\* The child is a copy of its parent, with pid 0.
Fork(p) ==
    /\ pc[p] = "fork"
    /\ \E q \in Unused :
        /\ \A r \in Unused : q <= r
        /\ pc' = [pc EXCEPT ![p] = "wait",
                    ![q] = IF Redirects(CallOf(p)) THEN "dup2" ELSE "execv"]
        /\ pid' = [pid EXCEPT ![p] = q]
        /\ parent' = [parent EXCEPT ![q] = p]
        /\ born' = [born EXCEPT ![q] = at[p]]
        /\ at' = [at EXCEPT ![q] = at[p]]
        /\ fds' = [fds EXCEPT ![q] = fds[p]]
        /\ stdout' = [stdout EXCEPT ![q] = stdout[p]]
    /\ UNCHANGED <<program, abandoned, execed, exit, result, waited>>

\* Tries again until it succeeds.
ForkFailsRetrying(p) ==
    /\ Failures \/ Unused = {}
    /\ Goto(p, "fork", "fork")
    /\ UNCHANGED <<program, abandoned, childvars, callvars, filevars>>

\* Leaves the file open.
ForkFailsOpen(p) ==
    /\ pc[p] = "fork"
    /\ Failures \/ Unused = {}
    /\ IF Redirects(CallOf(p))
       THEN /\ Goto(p, "fork", "wait")
            /\ pid' = [pid EXCEPT ![p] = Failed]
            /\ UNCHANGED <<fds, at, result, waited>>
       ELSE /\ Goto(p, "fork", "user")
            /\ Return(p, FALSE, NoChild)
            /\ UNCHANGED <<fds, pid>>
    /\ UNCHANGED <<program, abandoned, childvars, stdout>>

\* Closes a file in do_exec as well, which has none.
ForkFailsClosing(p) ==
    /\ pc[p] = "fork"
    /\ Failures \/ Unused = {}
    /\ fds' = [fds EXCEPT ![p] = @ - 1]
    /\ IF Redirects(CallOf(p))
       THEN /\ Goto(p, "fork", "wait")
            /\ pid' = [pid EXCEPT ![p] = Failed]
            /\ UNCHANGED <<at, result, waited>>
       ELSE /\ Goto(p, "fork", "user")
            /\ Return(p, FALSE, NoChild)
            /\ UNCHANGED pid
    /\ UNCHANGED <<program, abandoned, childvars, stdout>>

\* do_exec returns; do_exec_redirect closes the file and goes on to wait.
ForkFails(p) ==
    /\ pc[p] = "fork"
    /\ Failures \/ Unused = {}
    /\ IF Redirects(CallOf(p))
       THEN /\ Goto(p, "fork", "wait")
            /\ fds' = [fds EXCEPT ![p] = @ - 1]
            /\ pid' = [pid EXCEPT ![p] = Failed]
            /\ UNCHANGED <<at, result, waited>>
       ELSE /\ Goto(p, "fork", "user")
            /\ Return(p, FALSE, NoChild)
            /\ UNCHANGED <<fds, pid>>
    /\ UNCHANGED <<program, abandoned, childvars, stdout>>

-----------------------------------------------------------------------------
(***************************************************************************)
(* The child.  dup2 is followed by close(fd), whether or not it succeeds.  *)
(***************************************************************************)
Dup2(p) ==
    /\ Goto(p, "dup2", "execv")
    /\ stdout' = [stdout EXCEPT ![p] = "file"]
    /\ fds' = [fds EXCEPT ![p] = @ - 1]
    /\ UNCHANGED <<program, abandoned, childvars, callvars>>

Dup2Fails(p) ==
    /\ Failures
    /\ Goto(p, "dup2", "user")
    /\ fds' = [fds EXCEPT ![p] = @ - 1]
    /\ Return(p, FALSE, NoChild)
    /\ UNCHANGED <<program, abandoned, pid, childvars, stdout>>

Execv(p) ==
    /\ Goto(p, "execv", "command")
    /\ execed' = [execed EXCEPT ![p] = TRUE]
    /\ UNCHANGED <<program, abandoned, parent, born, exit, callvars, filevars>>

\* return false, into the program of the caller.
ExecvFails(p) ==
    /\ Failures
    /\ Goto(p, "execv", "user")
    /\ Return(p, FALSE, NoChild)
    /\ UNCHANGED <<program, abandoned, pid, childvars, filevars>>

(***************************************************************************)
(* A process ends: the command, or a program whose calls have been made.   *)
(* Init inherits its children.                                             *)
(***************************************************************************)
Children(p) == {q \in Pid : parent[q] = p /\ pc[q] \notin {"absent", "reaped"}}

Exit(p, statuses) ==
    /\ \E status \in statuses : exit' = [exit EXCEPT ![p] = status]
    /\ pc' = [pc EXCEPT ![p] = "zombie"]
    /\ parent' = [q \in Pid |-> IF q \in Children(p) THEN NoChild ELSE parent[q]]
    /\ UNCHANGED <<program, abandoned, born, execed, callvars, filevars>>

CommandEnds(p) == pc[p] = "command" /\ Exit(p, {"zero", "nonzero", "signal"})

ProgramEnds(p) ==
    /\ pc[p] = "user"
    /\ at[p] \notin DOMAIN program
    /\ Exit(p, {"zero", "nonzero"})

-----------------------------------------------------------------------------
(***************************************************************************)
(* The parent: waitpid and its status.                                     *)
(***************************************************************************)
Reap(p, q) ==
    /\ pc[p] = "wait"
    /\ pc[q] = "zombie"
    /\ pc' = [pc EXCEPT ![p] = "user", ![q] = "reaped"]
    /\ Return(p, exit[q] = "zero", q)
    /\ UNCHANGED <<program, abandoned, pid, childvars, filevars>>

\* wait(), for whichever child ends first.
WaitForAny(p) == \E q \in Children(p) : Reap(p, q)

\* Takes WEXITSTATUS of a killed child, which is 0.
WaitUnchecked(p) ==
    /\ pc[p] = "wait"
    /\ pid[p] # Failed
    /\ pc[pid[p]] = "zombie"
    /\ pc' = [pc EXCEPT ![p] = "user", ![pid[p]] = "reaped"]
    /\ Return(p, exit[pid[p]] \in {"zero", "signal"}, pid[p])
    /\ UNCHANGED <<program, abandoned, pid, childvars, filevars>>

\* waitpid with WNOHANG: the child may still be running.
WaitWithoutHanging(p) ==
    /\ pid[p] # Failed
    /\ Goto(p, "wait", "user")
    /\ Return(p, FALSE, NoChild)
    /\ UNCHANGED <<program, abandoned, pid, childvars, filevars>>

Wait(p) == pid[p] # Failed /\ Reap(p, pid[p])

\* waitpid(-1, ...) after a failed fork: any child there may be.
WaitAfterFailedFork(p) ==
    /\ pid[p] = Failed
    /\ \E q \in Children(p) : Reap(p, q)

\* waitpid fails and status has not been written: ECHILD after a failed
\* fork, or EINTR in a caller that handles a signal.
WaitFails(p) ==
    /\ Goto(p, "wait", "user")
    /\ Failures \/ (pid[p] = Failed /\ Children(p) = {})
    /\ \E value \in BOOLEAN : Return(p, value, Failed)
    /\ abandoned' = abandoned \cup {pid[p]}
    /\ UNCHANGED <<program, pid, childvars, filevars>>

Proceed(p) ==
    \/ DoSystem(p) \/ RelativePath(p) \/ Exec(p)
    \/ Open(p) \/ Fork(p) \/ Dup2(p) \/ Execv(p)
    \/ CommandEnds(p) \/ ProgramEnds(p)
    \/ Wait(p) \/ WaitAfterFailedFork(p)

Fail(p) ==
    \/ OpenFails(p) \/ ForkFails(p) \/ Dup2Fails(p) \/ ExecvFails(p)
    \/ WaitFails(p)

Next == \E p \in Pid : Proceed(p) \/ Fail(p)

Spec == Init /\ [][Next]_vars

(***************************************************************************)
(* The kernel runs every process, commands end, and a resource that is     *)
(* used up makes the call fail; nothing else has to fail.                  *)
(***************************************************************************)
UsedUp(p) ==
    \/ fds[p] = MaxFds /\ OpenFails(p)
    \/ Unused = {} /\ ForkFails(p)
    \/ pid[p] = Failed /\ Children(p) = {} /\ WaitFails(p)

Fairness == \A p \in Pid : WF_vars(Proceed(p) \/ UsedUp(p))

FairSpec == Spec /\ Fairness

-----------------------------------------------------------------------------
InCall == {"open", "fork", "wait", "dup2", "execv"}

TypeOK ==
    /\ program \in Programs
    /\ pc \in [Pid -> InCall \cup {"absent", "user", "command", "zombie",
                                   "reaped"}]
    /\ at \in [Pid -> Nat \ {0}]
    /\ parent \in [Pid -> Pid \cup {NoChild}]
    /\ born \in [Pid -> Nat]
    /\ pid \in [Pid -> Pid \cup {NoChild, Failed}]
    /\ fds \in [Pid -> 0..MaxFds]
    /\ stdout \in [Pid -> {"inherited", "file"}]
    /\ execed \in [Pid -> BOOLEAN]
    /\ exit \in [Pid -> {"none", "zero", "nonzero", "signal"}]
    /\ result \in [Pid -> BOOLEAN]
    /\ waited \in [Pid -> Pid \cup {NoChild, Failed}]
    /\ abandoned \subseteq Pid \cup {Failed}

\* A child has come back from the call it was forked in.
CameBack(q) == born[q] # 0 /\ at[q] > born[q]

(***************************************************************************)
(* A call that has forked and waited answers for the child of this very    *)
(* call, not of an earlier one: true if and only if that child exited with *)
(* 0; and the child is the command, unless it came back from the call      *)
(* (systemcalls.c:100-109, 196-205).                                       *)
(***************************************************************************)
Answered(p) ==
    /\ pc[p] = "user"
    /\ waited[p] \in Pid
    /\ pid[p] # Failed

AnswersForItsCommand ==
    \A p \in Pid : Answered(p) =>
        LET child == waited[p] IN
        /\ born[child] = at[p] - 1
        /\ result[p] <=> exit[child] = "zero"
        /\ execed[child] \/ CameBack(child)

(***************************************************************************)
(* A process that is not in a call has no child left, running or unreaped, *)
(* but those whose waitpid has failed; nobody else's children wait for it. *)
(***************************************************************************)
NoChildIsLeft ==
    \A p \in Pid : pc[p] = "user" => Children(p) \subseteq abandoned

(***************************************************************************)
(* The output of a command goes to the file if and only if its call says   *)
(* so, and the caller's own output never does (systemcalls.c:175-190).  A  *)
(* process that came back from a redirected call keeps writing to the file.*)
(***************************************************************************)
OutputGoesWhereItsCallSays ==
    /\ stdout[Root] = "inherited"
    /\ \A q \in Pid :
        pc[q] = "command" /\ parent[q] = Root =>
            (stdout[q] = "file" <=> Redirects(program[born[q]]))

(***************************************************************************)
(* Between its calls the caller has one descriptor open for each redirected*)
(* call that forked, whose parent does not close it, and none for a call   *)
(* that failed before (systemcalls.c:154-172).                             *)
(***************************************************************************)
RedirectedBy(p) == {q \in Pid : parent[q] = p /\ Redirects(program[born[q]])}

DescriptorsLeft ==
    pc[Root] = "user" => fds[Root] = Cardinality(RedirectedBy(Root))

(***************************************************************************)
(* Every call comes to an end in every process that makes it, also when    *)
(* there are no more processes or descriptors to be had.                   *)
(***************************************************************************)
CallReturns == \A p \in Pid : pc[p] \in InCall ~> pc[p] \notin InCall

=============================================================================
