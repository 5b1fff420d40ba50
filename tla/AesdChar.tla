------------------------------ MODULE AesdChar ------------------------------
(***************************************************************************)
(* The aesdchar driver, aesd-char-driver/main.c: tasks that call its file  *)
(* operations concurrently on open files, the mutex that serialises them,  *)
(* the kernel memory their commands live in, and module load and unload.   *)
(*                                                                         *)
(* A system call enters the driver (the VFS hands read and write a copy of *)
(* the file position), waits for dev->lock, does its work in the steps     *)
(* between which other tasks can see a difference, and returns (the VFS    *)
(* stores the position back unless the call failed).                       *)
(***************************************************************************)
EXTENDS AesdDevice, FiniteSets, SequencesExt

CONSTANTS
    Task,               \* the tasks that make system calls
    File,               \* the open file descriptions they share
    Block,              \* the memory krealloc can hand out
    NL,                 \* the byte '\n'
    Payload,            \* the byte strings tasks write
    ReadCount,          \* the sizes of the buffers they read into
    Seek,               \* the <<offset, whence>> pairs they pass to llseek
    Arg,                \* what they pass to ioctl: a record, or one of
    BadAddress,         \*   a pointer that copy_from_user cannot read,
    OtherCmd,           \*   or a valid record with another command number
    MaxAlloc,           \* the largest size krealloc can serve
    MaxPos,             \* the largest file position a write may start from
    CopyFaults,         \* whether copy_from_user can fail in write
    Reloads             \* whether the module is unloaded and loaded again

CONSTANTS Closed,       \* f_pos of a file that is not open
          Free          \* mem of a block that is not allocated

Byte == UNION {Range(bytes) : bytes \in Payload}

\* What the seek ioctl's argument points to (struct aesd_seekto).
SeekArg == [write_cmd : Nat, write_cmd_offset : Nat]

ASSUME NullAssumption == NULL \notin Task \cup Block

ASSUME InputAssumption ==
    /\ Payload \subseteq Seq(Byte) \ {<< >>}
    /\ ReadCount \subseteq Nat \ {0}
    /\ Seek \subseteq Int \X Int
    /\ Arg \subseteq SeekArg \cup {NULL, BadAddress, OtherCmd}

ASSUME MarkAssumption == Closed \notin Nat /\ Free \notin Seq(Byte)

VARIABLES
    loaded,             \* the module is loaded
    circular_buffer,    \* dev->circular_buffer
    entry,              \* dev->entry, the command that is still unterminated
    lock,               \* the task that holds dev->lock, or NULL
    mem,                \* the bytes written to each block, or Free
    f_pos,              \* filp->f_pos of each file, or Closed
    pc,                 \* where each task is
    call,               \* the system call it is making
    pos,                \* its local position: *f_pos, newpos or size
    presult,            \* the local presult of aesd_write
    ubuf                \* what aesd_read copied to its user buffer

devvars  == <<loaded, circular_buffer, entry, mem>>
taskvars == <<pc, call, pos, presult, ubuf>>
vars     == <<devvars, lock, f_pos, taskvars>>

NoCall == [op |-> "none", file |-> NULL, arg |-> NULL]

Init ==
    /\ loaded = TRUE
    /\ circular_buffer = EmptyBuffer
    /\ entry = NoEntry
    /\ lock = NULL
    /\ mem = [b \in Block |-> Free]
    /\ f_pos = [f \in File |-> Closed]
    /\ pc = [t \in Task |-> "idle"]
    /\ call = [t \in Task |-> NoCall]
    /\ pos = [t \in Task |-> 0]
    /\ presult = [t \in Task |-> NULL]
    /\ ubuf = [t \in Task |-> << >>]

-----------------------------------------------------------------------------
(***************************************************************************)
(* Loading and unloading.  THIS_MODULE in aesd_fops keeps the module       *)
(* loaded while a file is open.                                            *)
(***************************************************************************)
RingBlocks == {circular_buffer.entry[i].buffptr : i \in Slots} \ {NULL}

\* aesd_cleanup_module frees what the ring holds; dev->entry is forgotten.
Unload ==
    /\ Reloads
    /\ loaded
    /\ \A f \in File : f_pos[f] = Closed
    /\ loaded' = FALSE
    /\ mem' = [b \in Block |-> IF b \in RingBlocks THEN Free ELSE mem[b]]
    /\ UNCHANGED <<circular_buffer, entry, lock, f_pos, taskvars>>

\* aesd_init_module
Load ==
    /\ ~loaded
    /\ loaded' = TRUE
    /\ circular_buffer' = EmptyBuffer
    /\ entry' = NoEntry
    /\ lock' = NULL
    /\ UNCHANGED <<mem, f_pos, taskvars>>

Open(f) ==
    /\ loaded
    /\ f_pos[f] = Closed
    /\ f_pos' = [f_pos EXCEPT ![f] = 0]
    /\ UNCHANGED <<devvars, lock, taskvars>>

\* aesd_release, once no call on the file is under way.
Release(f) ==
    /\ f_pos[f] # Closed
    /\ \A t \in Task : call[t].file # f
    /\ f_pos' = [f_pos EXCEPT ![f] = Closed]
    /\ UNCHANGED <<devvars, lock, taskvars>>

(***************************************************************************)
(* Entering a system call, taking the mutex, leaving.                      *)
(***************************************************************************)
\* A rejected call has returned too, but with the mutex (FailLocked).
UserSpace == {"idle", "rejected"}

Enter(t, op, f, arg) ==
    /\ pc[t] \in UserSpace
    /\ f_pos[f] # Closed
    /\ pc' = [pc EXCEPT ![t] = "lock"]
    /\ call' = [call EXCEPT ![t] = [op |-> op, file |-> f, arg |-> arg]]
    /\ pos' = [pos EXCEPT ![t] = f_pos[f]]
    /\ UNCHANGED <<devvars, lock, f_pos, presult, ubuf>>

Call(t) ==
    \E f \in File :
        \/ \E count \in ReadCount : Enter(t, "read", f, count)
        \/ /\ f_pos[f] # Closed /\ f_pos[f] <= MaxPos
           /\ \E bytes \in Payload : Enter(t, "write", f, bytes)
        \/ \E seek \in Seek : Enter(t, "llseek", f, seek)
        \/ \E arg \in Arg : Enter(t, "ioctl", f, arg)

\* The call is over: its locals are gone.
LeaveTo(t, place) ==
    /\ pc' = [pc EXCEPT ![t] = place]
    /\ call' = [call EXCEPT ![t] = NoCall]
    /\ pos' = [pos EXCEPT ![t] = 0]
    /\ presult' = [presult EXCEPT ![t] = NULL]
    /\ ubuf' = [ubuf EXCEPT ![t] = << >>]

Leave(t) == LeaveTo(t, "idle")

Goto(t, place) == pc' = [pc EXCEPT ![t] = place] /\ UNCHANGED call

mutex_unlock == lock' = NULL

\* Takes the mutex whether or not it is free.
AcquireAlways(t) ==
    /\ pc[t] = "lock"
    /\ lock' = t
    /\ Goto(t, "body")
    /\ UNCHANGED <<devvars, f_pos, pos, presult, ubuf>>

Acquire(t) ==
    /\ pc[t] = "lock"
    /\ lock = NULL
    /\ lock' = t
    /\ Goto(t, "body")
    /\ UNCHANGED <<devvars, f_pos, pos, presult, ubuf>>

\* mutex_lock_interruptible looks at signals only when it has to wait.
Interrupted(t) ==
    /\ pc[t] = "lock"
    /\ lock # NULL
    /\ LeaveTo(t, IF lock = t THEN "rejected" ELSE "idle")
    /\ UNCHANGED <<devvars, lock, f_pos>>

\* Leaves by return where the code has goto out.
FailWithoutUnlock(t) ==
    /\ Leave(t)
    /\ UNCHANGED <<devvars, lock, f_pos>>

\* -EFAULT and the like: goto out, with the mutex released.
Fail(t) ==
    /\ mutex_unlock
    /\ Leave(t)
    /\ UNCHANGED <<devvars, f_pos>>

\* return -EINVAL or -EFAULT without mutex_unlock.
FailLocked(t) ==
    /\ LeaveTo(t, "rejected")
    /\ UNCHANGED <<devvars, lock, f_pos>>

\* A read or write that did not fail: the VFS stores the position.
Return(t) ==
    /\ pc[t] = "return"
    /\ f_pos' = [f_pos EXCEPT ![call[t].file] = pos[t]]
    /\ Leave(t)
    /\ UNCHANGED <<devvars, lock>>

-----------------------------------------------------------------------------
Doing(t, op, place) == pc[t] = place /\ call[t].op = op

(***************************************************************************)
(* aesd_read: the rest of one command from pos on, or nothing.             *)
(***************************************************************************)
Read(t) ==
    LET found == FindEntry(circular_buffer, pos[t])
        p_entry == circular_buffer.entry[found.slot]
        left == p_entry.size - found.offset
        count == IF call[t].arg > left THEN left ELSE call[t].arg
    IN
    /\ Doing(t, "read", "body")
    /\ IF found = NotFound
       THEN UNCHANGED <<pos, ubuf>>
       ELSE /\ ubuf' = [ubuf EXCEPT ![t] =
                    SubSeq(mem[p_entry.buffptr],
                           found.offset + 1, found.offset + count)]
            /\ pos' = [pos EXCEPT ![t] = @ + count]
    /\ mutex_unlock
    /\ Goto(t, "return")
    /\ UNCHANGED <<devvars, f_pos, presult>>

\* copy_to_user cannot write to buf.
ReadFault(t) ==
    /\ Doing(t, "read", "body")
    /\ FindEntry(circular_buffer, pos[t]) # NotFound
    /\ Fail(t)

(***************************************************************************)
(* aesd_write, first krealloc: it grows the unterminated command in place  *)
(* or moves it to another block and frees the old one.                     *)
(***************************************************************************)
kfree(m, p) == IF p = NULL THEN m ELSE [m EXCEPT ![p] = Free]

PendingBytes == IF entry.buffptr = NULL THEN << >> ELSE mem[entry.buffptr]

PendingIsLive == entry.buffptr \notin {b \in Block : mem[b] = Free}

KreallocInPlace(t) ==
    /\ entry.buffptr # NULL
    /\ presult' = [presult EXCEPT ![t] = entry.buffptr]
    /\ UNCHANGED mem

\* A fresh kmalloc, without the bytes of the command so far.
KmallocMoves(t) ==
    \E b \in Block :
        /\ mem[b] = Free
        /\ presult' = [presult EXCEPT ![t] = b]
        /\ mem' = kfree([mem EXCEPT ![b] = << >>], entry.buffptr)

KreallocMoves(t) ==
    \E b \in Block :
        /\ mem[b] = Free
        /\ presult' = [presult EXCEPT ![t] = b]
        /\ mem' = kfree([mem EXCEPT ![b] = PendingBytes], entry.buffptr)

WriteAllocate(t) ==
    /\ Doing(t, "write", "body")
    /\ PendingIsLive
    /\ entry.size + Len(call[t].arg) <= MaxAlloc
    /\ KreallocInPlace(t) \/ KreallocMoves(t)
    /\ Goto(t, "copy")
    /\ UNCHANGED <<loaded, circular_buffer, entry, lock, f_pos, pos, ubuf>>

\* krealloc returns NULL and leaves the command as it was.
WriteNoMemory(t) ==
    /\ Doing(t, "write", "body")
    /\ PendingIsLive
    /\ Fail(t)

\* krealloc of a freed block: the slab allocator stops the task, which
\* keeps the mutex.
WriteOops(t) ==
    /\ Doing(t, "write", "body")
    /\ ~PendingIsLive
    /\ Goto(t, "oops")
    /\ UNCHANGED <<devvars, lock, f_pos, pos, presult, ubuf>>

\* copy_from_user cannot read buf: dev->entry still has the old pointer.
WriteFault(t) ==
    /\ CopyFaults
    /\ Doing(t, "write", "copy")
    /\ Fail(t)

Terminated(bytes) == Contains(bytes, NL)

(***************************************************************************)
(* The rest of aesd_write: copy, and move a terminated command to the ring *)
(* (memchr looks at all of the command, not only at its last byte).        *)
(***************************************************************************)
\* Never frees the block of the command the ring has dropped.
WriteCopyKeepingReplaced(t) ==
    LET bytes == mem[presult[t]] \o call[t].arg
        command == [buffptr |-> presult[t],
                    size |-> entry.size + Len(call[t].arg)]
    IN
    /\ Doing(t, "write", "copy")
    /\ mem' = [mem EXCEPT ![presult[t]] = bytes]
    /\ IF Terminated(bytes)
       THEN /\ circular_buffer' = AddEntry(circular_buffer, command)
            /\ entry' = NoEntry
       ELSE entry' = command /\ UNCHANGED circular_buffer
    /\ pos' = [pos EXCEPT ![t] = @ + Len(call[t].arg)]
    /\ presult' = [presult EXCEPT ![t] = NULL]
    /\ mutex_unlock
    /\ Goto(t, "return")
    /\ UNCHANGED <<loaded, f_pos, ubuf>>

\* Frees what is at in_offs after the addition, not before it.
WriteCopyFreeingNext(t) ==
    LET bytes == mem[presult[t]] \o call[t].arg
        command == [buffptr |-> presult[t],
                    size |-> entry.size + Len(call[t].arg)]
        added == AddEntry(circular_buffer, command)
        written == [mem EXCEPT ![presult[t]] = bytes]
    IN
    /\ Doing(t, "write", "copy")
    /\ IF Terminated(bytes)
       THEN /\ circular_buffer' = added
            /\ mem' = kfree(written, Replaced(added))
            /\ entry' = NoEntry
       ELSE /\ entry' = command
            /\ mem' = written
            /\ UNCHANGED circular_buffer
    /\ pos' = [pos EXCEPT ![t] = @ + Len(call[t].arg)]
    /\ presult' = [presult EXCEPT ![t] = NULL]
    /\ mutex_unlock
    /\ Goto(t, "return")
    /\ UNCHANGED <<loaded, f_pos, ubuf>>

\* Leaves the size of the finished command in dev->entry.
WriteCopyKeepingSize(t) ==
    LET bytes == mem[presult[t]] \o call[t].arg
        command == [buffptr |-> presult[t],
                    size |-> entry.size + Len(call[t].arg)]
        written == [mem EXCEPT ![presult[t]] = bytes]
    IN
    /\ Doing(t, "write", "copy")
    /\ IF Terminated(bytes)
       THEN /\ circular_buffer' = AddEntry(circular_buffer, command)
            /\ mem' = kfree(written, Replaced(circular_buffer))
            /\ entry' = [command EXCEPT !.buffptr = NULL]
       ELSE /\ entry' = command
            /\ mem' = written
            /\ UNCHANGED circular_buffer
    /\ pos' = [pos EXCEPT ![t] = @ + Len(call[t].arg)]
    /\ presult' = [presult EXCEPT ![t] = NULL]
    /\ mutex_unlock
    /\ Goto(t, "return")
    /\ UNCHANGED <<loaded, f_pos, ubuf>>

WriteCopy(t) ==
    LET bytes == mem[presult[t]] \o call[t].arg
        command == [buffptr |-> presult[t],
                    size |-> entry.size + Len(call[t].arg)]
        written == [mem EXCEPT ![presult[t]] = bytes]
    IN
    /\ Doing(t, "write", "copy")
    /\ IF Terminated(bytes)
       THEN /\ circular_buffer' = AddEntry(circular_buffer, command)
            /\ mem' = kfree(written, Replaced(circular_buffer))
            /\ entry' = NoEntry
       ELSE /\ entry' = command
            /\ mem' = written
            /\ UNCHANGED circular_buffer
    /\ pos' = [pos EXCEPT ![t] = @ + Len(call[t].arg)]
    /\ presult' = [presult EXCEPT ![t] = NULL]
    /\ mutex_unlock
    /\ Goto(t, "return")
    /\ UNCHANGED <<loaded, f_pos, ubuf>>

(***************************************************************************)
(* aesd_llseek and aesd_ioctl: a rejected position returns with the mutex  *)
(* held; an accepted one is stored in the shared file by Store, and the    *)
(* VFS of another task may store its own position in between.              *)
(***************************************************************************)
MoveTo(t, newpos) ==
    IF newpos = EINVAL
    THEN FailLocked(t)
    ELSE /\ pos' = [pos EXCEPT ![t] = newpos]
         /\ Goto(t, "store")
         /\ UNCHANGED <<devvars, lock, f_pos, presult, ubuf>>

Llseek(t) ==
    /\ Doing(t, "llseek", "body")
    /\ MoveTo(t, SeekTarget(circular_buffer, f_pos[call[t].file],
                            call[t].arg[1], call[t].arg[2]))

Ioctl(t) ==
    LET arg == call[t].arg IN
    /\ Doing(t, "ioctl", "body")
    /\ CASE arg = NULL -> FailLocked(t)
         [] arg \in {BadAddress, OtherCmd} -> Fail(t)
         [] OTHER -> MoveTo(t, SeekTo(circular_buffer,
                                      arg.write_cmd, arg.write_cmd_offset))

Store(t) ==
    /\ pc[t] = "store"
    /\ f_pos' = [f_pos EXCEPT ![call[t].file] = pos[t]]
    /\ mutex_unlock
    /\ Leave(t)
    /\ UNCHANGED devvars

-----------------------------------------------------------------------------
\* The steps of a task that holds the mutex.
Inside(t) ==
    \/ Read(t) \/ ReadFault(t)
    \/ WriteAllocate(t) \/ WriteNoMemory(t) \/ WriteOops(t)
    \/ WriteFault(t) \/ WriteCopy(t)
    \/ Llseek(t) \/ Ioctl(t) \/ Store(t)

Next ==
    \/ Unload \/ Load
    \/ \E f \in File : Open(f) \/ Release(f)
    \/ \E t \in Task : \/ Call(t) \/ Acquire(t) \/ Interrupted(t)
                       \/ Inside(t) \/ Return(t)

Spec == Init /\ [][Next]_vars

(***************************************************************************)
(* The kernel runs every task that can run, and the mutex is handed over   *)
(* to its waiters in turn; tasks need not make calls, be interrupted or    *)
(* close files.                                                            *)
(***************************************************************************)
Fairness ==
    \A t \in Task : WF_vars(Inside(t) \/ Return(t)) /\ SF_vars(Acquire(t))

FairSpec == Spec /\ Fairness

-----------------------------------------------------------------------------
Places == UserSpace \cup {"lock", "body", "copy", "store", "return", "oops"}

Calls ==
    {NoCall}
      \cup [op : {"read"},   file : File, arg : ReadCount]
      \cup [op : {"write"},  file : File, arg : Payload]
      \cup [op : {"llseek"}, file : File, arg : Seek]
      \cup [op : {"ioctl"},  file : File, arg : Arg]

Commands == [buffptr : Block, size : Nat]

TypeOK ==
    /\ loaded \in BOOLEAN
    /\ circular_buffer \in RingOf(Commands)
    /\ entry \in Commands \cup {NoEntry}
    /\ lock \in Task \cup {NULL}
    /\ mem \in [Block -> Seq(Byte) \cup {Free}]
    /\ f_pos \in [File -> Nat \cup {Closed}]
    /\ pc \in [Task -> Places]
    /\ call \in [Task -> Calls]
    /\ pos \in [Task -> Nat]
    /\ presult \in [Task -> Block \cup {NULL}]

(***************************************************************************)
(* Only the holder of dev->lock is past mutex_lock_interruptible.          *)
(***************************************************************************)
LockHeldInside ==
    \A t \in Task : pc[t] \in {"body", "copy", "store", "oops"} => lock = t

\* The task, if any, that has called krealloc and not yet updated dev->entry.
Growing == {t \in Task : pc[t] = "copy"}

(***************************************************************************)
(* Every command of the ring, and the unterminated one, has a live block   *)
(* of its own whose bytes its size counts: nothing is freed twice or read  *)
(* after it was freed (aesd-circular-buffer.c:60).                         *)
(***************************************************************************)
UsedSlots == {i \in Slots : circular_buffer.entry[i].buffptr # NULL}

RingOwnsItsBlocks ==
    loaded =>
        /\ Consistent(circular_buffer, Commands)
        /\ \A i \in UsedSlots :
            LET e == circular_buffer.entry[i] IN
            /\ mem[e.buffptr] # Free
            /\ Len(mem[e.buffptr]) = e.size
            /\ Terminated(mem[e.buffptr])
        /\ \A i, j \in UsedSlots :
            circular_buffer.entry[i].buffptr = circular_buffer.entry[j].buffptr
                => i = j

PendingOwnsItsBlock ==
    loaded /\ Growing = {} =>
        /\ entry.buffptr \notin RingBlocks
        /\ IF entry.buffptr = NULL
           THEN entry.size = 0
           ELSE /\ mem[entry.buffptr] # Free
                /\ Len(mem[entry.buffptr]) = entry.size
                /\ ~Terminated(mem[entry.buffptr])

(***************************************************************************)
(* A write that moves or replaces a block never loses the last pointer to  *)
(* it while the module is loaded.                                          *)
(***************************************************************************)
Reachable == RingBlocks \cup {entry.buffptr} \cup {presult[t] : t \in Task}

Orphans == {b \in Block : mem[b] # Free} \ Reachable

NoLeakWhileLoaded == [][loaded /\ loaded' => Orphans' \subseteq Orphans]_vars

(***************************************************************************)
(* What aesd_read hands out is the continuation, from the position it was  *)
(* called with, of the completed commands written end to end; it returns 0 *)
(* only at their end.                                                      *)
(***************************************************************************)
CommandBytes ==
    [k \in 1..Count(circular_buffer) |->
        mem[Contents(circular_buffer)[k].buffptr]]

ReadContinuesTheLog ==
    [][\A t \in Task : Doing(t, "read", "body") /\ pc'[t] = "return" =>
        LET all == FlattenSeq(CommandBytes)
            rest == SubSeq(all, pos[t] + 1, Len(all))
        IN  /\ IsPrefix(ubuf'[t], rest)
            /\ pos'[t] = pos[t] + Len(ubuf'[t])
            /\ ubuf'[t] = << >> => rest = << >>]_vars

(***************************************************************************)
(* aesd_ioctl.h:27,31 - the seek ioctl goes to byte write_cmd_offset of    *)
(* "the zero referenced write command to seek into".                       *)
(***************************************************************************)
Accepted(t) == Doing(t, "ioctl", "body") /\ pc'[t] = "store"

\* write_cmd counts the commands from the oldest.
CommandPosition(arg) ==
    SizeBefore(circular_buffer)[arg.write_cmd] + arg.write_cmd_offset

\* write_cmd counts the slots of the array: where that slot's bytes are.
ArraySlotPosition(arg) ==
    LET k == CHOOSE k \in Slots : Slot(circular_buffer, k) = arg.write_cmd
    IN  SizeBefore(circular_buffer)[k] + arg.write_cmd_offset

SeekToLandsOnCommand ==
    [][\A t \in Task : Accepted(t) =>
        pos'[t] \in {CommandPosition(call[t].arg),
                     ArraySlotPosition(call[t].arg)}]_vars

\* What does hold: an accepted seek stays inside the stored bytes, and is
\* exact as long as the ring has not wrapped.
SeekToStaysInside ==
    [][\A t \in Task : Accepted(t) =>
        /\ pos'[t] < TotalSize(circular_buffer)
        /\ circular_buffer.out_offs = 0 =>
                pos'[t] = CommandPosition(call[t].arg)]_vars

(***************************************************************************)
(* The driver implements the abstract device: a write that has taken the   *)
(* mutex appends its bytes to the unterminated command as a whole, between *)
(* the bytes of no other write, and completes at most one command.         *)
(***************************************************************************)
Device == INSTANCE CommandDevice WITH
    up <- loaded,
    log <- IF loaded THEN CommandBytes ELSE << >>,
    pending <- IF ~loaded THEN << >>
               ELSE IF Growing = {} THEN PendingBytes
               ELSE mem[presult[CHOOSE t \in Growing : TRUE]]

ImplementsDevice == Device!Spec

(***************************************************************************)
(* main.c:215 says that the default branch "can't happen" and lines 222    *)
(* and 311 release the mutex of a rejected call: a task that is back in    *)
(* user space does not hold dev->lock.                                     *)
(***************************************************************************)
LockIsReleased == \A t \in Task : pc[t] \in UserSpace => lock # t

\* A rejected caller left with the mutex, and may be waiting for it itself.
LockIsLeaked == lock # NULL /\ pc[lock] \in {"rejected", "lock", "oops"}

\* A waiting call gets the mutex or gives up, unless a rejected call or an
\* oops has taken the mutex away: every other path through main.c:80-312
\* lets the next task in.
WaiterProceeds ==
    \A t \in Task : pc[t] = "lock" ~> (pc[t] # "lock" \/ LockIsLeaked)

=============================================================================
