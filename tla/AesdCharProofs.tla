--------------------------- MODULE AesdCharProofs ---------------------------
(***************************************************************************)
(* The driver, for every set of tasks, files, blocks and inputs: only the  *)
(* holder of dev->lock is between mutex_lock_interruptible and             *)
(* mutex_unlock, and the seek ioctl stays inside the stored bytes.         *)
(***************************************************************************)
EXTENDS AesdChar, AesdDeviceProofs

\* A call in the driver is made on an open file, which keeps the module in.
CallsUseOpenFiles ==
    \A t \in Task : pc[t] \notin UserSpace =>
        /\ call[t].op # "none"
        /\ f_pos[call[t].file] # Closed

OpenFilesKeepLoaded == \A f \in File : f_pos[f] # Closed => loaded

\* What krealloc returned is still allocated when the bytes are copied.
GrowingHasBlock ==
    \A t \in Growing : presult[t] \in Block /\ mem[presult[t]] # Free

DriverInv ==
    /\ TypeOK
    /\ LockHeldInside
    /\ CallsUseOpenFiles
    /\ OpenFilesKeepLoaded
    /\ GrowingHasBlock

-----------------------------------------------------------------------------
LEMMA CallTypes ==
    ASSUME NEW c \in Calls
    PROVE  /\ c.op # "none" => c.file \in File
           /\ c.op = "read" => c.arg \in ReadCount
           /\ c.op = "write" => c.arg \in Payload
           /\ c.op = "llseek" => c.arg \in Seek
           /\ c.op = "ioctl" => c.arg \in Arg
  BY DEF Calls, NoCall

LEMMA PayloadType ==
    ASSUME NEW bytes \in Payload
    PROVE  bytes \in Seq(Byte) /\ Len(bytes) \in Nat \ {0}
<1>1. bytes \in Seq(Byte) /\ bytes # << >>
  BY InputAssumption
<1>2. QED  BY <1>1

LEMMA CommandsAreSized ==
    ASSUME TypeOK
    PROVE  /\ circular_buffer \in RingOf(Commands)
           /\ Sized(circular_buffer)
           /\ circular_buffer.out_offs \in Slots
<1>1. circular_buffer \in RingOf(Commands)
  BY DEF TypeOK
<1>2. \A e \in Commands : e.size \in Nat
  BY DEF Commands
<1>3. QED  BY <1>1, <1>2, RingIsSized

-----------------------------------------------------------------------------
(***************************************************************************)
(* Steps that several actions share.                                       *)
(***************************************************************************)
\* The end of a call, whatever becomes of the mutex: only t moves, and it
\* moves to user space.
LEMMA LeaveKeeps ==
    ASSUME DriverInv, NEW t \in Task, NEW place \in UserSpace,
           LeaveTo(t, place), UNCHANGED devvars,
           \/ UNCHANGED lock
           \/ lock = t /\ lock' = NULL,
           \/ UNCHANGED f_pos
           \/ \E f \in File, p \in Nat : f_pos[f] # Closed
                                         /\ f_pos' = [f_pos EXCEPT ![f] = p]
    PROVE  DriverInv'
<1>1. TypeOK'
  <2>1. NoCall \in Calls
    BY DEF Calls
  <2>2. f_pos' \in [File -> Nat \cup {Closed}]
    BY DEF DriverInv, TypeOK
  <2>3. << >> \in Seq(Byte)
    OBVIOUS
  <2>4. QED
    BY <2>1, <2>2 DEF DriverInv, TypeOK, LeaveTo, devvars, UserSpace, Places
<1>2. \A s \in Task : s # t => pc'[s] = pc[s] /\ call'[s] = call[s]
                               /\ presult'[s] = presult[s]
  BY DEF DriverInv, TypeOK, LeaveTo
<1>3. pc'[t] = place /\ place \in {"idle", "rejected"}
  BY DEF DriverInv, TypeOK, LeaveTo, UserSpace
<1>4. LockHeldInside'
  <2> SUFFICES ASSUME NEW s \in Task, pc'[s] \in {"body", "copy", "store", "oops"}
               PROVE  lock' = s
    BY DEF LockHeldInside
  <2>1. s # t /\ lock = s
    BY <1>2, <1>3 DEF DriverInv, LockHeldInside
  <2>2. QED  BY <2>1
<1>5. \A f \in File : f_pos[f] # Closed <=> f_pos'[f] # Closed
  BY MarkAssumption DEF DriverInv, TypeOK
<1>6. CallsUseOpenFiles'
  <2> SUFFICES ASSUME NEW s \in Task, pc'[s] \notin UserSpace
               PROVE  call'[s].op # "none" /\ f_pos'[call'[s].file] # Closed
    BY DEF CallsUseOpenFiles, UserSpace
  <2>1. s # t
    BY <1>3 DEF UserSpace
  <2>2. call[s].op # "none" /\ f_pos[call[s].file] # Closed
    BY <1>2, <2>1 DEF DriverInv, CallsUseOpenFiles, UserSpace
  <2>3. call[s].file \in File
    BY <2>2, CallTypes DEF DriverInv, TypeOK
  <2>4. QED  BY <1>2, <1>5, <2>1, <2>2, <2>3
<1>7. OpenFilesKeepLoaded'
  BY <1>5 DEF DriverInv, OpenFilesKeepLoaded, devvars
<1>8. GrowingHasBlock'
  BY <1>2, <1>3 DEF DriverInv, GrowingHasBlock, Growing, devvars
<1>9. QED  BY <1>1, <1>4, <1>6, <1>7, <1>8 DEF DriverInv

\* A step by the holder of the mutex to another place inside the driver.
LEMMA GotoKeeps ==
    ASSUME DriverInv, NEW t \in Task, NEW place \in Places \ UserSpace,
           pc[t] \notin UserSpace,
           Goto(t, place), UNCHANGED <<loaded, f_pos>>, TypeOK',
           GrowingHasBlock',
           \/ UNCHANGED lock /\ lock = t
           \/ lock = NULL /\ lock' = t
           \/ lock = t /\ lock' = NULL /\ place = "return"
    PROVE  DriverInv'
<1>1. \A s \in Task : s # t => pc'[s] = pc[s]
  BY DEF DriverInv, TypeOK, Goto
<1>2. pc'[t] = place
  BY DEF DriverInv, TypeOK, Goto
<1>3. LockHeldInside'
  <2> SUFFICES ASSUME NEW s \in Task, pc'[s] \in {"body", "copy", "store", "oops"}
               PROVE  lock' = s
    BY DEF LockHeldInside
  <2>1. CASE s = t
    BY <1>2, <2>1
  <2>2. CASE s # t
    <3>1. lock = s /\ s # NULL
      BY <1>1, <2>2, NullAssumption DEF DriverInv, LockHeldInside
    <3>2. QED  BY <2>2, <3>1
  <2>3. QED  BY <2>1, <2>2
<1>4. CallsUseOpenFiles'
  BY <1>1 DEF DriverInv, CallsUseOpenFiles, Goto, UserSpace
<1>5. OpenFilesKeepLoaded'
  BY DEF DriverInv, OpenFilesKeepLoaded
<1>6. QED  BY <1>3, <1>4, <1>5 DEF DriverInv

-----------------------------------------------------------------------------
(***************************************************************************)
(* One lemma for each action.                                              *)
(***************************************************************************)
LEMMA InitHolds == Init => DriverInv
<1> SUFFICES ASSUME Init PROVE DriverInv
  OBVIOUS
<1>1. TypeOK
  <2>1. circular_buffer \in RingOf(Commands)
    BY EmptyBufferIsConsistent DEF Init
  <2>2. NoCall \in Calls
    BY DEF Calls
  <2>3. QED  BY <2>1, <2>2 DEF Init, TypeOK, Places, UserSpace
<1>2. QED
  BY <1>1 DEF Init, DriverInv, LockHeldInside, CallsUseOpenFiles,
              OpenFilesKeepLoaded, GrowingHasBlock, Growing, UserSpace

\* With all files closed no task is in the driver.
LEMMA NobodyInside ==
    ASSUME DriverInv, \A f \in File : f_pos[f] = Closed
    PROVE  \A t \in Task : pc[t] \in UserSpace
<1> SUFFICES ASSUME NEW t \in Task, pc[t] \notin UserSpace PROVE FALSE
  OBVIOUS
<1>1. call[t].op # "none" /\ f_pos[call[t].file] # Closed
  BY DEF DriverInv, CallsUseOpenFiles
<1>2. call[t].file \in File
  BY <1>1, CallTypes DEF DriverInv, TypeOK
<1>3. QED  BY <1>1, <1>2

LEMMA LoadingKeeps ==
    ASSUME DriverInv, Unload \/ Load PROVE DriverInv'
<1>1. \A f \in File : f_pos[f] = Closed
  BY DEF Unload, Load, DriverInv, OpenFilesKeepLoaded
<1>2. \A t \in Task : pc[t] \in UserSpace
  BY <1>1, NobodyInside
<1>3. pc' = pc /\ f_pos' = f_pos /\ call' = call
  BY DEF Unload, Load, taskvars
<1>4. TypeOK'
  <2>1. CASE Unload
    BY <2>1 DEF Unload, DriverInv, TypeOK, taskvars
  <2>2. CASE Load
    <3>1. circular_buffer' \in RingOf(Commands)
      BY <2>2, EmptyBufferIsConsistent DEF Load
    <3>2. QED  BY <2>2, <3>1 DEF Load, DriverInv, TypeOK, taskvars
  <2>3. QED  BY <2>1, <2>2
<1>5. QED
  BY <1>1, <1>2, <1>3, <1>4
     DEF DriverInv, LockHeldInside, CallsUseOpenFiles, OpenFilesKeepLoaded,
         GrowingHasBlock, Growing, UserSpace

LEMMA OpenKeeps ==
    ASSUME DriverInv, NEW f \in File, Open(f) PROVE DriverInv'
<1>1. TypeOK'
  BY DEF DriverInv, TypeOK, Open, devvars, taskvars
<1>2. \A g \in File : f_pos[g] # Closed => f_pos'[g] # Closed
  BY DEF DriverInv, TypeOK, Open
<1>3. CallsUseOpenFiles'
  <2> SUFFICES ASSUME NEW s \in Task, pc[s] \notin UserSpace
               PROVE  call[s].op # "none" /\ f_pos'[call[s].file] # Closed
    BY DEF CallsUseOpenFiles, Open, taskvars, UserSpace
  <2>1. call[s].op # "none" /\ f_pos[call[s].file] # Closed
    BY DEF DriverInv, CallsUseOpenFiles
  <2>2. call[s].file \in File
    BY <2>1, CallTypes DEF DriverInv, TypeOK
  <2>3. QED  BY <1>2, <2>1, <2>2
<1>4. QED
  BY <1>1, <1>3
     DEF Open, DriverInv, LockHeldInside, OpenFilesKeepLoaded,
         GrowingHasBlock, Growing, devvars, taskvars

LEMMA ReleaseKeeps ==
    ASSUME DriverInv, NEW f \in File, Release(f) PROVE DriverInv'
<1>1. TypeOK'
  BY DEF DriverInv, TypeOK, Release, devvars, taskvars
<1>2. \A g \in File : g # f => f_pos'[g] = f_pos[g]
  BY DEF DriverInv, TypeOK, Release
<1>3. CallsUseOpenFiles'
  <2> SUFFICES ASSUME NEW s \in Task, pc[s] \notin UserSpace
               PROVE  call[s].op # "none" /\ f_pos'[call[s].file] # Closed
    BY DEF CallsUseOpenFiles, Release, taskvars, UserSpace
  <2>1. call[s].op # "none" /\ f_pos[call[s].file] # Closed
    BY DEF DriverInv, CallsUseOpenFiles
  <2>2. call[s].file \in File /\ call[s].file # f
    BY <2>1, CallTypes DEF DriverInv, TypeOK, Release
  <2>3. QED  BY <1>2, <2>1, <2>2
<1>4. OpenFilesKeepLoaded'
  BY <1>2 DEF DriverInv, TypeOK, OpenFilesKeepLoaded, Release, devvars
<1>5. QED
  BY <1>1, <1>3, <1>4
     DEF Release, DriverInv, LockHeldInside, GrowingHasBlock, Growing,
         devvars, taskvars

LEMMA EnterKeeps ==
    ASSUME DriverInv, NEW t \in Task, NEW f \in File, NEW op, NEW arg,
           Enter(t, op, f, arg),
           [op |-> op, file |-> f, arg |-> arg] \in Calls, op # "none"
    PROVE  DriverInv'
<1> DEFINE c == [op |-> op, file |-> f, arg |-> arg]
<1>1. f_pos[f] \in Nat
  BY DEF DriverInv, TypeOK, Enter
<1>2. /\ pc' = [pc EXCEPT ![t] = "lock"]
      /\ call' = [call EXCEPT ![t] = c]
      /\ pos' = [pos EXCEPT ![t] = f_pos[f]]
      /\ UNCHANGED <<loaded, circular_buffer, entry, mem, lock, f_pos, presult, ubuf>>
  BY DEF Enter, devvars
<1>3. c \in Calls /\ c.op # "none" /\ c.file = f
  OBVIOUS
<1>4. f_pos[f] # Closed
  BY DEF Enter
<1> HIDE DEF c
<1>5. TypeOK'
  BY <1>1, <1>2, <1>3 DEF DriverInv, TypeOK, Places
<1>6. pc'[t] = "lock" /\ call'[t] = c
  BY <1>2 DEF DriverInv, TypeOK
<1>7. \A s \in Task : s # t => pc'[s] = pc[s] /\ call'[s] = call[s]
  BY <1>2 DEF DriverInv, TypeOK
<1>8. QED
  BY <1>2, <1>3, <1>4, <1>5, <1>6, <1>7
     DEF DriverInv, LockHeldInside, CallsUseOpenFiles, OpenFilesKeepLoaded,
         GrowingHasBlock, Growing, UserSpace

LEMMA CallKeeps ==
    ASSUME DriverInv, NEW t \in Task, Call(t) PROVE DriverInv'
<1>1. PICK f \in File :
        \/ \E count \in ReadCount : Enter(t, "read", f, count)
        \/ \E bytes \in Payload : Enter(t, "write", f, bytes)
        \/ \E seek \in Seek : Enter(t, "llseek", f, seek)
        \/ \E arg \in Arg : Enter(t, "ioctl", f, arg)
  BY DEF Call
<1>2. ASSUME NEW count \in ReadCount, Enter(t, "read", f, count)
      PROVE  DriverInv'
  <2>1. [op |-> "read", file |-> f, arg |-> count] \in Calls
    BY DEF Calls
  <2>2. QED  BY <1>2, <2>1, EnterKeeps
<1>3. ASSUME NEW bytes \in Payload, Enter(t, "write", f, bytes)
      PROVE  DriverInv'
  <2>1. [op |-> "write", file |-> f, arg |-> bytes] \in Calls
    BY DEF Calls
  <2>2. QED  BY <1>3, <2>1, EnterKeeps
<1>4. ASSUME NEW seek \in Seek, Enter(t, "llseek", f, seek)
      PROVE  DriverInv'
  <2>1. [op |-> "llseek", file |-> f, arg |-> seek] \in Calls
    BY DEF Calls
  <2>2. QED  BY <1>4, <2>1, EnterKeeps
<1>5. ASSUME NEW arg \in Arg, Enter(t, "ioctl", f, arg)
      PROVE  DriverInv'
  <2>1. [op |-> "ioctl", file |-> f, arg |-> arg] \in Calls
    BY DEF Calls
  <2>2. QED  BY <1>5, <2>1, EnterKeeps
<1>6. QED  BY <1>1, <1>2, <1>3, <1>4, <1>5

LEMMA AcquireKeeps ==
    ASSUME DriverInv, NEW t \in Task, Acquire(t) PROVE DriverInv'
<1>1. TypeOK'
  BY DEF DriverInv, TypeOK, Acquire, Goto, devvars, Places
<1>2. GrowingHasBlock'
  BY DEF DriverInv, TypeOK, GrowingHasBlock, Growing, Acquire, Goto, devvars
<1>3. "body" \in Places \ UserSpace /\ pc[t] \notin UserSpace
  BY DEF Acquire, Places, UserSpace
<1>4. QED  BY <1>1, <1>2, <1>3, GotoKeeps DEF Acquire, devvars

LEMMA InterruptedKeeps ==
    ASSUME DriverInv, NEW t \in Task, Interrupted(t) PROVE DriverInv'
<1> DEFINE place == IF lock = t THEN "rejected" ELSE "idle"
<1>1. place \in UserSpace
  BY DEF UserSpace
<1>2. QED  BY <1>1, LeaveKeeps DEF Interrupted

\* goto out releases the mutex its task holds.
LEMMA FailKeeps ==
    ASSUME DriverInv, NEW t \in Task, pc[t] \in {"body", "copy"}, Fail(t)
    PROVE  DriverInv'
<1>1. lock = t
  BY DEF DriverInv, LockHeldInside
<1>2. "idle" \in UserSpace
  BY DEF UserSpace
<1>3. QED  BY <1>1, <1>2, LeaveKeeps DEF Fail, Leave, mutex_unlock

LEMMA FailLockedKeeps ==
    ASSUME DriverInv, NEW t \in Task, FailLocked(t) PROVE DriverInv'
<1>1. "rejected" \in UserSpace
  BY DEF UserSpace
<1>2. QED  BY <1>1, LeaveKeeps DEF FailLocked

LEMMA ReturnKeeps ==
    ASSUME DriverInv, NEW t \in Task, Return(t) PROVE DriverInv'
<1>1. call[t].op # "none" /\ f_pos[call[t].file] # Closed
  BY DEF DriverInv, CallsUseOpenFiles, Return, UserSpace
<1>2. call[t].file \in File /\ pos[t] \in Nat
  BY <1>1, CallTypes DEF DriverInv, TypeOK
<1>3. "idle" \in UserSpace
  BY DEF UserSpace
<1>4. QED  BY <1>1, <1>2, <1>3, LeaveKeeps DEF Return, Leave

LEMMA StoreKeeps ==
    ASSUME DriverInv, NEW t \in Task, Store(t) PROVE DriverInv'
<1>1. call[t].op # "none" /\ f_pos[call[t].file] # Closed
  BY DEF DriverInv, CallsUseOpenFiles, Store, UserSpace
<1>2. call[t].file \in File /\ pos[t] \in Nat
  BY <1>1, CallTypes DEF DriverInv, TypeOK
<1>3. lock = t
  BY DEF DriverInv, LockHeldInside, Store
<1>4. "idle" \in UserSpace
  BY DEF UserSpace
<1>5. QED
  BY <1>1, <1>2, <1>3, <1>4, LeaveKeeps DEF Store, Leave, mutex_unlock

LEMMA ReadKeeps ==
    ASSUME DriverInv, NEW t \in Task, Read(t) PROVE DriverInv'
<1> DEFINE found == FindEntry(circular_buffer, pos[t])
           p_entry == circular_buffer.entry[found.slot]
           left == p_entry.size - found.offset
           count == IF call[t].arg > left THEN left ELSE call[t].arg
<1>1. /\ pc[t] = "body" /\ call[t].op = "read"
      /\ \/ UNCHANGED pos
         \/ found # NotFound /\ pos' = [pos EXCEPT ![t] = @ + count]
      /\ lock' = NULL
      /\ Goto(t, "return")
      /\ UNCHANGED <<devvars, f_pos, presult>>
  BY DEF Read, Doing, mutex_unlock
<1>2. pos[t] \in Nat /\ call[t].arg \in Nat
  <2>1. call[t].arg \in ReadCount /\ pos[t] \in Nat
    BY <1>1, CallTypes DEF DriverInv, TypeOK
  <2>2. QED  BY <2>1, InputAssumption
<1>3. found # NotFound => count \in Nat
  <2> SUFFICES ASSUME found # NotFound PROVE count \in Nat
    OBVIOUS
  <2>1. Sized(circular_buffer) /\ circular_buffer.out_offs \in Slots
    BY CommandsAreSized DEF DriverInv
  <2> DEFINE g == SizeBefore(circular_buffer)
  <2>2. PICK k \in Slots :
          /\ g[k] <= pos[t]
          /\ pos[t] < g[k + 1]
          /\ found = [slot   |-> Slot(circular_buffer, k),
                      offset |-> pos[t] - g[k]]
    BY <1>2, <2>1, FindEntryBrackets
  <2>3. g[k + 1] = g[k] + p_entry.size
    BY <2>1, <2>2, SizeBeforeAdds
  <2>4. g[k] \in Nat
    <3>1. k \in 0..MaxWriteOps
      BY MaxWriteOpsAssumption DEF Slots
    <3>2. g \in [0..MaxWriteOps -> Nat]
      BY <2>1, SizeBeforeAdds
    <3> HIDE DEF g
    <3>3. QED  BY <3>1, <3>2
  <2>5. Slot(circular_buffer, k) \in Slots
    BY <2>1, SlotValue
  <2>6. p_entry.size \in Nat
    BY <2>1, <2>2, <2>5 DEF Sized
  <2>7. found.offset = pos[t] - g[k]
    BY <2>2
  <2> HIDE DEF found, g, p_entry
  <2>8. left \in Nat
    BY <1>2, <2>2, <2>3, <2>4, <2>6, <2>7
  <2>9. QED
    <3> HIDE DEF left
    <3> QED  BY <1>2, <2>8
<1> HIDE DEF count, found
<1>4. pos' \in [Task -> Nat]
  BY <1>1, <1>2, <1>3 DEF DriverInv, TypeOK
<1>5. TypeOK'
  BY <1>1, <1>4, NullAssumption DEF DriverInv, TypeOK, Goto, devvars, Places
<1>6. lock = t /\ pc[t] \notin UserSpace
  BY <1>1 DEF DriverInv, LockHeldInside, UserSpace
<1>7. GrowingHasBlock'
  BY <1>1 DEF DriverInv, TypeOK, GrowingHasBlock, Growing, Goto, devvars
<1>8. "return" \in Places \ UserSpace
  BY DEF Places, UserSpace
<1>9. QED  BY <1>1, <1>5, <1>6, <1>7, <1>8, GotoKeeps DEF devvars

LEMMA MoveToKeeps ==
    ASSUME DriverInv, NEW t \in Task, pc[t] = "body",
           NEW newpos \in Nat \cup {EINVAL}, MoveTo(t, newpos)
    PROVE  DriverInv'
<1>1. CASE newpos = EINVAL
  BY <1>1, FailLockedKeeps DEF MoveTo
<1>2. CASE newpos # EINVAL
  <2>1. /\ pos' = [pos EXCEPT ![t] = newpos]
        /\ Goto(t, "store")
        /\ UNCHANGED <<devvars, lock, f_pos, presult, ubuf>>
    BY <1>2 DEF MoveTo
  <2>2. newpos \in Nat
    BY <1>2
  <2>3. TypeOK'
    BY <2>1, <2>2 DEF DriverInv, TypeOK, Goto, devvars, Places
  <2>4. lock = t /\ pc[t] \notin UserSpace
    BY DEF DriverInv, LockHeldInside, UserSpace
  <2>5. GrowingHasBlock'
    BY <2>1 DEF DriverInv, TypeOK, GrowingHasBlock, Growing, Goto, devvars
  <2>6. "store" \in Places \ UserSpace
    BY DEF Places, UserSpace
  <2>7. QED  BY <2>1, <2>3, <2>4, <2>5, <2>6, GotoKeeps DEF devvars
<1>3. QED  BY <1>1, <1>2

LEMMA LlseekKeeps ==
    ASSUME DriverInv, NEW t \in Task, Llseek(t) PROVE DriverInv'
<1> DEFINE file == call[t].file
           newpos == SeekTarget(circular_buffer, f_pos[file],
                                call[t].arg[1], call[t].arg[2])
<1>1. pc[t] = "body" /\ call[t].op = "llseek" /\ MoveTo(t, newpos)
  BY DEF Llseek, Doing
<1>2. call[t].arg \in Int \X Int /\ file \in File
  BY <1>1, CallTypes, InputAssumption DEF DriverInv, TypeOK
<1>3. f_pos[file] \in Nat
  BY <1>1, <1>2 DEF DriverInv, TypeOK, CallsUseOpenFiles, UserSpace
<1>4. Sized(circular_buffer)
  BY CommandsAreSized DEF DriverInv
<1>5. newpos \in Nat \cup {EINVAL}
  <2>1. call[t].arg[1] \in Int
    BY <1>2
  <2>2. QED  BY <1>3, <1>4, <2>1, SeekTargetType
<1>6. QED
  <2> HIDE DEF newpos
  <2> QED  BY <1>1, <1>5, MoveToKeeps

\* What the ioctl does with an argument it can read.
LEMMA IoctlCases ==
    ASSUME NEW t \in Task, Ioctl(t)
    PROVE  /\ pc[t] = "body" /\ call[t].op = "ioctl"
           /\ \/ FailLocked(t)
              \/ Fail(t)
              \/ /\ call[t].arg \notin {NULL, BadAddress, OtherCmd}
                 /\ MoveTo(t, SeekTo(circular_buffer, call[t].arg.write_cmd,
                                     call[t].arg.write_cmd_offset))
<1>1. CASE call[t].arg \in {NULL, BadAddress, OtherCmd}
  BY <1>1 DEF Ioctl, Doing
<1>2. CASE call[t].arg \notin {NULL, BadAddress, OtherCmd}
  BY <1>2 DEF Ioctl, Doing
<1>3. QED  BY <1>1, <1>2

LEMMA SeekArgType ==
    ASSUME TypeOK, NEW t \in Task, call[t].op = "ioctl",
           call[t].arg \notin {NULL, BadAddress, OtherCmd}
    PROVE  /\ call[t].arg.write_cmd \in Nat
           /\ call[t].arg.write_cmd_offset \in Nat
<1>1. call[t].arg \in Arg
  BY CallTypes DEF TypeOK
<1>2. call[t].arg \in SeekArg
  BY <1>1, InputAssumption
<1>3. QED  BY <1>2 DEF SeekArg

LEMMA IoctlKeeps ==
    ASSUME DriverInv, NEW t \in Task, Ioctl(t) PROVE DriverInv'
<1> DEFINE arg == call[t].arg
           newpos == SeekTo(circular_buffer, arg.write_cmd, arg.write_cmd_offset)
<1>1. pc[t] = "body" /\ call[t].op = "ioctl"
  BY IoctlCases
<1>2. CASE FailLocked(t)
  BY <1>2, FailLockedKeeps
<1>3. CASE Fail(t)
  BY <1>1, <1>3, FailKeeps
<1>4. CASE arg \notin {NULL, BadAddress, OtherCmd} /\ MoveTo(t, newpos)
  <2>1. arg.write_cmd \in Nat /\ arg.write_cmd_offset \in Nat
    BY <1>1, <1>4, SeekArgType DEF DriverInv
  <2>2. Sized(circular_buffer) /\ circular_buffer.out_offs \in Slots
    BY CommandsAreSized DEF DriverInv
  <2>3. newpos \in Nat \cup {EINVAL}
    BY <2>1, <2>2, SeekToInside
  <2>4. QED
    <3> HIDE DEF newpos
    <3> QED  BY <1>1, <1>4, <2>3, MoveToKeeps
<1>5. QED  BY <1>2, <1>3, <1>4, IoctlCases

LEMMA WriteOopsKeeps ==
    ASSUME DriverInv, NEW t \in Task, WriteOops(t) PROVE DriverInv'
<1>1. /\ pc[t] = "body" /\ Goto(t, "oops")
      /\ UNCHANGED <<devvars, lock, f_pos, pos, presult, ubuf>>
  BY DEF WriteOops, Doing
<1>2. TypeOK'
  BY <1>1 DEF DriverInv, TypeOK, Goto, devvars, Places
<1>3. GrowingHasBlock'
  BY <1>1 DEF DriverInv, TypeOK, GrowingHasBlock, Growing, Goto, devvars
<1>4. lock = t /\ pc[t] \notin UserSpace /\ "oops" \in Places \ UserSpace
  BY <1>1 DEF DriverInv, LockHeldInside, UserSpace, Places
<1>5. QED  BY <1>1, <1>2, <1>3, <1>4, GotoKeeps DEF devvars

\* The holder of the mutex is the only task whose command is growing.
LEMMA OnlyOneGrows ==
    ASSUME DriverInv, NEW t \in Task, NEW s \in Task,
           pc[t] \in {"body", "copy"}, pc[s] = "copy"
    PROVE  s = t
  BY DEF DriverInv, LockHeldInside

\* Both outcomes of krealloc leave its result allocated.
LEMMA KreallocResult ==
    ASSUME DriverInv, NEW t \in Task, PendingIsLive,
           KreallocInPlace(t) \/ KreallocMoves(t)
    PROVE  \E b \in Block : /\ presult' = [presult EXCEPT ![t] = b]
                            /\ mem' \in [Block -> Seq(Byte) \cup {Free}]
                            /\ mem'[b] # Free
<1>1. entry.buffptr \in Block \cup {NULL} /\ (entry.buffptr # NULL => entry.buffptr \in Block)
  BY DEF DriverInv, TypeOK, Commands, NoEntry
<1>2. entry.buffptr \in Block => mem[entry.buffptr] \in Seq(Byte)
  BY DEF DriverInv, TypeOK, PendingIsLive
<1>3. CASE KreallocInPlace(t)
  <2>1. entry.buffptr \in Block /\ mem[entry.buffptr] # Free
    BY <1>1, <1>2, <1>3, MarkAssumption DEF KreallocInPlace
  <2>2. QED  BY <1>3, <2>1 DEF KreallocInPlace, DriverInv, TypeOK
<1>4. CASE KreallocMoves(t)
  <2>1. PICK b \in Block :
          /\ mem[b] = Free
          /\ presult' = [presult EXCEPT ![t] = b]
          /\ mem' = kfree([mem EXCEPT ![b] = PendingBytes], entry.buffptr)
    BY <1>4 DEF KreallocMoves
  <2>2. PendingBytes \in Seq(Byte)
    BY <1>1, <1>2 DEF PendingBytes
  <2>3. entry.buffptr # b
    BY <2>1 DEF PendingIsLive
  <2> DEFINE moved == [mem EXCEPT ![b] = PendingBytes]
  <2>4. moved \in [Block -> Seq(Byte) \cup {Free}] /\ moved[b] = PendingBytes
    BY <2>2 DEF DriverInv, TypeOK
  <2> HIDE DEF moved
  <2>5. mem' = IF entry.buffptr = NULL THEN moved
               ELSE [moved EXCEPT ![entry.buffptr] = Free]
    BY <2>1 DEF kfree, moved
  <2>6. mem' \in [Block -> Seq(Byte) \cup {Free}] /\ mem'[b] = PendingBytes
    BY <2>3, <2>4, <2>5
  <2>7. QED  BY <2>1, <2>2, <2>6, MarkAssumption
<1>5. QED  BY <1>3, <1>4

LEMMA WriteAllocateKeeps ==
    ASSUME DriverInv, NEW t \in Task, WriteAllocate(t) PROVE DriverInv'
<1>1. /\ pc[t] = "body" /\ Goto(t, "copy")
      /\ UNCHANGED <<loaded, circular_buffer, entry, lock, f_pos, pos, ubuf>>
  BY DEF WriteAllocate, Doing
<1>2. PICK b \in Block : /\ presult' = [presult EXCEPT ![t] = b]
                         /\ mem' \in [Block -> Seq(Byte) \cup {Free}]
                         /\ mem'[b] # Free
  BY KreallocResult DEF WriteAllocate
<1>3. TypeOK'
  BY <1>1, <1>2 DEF DriverInv, TypeOK, Goto, Places
<1>4. GrowingHasBlock'
  <2> SUFFICES ASSUME NEW s \in Task, pc'[s] = "copy"
               PROVE  presult'[s] \in Block /\ mem'[presult'[s]] # Free
    BY DEF GrowingHasBlock, Growing
  <2>1. s = t
    BY <1>1, OnlyOneGrows DEF Goto, DriverInv, TypeOK
  <2>2. QED  BY <1>2, <2>1 DEF DriverInv, TypeOK
<1>5. lock = t /\ pc[t] \notin UserSpace /\ "copy" \in Places \ UserSpace
  BY <1>1 DEF DriverInv, LockHeldInside, UserSpace, Places
<1>6. QED  BY <1>1, <1>3, <1>4, <1>5, GotoKeeps

LEMMA WriteCopyKeeps ==
    ASSUME DriverInv, NEW t \in Task, WriteCopy(t) PROVE DriverInv'
<1> DEFINE bytes == mem[presult[t]] \o call[t].arg
           command == [buffptr |-> presult[t],
                       size |-> entry.size + Len(call[t].arg)]
           written == [mem EXCEPT ![presult[t]] = bytes]
<1>1. /\ pc[t] = "copy" /\ call[t].op = "write"
      /\ \/ /\ circular_buffer' = AddEntry(circular_buffer, command)
            /\ mem' = kfree(written, Replaced(circular_buffer))
            /\ entry' = NoEntry
         \/ /\ entry' = command
            /\ mem' = written
            /\ UNCHANGED circular_buffer
      /\ pos' = [pos EXCEPT ![t] = @ + Len(call[t].arg)]
      /\ presult' = [presult EXCEPT ![t] = NULL]
      /\ lock' = NULL
      /\ Goto(t, "return")
      /\ UNCHANGED <<loaded, f_pos, ubuf>>
  BY DEF WriteCopy, Doing, mutex_unlock
<1>2. presult[t] \in Block /\ mem[presult[t]] \in Seq(Byte)
  BY <1>1 DEF DriverInv, TypeOK, GrowingHasBlock, Growing
<1>3. call[t].arg \in Seq(Byte) /\ Len(call[t].arg) \in Nat
  BY <1>1, CallTypes, PayloadType DEF DriverInv, TypeOK
<1>4. bytes \in Seq(Byte)
  BY <1>2, <1>3
<1>5. entry.size \in Nat
  BY DEF DriverInv, TypeOK, Commands, NoEntry
<1>6. command \in Commands
  BY <1>2, <1>3, <1>5 DEF Commands
<1>7. written \in [Block -> Seq(Byte) \cup {Free}]
  <2> HIDE DEF bytes
  <2> QED  BY <1>4 DEF DriverInv, TypeOK
<1> HIDE DEF command, written
<1>8. /\ circular_buffer' \in RingOf(Commands)
      /\ entry' \in Commands \cup {NoEntry}
  BY <1>1, <1>6, AddEntryType DEF DriverInv, TypeOK
<1>9. mem' \in [Block -> Seq(Byte) \cup {Free}]
  BY <1>1, <1>7 DEF kfree
<1>10. pos' \in [Task -> Nat]
  BY <1>1, <1>3 DEF DriverInv, TypeOK
<1>11. TypeOK'
  BY <1>1, <1>8, <1>9, <1>10 DEF DriverInv, TypeOK, Goto, Places
<1>12. GrowingHasBlock'
  <2>1. \A s \in Task : pc'[s] # "copy"
    BY <1>1, OnlyOneGrows DEF Goto, DriverInv, TypeOK
  <2>2. QED  BY <2>1 DEF GrowingHasBlock, Growing
<1>13. lock = t /\ pc[t] \notin UserSpace /\ "return" \in Places \ UserSpace
  BY <1>1 DEF DriverInv, LockHeldInside, UserSpace, Places
<1>14. QED  BY <1>1, <1>11, <1>12, <1>13, GotoKeeps

-----------------------------------------------------------------------------
LEMMA InsideKeeps ==
    ASSUME DriverInv, NEW t \in Task, Inside(t) PROVE DriverInv'
<1>1. CASE Read(t)
  BY <1>1, ReadKeeps
<1>2. CASE ReadFault(t) \/ WriteNoMemory(t) \/ WriteFault(t)
  <2>1. Fail(t) /\ pc[t] \in {"body", "copy"}
    BY <1>2 DEF ReadFault, WriteNoMemory, WriteFault, Doing
  <2>2. QED  BY <2>1, FailKeeps
<1>3. CASE WriteAllocate(t) \/ WriteOops(t) \/ WriteCopy(t)
  BY <1>3, WriteAllocateKeeps, WriteOopsKeeps, WriteCopyKeeps
<1>4. CASE Llseek(t) \/ Ioctl(t) \/ Store(t)
  BY <1>4, LlseekKeeps, IoctlKeeps, StoreKeeps
<1>5. QED  BY <1>1, <1>2, <1>3, <1>4 DEF Inside

LEMMA StepKeeps == DriverInv /\ [Next]_vars => DriverInv'
<1> SUFFICES ASSUME DriverInv, [Next]_vars PROVE DriverInv'
  OBVIOUS
<1>1. CASE Unload \/ Load
  BY <1>1, LoadingKeeps
<1>2. ASSUME NEW f \in File, Open(f) \/ Release(f) PROVE DriverInv'
  BY <1>2, OpenKeeps, ReleaseKeeps
<1>3. ASSUME NEW t \in Task,
             Call(t) \/ Acquire(t) \/ Interrupted(t) \/ Inside(t) \/ Return(t)
      PROVE  DriverInv'
  BY <1>3, CallKeeps, AcquireKeeps, InterruptedKeeps, InsideKeeps, ReturnKeeps
<1>4. CASE UNCHANGED vars
  BY <1>4 DEF vars, devvars, taskvars, DriverInv, TypeOK, LockHeldInside,
              CallsUseOpenFiles, OpenFilesKeepLoaded, GrowingHasBlock, Growing
<1>5. QED  BY <1>1, <1>2, <1>3, <1>4 DEF Next

LEMMA DriverInvHolds == Spec => []DriverInv
  BY InitHolds, StepKeeps, PTL DEF Spec

\* Every variable of the driver keeps its type, through every error path of
\* main.c:54-314 and through unload and reload: in particular the ring's
\* cursors stay inside the array and every file position is a natural number.
THEOREM DriverTypes == Spec => []TypeOK
<1>1. DriverInv => TypeOK
  BY DEF DriverInv
<1>2. QED  BY <1>1, DriverInvHolds, PTL

\* main.c:80,137,185,276: whatever the tasks call and wherever a call fails,
\* only the task that holds dev->lock is between lock and unlock.
THEOREM LockExcludes == Spec => []LockHeldInside
<1>1. DriverInv => LockHeldInside
  BY DEF DriverInv
<1>2. QED  BY <1>1, DriverInvHolds, PTL

-----------------------------------------------------------------------------
(***************************************************************************)
(* The seek ioctl.                                                         *)
(***************************************************************************)
\* The steps of one task leave the place of every other task alone.
LEMMA OthersStay ==
    ASSUME DriverInv, NEW t \in Task, NEW s \in Task, s # t,
           Call(s) \/ Acquire(s) \/ Interrupted(s) \/ Inside(s) \/ Return(s)
    PROVE  pc'[t] = pc[t]
<1>1. \/ \E place : pc' = [pc EXCEPT ![s] = place]
  <2>1. CASE Call(s)
    BY <2>1 DEF Call, Enter
  <2>2. CASE Acquire(s) \/ Interrupted(s) \/ Return(s)
    BY <2>2 DEF Acquire, Interrupted, Return, Goto, Leave, LeaveTo
  <2>3. CASE Read(s) \/ ReadFault(s) \/ WriteNoMemory(s) \/ WriteFault(s)
    BY <2>3 DEF Read, ReadFault, WriteNoMemory, WriteFault, Fail, Goto,
                Leave, LeaveTo
  <2>4. CASE WriteAllocate(s) \/ WriteOops(s) \/ WriteCopy(s) \/ Store(s)
    BY <2>4 DEF WriteAllocate, WriteOops, WriteCopy, Store, Goto, Leave, LeaveTo
  <2>5. CASE Llseek(s)
    BY <2>5 DEF Llseek, MoveTo, FailLocked, Goto, LeaveTo
  <2>6. CASE Ioctl(s)
    BY <2>6, IoctlCases DEF MoveTo, FailLocked, Fail, Goto, Leave, LeaveTo
  <2>7. QED  BY <2>1, <2>2, <2>3, <2>4, <2>5, <2>6 DEF Inside
<1>2. QED  BY <1>1 DEF DriverInv, TypeOK

LEMMA OnlyIoctlAccepts ==
    ASSUME DriverInv, [Next]_vars, NEW t \in Task, Accepted(t)
    PROVE  Ioctl(t)
<1>1. pc[t] = "body" /\ call[t].op = "ioctl" /\ pc'[t] = "store"
  BY DEF Accepted, Doing
<1>2. CASE UNCHANGED vars \/ Unload \/ Load \/ \E f \in File : Open(f) \/ Release(f)
  BY <1>1, <1>2 DEF vars, taskvars, Unload, Load, Open, Release
<1>3. ASSUME NEW s \in Task,
             Call(s) \/ Acquire(s) \/ Interrupted(s) \/ Inside(s) \/ Return(s)
      PROVE  Ioctl(t)
  <2>1. s = t
    BY <1>1, <1>3, OthersStay
  <2>2. ~Call(t) /\ ~Acquire(t) /\ ~Interrupted(t) /\ ~Return(t)
    BY <1>1 DEF Call, Enter, Acquire, Interrupted, Return, UserSpace
  <2>3. /\ ~Read(t) /\ ~ReadFault(t) /\ ~WriteNoMemory(t) /\ ~WriteFault(t)
        /\ ~WriteAllocate(t) /\ ~WriteOops(t) /\ ~WriteCopy(t)
        /\ ~Llseek(t) /\ ~Store(t)
    BY <1>1 DEF Read, ReadFault, WriteNoMemory, WriteFault, WriteAllocate,
                WriteOops, WriteCopy, Llseek, Store, Doing
  <2>4. QED  BY <1>3, <2>1, <2>2, <2>3 DEF Inside
<1>4. QED  BY <1>2, <1>3 DEF Next

LEMMA AcceptedSeekInside ==
    ASSUME DriverInv, [Next]_vars, NEW t \in Task, Accepted(t)
    PROVE  /\ pos'[t] < TotalSize(circular_buffer)
           /\ circular_buffer.out_offs = 0 =>
                pos'[t] = CommandPosition(call[t].arg)
<1> DEFINE arg == call[t].arg
           newpos == SeekTo(circular_buffer, arg.write_cmd, arg.write_cmd_offset)
<1>1. Ioctl(t) /\ pc'[t] = "store" /\ call[t].op = "ioctl"
  BY OnlyIoctlAccepts DEF Accepted, Doing
<1>2. ~Fail(t) /\ ~FailLocked(t)
  BY <1>1 DEF Fail, FailLocked, Leave, LeaveTo, DriverInv, TypeOK
<1>3. arg \notin {NULL, BadAddress, OtherCmd} /\ MoveTo(t, newpos)
  BY <1>1, <1>2, IoctlCases
<1>4. newpos # EINVAL /\ pos' = [pos EXCEPT ![t] = newpos]
  <2> HIDE DEF newpos
  <2> QED  BY <1>2, <1>3 DEF MoveTo
<1>5. pos'[t] = newpos
  BY <1>4 DEF DriverInv, TypeOK
<1>6. arg.write_cmd \in Nat /\ arg.write_cmd_offset \in Nat
  BY <1>1, <1>3, SeekArgType DEF DriverInv
<1>7. Sized(circular_buffer) /\ circular_buffer.out_offs \in Slots
  BY CommandsAreSized DEF DriverInv
<1>8. /\ newpos < TotalSize(circular_buffer)
      /\ circular_buffer.out_offs = 0 =>
            newpos = SizeBefore(circular_buffer)[arg.write_cmd]
                        + arg.write_cmd_offset
  BY <1>4, <1>6, <1>7, SeekToInside
<1>9. QED  BY <1>5, <1>8 DEF CommandPosition

\* main.c:285-306: no seek ioctl moves a file beyond the stored commands, and
\* until the ring drops one, it arrives at the byte it names.
THEOREM SeeksStayInside == Spec => SeekToStaysInside
<1>1. DriverInv /\ [Next]_vars =>
        [\A t \in Task : Accepted(t) =>
            /\ pos'[t] < TotalSize(circular_buffer)
            /\ circular_buffer.out_offs = 0 =>
                    pos'[t] = CommandPosition(call[t].arg)]_vars
  BY AcceptedSeekInside
<1>2. QED  BY <1>1, DriverInvHolds, PTL DEF Spec, SeekToStaysInside

=============================================================================
