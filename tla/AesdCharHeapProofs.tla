------------------------- MODULE AesdCharHeapProofs -------------------------
(***************************************************************************)
(* The memory of the driver's commands: through every failure, including   *)
(* copies that fail after krealloc has moved a command, the blocks of the  *)
(* ring are allocated, separate and as long as their sizes say, and reads  *)
(* continue the log they hold.  While no copy fails, the unterminated      *)
(* command is as well kept as the others, no block is lost, and the driver *)
(* implements the abstract device.                                         *)
(***************************************************************************)
EXTENDS AesdCharProofs

\* The unterminated command is apart from the ring.  Its block may have been
\* freed by a failed write; then no write gets past krealloc any more.
PendingIsApart ==
    loaded =>
        /\ entry.buffptr \notin RingBlocks
        /\ entry.buffptr = NULL => entry.size = 0
        /\ entry.buffptr # NULL /\ mem[entry.buffptr] # Free =>
                Len(mem[entry.buffptr]) = entry.size

\* So is the block that krealloc has returned for it.
GrowingIsApart ==
    \A t \in Growing :
        presult[t] \notin RingBlocks /\ Len(mem[presult[t]]) = entry.size

HeapInv ==
    /\ DriverInv
    /\ RingOwnsItsBlocks
    /\ PendingIsApart
    /\ GrowingIsApart

-----------------------------------------------------------------------------
LEMMA InsideMeansLoaded ==
    ASSUME DriverInv, NEW t \in Task, pc[t] \notin UserSpace
    PROVE  loaded
<1>1. call[t].op # "none" /\ f_pos[call[t].file] # Closed
  BY DEF DriverInv, CallsUseOpenFiles
<1>2. call[t].file \in File
  BY <1>1, CallTypes DEF DriverInv, TypeOK
<1>3. QED  BY <1>1, <1>2 DEF DriverInv, OpenFilesKeepLoaded

\* A step that leaves the device alone, and after which no other task is
\* copying, keeps the memory in order.
LEMMA QuietStep ==
    ASSUME HeapInv, DriverInv', UNCHANGED devvars,
           \A t \in Task : pc'[t] = "copy" =>
                pc[t] = "copy" /\ presult'[t] = presult[t]
    PROVE  HeapInv'
<1>1. RingOwnsItsBlocks' /\ PendingIsApart'
  BY DEF HeapInv, RingOwnsItsBlocks, PendingIsApart, RingBlocks, UsedSlots,
         devvars
<1>2. GrowingIsApart'
  BY DEF HeapInv, GrowingIsApart, Growing, RingBlocks, devvars
<1>3. QED  BY <1>1, <1>2 DEF HeapInv

\* Places other than "copy" are entered by these.
LEMMA LeavingIsQuiet ==
    ASSUME TypeOK, NEW t \in Task, NEW place, place # "copy",
           \/ LeaveTo(t, place)
           \/ Goto(t, place) /\ \/ UNCHANGED presult
                                \/ presult' = [presult EXCEPT ![t] = NULL]
    PROVE  \A s \in Task : pc'[s] = "copy" =>
                pc[s] = "copy" /\ presult'[s] = presult[s]
  BY DEF TypeOK, LeaveTo, Goto

\* A used slot holds a command of the ring's own.
LEMMA UsedSlotType ==
    ASSUME TypeOK, NEW i \in UsedSlots
    PROVE  /\ i \in Slots
           /\ circular_buffer.entry[i] \in Commands
           /\ circular_buffer.entry[i].buffptr \in RingBlocks
           /\ circular_buffer.entry[i].buffptr \in Block
<1>1. i \in Slots /\ circular_buffer.entry[i].buffptr # NULL
  BY DEF UsedSlots
<1>2. circular_buffer.entry[i] \in Commands \cup {NoEntry}
  BY <1>1 DEF TypeOK, RingOf
<1>3. QED  BY <1>1, <1>2 DEF NoEntry, Commands, RingBlocks

\* The memory outside the ring may change as it likes.
LEMMA RingUntouched ==
    ASSUME HeapInv, loaded, circular_buffer' = circular_buffer,
           \A b \in RingBlocks : mem'[b] = mem[b]
    PROVE  RingOwnsItsBlocks'
<1>1. \A i \in UsedSlots : circular_buffer.entry[i].buffptr \in RingBlocks
  BY UsedSlotType DEF HeapInv, DriverInv
<1>2. UsedSlots' = UsedSlots
  BY DEF UsedSlots
<1>3. QED  BY <1>1, <1>2 DEF HeapInv, RingOwnsItsBlocks

-----------------------------------------------------------------------------
LEMMA HeapInit == Init => HeapInv
<1> SUFFICES ASSUME Init PROVE HeapInv
  OBVIOUS
<1>1. Consistent(circular_buffer, Commands) /\ circular_buffer = EmptyBuffer
  BY EmptyBufferIsConsistent DEF Init
<1>2. UsedSlots = {} /\ RingBlocks = {}
  BY <1>1 DEF UsedSlots, RingBlocks, EmptyBuffer, NoEntry
<1>3. QED
  BY <1>1, <1>2, InitHolds
     DEF Init, HeapInv, RingOwnsItsBlocks, PendingIsApart, GrowingIsApart,
         Growing, NoEntry

LEMMA HeapLoading ==
    ASSUME HeapInv, DriverInv', Unload \/ Load PROVE HeapInv'
<1>1. \A f \in File : f_pos[f] = Closed
  BY DEF Unload, Load, HeapInv, DriverInv, OpenFilesKeepLoaded
<1>2. \A t \in Task : pc'[t] # "copy"
  BY <1>1, NobodyInside DEF Unload, Load, HeapInv, taskvars, UserSpace
<1>3. GrowingIsApart'
  BY <1>2 DEF GrowingIsApart, Growing
<1>4. CASE Unload
  BY <1>3, <1>4 DEF Unload, HeapInv, RingOwnsItsBlocks, PendingIsApart
<1>5. CASE Load
  <2>1. Consistent(circular_buffer', Commands) /\ circular_buffer' = EmptyBuffer
    BY <1>5, EmptyBufferIsConsistent DEF Load
  <2>2. UsedSlots' = {} /\ RingBlocks' = {} /\ entry' = NoEntry
    BY <1>5, <2>1 DEF Load, UsedSlots, RingBlocks, EmptyBuffer, NoEntry
  <2>3. QED
    BY <1>3, <2>1, <2>2
       DEF HeapInv, RingOwnsItsBlocks, PendingIsApart, NoEntry
<1>6. QED  BY <1>4, <1>5

LEMMA HeapAllocate ==
    ASSUME HeapInv, DriverInv', NEW t \in Task, WriteAllocate(t)
    PROVE  HeapInv'
<1>1. /\ pc[t] = "body" /\ pc' = [pc EXCEPT ![t] = "copy"]
      /\ PendingIsLive
      /\ UNCHANGED <<loaded, circular_buffer, entry>>
  BY DEF WriteAllocate, Doing, Goto
<1>2. loaded
  BY <1>1, InsideMeansLoaded DEF HeapInv, UserSpace
<1>3. \A s \in Task : pc'[s] = "copy" => s = t
  BY <1>1, OnlyOneGrows DEF HeapInv, DriverInv, TypeOK
<1>4. RingBlocks' = RingBlocks
  BY <1>1 DEF RingBlocks
<1>5. /\ entry.buffptr \notin RingBlocks
      /\ entry.buffptr = NULL => entry.size = 0
      /\ entry.buffptr # NULL /\ mem[entry.buffptr] # Free =>
            Len(mem[entry.buffptr]) = entry.size
  BY <1>2 DEF HeapInv, PendingIsApart
<1>6. entry.buffptr # NULL => entry.buffptr \in Block /\ mem[entry.buffptr] # Free
  BY <1>1 DEF HeapInv, DriverInv, TypeOK, Commands, NoEntry, PendingIsLive
<1>7. presult' \in [Task -> Block \cup {NULL}] /\ mem \in [Block -> Seq(Byte) \cup {Free}]
  BY DEF HeapInv, DriverInv, TypeOK
<1>8. CASE KreallocInPlace(t)
  <2>1. entry.buffptr # NULL /\ presult'[t] = entry.buffptr /\ mem' = mem
    BY <1>8 DEF KreallocInPlace, HeapInv, DriverInv, TypeOK
  <2>2. RingOwnsItsBlocks'
    BY <1>1, <1>2, <2>1, RingUntouched
  <2>3. PendingIsApart'
    BY <1>1, <1>4, <1>5, <2>1 DEF PendingIsApart
  <2>4. GrowingIsApart'
    BY <1>1, <1>3, <1>4, <1>5, <1>6, <2>1 DEF GrowingIsApart, Growing
  <2>5. QED  BY <2>2, <2>3, <2>4 DEF HeapInv
<1>9. CASE KreallocMoves(t)
  <2>1. PICK b \in Block :
          /\ mem[b] = Free
          /\ presult' = [presult EXCEPT ![t] = b]
          /\ mem' = kfree([mem EXCEPT ![b] = PendingBytes], entry.buffptr)
    BY <1>9 DEF KreallocMoves
  <2>2. b \notin RingBlocks
    <3> SUFFICES ASSUME NEW i \in Slots, circular_buffer.entry[i].buffptr = b
                 PROVE  FALSE
      BY DEF RingBlocks
    <3>1. i \in UsedSlots
      BY NullAssumption DEF UsedSlots
    <3>2. QED  BY <1>2, <2>1, <3>1 DEF HeapInv, RingOwnsItsBlocks
  <2>3. entry.buffptr # b
    BY <2>1, <1>6, NullAssumption
  <2> DEFINE moved == [mem EXCEPT ![b] = PendingBytes]
  <2>4. mem' = IF entry.buffptr = NULL THEN moved
               ELSE [moved EXCEPT ![entry.buffptr] = Free]
    BY <2>1 DEF kfree
  <2>5. /\ mem'[b] = PendingBytes
        /\ \A c \in Block : c # b /\ c # entry.buffptr => mem'[c] = mem[c]
        /\ entry.buffptr # NULL => mem'[entry.buffptr] = Free
    BY <1>6, <1>7, <2>3, <2>4
  <2>6. Len(PendingBytes) = entry.size
    BY <1>5, <1>6 DEF PendingBytes
  <2>7. \A c \in RingBlocks : c \in Block
    BY DEF RingBlocks, HeapInv, DriverInv, TypeOK, RingOf, Commands, NoEntry
  <2>8. RingOwnsItsBlocks'
    BY <1>1, <1>2, <1>5, <2>2, <2>5, <2>7, RingUntouched
  <2>9. PendingIsApart'
    BY <1>1, <1>4, <1>5, <2>5 DEF PendingIsApart
  <2>10. presult'[t] = b
    BY <2>1 DEF HeapInv, DriverInv, TypeOK
  <2>11. GrowingIsApart'
    BY <1>1, <1>3, <1>4, <2>2, <2>5, <2>6, <2>10 DEF GrowingIsApart, Growing
  <2>12. QED  BY <2>8, <2>9, <2>11 DEF HeapInv
<1>10. QED  BY <1>8, <1>9 DEF WriteAllocate

\* The command stays unterminated: only its own block changes.
LEMMA HeapExtend ==
    ASSUME HeapInv, NEW b \in Block, loaded, b \notin RingBlocks,
           NEW bytes \in Seq(Byte), NEW size,
           size = Len(bytes),
           entry' = [buffptr |-> b, size |-> size],
           mem' = [mem EXCEPT ![b] = bytes],
           UNCHANGED <<loaded, circular_buffer>>
    PROVE  RingOwnsItsBlocks' /\ PendingIsApart'
<1>1. RingBlocks' = RingBlocks
  BY DEF RingBlocks
<1>2. mem'[b] = bytes /\ \A c \in Block : c # b => mem'[c] = mem[c]
  BY DEF HeapInv, DriverInv, TypeOK
<1>3. \A c \in RingBlocks : c \in Block
  BY DEF RingBlocks, HeapInv, DriverInv, TypeOK, RingOf, Commands, NoEntry
<1>4. RingOwnsItsBlocks'
  BY <1>2, <1>3, RingUntouched
<1>5. PendingIsApart'
  BY <1>1, <1>2, NullAssumption DEF PendingIsApart
<1>6. QED  BY <1>4, <1>5

\* The command is complete: it takes a slot of the ring, and the block of the
\* command that was there, if any, is freed.
LEMMA HeapComplete ==
    ASSUME HeapInv, NEW b \in Block, loaded, b \notin RingBlocks,
           NEW bytes \in Seq(Byte), NEW command \in Commands,
           command.buffptr = b, command.size = Len(bytes), Terminated(bytes),
           circular_buffer' = AddEntry(circular_buffer, command),
           mem' = kfree([mem EXCEPT ![b] = bytes], Replaced(circular_buffer)),
           entry' = NoEntry,
           UNCHANGED loaded
    PROVE  RingOwnsItsBlocks' /\ PendingIsApart'
<1> DEFINE in == circular_buffer.in_offs
           old == Replaced(circular_buffer)
           slot(i) == circular_buffer.entry[i]
<1>1. /\ circular_buffer \in RingOf(Commands)
      /\ Consistent(circular_buffer, Commands)
      /\ mem \in [Block -> Seq(Byte) \cup {Free}]
  BY DEF HeapInv, DriverInv, TypeOK, RingOwnsItsBlocks
<1>2. Consistent(circular_buffer', Commands)
  BY <1>1, AddEntryConsistent
<1>3. circular_buffer'.entry = [circular_buffer.entry EXCEPT ![in] = command]
  BY AddEntryFields
<1>4. in \in Slots /\ circular_buffer.entry \in [Slots -> Commands \cup {NoEntry}]
  BY <1>1 DEF RingOf
<1>5. /\ circular_buffer'.entry[in] = command
      /\ \A i \in Slots : i # in => circular_buffer'.entry[i] = slot(i)
  BY <1>3, <1>4
<1>6. old = slot(in).buffptr
  BY DEF Replaced
<1>7. b # old /\ b # NULL /\ (old # NULL => old \in Block)
  BY <1>4, <1>6, NullAssumption DEF RingBlocks, Commands, NoEntry
<1>8. /\ mem'[b] = bytes
      /\ \A c \in Block : c # b /\ c # old => mem'[c] = mem[c]
  BY <1>1, <1>7 DEF kfree
<1> HIDE DEF in, old
\* The other used slots keep their commands, which are not the old one.
<1>9. ASSUME NEW i \in UsedSlots', i # in
      PROVE  /\ i \in UsedSlots
             /\ circular_buffer'.entry[i] = slot(i)
             /\ slot(i).buffptr \in RingBlocks
             /\ slot(i).buffptr # old
             /\ mem'[slot(i).buffptr] = mem[slot(i).buffptr]
  <2>1. i \in Slots /\ circular_buffer'.entry[i].buffptr # NULL
    BY DEF UsedSlots
  <2>2. circular_buffer'.entry[i] = slot(i) /\ i \in UsedSlots
    BY <1>5, <1>9, <2>1 DEF UsedSlots
  <2>3. slot(i).buffptr \in RingBlocks /\ slot(i).buffptr \in Block
    BY <2>2, UsedSlotType DEF HeapInv, DriverInv
  <2>4. slot(i).buffptr # old
    <3>1. CASE in \in UsedSlots
      BY <1>6, <1>9, <2>2, <3>1 DEF HeapInv, RingOwnsItsBlocks
    <3>2. CASE in \notin UsedSlots
      BY <1>4, <1>6, <2>1, <2>2, <3>2 DEF UsedSlots
    <3>3. QED  BY <3>1, <3>2
  <2>5. slot(i).buffptr # b
    BY <2>3
  <2>6. QED  BY <1>8, <2>2, <2>3, <2>4, <2>5
<1>10. in \in UsedSlots'
  BY <1>4, <1>5, <1>7 DEF UsedSlots
<1>11. \A i \in UsedSlots' :
         /\ mem'[circular_buffer'.entry[i].buffptr] # Free
         /\ Len(mem'[circular_buffer'.entry[i].buffptr])
                = circular_buffer'.entry[i].size
         /\ Terminated(mem'[circular_buffer'.entry[i].buffptr])
  <2> SUFFICES ASSUME NEW i \in UsedSlots'
               PROVE  LET e == circular_buffer'.entry[i] IN
                      /\ mem'[e.buffptr] # Free
                      /\ Len(mem'[e.buffptr]) = e.size
                      /\ Terminated(mem'[e.buffptr])
    OBVIOUS
  <2>1. CASE i = in
    BY <1>5, <1>8, <2>1, MarkAssumption
  <2>2. CASE i # in
    <3>1. /\ i \in UsedSlots
          /\ circular_buffer'.entry[i] = slot(i)
          /\ mem'[slot(i).buffptr] = mem[slot(i).buffptr]
      BY <1>9, <2>2
    <3>2. /\ mem[slot(i).buffptr] # Free
          /\ Len(mem[slot(i).buffptr]) = slot(i).size
          /\ Terminated(mem[slot(i).buffptr])
      BY <3>1 DEF HeapInv, RingOwnsItsBlocks
    <3>3. QED
      <4> HIDE DEF slot
      <4> QED  BY <3>1, <3>2, Zenon
  <2>3. QED  BY <2>1, <2>2
<1>12. \A i, j \in UsedSlots' :
         circular_buffer'.entry[i].buffptr = circular_buffer'.entry[j].buffptr
            => i = j
  <2>1. \A i \in UsedSlots' : i # in => circular_buffer'.entry[i].buffptr # b
    BY <1>9
  <2>2. \A i, j \in UsedSlots' :
          i # in /\ j # in /\
          circular_buffer'.entry[i].buffptr = circular_buffer'.entry[j].buffptr
            => i = j
    BY <1>9 DEF HeapInv, RingOwnsItsBlocks
  <2>3. QED  BY <1>5, <2>1, <2>2
<1>13. RingOwnsItsBlocks'
  BY <1>2, <1>11, <1>12 DEF RingOwnsItsBlocks
<1>14. PendingIsApart'
  BY DEF PendingIsApart, RingBlocks, NoEntry
<1>15. QED  BY <1>13, <1>14

LEMMA HeapCopy ==
    ASSUME HeapInv, DriverInv', NEW t \in Task, WriteCopy(t)
    PROVE  HeapInv'
<1> DEFINE bytes == mem[presult[t]] \o call[t].arg
           command == [buffptr |-> presult[t],
                       size |-> entry.size + Len(call[t].arg)]
<1>1. /\ pc[t] = "copy" /\ call[t].op = "write"
      /\ \/ /\ Terminated(bytes)
            /\ circular_buffer' = AddEntry(circular_buffer, command)
            /\ mem' = kfree([mem EXCEPT ![presult[t]] = bytes],
                            Replaced(circular_buffer))
            /\ entry' = NoEntry
         \/ /\ entry' = command
            /\ mem' = [mem EXCEPT ![presult[t]] = bytes]
            /\ UNCHANGED circular_buffer
      /\ pc' = [pc EXCEPT ![t] = "return"]
      /\ UNCHANGED loaded
  BY DEF WriteCopy, Doing, Goto
<1>2. loaded
  BY <1>1, InsideMeansLoaded DEF HeapInv, UserSpace
<1>3. /\ presult[t] \in Block /\ presult[t] \notin RingBlocks
      /\ mem[presult[t]] \in Seq(Byte) /\ Len(mem[presult[t]]) = entry.size
  BY <1>1 DEF HeapInv, GrowingIsApart, Growing, DriverInv, TypeOK,
              GrowingHasBlock
<1>4. call[t].arg \in Seq(Byte) /\ Len(call[t].arg) \in Nat
  BY <1>1, CallTypes, PayloadType DEF HeapInv, DriverInv, TypeOK
<1>5. bytes \in Seq(Byte) /\ command.size = Len(bytes)
  <2> DEFINE before == mem[presult[t]]
             new == call[t].arg
  <2>1. before \in Seq(Byte) /\ new \in Seq(Byte)
    BY <1>3, <1>4
  <2>2. before \o new \in Seq(Byte) /\ Len(before \o new) = Len(before) + Len(new)
    <3> HIDE DEF before, new
    <3> QED  BY <2>1
  <2>3. QED  BY <1>3, <2>2
<1>6. command \in Commands
  BY <1>3, <1>5 DEF Commands
<1>7. RingOwnsItsBlocks' /\ PendingIsApart'
  <2> HIDE DEF bytes
  <2>1. command.buffptr = presult[t]
    OBVIOUS
  <2>2. command = [buffptr |-> presult[t], size |-> command.size]
    OBVIOUS
  <2> HIDE DEF command
  <2>3. CASE /\ Terminated(bytes)
             /\ circular_buffer' = AddEntry(circular_buffer, command)
             /\ mem' = kfree([mem EXCEPT ![presult[t]] = bytes],
                             Replaced(circular_buffer))
             /\ entry' = NoEntry
    BY <1>1, <1>2, <1>3, <1>5, <1>6, <2>1, <2>3, HeapComplete
  <2>4. CASE /\ entry' = command
             /\ mem' = [mem EXCEPT ![presult[t]] = bytes]
             /\ UNCHANGED circular_buffer
    BY <1>1, <1>2, <1>3, <1>5, <2>2, <2>4, HeapExtend
  <2>5. QED  BY <1>1, <2>3, <2>4
<1>8. \A s \in Task : pc'[s] # "copy"
  BY <1>1, OnlyOneGrows DEF HeapInv, DriverInv, TypeOK
<1>9. GrowingIsApart'
  BY <1>8 DEF GrowingIsApart, Growing
<1>10. QED  BY <1>7, <1>9 DEF HeapInv

LEMMA HeapQuiet ==
    ASSUME HeapInv, DriverInv', NEW t \in Task,
           \/ Call(t) \/ Acquire(t) \/ Interrupted(t) \/ Return(t)
           \/ Read(t) \/ ReadFault(t) \/ WriteNoMemory(t) \/ WriteOops(t)
           \/ WriteFault(t) \/ Llseek(t) \/ Ioctl(t) \/ Store(t)
    PROVE  HeapInv'
<1>1. TypeOK
  BY DEF HeapInv, DriverInv
<1>2. CASE Call(t)
  <2>1. UNCHANGED <<devvars, presult>> /\ pc' = [pc EXCEPT ![t] = "lock"]
    BY <1>2 DEF Call, Enter
  <2>2. QED  BY <1>1, <2>1, QuietStep DEF TypeOK
<1>3. CASE Acquire(t)
  BY <1>1, <1>3, LeavingIsQuiet, QuietStep DEF Acquire
<1>4. CASE Interrupted(t)
  BY <1>1, <1>4, LeavingIsQuiet, QuietStep DEF Interrupted
<1>5. CASE Return(t) \/ Store(t)
  BY <1>1, <1>5, LeavingIsQuiet, QuietStep DEF Return, Store, Leave
<1>6. CASE Read(t)
  BY <1>1, <1>6, LeavingIsQuiet, QuietStep DEF Read
<1>7. CASE Fail(t)
  BY <1>1, <1>7, LeavingIsQuiet, QuietStep DEF Fail, Leave
<1>8. CASE ReadFault(t) \/ WriteNoMemory(t) \/ WriteFault(t)
  BY <1>7, <1>8 DEF ReadFault, WriteNoMemory, WriteFault
<1>9. CASE WriteOops(t)
  BY <1>1, <1>9, LeavingIsQuiet, QuietStep DEF WriteOops
<1>10. ASSUME NEW newpos, MoveTo(t, newpos) PROVE HeapInv'
  <2>1. CASE FailLocked(t)
    BY <1>1, <2>1, LeavingIsQuiet, QuietStep DEF FailLocked
  <2>2. CASE Goto(t, "store") /\ UNCHANGED <<devvars, presult>>
    BY <1>1, <2>2, LeavingIsQuiet, QuietStep
  <2>3. QED  BY <1>10, <2>1, <2>2 DEF MoveTo
<1>11. CASE Llseek(t)
  BY <1>10, <1>11 DEF Llseek
<1>12. CASE Ioctl(t)
  <2>1. CASE FailLocked(t)
    BY <1>1, <2>1, LeavingIsQuiet, QuietStep DEF FailLocked
  <2>2. QED  BY <1>7, <1>10, <1>12, <2>1, IoctlCases
<1>13. QED
  BY <1>2, <1>3, <1>4, <1>5, <1>6, <1>8, <1>9, <1>11, <1>12

LEMMA HeapStep == HeapInv /\ [Next]_vars => HeapInv'
<1> SUFFICES ASSUME HeapInv, [Next]_vars PROVE HeapInv'
  OBVIOUS
<1>1. DriverInv'
  BY StepKeeps DEF HeapInv
<1>2. CASE Unload \/ Load
  BY <1>1, <1>2, HeapLoading
<1>3. ASSUME NEW f \in File, Open(f) \/ Release(f) PROVE HeapInv'
  BY <1>1, <1>3, QuietStep DEF Open, Release, taskvars
<1>4. ASSUME NEW t \in Task,
             Call(t) \/ Acquire(t) \/ Interrupted(t) \/ Inside(t) \/ Return(t)
      PROVE  HeapInv'
  BY <1>1, <1>4, HeapAllocate, HeapCopy, HeapQuiet DEF Inside
<1>5. CASE UNCHANGED vars
  BY <1>1, <1>5, QuietStep DEF vars, taskvars
<1>6. QED  BY <1>2, <1>3, <1>4, <1>5 DEF Next

\* aesd-circular-buffer.c:60, main.c:142-170: the blocks of the stored commands
\* are allocated, pairwise different and as long as their sizes say, through
\* failed allocations and copies, rejected calls, unload and reload.
THEOREM RingMemoryIsOwned == Spec => []RingOwnsItsBlocks
<1>1. HeapInv => RingOwnsItsBlocks
  BY DEF HeapInv
<1>2. QED  BY <1>1, HeapInit, HeapStep, PTL DEF Spec

-----------------------------------------------------------------------------
(***************************************************************************)
(* The driver when no copy from user space fails.  A task has a block from *)
(* krealloc only while it copies into it, and an answer to hand out only   *)
(* while it returns.                                                       *)
(***************************************************************************)
LocalsAreGone ==
    /\ ubuf = [t \in Task |-> ubuf[t]]
    /\ \A t \in Task : /\ pc[t] # "copy" => presult[t] = NULL
                       /\ pc[t] # "return" => ubuf[t] = << >>

LEMMA LeaveClears ==
    ASSUME DriverInv, LocalsAreGone, NEW t \in Task, NEW place,
           place \notin {"copy", "return"}, LeaveTo(t, place)
    PROVE  /\ LocalsAreGone'
           /\ pc[t] # "copy" => presult' = presult /\ Growing' = Growing
<1>1. /\ pc' = [pc EXCEPT ![t] = place]
      /\ presult' = [presult EXCEPT ![t] = NULL]
      /\ ubuf' = [ubuf EXCEPT ![t] = << >>]
  BY DEF LeaveTo
<1>2. LocalsAreGone'
  BY <1>1 DEF DriverInv, TypeOK, LocalsAreGone
<1>3. ASSUME pc[t] # "copy"
      PROVE  presult' = presult /\ Growing' = Growing
  BY <1>1, <1>3 DEF DriverInv, TypeOK, LocalsAreGone, Growing
<1>4. QED  BY <1>2, <1>3

LEMMA GotoClears ==
    ASSUME DriverInv, LocalsAreGone, NEW t \in Task, NEW place,
           pc[t] \notin {"copy", "return"}, place # "copy",
           pc' = [pc EXCEPT ![t] = place], presult' = presult,
           \/ ubuf' = ubuf
           \/ place = "return" /\ \E x : ubuf' = [ubuf EXCEPT ![t] = x]
    PROVE  LocalsAreGone' /\ Growing' = Growing
  BY DEF DriverInv, TypeOK, LocalsAreGone, Growing

\* No step but those of aesd_write changes the device or who is growing it.
Quiet == UNCHANGED <<devvars, presult>> /\ Growing' = Growing

LEMMA QuietSteps ==
    ASSUME DriverInv, LocalsAreGone, NEW t \in Task,
           \/ Call(t) \/ Acquire(t) \/ Interrupted(t) \/ Return(t)
           \/ Read(t) \/ ReadFault(t) \/ WriteNoMemory(t) \/ WriteOops(t)
           \/ Llseek(t) \/ Ioctl(t) \/ Store(t)
    PROVE  LocalsAreGone' /\ Quiet
<1>1. CASE Call(t)
  <2>1. /\ pc[t] \in UserSpace /\ pc' = [pc EXCEPT ![t] = "lock"]
        /\ UNCHANGED <<devvars, presult, ubuf>>
    BY <1>1 DEF Call, Enter
  <2>2. QED  BY <2>1, GotoClears DEF Quiet, UserSpace
<1>2. CASE Acquire(t)
  BY <1>2, GotoClears DEF Acquire, Goto, Quiet
<1>3. CASE Interrupted(t) \/ Return(t) \/ Store(t)
  BY <1>3, LeaveClears DEF Interrupted, Return, Store, Leave, Quiet, devvars
<1>4. ASSUME Fail(t), pc[t] = "body" PROVE LocalsAreGone' /\ Quiet
  BY <1>4, LeaveClears DEF Fail, Leave, Quiet, devvars
<1>5. ASSUME FailLocked(t), pc[t] = "body" PROVE LocalsAreGone' /\ Quiet
  BY <1>5, LeaveClears DEF FailLocked, Quiet, devvars
<1>6. CASE Read(t)
  <2>1. /\ pc[t] = "body" /\ pc' = [pc EXCEPT ![t] = "return"]
        /\ UNCHANGED <<devvars, presult>>
        /\ ubuf' = ubuf \/ \E x : ubuf' = [ubuf EXCEPT ![t] = x]
    BY <1>6 DEF Read, Doing, Goto
  <2>2. QED  BY <2>1, GotoClears DEF Quiet
<1>7. CASE ReadFault(t) \/ WriteNoMemory(t)
  BY <1>4, <1>7 DEF ReadFault, WriteNoMemory, Doing
<1>8. CASE WriteOops(t)
  BY <1>8, GotoClears DEF WriteOops, Doing, Goto, Quiet, devvars
<1>9. ASSUME NEW newpos, pc[t] = "body", MoveTo(t, newpos)
      PROVE  LocalsAreGone' /\ Quiet
  <2>1. CASE /\ Goto(t, "store")
             /\ UNCHANGED <<devvars, presult, ubuf>>
    BY <1>9, <2>1, GotoClears DEF Goto, Quiet
  <2>2. QED  BY <1>5, <1>9, <2>1 DEF MoveTo
<1>10. CASE Llseek(t)
  BY <1>9, <1>10 DEF Llseek, Doing
<1>11. CASE Ioctl(t)
  BY <1>4, <1>5, <1>9, <1>11, IoctlCases
<1>12. QED
  BY <1>1, <1>2, <1>3, <1>6, <1>7, <1>8, <1>10, <1>11

LEMMA LocalsStep == DriverInv /\ LocalsAreGone /\ [Next]_vars => LocalsAreGone'
<1> SUFFICES ASSUME DriverInv, LocalsAreGone, [Next]_vars PROVE LocalsAreGone'
  OBVIOUS
<1>1. CASE Unload \/ Load \/ (\E f \in File : Open(f) \/ Release(f))
           \/ UNCHANGED vars
  BY <1>1 DEF Unload, Load, Open, Release, vars, taskvars, LocalsAreGone
<1>2. ASSUME NEW t \in Task,
             Call(t) \/ Acquire(t) \/ Interrupted(t) \/ Inside(t) \/ Return(t)
      PROVE  LocalsAreGone'
  <2>1. CASE WriteAllocate(t)
    <3>1. /\ pc[t] = "body" /\ pc' = [pc EXCEPT ![t] = "copy"]
          /\ \E b : presult' = [presult EXCEPT ![t] = b]
          /\ ubuf' = ubuf
      BY <2>1 DEF WriteAllocate, KreallocInPlace, KreallocMoves, Doing, Goto
    <3>2. QED  BY <3>1 DEF DriverInv, TypeOK, LocalsAreGone
  <2>2. CASE WriteCopy(t)
    <3>1. /\ pc[t] = "copy" /\ pc' = [pc EXCEPT ![t] = "return"]
          /\ presult' = [presult EXCEPT ![t] = NULL]
          /\ ubuf' = ubuf
      BY <2>2 DEF WriteCopy, Doing, Goto
    <3>2. QED  BY <3>1 DEF DriverInv, TypeOK, LocalsAreGone
  <2>3. CASE WriteFault(t)
    BY <2>3, LeaveClears DEF WriteFault, Fail, Leave
  <2>4. QED  BY <1>2, <2>1, <2>2, <2>3, QuietSteps DEF Inside
<1>3. QED  BY <1>1, <1>2 DEF Next

LEMMA NextCases ==
    ASSUME DriverInv, LocalsAreGone, [Next]_vars, ~CopyFaults
    PROVE  \/ Unload \/ Load \/ Quiet
           \/ \E t \in Task : WriteAllocate(t) \/ WriteCopy(t)
<1>1. CASE (\E f \in File : Open(f) \/ Release(f)) \/ UNCHANGED vars
  BY <1>1 DEF Open, Release, vars, taskvars, Quiet, Growing
<1>2. ASSUME NEW t \in Task,
             Call(t) \/ Acquire(t) \/ Interrupted(t) \/ Inside(t) \/ Return(t)
      PROVE  Quiet \/ WriteAllocate(t) \/ WriteCopy(t)
  <2>1. ~WriteFault(t)
    BY DEF WriteFault
  <2>2. QED  BY <1>2, <2>1, QuietSteps DEF Inside
<1>3. QED  BY <1>1, <1>2 DEF Next

\* Outside aesd_write the unterminated command is allocated and has no
\* newline; inside it, so is the block that takes its place, and what
\* dev->entry points to is that block or freed.
PendingStands ==
    loaded =>
        /\ Growing = {} /\ entry.buffptr # NULL =>
                mem[entry.buffptr] # Free /\ ~Terminated(mem[entry.buffptr])
        /\ \A t \in Growing :
                /\ ~Terminated(mem[presult[t]])
                /\ \/ entry.buffptr \in {NULL, presult[t]}
                   \/ mem[entry.buffptr] = Free

CleanInv == HeapInv /\ LocalsAreGone /\ PendingStands

\* What a task does that allocates: the bytes so far move to its block.
LEMMA AllocateEffect ==
    ASSUME CleanInv, NEW t \in Task, WriteAllocate(t)
    PROVE  /\ loaded /\ UNCHANGED <<loaded, circular_buffer, entry>>
           /\ Growing = {} /\ Growing' = {t}
           /\ presult'[t] \in Block /\ presult'[t] \notin RingBlocks
           /\ mem'[presult'[t]] = PendingBytes
           /\ \A c \in Block : c # presult'[t] /\ c # entry.buffptr =>
                    mem'[c] = mem[c]
           /\ \/ entry.buffptr \in {NULL, presult'[t]}
              \/ mem'[entry.buffptr] = Free
<1>1. /\ pc[t] = "body" /\ pc' = [pc EXCEPT ![t] = "copy"]
      /\ UNCHANGED <<loaded, circular_buffer, entry>>
      /\ KreallocInPlace(t) \/ KreallocMoves(t)
  BY DEF WriteAllocate, Doing, Goto
<1>2. DriverInv /\ TypeOK
  BY DEF CleanInv, HeapInv, DriverInv
<1>3. loaded
  BY <1>1, <1>2, InsideMeansLoaded DEF UserSpace
<1>4. Growing = {} /\ Growing' = {t}
  <2>1. \A s \in Task : pc[s] # "copy"
    BY <1>1, <1>2, OnlyOneGrows
  <2>2. \A s \in Task : pc'[s] = "copy" <=> s = t
    BY <1>1, <1>2, <2>1 DEF TypeOK
  <2>3. QED  BY <2>1, <2>2 DEF Growing
<1>5. /\ mem \in [Block -> Seq(Byte) \cup {Free}]
      /\ presult \in [Task -> Block \cup {NULL}]
      /\ entry.buffptr # NULL => entry.buffptr \in Block
      /\ entry.buffptr \notin RingBlocks
      /\ entry.buffptr # NULL => mem[entry.buffptr] # Free
  BY <1>2, <1>3, <1>4
     DEF TypeOK, Commands, NoEntry, CleanInv, HeapInv, PendingIsApart,
         PendingStands
<1>6. CASE KreallocInPlace(t)
  <2>1. entry.buffptr # NULL /\ presult'[t] = entry.buffptr /\ mem' = mem
    BY <1>5, <1>6 DEF KreallocInPlace
  <2>2. QED  BY <1>1, <1>3, <1>4, <1>5, <2>1 DEF PendingBytes
<1>7. CASE KreallocMoves(t)
  <2>1. PICK b \in Block :
          /\ mem[b] = Free
          /\ presult' = [presult EXCEPT ![t] = b]
          /\ mem' = kfree([mem EXCEPT ![b] = PendingBytes], entry.buffptr)
    BY <1>7 DEF KreallocMoves
  <2>2. b \notin RingBlocks
    <3> SUFFICES ASSUME NEW i \in Slots, circular_buffer.entry[i].buffptr = b
                 PROVE  FALSE
      BY DEF RingBlocks
    <3>1. i \in UsedSlots
      BY NullAssumption DEF UsedSlots
    <3>2. QED
      BY <1>3, <2>1, <3>1 DEF CleanInv, HeapInv, RingOwnsItsBlocks
  <2>3. entry.buffptr # b
    BY <1>5, <2>1, NullAssumption
  <2> DEFINE moved == [mem EXCEPT ![b] = PendingBytes]
  <2>4. mem' = IF entry.buffptr = NULL THEN moved
               ELSE [moved EXCEPT ![entry.buffptr] = Free]
    BY <2>1 DEF kfree
  <2>5. /\ mem'[b] = PendingBytes
        /\ \A c \in Block : c # b /\ c # entry.buffptr => mem'[c] = mem[c]
        /\ entry.buffptr # NULL => mem'[entry.buffptr] = Free
    BY <1>5, <2>3, <2>4
  <2>6. presult'[t] = b
    BY <1>5, <2>1
  <2>7. QED  BY <1>1, <1>3, <1>4, <2>2, <2>5, <2>6
<1>8. QED  BY <1>1, <1>6, <1>7

\* And one that copies: the command is complete and takes a slot of the
\* ring, or it is longer.
LEMMA CopyEffect ==
    ASSUME CleanInv, NEW t \in Task, WriteCopy(t)
    PROVE  LET b == presult[t]
               bytes == mem[b] \o call[t].arg
               command == [buffptr |-> b, size |-> entry.size + Len(call[t].arg)]
               old == Replaced(circular_buffer)
           IN  /\ loaded /\ UNCHANGED loaded
               /\ Growing = {t} /\ Growing' = {}
               /\ b \in Block /\ b \notin RingBlocks
               /\ mem[b] \in Seq(Byte)
               /\ call[t].arg \in Payload /\ call[t].arg \in Seq(Byte)
               /\ command \in Commands
               /\ mem'[b] = bytes
               /\ \/ entry.buffptr \in {NULL, b}
                  \/ mem[entry.buffptr] = Free
               /\ IF Terminated(bytes)
                  THEN /\ circular_buffer' = AddEntry(circular_buffer, command)
                       /\ entry' = NoEntry
                       /\ \A c \in Block : c # b /\ c # old => mem'[c] = mem[c]
                       /\ old # NULL => mem'[old] = Free
                  ELSE /\ UNCHANGED circular_buffer
                       /\ entry' = command
                       /\ \A c \in Block : c # b => mem'[c] = mem[c]
<1> DEFINE b == presult[t]
           bytes == mem[b] \o call[t].arg
           command == [buffptr |-> b, size |-> entry.size + Len(call[t].arg)]
           old == Replaced(circular_buffer)
<1>1. /\ pc[t] = "copy" /\ call[t].op = "write"
      /\ IF Terminated(bytes)
         THEN /\ circular_buffer' = AddEntry(circular_buffer, command)
              /\ mem' = kfree([mem EXCEPT ![b] = bytes], old)
              /\ entry' = NoEntry
         ELSE /\ entry' = command
              /\ mem' = [mem EXCEPT ![b] = bytes]
              /\ UNCHANGED circular_buffer
      /\ pc' = [pc EXCEPT ![t] = "return"]
      /\ UNCHANGED loaded
  BY DEF WriteCopy, Doing, Goto
<1>2. DriverInv /\ TypeOK
  BY DEF CleanInv, HeapInv, DriverInv
<1>3. loaded
  BY <1>1, <1>2, InsideMeansLoaded DEF UserSpace
<1>4. Growing = {t} /\ Growing' = {}
  <2>1. \A s \in Task : pc[s] = "copy" <=> s = t
    BY <1>1, <1>2, OnlyOneGrows
  <2>2. \A s \in Task : pc'[s] # "copy"
    BY <1>1, <1>2, <2>1 DEF TypeOK
  <2>3. QED  BY <2>1, <2>2 DEF Growing
<1>5. /\ b \in Block /\ b \notin RingBlocks
      /\ mem \in [Block -> Seq(Byte) \cup {Free}]
      /\ mem[b] \in Seq(Byte)
  BY <1>2, <1>4
     DEF CleanInv, HeapInv, GrowingIsApart, DriverInv, TypeOK, GrowingHasBlock
<1>6. call[t].arg \in Payload /\ call[t].arg \in Seq(Byte) /\ Len(call[t].arg) \in Nat
  BY <1>1, <1>2, CallTypes, PayloadType DEF TypeOK
<1>7. command \in Commands
  <2>1. entry.size \in Nat
    BY <1>2 DEF TypeOK, Commands, NoEntry
  <2>2. QED  BY <1>5, <1>6, <2>1 DEF Commands
<1>8. entry.buffptr \in {NULL, b} \/ mem[entry.buffptr] = Free
  BY <1>3, <1>4 DEF CleanInv, PendingStands
<1>9. b # old /\ (old # NULL => old \in Block)
  <2>1. circular_buffer.entry[circular_buffer.in_offs] \in Commands \cup {NoEntry}
        /\ circular_buffer.in_offs \in Slots
    BY <1>2 DEF TypeOK, RingOf
  <2>2. QED
    BY <1>5, <2>1, NullAssumption DEF Replaced, RingBlocks, Commands, NoEntry
<1> HIDE DEF bytes, old, command
<1>10. mem'[b] = bytes
  BY <1>1, <1>5, <1>9 DEF kfree
<1>11. CASE Terminated(bytes)
  <2>1. mem' = kfree([mem EXCEPT ![b] = bytes], old)
    BY <1>1, <1>11
  <2>2. /\ \A c \in Block : c # b /\ c # old => mem'[c] = mem[c]
        /\ old # NULL => mem'[old] = Free
    BY <1>5, <1>9, <2>1 DEF kfree
  <2>3. QED
    BY <1>1, <1>3, <1>4, <1>5, <1>6, <1>7, <1>8, <1>10, <1>11, <2>2
       DEF bytes, old, command
<1>12. CASE ~Terminated(bytes)
  <2>1. \A c \in Block : c # b => mem'[c] = mem[c]
    BY <1>1, <1>5, <1>12
  <2>2. QED
    BY <1>1, <1>3, <1>4, <1>5, <1>6, <1>7, <1>8, <1>10, <1>12, <2>1
       DEF bytes, old, command
<1>13. QED  BY <1>11, <1>12

LEMMA CleanInit == Init => CleanInv
<1> SUFFICES ASSUME Init PROVE CleanInv
  OBVIOUS
<1>1. LocalsAreGone /\ PendingStands
  BY DEF Init, LocalsAreGone, PendingStands, Growing, NoEntry
<1>2. QED  BY <1>1, HeapInit DEF CleanInv

LEMMA EmptyIsNotTerminated == ~Terminated(<< >>)
  BY DEF Terminated, Contains

LEMMA CleanStep ==
    ASSUME ~CopyFaults, CleanInv, [Next]_vars PROVE CleanInv'
<1>1. DriverInv /\ LocalsAreGone /\ HeapInv' /\ LocalsAreGone'
  BY HeapStep, LocalsStep DEF CleanInv, HeapInv
<1>2. CASE Unload
  BY <1>1, <1>2 DEF Unload, CleanInv, PendingStands
<1>3. CASE Load
  <2>1. Growing' = {}
    <3>1. \A f \in File : f_pos[f] = Closed
      BY <1>1, <1>3 DEF Load, DriverInv, OpenFilesKeepLoaded
    <3>2. \A t \in Task : pc'[t] # "copy"
      BY <1>1, <1>3, <3>1, NobodyInside DEF Load, taskvars, UserSpace
    <3>3. QED  BY <3>2 DEF Growing
  <2>2. PendingStands'
    BY <1>3, <2>1 DEF Load, PendingStands, NoEntry
  <2>3. QED  BY <1>1, <2>2 DEF CleanInv
<1>4. CASE Quiet
  BY <1>1, <1>4 DEF Quiet, devvars, CleanInv, PendingStands
<1>5. ASSUME NEW t \in Task, WriteAllocate(t) PROVE CleanInv'
  <2>1. /\ loaded /\ UNCHANGED <<loaded, circular_buffer, entry>>
        /\ Growing = {} /\ Growing' = {t}
        /\ mem'[presult'[t]] = PendingBytes
        /\ \/ entry.buffptr \in {NULL, presult'[t]}
           \/ mem'[entry.buffptr] = Free
    BY <1>5, AllocateEffect
  <2>2. ~Terminated(PendingBytes)
    BY <2>1, EmptyIsNotTerminated DEF CleanInv, PendingStands, PendingBytes
  <2>3. PendingStands'
    BY <2>1, <2>2 DEF PendingStands
  <2>4. QED  BY <1>1, <2>3 DEF CleanInv
<1>6. ASSUME NEW t \in Task, WriteCopy(t) PROVE CleanInv'
  <2> DEFINE b == presult[t]
             bytes == mem[b] \o call[t].arg
             command == [buffptr |-> b, size |-> entry.size + Len(call[t].arg)]
  <2>1. /\ Growing' = {}
        /\ mem'[b] = bytes
        /\ mem[b] \in Seq(Byte) /\ call[t].arg \in Seq(Byte)
        /\ Terminated(bytes) => entry' = NoEntry
        /\ ~Terminated(bytes) => entry' = command
    BY <1>6, CopyEffect, Zenon
  <2>2. bytes \in Seq(Byte)
    <3> DEFINE before == mem[b]
               new == call[t].arg
    <3>1. before \in Seq(Byte) /\ new \in Seq(Byte)
      BY <2>1
    <3>2. before \o new \in Seq(Byte)
      <4> HIDE DEF before, new
      <4> QED  BY <3>1
    <3>3. QED  BY <3>2
  <2> HIDE DEF bytes
  <2>3. PendingStands'
    BY <2>1, <2>2, MarkAssumption DEF PendingStands, NoEntry
  <2>4. QED  BY <1>1, <2>3 DEF CleanInv
<1>7. QED  BY <1>1, <1>2, <1>3, <1>4, <1>5, <1>6, NextCases

\* main.c:155-171: while no copy from user space fails, the unterminated
\* command has an allocated block of its own, apart from the ring's, without a
\* newline and as long as dev->entry.size says, through failed allocations,
\* unload and reload.
THEOREM PendingIsOwned ==
    ASSUME ~CopyFaults PROVE Spec => []PendingOwnsItsBlock
<1>1. CleanInv => PendingOwnsItsBlock
  BY DEF CleanInv, HeapInv, PendingIsApart, PendingStands, PendingOwnsItsBlock
<1>2. Init => CleanInv
  BY CleanInit
<1>3. CleanInv /\ [Next]_vars => CleanInv'
  BY CleanStep
<1>4. QED  BY <1>1, <1>2, <1>3, PTL DEF Spec

-----------------------------------------------------------------------------
\* Outside "copy" and "return" nobody holds a block: presult is NULL but for
\* the task that grows the command.
LEMMA NobodyElseGrows ==
    ASSUME LocalsAreGone, NEW s \in Task, s \notin Growing
    PROVE  presult[s] = NULL
  BY DEF LocalsAreGone, Growing

LEMMA NoStepLeaks ==
    ASSUME ~CopyFaults, CleanInv, [Next]_vars, loaded, loaded'
    PROVE  Orphans' \subseteq Orphans
<1>1. DriverInv /\ TypeOK /\ LocalsAreGone /\ LocalsAreGone'
  BY LocalsStep DEF CleanInv, HeapInv, DriverInv
<1>2. ~Unload /\ ~Load
  BY DEF Unload, Load
<1>3. CASE Quiet
  BY <1>3 DEF Quiet, devvars, Orphans, Reachable, RingBlocks
<1>4. ASSUME NEW t \in Task, WriteAllocate(t) PROVE Orphans' \subseteq Orphans
  <2>1. /\ UNCHANGED <<circular_buffer, entry>>
        /\ Growing = {}
        /\ presult'[t] \in Block
        /\ \A c \in Block : c # presult'[t] /\ c # entry.buffptr =>
                 mem'[c] = mem[c]
    BY <1>4, AllocateEffect
  <2>2. \A s \in Task : presult[s] = NULL
    BY <1>1, <2>1, NobodyElseGrows
  <2> SUFFICES ASSUME NEW c \in Orphans' PROVE c \in Orphans
    OBVIOUS
  <2>3. /\ c \in Block /\ mem'[c] # Free
        /\ c \notin RingBlocks /\ c # entry.buffptr /\ c # presult'[t]
    BY <2>1 DEF Orphans, Reachable, RingBlocks
  <2>4. c # NULL
    BY <2>3, NullAssumption
  <2>5. QED  BY <2>1, <2>2, <2>3, <2>4 DEF Orphans, Reachable
<1>5. ASSUME NEW t \in Task, WriteCopy(t) PROVE Orphans' \subseteq Orphans
  <2> DEFINE b == presult[t]
             bytes == mem[b] \o call[t].arg
             command == [buffptr |-> b, size |-> entry.size + Len(call[t].arg)]
             old == Replaced(circular_buffer)
             in == circular_buffer.in_offs
  <2>1. /\ Growing = {t} /\ b \in Block
        /\ \/ entry.buffptr \in {NULL, b}
           \/ mem[entry.buffptr] = Free
        /\ \/ /\ circular_buffer' = AddEntry(circular_buffer, command)
              /\ \A c \in Block : c # b /\ c # old => mem'[c] = mem[c]
              /\ old # NULL => mem'[old] = Free
           \/ /\ UNCHANGED circular_buffer
              /\ entry' = command
              /\ \A c \in Block : c # b => mem'[c] = mem[c]
    BY <1>5, CopyEffect
  <2>2. \A s \in Task : presult[s] \in {NULL, b}
    BY <1>1, <2>1, NobodyElseGrows
  <2> SUFFICES ASSUME NEW c \in Orphans' PROVE c \in Orphans
    OBVIOUS
  <2>3. /\ c \in Block /\ c # NULL /\ mem'[c] # Free
        /\ c \notin RingBlocks' /\ c # entry'.buffptr
    BY NullAssumption DEF Orphans, Reachable
  <2>4. /\ in \in Slots
        /\ circular_buffer.entry \in [Slots -> Commands \cup {NoEntry}]
    BY <1>1 DEF TypeOK, RingOf
  <2>5. c # b /\ mem[c] # Free /\ c \notin RingBlocks
    <3>1. CASE /\ circular_buffer' = AddEntry(circular_buffer, command)
               /\ \A d \in Block : d # b /\ d # old => mem'[d] = mem[d]
               /\ old # NULL => mem'[old] = Free
      <4>1. circular_buffer'.entry = [circular_buffer.entry EXCEPT ![in] = command]
        BY <3>1, AddEntryFields
      <4>2. circular_buffer'.entry[in] = command /\ command.buffptr = b
        BY <2>4, <4>1
      <4> HIDE DEF command
      <4>3. \A i \in Slots : i # in =>
                circular_buffer'.entry[i] = circular_buffer.entry[i]
        BY <2>4, <4>1
      <4>4. c # b
        BY <2>3, <2>4, <4>2 DEF RingBlocks
      <4>5. c # old
        BY <2>3, <3>1
      <4>6. c \notin RingBlocks
        <5> SUFFICES ASSUME NEW i \in Slots,
                            c = circular_buffer.entry[i].buffptr
                     PROVE  FALSE
          BY DEF RingBlocks
        <5>1. i # in
          BY <4>5 DEF Replaced
        <5>2. c = circular_buffer'.entry[i].buffptr
          BY <4>3, <5>1
        <5>3. QED  BY <2>3, <5>2 DEF RingBlocks
      <4>7. QED  BY <2>3, <3>1, <4>4, <4>5, <4>6
    <3>2. CASE /\ UNCHANGED circular_buffer
               /\ entry' = command
               /\ \A d \in Block : d # b => mem'[d] = mem[d]
      <4>1. entry'.buffptr = b
        BY <3>2
      <4>2. QED  BY <2>3, <3>2, <4>1 DEF RingBlocks
    <3>3. QED  BY <2>1, <3>1, <3>2
  <2>6. c # entry.buffptr
    BY <2>1, <2>3, <2>5
  <2>7. QED  BY <2>2, <2>3, <2>5, <2>6 DEF Orphans, Reachable
<1>6. QED  BY <1>1, <1>2, <1>3, <1>4, <1>5, NextCases

\* main.c:142-168: while no copy from user space fails, no step of a loaded
\* driver loses the last pointer to an allocated block: the block krealloc
\* moved, and the one of the command the ring drops, are freed.
THEOREM WritesDoNotLeak ==
    ASSUME ~CopyFaults PROVE Spec => NoLeakWhileLoaded
<1>1. Init => CleanInv
  BY CleanInit
<1>2. CleanInv /\ [Next]_vars => CleanInv'
  BY CleanStep
<1>3. CleanInv /\ [Next]_vars =>
        [loaded /\ loaded' => Orphans' \subseteq Orphans]_vars
  BY NoStepLeaks
<1>4. QED  BY <1>1, <1>2, <1>3, PTL DEF Spec, NoLeakWhileLoaded

-----------------------------------------------------------------------------
(***************************************************************************)
(* The bytes of the stored commands, oldest first.                         *)
(***************************************************************************)
\* Each command is in a slot of the ring and its bytes in a block of it.
CommandsAreHeld ==
    LET C == Count(circular_buffer)
        commands == Contents(circular_buffer)
    IN
    /\ C \in 0..MaxWriteOps /\ commands \in Seq(Commands) /\ Len(commands) = C
    /\ CommandBytes \in Seq(Seq(Byte)) /\ Len(CommandBytes) = C
    /\ \A k \in 1..C :
        /\ Slot(circular_buffer, k - 1) \in Slots
        /\ commands[k] = circular_buffer.entry[Slot(circular_buffer, k - 1)]
        /\ commands[k] \in Commands /\ commands[k].buffptr \in RingBlocks
        /\ CommandBytes[k] = mem[commands[k].buffptr]
        /\ mem[commands[k].buffptr] # Free
        /\ Len(CommandBytes[k]) = commands[k].size

LEMMA StoredCommandsAreHeld == HeapInv /\ loaded => CommandsAreHeld
<1> SUFFICES ASSUME HeapInv, loaded PROVE CommandsAreHeld
  OBVIOUS
<1> DEFINE C == Count(circular_buffer)
           commands == Contents(circular_buffer)
<1>1. /\ circular_buffer \in RingOf(Commands)
      /\ Consistent(circular_buffer, Commands)
      /\ mem \in [Block -> Seq(Byte) \cup {Free}]
  BY DEF HeapInv, DriverInv, TypeOK, RingOwnsItsBlocks
<1>2. C \in 0..MaxWriteOps /\ C \in Nat
  BY <1>1, CountType, MaxWriteOpsAssumption
<1>3. /\ commands \in Seq(Commands) /\ Len(commands) = C
      /\ \A k \in 1..C :
            /\ Slot(circular_buffer, k - 1) \in Slots
            /\ commands[k] = circular_buffer.entry[Slot(circular_buffer, k - 1)]
  BY <1>1, ContentsType
<1>4. \A k \in 1..C : commands[k] \in Commands
  BY <1>2, <1>3, ElementOfSeq
<1> HIDE DEF C, commands
<1>5. ASSUME NEW k \in 1..C
      PROVE  /\ commands[k].buffptr \in RingBlocks
             /\ mem[commands[k].buffptr] # Free
             /\ mem[commands[k].buffptr] \in Seq(Byte)
             /\ Len(mem[commands[k].buffptr]) = commands[k].size
  <2> DEFINE i == Slot(circular_buffer, k - 1)
  <2>1. i \in Slots /\ commands[k] = circular_buffer.entry[i]
    BY <1>3
  <2> HIDE DEF i
  <2>2. commands[k].buffptr \in Block
    BY <1>4 DEF Commands
  <2>3. i \in UsedSlots
    BY <2>1, <2>2, NullAssumption DEF UsedSlots
  <2>4. /\ mem[circular_buffer.entry[i].buffptr] # Free
        /\ Len(mem[circular_buffer.entry[i].buffptr])
              = circular_buffer.entry[i].size
    BY <2>3 DEF HeapInv, RingOwnsItsBlocks
  <2>5. commands[k].buffptr \in RingBlocks
    BY <2>1, <2>2, NullAssumption DEF RingBlocks
  <2>6. QED  BY <1>1, <2>1, <2>2, <2>4, <2>5
<1>6. CommandBytes = [k \in 1..C |-> mem[commands[k].buffptr]]
  BY DEF CommandBytes, C, commands
<1>7. CommandBytes \in [1..C -> Seq(Byte)]
  BY <1>5, <1>6
<1>8. CommandBytes \in Seq(Seq(Byte)) /\ Len(CommandBytes) = C
  BY <1>2, <1>7
<1>9. \A k \in 1..C : /\ CommandBytes[k] = mem[commands[k].buffptr]
                      /\ Len(CommandBytes[k]) = commands[k].size
  BY <1>5, <1>6
<1>10. QED
  BY <1>2, <1>3, <1>4, <1>5, <1>8, <1>9 DEF CommandsAreHeld, C, commands

LEMMA StoredCommandsStayHeld == HeapInv' /\ loaded' => CommandsAreHeld'
  BY StoredCommandsAreHeld, PTL

\* Only the memory of the ring's blocks matters to them.
LEMMA SameCommands ==
    ASSUME HeapInv, loaded, circular_buffer' = circular_buffer,
           \A c \in RingBlocks : mem'[c] = mem[c]
    PROVE  CommandBytes' = CommandBytes
<1> DEFINE C == Count(circular_buffer)
           commands == Contents(circular_buffer)
<1>1. \A k \in 1..C : commands[k].buffptr \in RingBlocks
  BY StoredCommandsAreHeld DEF CommandsAreHeld
<1>2. Count(circular_buffer)' = C /\ Contents(circular_buffer)' = commands
  BY DEF Count, Contents, Slot
<1>3. CommandBytes' = [k \in 1..C |-> mem'[commands[k].buffptr]]
  BY <1>2 DEF CommandBytes
<1>4. CommandBytes = [k \in 1..C |-> mem[commands[k].buffptr]]
  BY DEF CommandBytes
<1> HIDE DEF C, commands
<1>5. QED  BY <1>1, <1>3, <1>4

\* A completed command is pushed onto them.
LEMMA CompleteIsPush ==
    ASSUME HeapInv, HeapInv', loaded, loaded',
           NEW command \in Commands, NEW b \in Block, command.buffptr = b,
           b \notin RingBlocks,
           circular_buffer' = AddEntry(circular_buffer, command),
           mem'[b] \in Seq(Byte),
           NEW old,
           \A c \in Block : c # b /\ c # old => mem'[c] = mem[c],
           old \in Block => mem'[old] = Free
    PROVE  CommandBytes' = Push(CommandBytes, mem'[b])
<1> DEFINE C == Count(circular_buffer)
           commands == Contents(circular_buffer)
           D == Count(circular_buffer)'
           stored == Contents(circular_buffer)'
<1>1. /\ C \in 0..MaxWriteOps /\ C \in Nat
      /\ commands \in Seq(Commands) /\ Len(commands) = C
      /\ CommandBytes \in Seq(Seq(Byte)) /\ Len(CommandBytes) = C
      /\ \A k \in 1..C : /\ commands[k].buffptr \in RingBlocks
                         /\ commands[k].buffptr \in Block
                         /\ CommandBytes[k] = mem[commands[k].buffptr]
  BY StoredCommandsAreHeld DEF CommandsAreHeld, Commands
<1>2. /\ D \in Nat
      /\ stored \in Seq(Commands) /\ Len(stored) = D
      /\ CommandBytes' \in Seq(Seq(Byte)) /\ Len(CommandBytes') = D
      /\ \A k \in 1..D : /\ CommandBytes'[k] = mem'[stored[k].buffptr]
                         /\ mem'[stored[k].buffptr] # Free
  BY StoredCommandsStayHeld DEF CommandsAreHeld
<1>3. stored = Push(commands, command)
  <2>1. Contents(circular_buffer)' = Contents(AddEntry(circular_buffer, command))
    BY DEF Contents, Count, Slot
  <2>2. QED
    BY <2>1, AddEntryIsPush DEF HeapInv, DriverInv, TypeOK, RingOwnsItsBlocks
<1> HIDE DEF C, D, commands, stored
\* A command that stays keeps its block: its block is not freed.
<1>4. ASSUME NEW j \in 1..C, NEW k \in 1..D, stored[k] = commands[j]
      PROVE  CommandBytes'[k] = CommandBytes[j]
  <2>1. /\ commands[j].buffptr \in Block /\ commands[j].buffptr # b
        /\ commands[j].buffptr # old
    BY <1>1, <1>2, <1>4
  <2>2. mem'[commands[j].buffptr] = mem[commands[j].buffptr]
    BY <2>1
  <2>3. CommandBytes'[k] = mem'[stored[k].buffptr]
    BY <1>2
  <2>4. CommandBytes[j] = mem[commands[j].buffptr]
    BY <1>1
  <2>5. QED  BY <1>4, <2>2, <2>3, <2>4
<1>5. ASSUME NEW k \in 1..D, stored[k] = command
      PROVE  CommandBytes'[k] = mem'[b]
  BY <1>2, <1>5
<1>6. CASE C < MaxWriteOps
  <2>1. stored = Append(commands, command)
    BY <1>1, <1>3, <1>6 DEF Push
  <2>2. D = C + 1 /\ stored[C + 1] = command /\ \A k \in 1..C : stored[k] = commands[k]
    BY <1>1, <1>2, <2>1
  <2>3. Len(CommandBytes') = Len(CommandBytes) + 1
    BY <1>1, <1>2, <2>2
  <2>4. CommandBytes'[Len(CommandBytes) + 1] = mem'[b]
    BY <1>1, <1>5, <2>2
  <2>5. \A k \in 1..Len(CommandBytes) : CommandBytes'[k] = CommandBytes[k]
    BY <1>1, <1>4, <2>2
  <2>6. CommandBytes' = Append(CommandBytes, mem'[b])
    BY <1>1, <1>2, <2>3, <2>4, <2>5, AppendEqual
  <2>7. QED  BY <1>1, <1>6, <2>6 DEF Push
<1>7. CASE ~(C < MaxWriteOps)
  <2>1. stored = Append(Tail(commands), command)
    BY <1>1, <1>3, <1>7 DEF Push
  <2>2. C # 0 /\ commands # << >> /\ CommandBytes # << >>
    BY <1>1, <1>7, MaxWriteOpsAssumption
  <2>3. /\ D = C /\ stored[C] = command
        /\ \A k \in 1 .. C - 1 : stored[k] = commands[k + 1]
    BY <1>1, <1>2, <2>1, <2>2
  <2> DEFINE kept == Tail(CommandBytes)
  <2>4. /\ kept \in Seq(Seq(Byte)) /\ Len(kept) = C - 1
        /\ \A k \in 1 .. C - 1 : kept[k] = CommandBytes[k + 1]
    BY <1>1, <2>2
  <2> HIDE DEF kept
  <2>5. Len(CommandBytes') = Len(kept) + 1
    BY <1>1, <1>2, <2>3, <2>4
  <2>6. CommandBytes'[Len(kept) + 1] = mem'[b]
    BY <1>1, <1>5, <2>2, <2>3, <2>4
  <2>7. ASSUME NEW k \in 1..Len(kept) PROVE CommandBytes'[k] = kept[k]
    <3>1. k \in 1 .. C - 1 /\ k \in 1..D /\ k + 1 \in 1..C
      BY <1>1, <2>3, <2>4
    <3>2. CommandBytes'[k] = CommandBytes[k + 1]
      BY <1>4, <2>3, <3>1
    <3>3. QED  BY <2>4, <3>1, <3>2
  <2>8. CommandBytes' = Append(kept, mem'[b])
    BY <1>2, <2>4, <2>5, <2>6, <2>7, AppendEqual
  <2>9. QED  BY <1>1, <1>7, <2>8 DEF Push, kept
<1>8. QED  BY <1>6, <1>7

-----------------------------------------------------------------------------
(***************************************************************************)
(* The driver implements the abstract device.                              *)
(***************************************************************************)
MappedLog == IF loaded THEN CommandBytes ELSE << >>

MappedPending ==
    IF ~loaded THEN << >>
    ELSE IF Growing = {} THEN PendingBytes
    ELSE mem[presult[CHOOSE t \in Growing : TRUE]]

PendingIsMapped ==
    /\ ~loaded => MappedPending = << >>
    /\ loaded /\ Growing = {} => MappedPending = PendingBytes
    /\ \A t \in Task : loaded /\ Growing = {t} => MappedPending = mem[presult[t]]

LEMMA MappedPendingNow == PendingIsMapped
<1>1. ASSUME NEW t \in Task, loaded, Growing = {t}
      PROVE  MappedPending = mem[presult[t]]
  <2>1. (CHOOSE s \in Growing : TRUE) = t
    BY <1>1
  <2>2. QED  BY <1>1, <2>1 DEF MappedPending
<1>2. QED  BY <1>1 DEF MappedPending, PendingIsMapped

LEMMA MappedPendingNext == PendingIsMapped'
  BY MappedPendingNow, PTL

LEMMA TerminatedAgrees ==
    ASSUME NEW bytes \in Seq(Byte)
    PROVE  Device!Terminated(bytes) <=> Terminated(bytes)
<1>1. DOMAIN bytes = 1..Len(bytes)
  OBVIOUS
<1>2. QED  BY <1>1 DEF Device!Terminated, Terminated, Contains

\* Moving the unterminated command to another block is not seen.
LEMMA AllocateStutters ==
    ASSUME CleanInv, NEW t \in Task, WriteAllocate(t)
    PROVE  /\ UNCHANGED loaded
           /\ MappedLog' = MappedLog
           /\ MappedPending' = MappedPending
<1>1. /\ loaded /\ loaded' /\ UNCHANGED <<loaded, circular_buffer, entry>>
      /\ Growing = {} /\ Growing' = {t}
      /\ presult'[t] \notin RingBlocks
      /\ mem'[presult'[t]] = PendingBytes
      /\ \A c \in Block : c # presult'[t] /\ c # entry.buffptr =>
               mem'[c] = mem[c]
  BY AllocateEffect
<1>2. HeapInv /\ TypeOK
  BY DEF CleanInv, HeapInv, DriverInv
<1>3. entry.buffptr \notin RingBlocks
  BY <1>1, <1>2 DEF HeapInv, PendingIsApart
<1>4. \A c \in RingBlocks : c \in Block
  BY <1>2 DEF RingBlocks, TypeOK, RingOf, Commands, NoEntry
<1>5. CommandBytes' = CommandBytes
  BY <1>1, <1>2, <1>3, <1>4, SameCommands
<1>6. MappedPending = PendingBytes /\ MappedPending' = PendingBytes
  BY <1>1, MappedPendingNow, MappedPendingNext DEF PendingIsMapped
<1>7. QED  BY <1>1, <1>5, <1>6 DEF MappedLog

\* The copy is the write: it completes the command or makes it longer.
LEMMA CopyWrites ==
    ASSUME CleanInv, CleanInv', NEW t \in Task, WriteCopy(t)
    PROVE  Device!Write(call[t].arg) /\ call[t].arg \in Payload
<1> DEFINE b == presult[t]
           new == call[t].arg
           bytes == mem[b] \o new
           command == [buffptr |-> b, size |-> entry.size + Len(new)]
           old == Replaced(circular_buffer)
<1>1. /\ loaded /\ UNCHANGED loaded
      /\ Growing = {t} /\ Growing' = {}
      /\ b \in Block /\ b \notin RingBlocks
      /\ mem[b] \in Seq(Byte) /\ new \in Payload /\ new \in Seq(Byte)
      /\ command \in Commands
      /\ mem'[b] = bytes
      /\ IF Terminated(bytes)
         THEN /\ circular_buffer' = AddEntry(circular_buffer, command)
              /\ entry' = NoEntry
              /\ \A c \in Block : c # b /\ c # old => mem'[c] = mem[c]
              /\ old # NULL => mem'[old] = Free
         ELSE /\ UNCHANGED circular_buffer
              /\ entry' = command
              /\ \A c \in Block : c # b => mem'[c] = mem[c]
  BY CopyEffect, Zenon
<1>2. HeapInv /\ HeapInv' /\ TypeOK
  BY DEF CleanInv, HeapInv, DriverInv
<1>3. bytes \in Seq(Byte)
  <2> DEFINE before == mem[b]
  <2>1. before \in Seq(Byte) /\ new \in Seq(Byte)
    BY <1>1
  <2>2. before \o new \in Seq(Byte)
    <3> HIDE DEF before, new
    <3> QED  BY <2>1
  <2>3. QED  BY <2>2
<1>4. MappedPending \o new = bytes
  BY <1>1, MappedPendingNow DEF PendingIsMapped
<1>5. command.buffptr = b /\ b # NULL
  BY <1>1, NullAssumption
<1>6. MappedLog = CommandBytes /\ MappedLog' = CommandBytes'
  BY <1>1 DEF MappedLog
<1>7. MappedPending' = PendingBytes'
  BY <1>1, MappedPendingNext DEF PendingIsMapped
<1>8. Device!Terminated(bytes) <=> Terminated(bytes)
  <2> HIDE DEF bytes
  <2> QED  BY <1>3, TerminatedAgrees
<1> HIDE DEF bytes, command, old
<1>9. CASE Terminated(bytes)
  <2>1. CommandBytes' = Push(CommandBytes, mem'[b])
    <3>1. old \in Block => mem'[old] = Free
      BY <1>1, <1>9, NullAssumption
    <3>2. mem'[b] \in Seq(Byte)
      BY <1>1, <1>3
    <3>3. QED
      BY <1>1, <1>2, <1>5, <1>9, <3>1, <3>2, CompleteIsPush
  <2>2. PendingBytes' = << >>
    BY <1>1, <1>9 DEF PendingBytes, NoEntry
  <2>3. MappedLog' = Push(MappedLog, bytes) /\ MappedPending' = << >>
    BY <1>1, <1>6, <1>7, <2>1, <2>2
  <2>4. QED
    BY <1>1, <1>4, <1>8, <1>9, <2>3
       DEF Device!Write, Device!Push, Push, MappedLog, MappedPending
<1>10. CASE ~Terminated(bytes)
  <2>1. CommandBytes' = CommandBytes
    <3>1. \A c \in RingBlocks : c \in Block
      BY <1>2 DEF RingBlocks, TypeOK, RingOf, Commands, NoEntry
    <3>2. QED  BY <1>1, <1>2, <1>10, <3>1, SameCommands
  <2>2. PendingBytes' = bytes
    BY <1>1, <1>5, <1>10 DEF PendingBytes
  <2>3. MappedLog' = MappedLog /\ MappedPending' = bytes
    BY <1>6, <1>7, <2>1, <2>2
  <2>4. QED
    BY <1>1, <1>4, <1>8, <1>10, <2>3
       DEF Device!Write, MappedLog, MappedPending
<1>11. QED  BY <1>9, <1>10

LEMMA StepImplementsDevice ==
    ASSUME ~CopyFaults, CleanInv, CleanInv', [Next]_vars
    PROVE  [Device!Next]_(Device!vars)
<1>1. DriverInv /\ LocalsAreGone /\ HeapInv
  BY DEF CleanInv, HeapInv
<1>2. ASSUME UNCHANGED <<loaded, MappedLog, MappedPending>>
      PROVE  [Device!Next]_(Device!vars)
  BY <1>2 DEF Device!vars, MappedLog, MappedPending
<1>3. CASE Unload
  <2>1. loaded /\ loaded' = FALSE
    BY <1>3 DEF Unload
  <2>2. MappedLog' = << >> /\ MappedPending' = << >>
    BY <2>1, MappedPendingNext DEF MappedLog, PendingIsMapped
  <2>3. Device!Unload
    BY <2>1, <2>2 DEF Device!Unload, MappedLog, MappedPending
  <2>4. QED  BY <2>3 DEF Device!Next
<1>4. CASE Load
  <2>1. /\ ~loaded /\ loaded' = TRUE
        /\ circular_buffer' = EmptyBuffer /\ entry' = NoEntry
    BY <1>4 DEF Load
  <2>2. Growing' = {}
    <3>1. \A f \in File : f_pos[f] = Closed
      BY <1>1, <2>1 DEF DriverInv, OpenFilesKeepLoaded
    <3>2. \A t \in Task : pc'[t] # "copy"
      BY <1>1, <1>4, <3>1, NobodyInside DEF Load, taskvars, UserSpace
    <3>3. QED  BY <3>2 DEF Growing
  <2>3. CommandBytes' = << >>
    <3>1. Count(circular_buffer)' = 0
      BY <2>1, MaxWriteOpsAssumption DEF Count, EmptyBuffer
    <3>2. QED  BY <3>1 DEF CommandBytes
  <2>4. PendingBytes' = << >>
    BY <2>1 DEF PendingBytes, NoEntry
  <2>5. /\ MappedLog = << >> /\ MappedLog' = << >>
        /\ MappedPending = << >> /\ MappedPending' = << >>
    BY <2>1, <2>2, <2>3, <2>4, MappedPendingNow, MappedPendingNext
       DEF MappedLog, PendingIsMapped
  <2>6. Device!Load
    BY <2>1, <2>5 DEF Device!Load, MappedLog, MappedPending
  <2>7. QED  BY <2>6 DEF Device!Next
<1>5. CASE Quiet
  <2>1. UNCHANGED <<loaded, MappedLog, MappedPending>>
    BY <1>5
       DEF Quiet, devvars, MappedLog, MappedPending, CommandBytes,
           PendingBytes, Contents, Count, Slot
  <2>2. QED  BY <1>2, <2>1
<1>6. ASSUME NEW t \in Task, WriteAllocate(t)
      PROVE  [Device!Next]_(Device!vars)
  <2>1. UNCHANGED <<loaded, MappedLog, MappedPending>>
    BY <1>6, AllocateStutters
  <2>2. QED  BY <1>2, <2>1
<1>7. ASSUME NEW t \in Task, WriteCopy(t)
      PROVE  [Device!Next]_(Device!vars)
  BY <1>7, CopyWrites DEF Device!Next
<1>8. QED  BY <1>1, <1>3, <1>4, <1>5, <1>6, <1>7, NextCases

\* main.c:121-179: while no copy from user space fails, the driver is the
\* device of the last MaxWriteOps commands: each write(2) that gets past the
\* mutex and krealloc appends all its bytes to the unterminated command,
\* between those of no other, and completes at most one command.
THEOREM DriverImplementsDevice ==
    ASSUME ~CopyFaults PROVE Spec => ImplementsDevice
<1>1. Init => Device!Init
  <2> SUFFICES ASSUME Init PROVE Device!Init
    OBVIOUS
  <2>1. loaded = TRUE /\ Growing = {}
    BY DEF Init, Growing
  <2>2. MappedLog = << >>
    BY MaxWriteOpsAssumption
       DEF Init, MappedLog, CommandBytes, Count, EmptyBuffer
  <2>3. MappedPending = << >>
    BY <2>1, MappedPendingNow DEF PendingIsMapped, Init, PendingBytes, NoEntry
  <2>4. QED
    BY <2>1, <2>2, <2>3 DEF Device!Init, MappedLog, MappedPending
<1>2. Init => CleanInv
  BY CleanInit
<1>3. CleanInv /\ [Next]_vars => CleanInv'
  BY CleanStep
<1>4. CleanInv /\ CleanInv' /\ [Next]_vars => [Device!Next]_(Device!vars)
  BY StepImplementsDevice
<1>5. QED
  BY <1>1, <1>2, <1>3, <1>4, PTL DEF Spec, Device!Spec, ImplementsDevice

-----------------------------------------------------------------------------
(***************************************************************************)
(* What aesd_read hands out, whatever fails around it.                     *)
(***************************************************************************)
LEMMA OnlyReadReturns ==
    ASSUME DriverInv, [Next]_vars, NEW t \in Task,
           Doing(t, "read", "body"), pc'[t] = "return"
    PROVE  Read(t)
<1>1. pc[t] = "body" /\ call[t].op = "read" /\ pc'[t] = "return"
  BY DEF Doing
<1>2. CASE UNCHANGED vars \/ Unload \/ Load \/ \E f \in File : Open(f) \/ Release(f)
  BY <1>1, <1>2 DEF vars, taskvars, Unload, Load, Open, Release
<1>3. ASSUME NEW s \in Task,
             Call(s) \/ Acquire(s) \/ Interrupted(s) \/ Inside(s) \/ Return(s)
      PROVE  Read(t)
  <2>1. s = t
    BY <1>1, <1>3, OthersStay
  <2>2. ~Call(t) /\ ~Acquire(t) /\ ~Interrupted(t) /\ ~Return(t)
    BY <1>1 DEF Call, Enter, Acquire, Interrupted, Return, UserSpace
  <2>3. ~ReadFault(t)
    BY <1>1 DEF ReadFault, Fail, Leave, LeaveTo, DriverInv, TypeOK
  <2>4. /\ ~WriteNoMemory(t) /\ ~WriteFault(t) /\ ~WriteAllocate(t)
        /\ ~WriteOops(t) /\ ~WriteCopy(t)
        /\ ~Llseek(t) /\ ~Ioctl(t) /\ ~Store(t)
    BY <1>1 DEF WriteNoMemory, WriteFault, WriteAllocate, WriteOops,
                WriteCopy, Llseek, Ioctl, Store, Doing
  <2>5. QED  BY <1>3, <2>1, <2>2, <2>3, <2>4 DEF Inside
<1>4. QED  BY <1>2, <1>3 DEF Next

LEMMA ReadAnswer ==
    ASSUME HeapInv, LocalsAreGone, NEW t \in Task, Read(t)
    PROVE  LET all == FlattenSeq(CommandBytes)
               rest == SubSeq(all, pos[t] + 1, Len(all))
           IN  /\ IsPrefix(ubuf'[t], rest)
               /\ pos'[t] = pos[t] + Len(ubuf'[t])
               /\ ubuf'[t] = << >> => rest = << >>
<1> DEFINE all == FlattenSeq(CommandBytes)
           rest == SubSeq(all, pos[t] + 1, Len(all))
           found == FindEntry(circular_buffer, pos[t])
           p_entry == circular_buffer.entry[found.slot]
           left == p_entry.size - found.offset
           count == IF call[t].arg > left THEN left ELSE call[t].arg
           C == Count(circular_buffer)
<1>1. DriverInv /\ TypeOK
  BY DEF HeapInv, DriverInv
<1>2. /\ pc[t] = "body" /\ call[t].op = "read"
      /\ found = NotFound => UNCHANGED <<pos, ubuf>>
      /\ found # NotFound =>
           /\ ubuf' = [ubuf EXCEPT ![t] =
                SubSeq(mem[p_entry.buffptr],
                       found.offset + 1, found.offset + count)]
           /\ pos' = [pos EXCEPT ![t] = @ + count]
  BY DEF Read, Doing
<1>3. CommandsAreHeld
  BY <1>1, <1>2, InsideMeansLoaded, StoredCommandsAreHeld DEF UserSpace
<1>4. pos[t] \in Nat /\ pos \in [Task -> Nat]
  BY <1>1 DEF TypeOK
<1>5. call[t].arg \in Nat \ {0}
  BY <1>1, <1>2, CallTypes, InputAssumption DEF TypeOK
<1>6. ubuf = [s \in Task |-> ubuf[s]] /\ ubuf[t] = << >>
  BY <1>2 DEF LocalsAreGone
<1>7. all \in Seq(Byte) /\ Len(all) \in Nat
  BY <1>3, FlattenType, LenProperties DEF CommandsAreHeld
<1>8. IF pos[t] < Len(all)
      THEN \E k \in 1..C : \E j \in Nat :
             /\ found = [slot |-> Slot(circular_buffer, k - 1), offset |-> j]
             /\ j < Len(CommandBytes[k])
             /\ pos[t] + (Len(CommandBytes[k]) - j) <= Len(all)
             /\ \A i \in 1 .. Len(CommandBytes[k]) - j :
                    all[pos[t] + i] = CommandBytes[k][j + i]
      ELSE found = NotFound
  <2>1. /\ circular_buffer \in RingOf(Commands)
        /\ Consistent(circular_buffer, Commands)
        /\ Sized(circular_buffer)
    BY <1>1, <1>2, InsideMeansLoaded, CommandsAreSized
       DEF TypeOK, HeapInv, RingOwnsItsBlocks, UserSpace
  <2>2. /\ CommandBytes \in Seq(Seq(Byte)) /\ Len(CommandBytes) = C
        /\ \A k \in 1..C :
                Len(CommandBytes[k]) = Contents(circular_buffer)[k].size
    BY <1>3 DEF CommandsAreHeld
  <2>3. QED  BY <1>4, <2>1, <2>2, FindInConcatenation, Zenon
<1> HIDE DEF all, found, C
<1>9. CASE ~(pos[t] < Len(all))
  <2>1. ubuf'[t] = << >> /\ pos'[t] = pos[t]
    BY <1>2, <1>6, <1>8, <1>9
  <2>2. rest = << >>
    BY <1>4, <1>7, <1>9, SubSeqEmpty
  <2>3. IsPrefix(<< >>, << >>)
    BY DEF IsPrefix
  <2> HIDE DEF rest
  <2>4. IsPrefix(ubuf'[t], rest)
    BY <2>1, <2>2, <2>3, Zenon
  <2>5. pos'[t] = pos[t] + Len(ubuf'[t])
    BY <1>4, <2>1
  <2>6. QED  BY <2>2, <2>4, <2>5 DEF rest, all
<1>10. CASE pos[t] < Len(all)
  <2>1. PICK k \in 1..C, j \in Nat :
             /\ found = [slot |-> Slot(circular_buffer, k - 1), offset |-> j]
             /\ j < Len(CommandBytes[k])
             /\ pos[t] + (Len(CommandBytes[k]) - j) <= Len(all)
             /\ \A i \in 1 .. Len(CommandBytes[k]) - j :
                    all[pos[t] + i] = CommandBytes[k][j + i]
    BY <1>8, <1>10
  <2> DEFINE cmd == CommandBytes[k]
             chunk == SubSeq(cmd, j + 1, j + count)
  <2>2. /\ found.slot \in Slots /\ found.offset = j
        /\ mem[p_entry.buffptr] = cmd /\ p_entry.size = Len(cmd)
    BY <1>3, <2>1 DEF CommandsAreHeld, C
  <2>3. cmd \in Seq(Byte) /\ Len(cmd) \in Nat
    BY <1>3, ElementOfSeq, LenProperties DEF CommandsAreHeld, C
  <2>4. found # NotFound
    BY <2>2, SlotAssumption DEF NotFound
  <2>5. left = Len(cmd) - j
    BY <2>2
  <2>6. /\ count \in Nat /\ count >= 1 /\ j + count <= Len(cmd)
        /\ pos[t] + count <= Len(all)
        /\ \A i \in 1..count : all[pos[t] + i] = cmd[j + i]
    <3>1. j < Len(cmd) /\ pos[t] + (Len(cmd) - j) <= Len(all)
          /\ \A i \in 1 .. Len(cmd) - j : all[pos[t] + i] = cmd[j + i]
      BY <2>1
    <3>2. count = IF call[t].arg > Len(cmd) - j THEN Len(cmd) - j
                                                ELSE call[t].arg
      BY <2>5
    <3> HIDE DEF cmd, count
    <3>3. /\ count \in Nat /\ count >= 1 /\ count <= Len(cmd) - j
      BY <1>5, <2>3, <3>1, <3>2
    <3>4. QED  BY <1>4, <1>7, <2>3, <3>1, <3>3
  <2>7. ubuf'[t] = chunk /\ pos'[t] = pos[t] + count
    BY <1>2, <1>4, <1>6, <2>2, <2>4
  <2> HIDE DEF cmd, count
  <2>8. Len(chunk) = count /\ IsPrefix(chunk, rest)
    BY <1>4, <1>7, <2>3, <2>6, ChunkIsPrefix
  <2> HIDE DEF chunk, rest
  <2>9. ubuf'[t] # << >>
    BY <2>6, <2>7, <2>8
  <2>10. QED  BY <2>7, <2>8, <2>9 DEF rest, all
<1>11. QED  BY <1>9, <1>10

\* main.c:80-112: through failed copies and allocations, drops and reloads, a
\* read that has taken the mutex hands out the continuation, from its position
\* on, of the stored commands written end to end, moves the position by as
\* much, and hands out nothing only at their end.
THEOREM ReadsContinueTheLog == Spec => ReadContinuesTheLog
<1>1. Init => LocalsAreGone
  BY CleanInit DEF CleanInv
<1>2. HeapInv /\ LocalsAreGone /\ [Next]_vars => HeapInv' /\ LocalsAreGone'
  BY HeapStep, LocalsStep DEF HeapInv
<1>3. HeapInv /\ LocalsAreGone /\ [Next]_vars =>
        [\A t \in Task : Doing(t, "read", "body") /\ pc'[t] = "return" =>
            LET all == FlattenSeq(CommandBytes)
                rest == SubSeq(all, pos[t] + 1, Len(all))
            IN  /\ IsPrefix(ubuf'[t], rest)
                /\ pos'[t] = pos[t] + Len(ubuf'[t])
                /\ ubuf'[t] = << >> => rest = << >>]_vars
  <2> SUFFICES ASSUME HeapInv, LocalsAreGone, [Next]_vars,
                      NEW t \in Task,
                      Doing(t, "read", "body"), pc'[t] = "return"
               PROVE  LET all == FlattenSeq(CommandBytes)
                          rest == SubSeq(all, pos[t] + 1, Len(all))
                      IN  /\ IsPrefix(ubuf'[t], rest)
                          /\ pos'[t] = pos[t] + Len(ubuf'[t])
                          /\ ubuf'[t] = << >> => rest = << >>
    OBVIOUS
  <2>1. Read(t)
    BY OnlyReadReturns DEF HeapInv
  <2>2. QED  BY <2>1, ReadAnswer
<1>4. QED
  BY <1>1, <1>2, <1>3, HeapInit, PTL DEF Spec, ReadContinuesTheLog

=============================================================================
