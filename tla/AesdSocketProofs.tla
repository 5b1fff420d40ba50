-------------------------- MODULE AesdSocketProofs --------------------------
(***************************************************************************)
(* The socket server, for any number of clients, any commands and scripts, *)
(* in both builds and with every failure: threads are joined once, sockets *)
(* outlive their workers, whoever works on the device has the mutex, and a *)
(* reply is what the device held.                                          *)
(***************************************************************************)
EXTENDS AesdSocket, AesdDeviceProofs

\* What a worker has received is what its place in the loop is for.
BufferFits ==
    \A c \in Client :
        /\ wpc[c] = "write" => rbuffer[c].kind = "line"
        /\ wpc[c] = "ioctl" => rbuffer[c].kind = "seek"
        /\ wpc[c] \in {"size", "read", "send"} =>
                rbuffer[c].kind \in {"line", "seek"}

\* The build with the device has no timer.
TimerIsForFile == CharDevice => \A t \in Thread : alarm[t] = "none"

ServerTypes == TypeOK /\ BufferFits /\ TimerIsForFile

LEMMA ConstantTypes ==
    /\ Texts \subseteq Seq(Char) /\ Leftover \subseteq Seq(Char)
    /\ \A p \in Packets : p.kind \in {"line", "seek", "part"}
    /\ \A p \in Packets : p.kind = "line" =>
            /\ p.bytes \in Texts
            /\ [buffptr |-> p.bytes, size |-> Len(p.bytes)] \in Commands
    /\ \A p \in Packets : p.kind = "seek" =>
            p.write_cmd \in Nat /\ p.write_cmd_offset \in Nat
    /\ \A e \in Commands : e.buffptr \in Texts /\ e.size \in Nat
<1>1. Texts \subseteq Seq(Char) /\ Leftover \subseteq Seq(Char)
  BY InputAssumption
<1>2. \A p \in Packets : p.kind = "line" =>
            /\ p.bytes \in Texts
            /\ [buffptr |-> p.bytes, size |-> Len(p.bytes)] \in Commands
  BY DEF Texts, Commands
<1>3. \A e \in Commands : e.buffptr \in Texts /\ e.size \in Nat
  <2> SUFFICES ASSUME NEW e \in Commands
               PROVE  e.buffptr \in Texts /\ e.size \in Nat
    OBVIOUS
  <2>1. PICK p \in {q \in Packets : q.kind = "line"} :
            e = [buffptr |-> p.bytes, size |-> Len(p.bytes)]
    BY DEF Commands
  <2>2. p.bytes \in Texts /\ p.bytes \in Seq(Char)
    BY <1>1, <1>2
  <2>3. Len(p.bytes) \in Nat
    BY <2>2, LenProperties
  <2>4. QED  BY <2>1, <2>2, <2>3
<1>4. QED  BY <1>1, <1>2, <1>3, InputAssumption

LEMMA InitTypes == Init => ServerTypes
<1> SUFFICES ASSUME Init PROVE ServerTypes
  OBVIOUS
<1>1. EmptyBuffer \in RingOf(Commands) /\ Consistent(EmptyBuffer, Commands)
  BY EmptyBufferIsConsistent
<1>2. file \in Seq(Char)
  <2>1. Leftover \subseteq Seq(Char)
    BY ConstantTypes
  <2>2. << >> \in Seq(Char)
    OBVIOUS
  <2>3. CASE CharDevice
    BY <2>2, <2>3 DEF Init
  <2>4. CASE ~CharDevice
    BY <2>1, <2>4 DEF Init
  <2>5. QED  BY <2>3, <2>4
<1>3. /\ packets \in [Client -> Seq(Packets)]
      /\ sbuffer \in [Client -> Seq(Char)]
      /\ rbuffer \in [Client -> Packets \cup {NoPacket}]
      /\ size_read \in [Client -> Nat]
      /\ wpc \in [Client -> Places]
  BY DEF Init, Places
<1>4. TypeOK
  BY <1>1, <1>2, <1>3, InputAssumption DEF Init, TypeOK
<1>5. BufferFits /\ TimerIsForFile
  BY DEF Init, BufferFits, TimerIsForFile
<1>6. QED  BY <1>4, <1>5 DEF ServerTypes

-----------------------------------------------------------------------------
(***************************************************************************)
(* Types.                                                                  *)
(***************************************************************************)
LEMMA StoreTypes ==
    ASSUME ServerTypes, NEW bytes \in Texts, Store(bytes),
           CharDevice => [buffptr |-> bytes, size |-> Len(bytes)] \in Commands
    PROVE  /\ ring' \in RingOf(Commands) /\ Consistent(ring, Commands)'
           /\ f_pos' \in Nat
           /\ file' \in Seq(Char)
<1>1. bytes \in Seq(Char) /\ Len(bytes) \in Nat
  BY ConstantTypes, LenProperties
<1>2. CASE CharDevice
  <2> DEFINE e == [buffptr |-> bytes, size |-> Len(bytes)]
  <2>1. e \in Commands /\ ring' = AddEntry(ring, e)
    BY <1>2 DEF Store
  <2>2. ring \in RingOf(Commands) /\ Consistent(ring, Commands)
    BY DEF ServerTypes, TypeOK
  <2>3. ring' \in RingOf(Commands) /\ Consistent(ring', Commands)
    <3> HIDE DEF e
    <3> QED  BY <2>1, <2>2, AddEntryType, AddEntryConsistent
  <2>4. Consistent(ring, Commands)'
    BY <2>3 DEF Consistent
  <2>5. f_pos' \in Nat /\ file' \in Seq(Char)
    BY <1>1, <1>2 DEF Store, ServerTypes, TypeOK
  <2>6. QED  BY <2>3, <2>4, <2>5
<1>3. CASE ~CharDevice
  <2>1. file' = file \o bytes /\ f_pos' = Len(file') /\ ring' = ring
    BY <1>3 DEF Store
  <2>2. file' \in Seq(Char)
    BY <1>1, <2>1 DEF ServerTypes, TypeOK
  <2>3. f_pos' \in Nat
    BY <2>1, <2>2, LenProperties
  <2>4. QED  BY <2>1, <2>2, <2>3 DEF ServerTypes, TypeOK, Consistent
<1>4. QED  BY <1>2, <1>3

LEMMA WorkerTypes ==
    ASSUME ServerTypes, NEW c \in Client,
           \/ Lock(c) \/ Receive(c) \/ ReceiveNothing(c) \/ Finish(c)
           \/ Send(c)
    PROVE  ServerTypes'
<1> USE DEF ServerTypes, TypeOK, BufferFits, TimerIsForFile, Places, Ended,
            Goto, At, OutsideHandler, Outside, mainvars, devicevars,
            workervars, listvars, alarmvars, Thread, Consistent
<1>1. CASE Lock(c)
  BY <1>1 DEF Lock
<1>2. CASE Receive(c)
  BY <1>2, ConstantTypes DEF Receive
<1>3. CASE ReceiveNothing(c)
  BY <1>3 DEF ReceiveNothing
<1>4. CASE Finish(c)
  BY <1>4 DEF Finish
<1>5. CASE Send(c)
  BY <1>5 DEF Send
<1>6. QED  BY <1>1, <1>2, <1>3, <1>4, <1>5

LEMMA StoredBytesType ==
    ASSUME ServerTypes
    PROVE  StoredBytes \in Seq(Char)
<1>1. CASE CharDevice
  <2> DEFINE texts == [k \in 1..Count(ring) |-> Contents(ring)[k].buffptr]
  <2>1. ring \in RingOf(Commands) /\ Consistent(ring, Commands)
    BY DEF ServerTypes, TypeOK
  <2>2. Contents(ring) \in Seq(Commands) /\ Len(Contents(ring)) = Count(ring)
    BY <2>1, ContentsType
  <2>3. \A k \in 1..Count(ring) : Contents(ring)[k].buffptr \in Seq(Char)
    BY <2>2, ConstantTypes, ElementOfSeq
  <2>4. Count(ring) \in Nat
    BY <2>2, LenProperties
  <2>5. texts \in Seq(Seq(Char))
    BY <2>3, <2>4, IsASeq
  <2>6. FlattenSeq(texts) \in Seq(Char)
    <3> HIDE DEF texts
    <3> QED  BY <2>5, FlattenType
  <2>7. QED  BY <1>1, <2>6 DEF StoredBytes
<1>2. CASE ~CharDevice
  BY <1>2 DEF StoredBytes, ServerTypes, TypeOK
<1>3. QED  BY <1>1, <1>2

LEMMA DeviceTypes ==
    ASSUME ServerTypes, NEW c \in Client,
           \/ Write(c) \/ FileSize(c) \/ IoctlSeekTo(c) \/ FileRead(c)
    PROVE  ServerTypes'
<1>1. Sized(ring) /\ ring.out_offs \in Slots
  BY ConstantTypes, RingIsSized DEF ServerTypes, TypeOK
<1> USE DEF ServerTypes, TypeOK, BufferFits, TimerIsForFile, Places, Ended,
            Goto, At, OutsideHandler, Outside, mainvars, devicevars,
            workervars, listvars, alarmvars, Thread
<1>2. CASE Write(c)
  <2>1. rbuffer[c] \in Packets /\ rbuffer[c].kind = "line"
    BY <1>2 DEF Write, NoPacket
  <2>2. /\ ring' \in RingOf(Commands) /\ Consistent(ring, Commands)'
        /\ f_pos' \in Nat /\ file' \in Seq(Char)
    BY <1>2, <2>1, ConstantTypes, StoreTypes DEF Write
  <2>3. QED  BY <1>2, <2>2 DEF Write
<1>3. CASE FileSize(c)
  <2>1. (IF CharDevice THEN TotalSize(ring) ELSE Len(file)) \in Nat
    BY <1>1, TotalSizeType, LenProperties
  <2>2. f_pos' \in Nat /\ size_read' \in [Client -> Nat]
    BY <1>3, <2>1 DEF FileSize
  <2>3. wpc' = [wpc EXCEPT ![c] = IF rbuffer[c].kind = "seek" THEN "ioctl"
                                                              ELSE "read"]
    BY <1>3 DEF FileSize
  <2>4. QED  BY <1>3, <2>2, <2>3 DEF FileSize, Consistent
<1>4. CASE IoctlSeekTo(c)
  <2>1. rbuffer[c] \in Packets /\ rbuffer[c].kind = "seek"
    BY <1>4 DEF IoctlSeekTo, NoPacket
  <2> DEFINE target == SeekTo(ring, rbuffer[c].write_cmd,
                              rbuffer[c].write_cmd_offset)
  <2>2. target = EINVAL \/ target \in Nat
    BY <1>1, <2>1, ConstantTypes, SeekToInside
  <2> HIDE DEF target
  <2>3. f_pos' \in Nat
    BY <1>4, <2>2 DEF IoctlSeekTo, target
  <2>4. QED  BY <1>4, <2>3 DEF IoctlSeekTo, Consistent
<1>5. CASE FileRead(c)
  <2>1. StoredBytes \in Seq(Char) /\ Len(StoredBytes) \in Nat
    BY StoredBytesType, LenProperties
  <2>2. SubSeq(StoredBytes, f_pos + 1, Len(StoredBytes)) \in Seq(Char)
    BY <2>1, SubSeqProperties
  <2>3. f_pos' \in Nat /\ sbuffer' \in [Client -> Seq(Char)]
    BY <1>5, <2>1, <2>2 DEF FileRead
  <2>4. QED  BY <1>5, <2>3 DEF FileRead, Consistent
<1>6. QED  BY <1>2, <1>3, <1>4, <1>5

LEMMA CrashTypes ==
    ASSUME ServerTypes, Crash
    PROVE  ServerTypes'
  BY DEF Crash, ServerTypes, TypeOK, BufferFits, TimerIsForFile, mainvars,
         devicevars, workervars, listvars, alarmvars, Consistent

LEMMA BreakTypes ==
    ASSUME ServerTypes, NEW c \in Client, Break(c)
    PROVE  ServerTypes'
  BY DEF Break, Goto, Outside, ServerTypes, TypeOK, BufferFits,
         TimerIsForFile, Places, mainvars, devicevars, listvars, alarmvars,
         Consistent

\* A worker's failed call ends in Break or Crash.
LEMMA WorkerFails ==
    ASSUME NEW c \in Client, WriteFails(c) \/ FileReadFails(c) \/ SendFails(c)
    PROVE  /\ At(c, "write") \/ At(c, "read") \/ At(c, "send")
           /\ Break(c) \/ Crash
  BY DEF WriteFails, FileReadFails, SendFails, ClosedFile, Interrupted

LEMMA HandlerTypes ==
    ASSUME ServerTypes, NEW t \in Thread, Alarm(t) \/ Handler(t)
    PROVE  ServerTypes'
<1> USE DEF ServerTypes, TypeOK, BufferFits, TimerIsForFile, InHandler,
            HandlerTo, OutsideHandler, mainvars, devicevars, workervars,
            listvars, alarmvars
<1>1. CASE Alarm(t)
  BY <1>1, InputAssumption DEF Alarm, TimerRuns, Consistent
<1>2. CASE AlarmLock(t)
  BY <1>2 DEF AlarmLock, Consistent
<1>3. CASE AlarmWrite(t) /\ Crash
  BY <1>3, CrashTypes
<1>4. CASE AlarmWrite(t) /\ ~Crash
  <2>1. /\ ~CharDevice
        /\ IF datafd = "open" THEN Store(Stamp) ELSE UNCHANGED devicevars
        /\ mutex' = NULL
        /\ alarm' = [alarm EXCEPT ![t] = "none"]
        /\ UNCHANGED <<mainvars, datafd, conn, packets, workervars,
                       listvars, ticks>>
    BY <1>4 DEF AlarmWrite
  <2>2. Stamp \in Texts
    BY DEF Texts
  <2>3. /\ ring' \in RingOf(Commands) /\ Consistent(ring, Commands)'
        /\ f_pos' \in Nat /\ file' \in Seq(Char)
    <3>1. CASE datafd = "open"
      BY <2>1, <2>2, <3>1, StoreTypes
    <3>2. CASE datafd # "open"
      BY <2>1, <3>2 DEF Consistent
    <3>3. QED  BY <3>1, <3>2
  <2>4. QED  BY <2>1, <2>3
<1>5. QED  BY <1>1, <1>2, <1>3, <1>4 DEF Handler

LEMMA MainTypes ==
    ASSUME ServerTypes,
           \/ \E c \in Client : Accept(c)
           \/ SelectTimeout \/ IdleClose \/ Reap \/ ReapFreedNode
           \/ StopTimer \/ KillThreads \/ KillThreadsFails \/ KillFreedNode
           \/ KillFile \/ KillMutex \/ ReturnFromMain
    PROVE  ServerTypes'
<1> USE DEF ServerTypes, TypeOK, BufferFits, TimerIsForFile, Threads,
            Proceed, devicevars, workervars, listvars, alarmvars
<1>1. ASSUME NEW c \in Client, Accept(c) PROVE ServerTypes'
  <2> USE DEF Consistent
  <2>1. datafd' \in {NULL, "open", "closed"} /\ c \in Client
    BY <1>1 DEF Accept, OpenData, AcceptAndStart, AcceptAndForget,
                AcceptAndClose, AcceptWithoutThread, AcceptCannotOpen
  <2>2. CASE AcceptAndStart(c)
    BY <2>1, <2>2 DEF AcceptAndStart, Goto, Places
  <2>3. CASE AcceptAndForget(c)
    BY <2>1, <2>3 DEF AcceptAndForget
  <2>4. CASE AcceptAndClose(c)
    BY <2>1, <2>4 DEF AcceptAndClose
  <2>5. CASE AcceptWithoutThread(c)
    BY <2>1, <2>5 DEF AcceptWithoutThread
  <2>6. CASE AcceptCannotOpen
    BY <2>1, <2>6 DEF AcceptCannotOpen
  <2>7. QED  BY <1>1, <2>2, <2>3, <2>4, <2>5, <2>6 DEF Accept
<1>2. CASE SelectTimeout
  BY <1>2 DEF SelectTimeout, Consistent
<1>3. CASE (ReapFreedNode \/ KillFreedNode) \/ Crash
  BY <1>3, CrashTypes DEF ReapFreedNode, KillFreedNode
<1>4. CASE (IdleClose \/ KillFile) /\ ~Crash
  BY <1>4 DEF IdleClose, KillFile, CloseData, Consistent
<1>5. CASE Reap
  BY <1>5 DEF Reap, Consistent
<1>6. CASE KillThreads
  BY <1>6 DEF KillThreads, Consistent
<1>7. CASE StopTimer \/ KillThreadsFails \/ ReturnFromMain
  BY <1>7 DEF StopTimer, KillThreadsFails, ReturnFromMain, Consistent
<1>8. CASE KillMutex
  BY <1>8 DEF KillMutex, Consistent
<1>9. QED
  BY <1>1, <1>2, <1>3, <1>4, <1>5, <1>6, <1>7, <1>8

LEMMA EnvironmentTypes ==
    ASSUME ServerTypes, Signal \/ \E c \in Client : Connect(c)
    PROVE  ServerTypes'
<1> USE DEF ServerTypes, TypeOK, BufferFits, TimerIsForFile, Consistent,
            mainvars, devicevars, workervars, listvars, alarmvars
<1>1. CASE Signal
  BY <1>1 DEF Signal
<1>2. ASSUME NEW c \in Client, Connect(c) PROVE ServerTypes'
  BY <1>2, InputAssumption DEF Connect
<1>3. QED  BY <1>1, <1>2

-----------------------------------------------------------------------------
(***************************************************************************)
(* The life of a worker: its thread exists from accept on, says when it is *)
(* complete, and is joined then.  Whoever joins a thread sees to it that   *)
(* no later round finds it complete again: an idle round resets the status,*)
(* process_kill forgets the thread_data.                                   *)
(***************************************************************************)
NotAccepted ==
    \A c \in Client : conn[c] \in {"none", "queued"} => wpc[c] = "none"

CompleteIsUnjoined ==
    \A c \in Client : complete[c] =>
        /\ wpc[c] \in Ended
        /\ param[c] = "valid" => joins[c] = 0

LifeInv ==
    /\ NotAccepted /\ CompleteIsUnjoined
    /\ JoinedOnce /\ SocketOutlivesWorker
    /\ joins \in [Client -> Nat]

InLoop == Places \ (Ended \cup {"none"})

LEMMA InitLife == Init => LifeInv
  BY DEF Init, LifeInv, NotAccepted, CompleteIsUnjoined, JoinedOnce,
         SocketOutlivesWorker, Ended

\* What a step of a worker's own does to its place.
LEMMA WorkerMoves ==
    ASSUME ServerTypes, NEW c \in Client, Worker(c), ~Handler(c), ~Crash
    PROVE  /\ wpc[c] \in InLoop
           /\ UNCHANGED <<conn, param, joins, alarm>>
           /\ \/ complete' = complete /\ \E place \in InLoop : Goto(c, place)
              \/ complete' = [complete EXCEPT ![c] = TRUE]
                 /\ \E place \in Ended : Goto(c, place)
<1> USE DEF InLoop, Places, Ended, At, Outside, listvars, alarmvars
<1>1. CASE Finish(c)
  BY <1>1 DEF Finish
<1>2. CASE Lock(c) \/ ReceiveNothing(c) \/ Send(c)
  BY <1>2 DEF Lock, ReceiveNothing, Send
<1>3. CASE Receive(c)
  <2>1. \E place \in {"write", "size", "lock"} : Goto(c, place)
    <3>1. packets[c] \in Seq(Packets) /\ packets[c] # << >>
      BY <1>3 DEF Receive, ServerTypes, TypeOK
    <3>2. Head(packets[c]) \in Packets
      BY <3>1
    <3>3. QED  BY <1>3, <3>2, ConstantTypes DEF Receive
  <2>2. QED  BY <1>3, <2>1 DEF Receive
<1>4. CASE Write(c) \/ FileSize(c) \/ IoctlSeekTo(c) \/ FileRead(c)
  BY <1>4 DEF Write, FileSize, IoctlSeekTo, FileRead
<1>5. CASE WriteFails(c) \/ FileReadFails(c) \/ SendFails(c)
  BY <1>5, WorkerFails DEF Break
<1>6. QED  BY <1>1, <1>2, <1>3, <1>4, <1>5 DEF Worker

LEMMA LifeStep ==
    ASSUME ServerTypes, LifeInv, Next
    PROVE  LifeInv'
<1> USE DEF LifeInv, NotAccepted, CompleteIsUnjoined, JoinedOnce,
            SocketOutlivesWorker
<1>1. CASE UNCHANGED <<conn, wpc, param, complete, joins>>
  BY <1>1
<1>2. ASSUME NEW c \in Client, Worker(c) PROVE LifeInv'
  <2>1. CASE Handler(c) \/ Crash
    BY <1>1, <2>1 DEF Handler, AlarmLock, AlarmWrite, Crash, workervars,
                      listvars
  <2>2. CASE ~Handler(c) /\ ~Crash
    <3>1. /\ wpc[c] \in InLoop
          /\ UNCHANGED <<conn, param, joins>>
          /\ \/ complete' = complete /\ \E place \in InLoop : Goto(c, place)
             \/ complete' = [complete EXCEPT ![c] = TRUE]
                /\ \E place \in Ended : Goto(c, place)
      BY <1>2, <2>2, WorkerMoves
    <3>2. wpc \in [Client -> Places] /\ complete \in [Client -> BOOLEAN]
      BY DEF ServerTypes, TypeOK
    <3>3. QED  BY <3>1, <3>2 DEF Goto, InLoop, Ended
  <2>3. QED  BY <2>1, <2>2
<1>3. ASSUME NEW c \in Client, Accept(c) PROVE LifeInv'
  <2>1. conn[c] = "queued" /\ wpc[c] = "none"
    BY <1>3 DEF Accept
  <2> USE DEF ServerTypes, TypeOK, Threads, workervars, listvars, Ended
  <2>2. CASE AcceptAndStart(c)
    BY <2>1, <2>2 DEF AcceptAndStart, Goto
  <2>3. CASE AcceptAndForget(c) \/ AcceptAndClose(c)
    BY <2>1, <2>3 DEF AcceptAndForget, AcceptAndClose
  <2>4. CASE AcceptWithoutThread(c)
    BY <2>1, <2>4 DEF AcceptWithoutThread
  <2>5. CASE AcceptCannotOpen
    BY <1>1, <2>5 DEF AcceptCannotOpen
  <2>6. QED  BY <1>3, <2>2, <2>3, <2>4, <2>5 DEF Accept
<1>4. ASSUME NEW c \in Client, Connect(c) PROVE LifeInv'
  BY <1>4 DEF Connect, ServerTypes, TypeOK, workervars, listvars, Ended
<1>5. CASE Reap
  <2>1. UNCHANGED <<conn, wpc, param>>
    BY <1>5 DEF Reap, Threads, workervars
  <2>2. joins' = [c \in Client |-> IF c \in Completed THEN joins[c] + 1
                                                    ELSE joins[c]]
    BY <1>5 DEF Reap
  <2>3. complete' = [c \in Client |-> complete[c] /\ c \notin Completed]
    BY <1>5 DEF Reap
  <2>4. \A c \in Completed : complete[c] /\ param[c] = "valid"
    BY DEF Completed
  <2>5. \A c \in Client :
            complete'[c] => complete[c] /\ c \notin Completed
    <3> HIDE DEF Completed
    <3> QED  BY <2>3, Zenon
  <2>6. \A c \in Client :
            joins'[c] = IF c \in Completed THEN 1 ELSE joins[c]
    <3> HIDE DEF Completed
    <3> QED  BY <2>2, <2>4
  <2>7. joins' \in [Client -> Nat]
    <3> HIDE DEF Completed
    <3> QED  BY <2>2
  <2> HIDE DEF Completed
  <2>8. QED  BY <2>1, <2>4, <2>5, <2>6, <2>7
<1>6. CASE KillThreads
  BY <1>6 DEF KillThreads, Completed, Threads, workervars, ServerTypes,
              TypeOK, Ended
<1>7. CASE \/ SelectTimeout \/ StopTimer \/ KillThreadsFails
           \/ ReturnFromMain \/ KillMutex
  BY <1>1, <1>7 DEF SelectTimeout, StopTimer, KillThreadsFails,
                    ReturnFromMain, KillMutex, Threads, workervars, listvars
<1>8. CASE IdleClose \/ KillFile
  BY <1>1, <1>8 DEF IdleClose, KillFile, CloseData, Crash, Threads,
                    workervars, listvars
<1>9. CASE ReapFreedNode \/ KillFreedNode \/ Signal
  BY <1>1, <1>9 DEF ReapFreedNode, KillFreedNode, Signal, Crash, workervars,
                    listvars
<1>10. ASSUME NEW t \in Thread, Alarm(t) \/ Handler(t) PROVE LifeInv'
  BY <1>1, <1>10 DEF Alarm, Handler, AlarmLock, AlarmWrite, Crash,
                     workervars, listvars
<1>11. QED
  BY <1>2, <1>3, <1>4, <1>5, <1>6, <1>7, <1>8, <1>9, <1>10
     DEF Next, Main, Thread

-----------------------------------------------------------------------------
(***************************************************************************)
(* The discipline of the mutex.  A worker between its recv and its send    *)
(* has it, and so has a handler that is about to write; there is one of    *)
(* them at most, also when main has destroyed the mutex meanwhile.  Once   *)
(* dev->lock has been left held, that one is a worker that waits in read   *)
(* for the device, and will keep the mutex.                                *)
(***************************************************************************)
Held == {"recv", "write", "size", "ioctl", "read", "send"}

WorkerHolds(c) == wpc[c] \in Held
HandlerHolds(t) == alarm[t] = "write"

HoldersHaveMutex ==
    /\ \A c \in Client : WorkerHolds(c) => mutex \in {c, Destroyed}
    /\ \A t \in Thread : HandlerHolds(t) => mutex \in {t, Destroyed}

OneHolder ==
    /\ \A c, d \in Client : WorkerHolds(c) /\ WorkerHolds(d) => c = d
    /\ \A t, u \in Thread : HandlerHolds(t) /\ HandlerHolds(u) => t = u
    /\ \A c \in Client, t \in Thread : ~(WorkerHolds(c) /\ HandlerHolds(t))

DeviceStuck ==
    devlock =>
        /\ mutex # NULL
        /\ \A c \in Client : WorkerHolds(c) => wpc[c] = "read"
        /\ \A t \in Thread : ~HandlerHolds(t)

MutexInv == HoldersHaveMutex /\ OneHolder /\ DeviceStuck

LEMMA InitMutex == Init => MutexInv
  BY DEF Init, MutexInv, HoldersHaveMutex, OneHolder, DeviceStuck,
         WorkerHolds, HandlerHolds, Held

LEMMA MutexUnchanged ==
    ASSUME MutexInv, UNCHANGED <<mutex, wpc, alarm, devlock>>
    PROVE  MutexInv'
  BY DEF MutexInv, HoldersHaveMutex, OneHolder, DeviceStuck, WorkerHolds,
         HandlerHolds

LEMMA MutexWorker ==
    ASSUME ServerTypes, MutexInv, NEW c \in Client, Worker(c), ~Handler(c)
    PROVE  MutexInv'
<1> USE IdentityAssumption
    DEF ServerTypes, TypeOK, MutexInv, HoldersHaveMutex, OneHolder,
        DeviceStuck, WorkerHolds, HandlerHolds, Held, Goto, At, Outside,
        OutsideHandler, alarmvars, devicevars, Thread
<1>1. CASE Crash
  BY <1>1, MutexUnchanged DEF Crash, workervars
<1>2. CASE Break(c)
  <2>1. wpc' = [wpc EXCEPT ![c] = "break"]
    BY <1>2 DEF Break
  <2>2. UNCHANGED <<mutex, alarm, devlock>>
    BY <1>2 DEF Break
  <2>3. QED  BY <2>1, <2>2
<1>3. CASE Lock(c)
  BY <1>3 DEF Lock
<1>4. CASE Receive(c)
  BY <1>4 DEF Receive
<1>5. CASE ReceiveNothing(c)
  BY <1>5 DEF ReceiveNothing
<1>6. CASE Write(c)
  <2>1. devlock' = devlock
    BY <1>6 DEF Write, Store
  <2>2. QED  BY <1>6, <2>1 DEF Write
<1>7. CASE FileSize(c)
  BY <1>7 DEF FileSize
<1>8. CASE IoctlSeekTo(c)
  BY <1>8 DEF IoctlSeekTo
<1>9. CASE FileRead(c)
  <2>1. /\ wpc[c] = "read" /\ wpc' = [wpc EXCEPT ![c] = "send"]
        /\ ~devlock
        /\ UNCHANGED <<mutex, alarm, devlock>>
    BY <1>9 DEF FileRead, CanCall
  <2>2. QED  BY <2>1
<1>10. CASE Send(c)
  BY <1>10 DEF Send
<1>11. CASE Finish(c)
  BY <1>11 DEF Finish
<1>12. QED
  BY <1>1, <1>2, <1>3, <1>4, <1>5, <1>6, <1>7, <1>8, <1>9, <1>10, <1>11,
     WorkerFails
     DEF Worker

LEMMA MutexHandler ==
    ASSUME ServerTypes, MutexInv, NEW t \in Thread, Alarm(t) \/ Handler(t)
    PROVE  MutexInv'
<1> USE IdentityAssumption
    DEF ServerTypes, TypeOK, MutexInv, HoldersHaveMutex, OneHolder,
        DeviceStuck, WorkerHolds, HandlerHolds, InHandler, HandlerTo,
        OutsideHandler, workervars, devicevars, Thread
<1>1. CASE Crash
  BY <1>1, MutexUnchanged DEF Crash, alarmvars
<1>2. CASE Alarm(t)
  BY <1>2 DEF Alarm
<1>3. CASE AlarmLock(t)
  BY <1>3 DEF AlarmLock
<1>4. CASE AlarmWrite(t) /\ ~Crash
  <2>1. devlock' = devlock
    BY <1>4 DEF AlarmWrite, Store
  <2>2. QED  BY <1>4, <2>1 DEF AlarmWrite
<1>5. QED  BY <1>1, <1>2, <1>3, <1>4 DEF Handler

LEMMA MutexStep ==
    ASSUME ServerTypes, LifeInv, MutexInv, Next
    PROVE  MutexInv'
<1>1. ASSUME NEW c \in Client, Accept(c) PROVE MutexInv'
  <2>1. CASE AcceptAndStart(c)
    <3>1. wpc[c] = "none" /\ wpc' = [wpc EXCEPT ![c] = "lock"]
      BY <1>1, <2>1 DEF Accept, AcceptAndStart, Goto, LifeInv, NotAccepted
    <3>2. UNCHANGED <<mutex, alarm, devlock>>
      BY <2>1 DEF AcceptAndStart, devicevars, alarmvars
    <3>3. QED
      BY <3>1, <3>2 DEF ServerTypes, TypeOK, MutexInv, HoldersHaveMutex,
                        OneHolder, DeviceStuck, WorkerHolds, HandlerHolds, Held
  <2>2. CASE ~AcceptAndStart(c)
    BY <1>1, <2>2, MutexUnchanged
       DEF Accept, AcceptAndForget, AcceptAndClose, AcceptWithoutThread,
           AcceptCannotOpen, Threads, devicevars, workervars, alarmvars
  <2>3. QED  BY <2>1, <2>2
<1>2. CASE KillMutex
  BY <1>2, IdentityAssumption
     DEF KillMutex, workervars, alarmvars, MutexInv, HoldersHaveMutex,
         OneHolder, DeviceStuck, WorkerHolds, HandlerHolds
<1>3. CASE \/ SelectTimeout \/ Reap \/ StopTimer \/ KillThreads
           \/ KillThreadsFails \/ ReturnFromMain
  BY <1>3, MutexUnchanged
     DEF SelectTimeout, Reap, StopTimer, KillThreads, KillThreadsFails,
         ReturnFromMain, Threads, devicevars, workervars, alarmvars
<1>4. CASE \/ IdleClose \/ KillFile \/ ReapFreedNode \/ KillFreedNode
           \/ Signal \/ \E c \in Client : Connect(c)
  BY <1>4, MutexUnchanged
     DEF IdleClose, KillFile, CloseData, ReapFreedNode, KillFreedNode, Crash,
         Signal, Connect, Threads, devicevars, workervars, alarmvars
<1>5. QED
  BY <1>1, <1>2, <1>3, <1>4, MutexWorker, MutexHandler
     DEF Next, Main, Worker, Thread

-----------------------------------------------------------------------------
(***************************************************************************)
(* Ends of sequences: IsSuffix is defined by prefixes of the reverses.     *)
(***************************************************************************)
LEMMA SuffixByElements ==
    ASSUME NEW S, NEW s \in Seq(S), NEW t \in Seq(S), Len(t) <= Len(s),
           \A i \in 1..Len(t) : t[i] = s[Len(s) - Len(t) + i]
    PROVE  IsSuffix(t, s)
<1> DEFINE m == Len(t)
           n == Len(s)
           rt == Reverse(t)
           rs == Reverse(s)
<1>1. m \in Nat /\ n \in Nat /\ m <= n
  BY LenProperties
<1>2. /\ rt \in Seq(S) /\ Len(rt) = m /\ \A i \in 1..m : rt[i] = t[m - i + 1]
      /\ rs \in Seq(S) /\ Len(rs) = n /\ \A i \in 1..n : rs[i] = s[n - i + 1]
  BY <1>1 DEF Reverse
<1> HIDE DEF m, n, rt, rs
<1>3. /\ SubSeq(rt, 1, m) \in Seq(S) /\ Len(SubSeq(rt, 1, m)) = m
      /\ \A i \in 1..m : SubSeq(rt, 1, m)[i] = rt[i]
  <2>1. \A i \in 1..m : rt[i] \in S
    BY <1>2, ElementOfSeq
  <2>2. QED  BY <1>1, <2>1, SubSeqProperties
<1>4. /\ SubSeq(rs, 1, m) \in Seq(S) /\ Len(SubSeq(rs, 1, m)) = m
      /\ \A i \in 1..m : SubSeq(rs, 1, m)[i] = rs[i]
  <2>1. \A i \in 1..m : rs[i] \in S
    BY <1>1, <1>2, ElementOfSeq
  <2>2. QED  BY <1>1, <2>1, SubSeqProperties
<1>5. \A i \in 1..m : rt[i] = rs[i]
  <2> SUFFICES ASSUME NEW i \in 1..m PROVE rt[i] = rs[i]
    OBVIOUS
  <2>1. m - i + 1 \in 1..m /\ n - m + (m - i + 1) = n - i + 1
    BY <1>1
  <2>2. t[m - i + 1] = s[n - m + (m - i + 1)]
    BY <2>1 DEF m, n
  <2>3. i \in 1..n
    BY <1>1
  <2>4. QED  BY <1>2, <2>1, <2>2, <2>3
<1>6. SubSeq(rt, 1, m) = SubSeq(rs, 1, m)
  BY <1>3, <1>4, <1>5, SeqEqual
<1>7. QED  BY <1>1, <1>2, <1>6 DEF IsSuffix, IsPrefix, rt, rs

LEMMA SuffixOfConcat ==
    ASSUME NEW S, NEW s \in Seq(S), NEW t \in Seq(S)
    PROVE  IsSuffix(t, s \o t)
<1>1. /\ s \o t \in Seq(S) /\ Len(s \o t) = Len(s) + Len(t)
      /\ \A i \in 1 .. Len(s) + Len(t) :
            (s \o t)[i] = IF i <= Len(s) THEN s[i] ELSE t[i - Len(s)]
  BY ConcatProperties
<1> DEFINE u == s \o t
<1> HIDE DEF u
<1>2. Len(s) \in Nat /\ Len(t) \in Nat
  BY LenProperties
<1>3. u \in Seq(S) /\ Len(t) <= Len(u)
  BY <1>1, <1>2 DEF u
<1>4. \A i \in 1..Len(t) : t[i] = u[Len(u) - Len(t) + i]
  <2> SUFFICES ASSUME NEW i \in 1..Len(t)
               PROVE  t[i] = u[Len(u) - Len(t) + i]
    OBVIOUS
  <2>1. Len(u) - Len(t) + i = Len(s) + i
    BY <1>1, <1>2 DEF u
  <2>2. /\ Len(s) + i \in 1 .. Len(s) + Len(t)
        /\ ~(Len(s) + i <= Len(s)) /\ (Len(s) + i) - Len(s) = i
    BY <1>2
  <2>3. u[Len(s) + i] = t[i]
    BY <1>1, <2>2 DEF u
  <2>4. QED  BY <2>1, <2>3
<1>5. IsSuffix(t, u)
  BY <1>3, <1>4, SuffixByElements
<1>6. QED  BY <1>5 DEF u

LEMMA SuffixOfRest ==
    ASSUME NEW S, NEW s \in Seq(S), NEW m \in Nat
    PROVE  IsSuffix(SubSeq(s, m + 1, Len(s)), s)
<1> DEFINE n == Len(s)
           t == SubSeq(s, m + 1, n)
<1>1. n \in Nat
  BY LenProperties
<1>2. \A i \in m + 1 .. n : s[i] \in S
  BY <1>1, ElementOfSeq
<1>3. /\ t \in Seq(S) /\ Len(t) = IF m + 1 <= n THEN n - m ELSE 0
      /\ \A i \in 1 .. n - m : t[i] = s[m + i]
  <2> HIDE DEF n
  <2>1. /\ t \in Seq(S)
        /\ Len(t) = IF m + 1 <= n THEN n - (m + 1) + 1 ELSE 0
        /\ \A i \in 1 .. n - (m + 1) + 1 : t[i] = s[(m + 1) + i - 1]
    BY <1>1, <1>2, SubSeqProperties
  <2>2. n - (m + 1) + 1 = n - m /\ \A i \in Int : (m + 1) + i - 1 = m + i
    BY <1>1
  <2> HIDE DEF t
  <2>3. QED  BY <2>1, <2>2
<1> HIDE DEF n, t
<1>4. Len(t) <= n /\ \A i \in 1..Len(t) : t[i] = s[n - Len(t) + i]
  <2>1. CASE m + 1 <= n
    <3>1. Len(t) = n - m /\ n - Len(t) = m
      BY <1>1, <1>3, <2>1
    <3>2. QED  BY <1>1, <1>3, <3>1
  <2>2. CASE ~(m + 1 <= n)
    BY <1>1, <1>3, <2>2
  <2>3. QED  BY <2>1, <2>2
<1>5. IsSuffix(t, s)
  BY <1>3, <1>4, SuffixByElements DEF n
<1>6. QED  BY <1>5 DEF n, t

-----------------------------------------------------------------------------
(***************************************************************************)
(* Snapshots.  While a worker is on its way from its write to its send,    *)
(* the device ends with its command; it reads from the beginning, or its   *)
(* FILE has been closed and it will not read at all.  By OneHolder nobody  *)
(* else is inside to change the device or the position.                    *)
(***************************************************************************)
EndsWithOwn(c) ==
    IF CharDevice THEN Last(Contents(ring)).buffptr = rbuffer[c].bytes
                  ELSE IsSuffix(rbuffer[c].bytes, file)

CommandStands(c) ==
    /\ wpc[c] \in {"size", "read", "send"} /\ rbuffer[c].kind = "line" =>
            EndsWithOwn(c)
    /\ wpc[c] = "read" /\ rbuffer[c].kind = "line" /\ datafd # "closed" =>
            f_pos = 0
    /\ wpc[c] = "send" =>
            /\ IsSuffix(sbuffer[c], StoredBytes)
            /\ rbuffer[c].kind = "line" => sbuffer[c] = StoredBytes

FileClosedAtEnd == main \in {"kill_mutex", "return"} => datafd # "open"

SnapshotInv ==
    /\ FileClosedAtEnd
    /\ ~Deleted => \A c \in Client : CommandStands(c)

SocketInv == ServerTypes /\ LifeInv /\ MutexInv /\ SnapshotInv

LEMMA InitSnapshot == Init => SnapshotInv
  BY DEF Init, SnapshotInv, FileClosedAtEnd, CommandStands

\* Outside its command a worker claims nothing.
LEMMA NothingClaimed ==
    ASSUME NEW c \in Client, wpc'[c] \notin {"size", "read", "send"}
    PROVE  CommandStands(c)'
  BY DEF CommandStands

\* The claim of a worker that stays where it is, on the same device.
LEMMA ClaimStands ==
    ASSUME NEW c \in Client, CommandStands(c),
           wpc'[c] = wpc[c], rbuffer'[c] = rbuffer[c],
           sbuffer'[c] = sbuffer[c], f_pos' = f_pos, ring' = ring,
           CharDevice \/ file' = file,
           datafd = "closed" => datafd' = "closed"
    PROVE  CommandStands(c)'
<1>1. StoredBytes' = StoredBytes
  BY DEF StoredBytes, Contents, Count, Slot
<1>2. EndsWithOwn(c)' <=> EndsWithOwn(c)
  BY DEF EndsWithOwn, Contents, Count, Slot
<1>3. QED  BY <1>1, <1>2 DEF CommandStands

LEMMA StoreEndsWithOwn ==
    ASSUME ServerTypes, NEW c \in Client, rbuffer[c] \in Packets,
           rbuffer[c].kind = "line", Store(rbuffer[c].bytes),
           rbuffer' = rbuffer
    PROVE  EndsWithOwn(c)'
<1> DEFINE bytes == rbuffer[c].bytes
<1>1. bytes \in Seq(Char)
  BY ConstantTypes
<1>2. CASE CharDevice
  <2> DEFINE e == [buffptr |-> bytes, size |-> Len(bytes)]
             log == Contents(ring)
             old == IF Len(log) < MaxWriteOps THEN log ELSE Tail(log)
  <2>1. e \in Commands /\ ring' = AddEntry(ring, e)
    BY <1>2, ConstantTypes DEF Store
  <2>2. ring \in RingOf(Commands) /\ Consistent(ring, Commands)
    BY DEF ServerTypes, TypeOK
  <2> HIDE DEF e
  <2>3. Contents(ring') = Append(old, e)
    BY <2>1, <2>2, AddEntryIsPush DEF Push
  <2>4. old \in Seq(Commands)
    <3>1. log \in Seq(Commands)
      BY <2>2, ContentsType
    <3>2. Len(log) >= MaxWriteOps => log # << >>
      BY MaxWriteOpsAssumption
    <3> HIDE DEF log
    <3>3. Len(log) \in Nat
      BY <3>1, LenProperties
    <3>4. QED  BY <3>1, <3>2, <3>3, HeadTailProperties, MaxWriteOpsAssumption
  <2> HIDE DEF old
  <2>5. Last(Append(old, e)) = e
    BY <2>1, <2>4 DEF Last
  <2>6. Contents(ring)' = Contents(ring')
    BY DEF Contents, Count, Slot
  <2>7. QED  BY <1>2, <2>3, <2>5, <2>6 DEF EndsWithOwn, e
<1>3. CASE ~CharDevice
  <2>1. file' = file \o bytes /\ file \in Seq(Char)
    BY <1>3 DEF Store, ServerTypes, TypeOK
  <2>2. IsSuffix(bytes, file')
    BY <1>1, <2>1, SuffixOfConcat
  <2>3. QED  BY <1>3, <2>2 DEF EndsWithOwn
<1>4. QED  BY <1>2, <1>3

LEMMA SnapshotWorker ==
    ASSUME SocketInv, NEW c \in Client, Worker(c), ~Handler(c), ~Crash
    PROVE  SnapshotInv'
<1> USE DEF SocketInv, At, Outside, mainvars
<1>1. FileClosedAtEnd' /\ Deleted' = Deleted /\ datafd' = datafd
  <2>1. UNCHANGED <<main, datafd>>
    BY WorkerFails
       DEF Worker, Lock, Receive, ReceiveNothing, Write, FileSize,
           IoctlSeekTo, FileRead, Send, Finish, Break
  <2>2. QED  BY <2>1 DEF SnapshotInv, FileClosedAtEnd, Deleted
<1> SUFFICES ASSUME ~Deleted, NEW d \in Client PROVE CommandStands(d)'
  BY <1>1 DEF SnapshotInv
<1>2. CommandStands(d)
  BY DEF SnapshotInv
<1>3. /\ wpc \in [Client -> Places] /\ rbuffer \in [Client -> Packets \cup {NoPacket}]
      /\ sbuffer \in [Client -> Seq(Char)]
  BY DEF ServerTypes, TypeOK
<1>4. CASE Lock(c) \/ ReceiveNothing(c) \/ Finish(c) \/ Send(c) \/ Break(c)
  <2>1. \E place \in {"recv", "finish", "done", "failed", "lock", "break"} :
            wpc' = [wpc EXCEPT ![c] = place]
    BY <1>4 DEF Lock, ReceiveNothing, Finish, Send, Break, Goto
  <2>2. /\ UNCHANGED devicevars
        /\ d # c => rbuffer'[d] = rbuffer[d] /\ sbuffer'[d] = sbuffer[d]
    BY <1>3, <1>4 DEF Lock, ReceiveNothing, Finish, Send, Break
  <2>3. CASE d = c
    BY <1>3, <2>1, <2>3, NothingClaimed
  <2>4. CASE d # c
    BY <1>1, <1>2, <1>3, <2>1, <2>2, <2>4, ClaimStands DEF devicevars
  <2>5. QED  BY <2>3, <2>4
<1>5. CASE Receive(c)
  <2>1. /\ UNCHANGED devicevars /\ sbuffer' = sbuffer
        /\ rbuffer' = [rbuffer EXCEPT ![c] = Head(packets[c])]
        /\ wpc' = [wpc EXCEPT ![c] =
                        CASE Head(packets[c]).kind = "line" -> "write"
                          [] Head(packets[c]).kind = "seek" -> "size"
                          [] Head(packets[c]).kind = "part" -> "lock"]
    BY <1>5 DEF Receive, Goto
  <2>2. Head(packets[c]).kind \in {"line", "seek", "part"}
    <3>1. packets[c] \in Seq(Packets) /\ packets[c] # << >>
      BY <1>5 DEF Receive, ServerTypes, TypeOK
    <3>2. Head(packets[c]) \in Packets
      BY <3>1
    <3>3. QED  BY <3>2, ConstantTypes
  <2>3. CASE d = c
    BY <1>3, <2>1, <2>2, <2>3 DEF CommandStands
  <2>4. CASE d # c
    BY <1>1, <1>2, <1>3, <2>1, <2>4, ClaimStands DEF devicevars
  <2>5. QED  BY <2>3, <2>4
<1>6. ASSUME wpc[c] \in Held, d # c, wpc'[d] = wpc[d]
      PROVE  CommandStands(d)'
  <2>1. wpc[d] \notin Held
    BY <1>6 DEF MutexInv, OneHolder, WorkerHolds
  <2>2. QED  BY <1>6, <2>1, NothingClaimed DEF Held
<1>7. CASE Write(c)
  <2>1. wpc[c] \in Held /\ wpc' = [wpc EXCEPT ![c] = "size"]
    BY <1>7 DEF Write, Goto, Held
  <2>2. CASE d = c
    <3>1. rbuffer[c].kind = "line" /\ rbuffer[c] \in Packets
      BY <1>3, <1>7 DEF Write, NoPacket, ServerTypes, BufferFits
    <3>2. EndsWithOwn(c)'
      BY <1>7, <3>1, StoreEndsWithOwn DEF Write
    <3>3. QED  BY <1>3, <2>1, <2>2, <3>2 DEF CommandStands
  <2>3. QED  BY <1>3, <1>6, <2>1, <2>2
<1>8. CASE FileSize(c)
  <2>1. /\ wpc[c] = "size"
        /\ wpc' = [wpc EXCEPT ![c] = IF rbuffer[c].kind = "seek" THEN "ioctl"
                                                                ELSE "read"]
        /\ UNCHANGED <<ring, file, rbuffer>>
        /\ datafd # "closed" => f_pos' = 0
    BY <1>8 DEF FileSize, Goto
  <2>2. CASE d = c
    <3>1. EndsWithOwn(c)' <=> EndsWithOwn(c)
      BY <2>1 DEF EndsWithOwn, Contents, Count, Slot
    <3>2. QED  BY <1>1, <1>2, <1>3, <2>1, <2>2, <3>1 DEF CommandStands
  <2>3. QED  BY <1>3, <1>6, <2>1, <2>2 DEF Held
<1>9. CASE IoctlSeekTo(c)
  <2>1. /\ wpc[c] = "ioctl" /\ wpc' = [wpc EXCEPT ![c] = "read"]
        /\ rbuffer' = rbuffer /\ rbuffer[c].kind = "seek"
    BY <1>9 DEF IoctlSeekTo, Goto, ServerTypes, BufferFits
  <2>2. CASE d = c
    BY <1>3, <2>1, <2>2 DEF CommandStands
  <2>3. QED  BY <1>3, <1>6, <2>1, <2>2 DEF Held
<1>10. CASE FileRead(c)
  <2>1. /\ wpc[c] = "read" /\ wpc' = [wpc EXCEPT ![c] = "send"]
        /\ UNCHANGED <<ring, file, rbuffer>> /\ datafd = "open"
        /\ sbuffer' = [sbuffer EXCEPT ![c] =
                    SubSeq(StoredBytes, f_pos + 1, Len(StoredBytes))]
    BY <1>10 DEF FileRead, CanCall, Goto
  <2>2. CASE d = c
    <3>1. StoredBytes \in Seq(Char) /\ f_pos \in Nat
      BY StoredBytesType DEF ServerTypes, TypeOK
    <3>2. IsSuffix(sbuffer'[c], StoredBytes)
      BY <1>3, <2>1, <3>1, SuffixOfRest
    <3>3. rbuffer[c].kind = "line" => sbuffer'[c] = StoredBytes
      <4> SUFFICES ASSUME rbuffer[c].kind = "line"
                   PROVE  sbuffer'[c] = StoredBytes
        OBVIOUS
      <4>1. f_pos = 0
        BY <1>2, <2>1, <2>2 DEF CommandStands
      <4>2. sbuffer'[c] = SubSeq(StoredBytes, 1, Len(StoredBytes))
        BY <1>3, <2>1, <4>1
      <4>3. QED  BY <3>1, <4>2, SubSeqFull
    <3>4. StoredBytes' = StoredBytes
      BY <2>1 DEF StoredBytes, Contents, Count, Slot
    <3>5. EndsWithOwn(c)' <=> EndsWithOwn(c)
      BY <2>1 DEF EndsWithOwn, Contents, Count, Slot
    <3>6. QED
      BY <1>2, <1>3, <2>1, <2>2, <3>2, <3>3, <3>4, <3>5 DEF CommandStands
  <2>3. QED  BY <1>3, <1>6, <2>1, <2>2 DEF Held
<1>11. QED
  BY <1>4, <1>5, <1>7, <1>8, <1>9, <1>10, WorkerFails DEF Worker

\* Steps that leave the workers and the device alone.
LEMMA SnapshotFrame ==
    ASSUME SnapshotInv, FileClosedAtEnd', Deleted => Deleted',
           UNCHANGED <<wpc, rbuffer, sbuffer, f_pos, ring>>,
           CharDevice \/ file' = file \/ Deleted',
           datafd = "closed" => datafd' = "closed"
    PROVE  SnapshotInv'
<1> SUFFICES ASSUME ~Deleted', NEW c \in Client PROVE CommandStands(c)'
  BY DEF SnapshotInv
<1>1. CommandStands(c)
  BY DEF SnapshotInv
<1>2. QED  BY <1>1, ClaimStands

LEMMA SnapshotHandler ==
    ASSUME SocketInv, NEW t \in Thread, Alarm(t) \/ Handler(t), ~Crash
    PROVE  SnapshotInv'
<1>1. /\ UNCHANGED <<main, datafd, wpc, rbuffer, sbuffer>>
      /\ FileClosedAtEnd' /\ Deleted' = Deleted
  BY DEF SocketInv, SnapshotInv, FileClosedAtEnd, Deleted, Alarm, Handler,
         AlarmLock, AlarmWrite, mainvars, workervars
<1>2. CASE AlarmWrite(t)
  <2>1. \A c \in Client : wpc'[c] \notin Held
    BY <1>1, <1>2 DEF AlarmWrite, InHandler, SocketInv, MutexInv, OneHolder,
                      WorkerHolds, HandlerHolds
  <2>2. \A c \in Client : CommandStands(c)'
    BY <2>1, NothingClaimed DEF Held
  <2>3. QED  BY <1>1, <2>2 DEF SnapshotInv
<1>3. CASE Alarm(t) \/ AlarmLock(t)
  <2>1. UNCHANGED <<f_pos, ring, file>>
    BY <1>3 DEF Alarm, AlarmLock, devicevars
  <2>2. QED  BY <1>1, <2>1, SnapshotFrame DEF SocketInv
<1>4. QED  BY <1>2, <1>3 DEF Handler

LEMMA SnapshotMain ==
    ASSUME SocketInv,
           \/ \E c \in Client : Accept(c) \/ Connect(c)
           \/ Signal \/ Crash \/ SelectTimeout \/ IdleClose \/ Reap
           \/ StopTimer \/ KillThreads \/ KillThreadsFails
           \/ KillFile \/ KillMutex \/ ReturnFromMain
    PROVE  SnapshotInv'
<1> USE DEF SocketInv, SnapshotInv, FileClosedAtEnd, Deleted, MainAt,
            mainvars, devicevars, workervars, Threads
<1>1. SnapshotInv
  OBVIOUS
<1>2. CASE Signal \/ Crash \/ \E c \in Client : Connect(c)
  <2>1. /\ UNCHANGED <<main, datafd>> /\ UNCHANGED <<wpc, rbuffer, sbuffer>>
        /\ UNCHANGED <<f_pos, ring, file>>
    BY <1>2 DEF Connect, Signal, Crash
  <2>2. QED  BY <1>1, <2>1, SnapshotFrame
<1>3. ASSUME NEW c \in Client, Accept(c), ~AcceptAndStart(c)
      PROVE  SnapshotInv'
  <2>1. /\ main = "select" /\ main' \notin {"kill_mutex", "return"}
        /\ datafd = "closed" => datafd' = "closed"
        /\ UNCHANGED <<wpc, rbuffer, sbuffer, f_pos, ring, file>>
    BY <1>3, IdentityAssumption
       DEF Accept, AcceptAndForget, AcceptAndClose, AcceptWithoutThread,
           AcceptCannotOpen, OpenData, Proceed
  <2>2. QED  BY <1>1, <2>1, SnapshotFrame
<1>4. ASSUME NEW c \in Client, Accept(c), AcceptAndStart(c)
      PROVE  SnapshotInv'
  <2>1. /\ main = "select" /\ main' \notin {"kill_mutex", "return"}
        /\ datafd = "closed" => datafd' = "closed"
        /\ UNCHANGED <<rbuffer, sbuffer, f_pos, ring, file>>
        /\ wpc' = [wpc EXCEPT ![c] = "lock"]
    BY <1>4, IdentityAssumption
       DEF Accept, AcceptAndStart, OpenData, Proceed, Goto
  <2>2. ASSUME NEW d \in Client PROVE CommandStands(d)'
    <3>1. wpc \in [Client -> Places] /\ CommandStands(d)
      BY <2>1 DEF ServerTypes, TypeOK
    <3>2. CASE d = c
      BY <2>1, <3>1, <3>2, NothingClaimed
    <3>3. CASE d # c
      BY <2>1, <3>1, <3>3, ClaimStands
    <3>4. QED  BY <3>2, <3>3
  <2>3. QED  BY <2>1, <2>2
<1>5. CASE \/ SelectTimeout \/ Reap \/ StopTimer \/ KillThreads
           \/ KillThreadsFails \/ ReturnFromMain
  <2>1. /\ datafd' = datafd
        /\ main = "return" => main' = "return"
        /\ main' \in {"kill_mutex", "return"} => main' = main
        /\ UNCHANGED <<wpc, rbuffer, sbuffer, f_pos, ring, file>>
    BY <1>5 DEF SelectTimeout, Reap, StopTimer, KillThreads,
                KillThreadsFails, ReturnFromMain, Proceed
  <2>2. QED  BY <1>1, <2>1, SnapshotFrame
<1>6. CASE (IdleClose \/ KillFile) /\ ~Crash
  <2>1. /\ main # "return" /\ main' # "return"
        /\ datafd' # "open"
        /\ datafd = "closed" => datafd' = "closed"
        /\ UNCHANGED <<wpc, rbuffer, sbuffer, f_pos, ring, file>>
    BY <1>6, IdentityAssumption DEF IdleClose, KillFile, CloseData
  <2>2. QED  BY <1>1, <2>1, SnapshotFrame
<1>7. CASE KillMutex
  <2>1. /\ main = "kill_mutex" /\ main' = "return" /\ datafd' = datafd
        /\ UNCHANGED <<wpc, rbuffer, sbuffer, f_pos, ring>>
    BY <1>7 DEF KillMutex
  <2>2. QED  BY <1>1, <2>1, SnapshotFrame
<1>8. QED  BY <1>2, <1>3, <1>4, <1>5, <1>6, <1>7

LEMMA SnapshotStep ==
    ASSUME SocketInv, Next
    PROVE  SnapshotInv'
<1>1. CASE Crash
  BY <1>1, SnapshotMain
<1>2. ASSUME NEW c \in Client, Worker(c), ~Crash PROVE SnapshotInv'
  BY <1>2, SnapshotWorker, SnapshotHandler DEF Thread
<1>3. ASSUME NEW t \in Thread, Alarm(t) \/ Handler(t), ~Crash
      PROVE  SnapshotInv'
  BY <1>3, SnapshotHandler
<1>4. CASE Main /\ ~Crash
  BY <1>3, <1>4, SnapshotMain
     DEF Main, ReapFreedNode, KillFreedNode, Thread
<1>5. QED  BY <1>1, <1>2, <1>3, <1>4, SnapshotMain DEF Next

-----------------------------------------------------------------------------
(***************************************************************************)
(* The theorems.                                                           *)
(***************************************************************************)
LEMMA TypesStep ==
    ASSUME ServerTypes, Next
    PROVE  ServerTypes'
<1>1. ASSUME NEW c \in Client, Worker(c) PROVE ServerTypes'
  BY <1>1, WorkerTypes, DeviceTypes, HandlerTypes, WorkerFails, BreakTypes,
     CrashTypes
     DEF Worker, Thread
<1>2. ASSUME NEW t \in Thread, Alarm(t) \/ Handler(t) PROVE ServerTypes'
  BY <1>2, HandlerTypes
<1>3. CASE Main
  BY <1>2, <1>3, MainTypes DEF Main, Thread
<1>4. QED  BY <1>1, <1>2, <1>3, EnvironmentTypes DEF Next

LEMMA SocketInvHolds == Spec => []SocketInv
<1>1. Init => SocketInv
  BY InitTypes, InitLife, InitMutex, InitSnapshot DEF SocketInv
<1>2. SocketInv /\ [Next]_vars => SocketInv'
  <2> SUFFICES ASSUME SocketInv, [Next]_vars PROVE SocketInv'
    OBVIOUS
  <2>1. CASE Next
    BY <2>1, TypesStep, LifeStep, MutexStep, SnapshotStep DEF SocketInv
  <2>2. CASE UNCHANGED vars
    <3> USE DEF vars, mainvars, devicevars, workervars, listvars, alarmvars,
                SocketInv
    <3>1. ServerTypes'
      BY <2>2 DEF ServerTypes, TypeOK, BufferFits, TimerIsForFile, Consistent
    <3>2. LifeInv'
      BY <2>2 DEF LifeInv, NotAccepted, CompleteIsUnjoined, JoinedOnce,
                  SocketOutlivesWorker
    <3>3. MutexInv'
      BY <2>2, MutexUnchanged
    <3>4. SnapshotInv'
      BY <2>2, SnapshotFrame DEF SnapshotInv, FileClosedAtEnd, Deleted
    <3>5. QED  BY <3>1, <3>2, <3>3, <3>4
  <2>3. QED  BY <2>1, <2>2
<1>3. QED  BY <1>1, <1>2, PTL DEF Spec

\* Every variable of the server keeps its type, whatever fails: what a worker
\* has received is a packet, and what is stored are whole texts' characters.
THEOREM ServerTypesHold == Spec => []TypeOK
<1>1. SocketInv => TypeOK
  BY DEF SocketInv, ServerTypes
<1>2. QED  BY <1>1, SocketInvHolds, PTL

\* aesdsocket.c:421-510, process_kill and check_for_completed_threads: a thread
\* is joined at most once, and only after it has finished.
THEOREM ThreadsAreJoinedOnce == Spec => []JoinedOnce
<1>1. SocketInv => JoinedOnce
  BY DEF SocketInv, LifeInv
<1>2. QED  BY <1>1, SocketInvHolds, PTL

\* aesdsocket.c:421-482, process_kill never closes the socket of a worker that
\* is still in its loop, and neither does a failed start.
THEOREM SocketsOutliveWorkers == Spec => []SocketOutlivesWorker
<1>1. SocketInv => SocketOutlivesWorker
  BY DEF SocketInv, LifeInv
<1>2. QED  BY <1>1, SocketInvHolds, PTL

\* aesdsocket.c:305-336: once a rejected seek has left dev->lock held, its
\* worker keeps the server's mutex, so nobody else meets the device.
THEOREM DeviceLockIsContained == Spec => []DeviceLockStaysBehindMutex
<1>1. SocketInv => DeviceLockStaysBehindMutex
  BY DEF SocketInv, MutexInv, HoldersHaveMutex, DeviceStuck, WorkerHolds,
         Held, DeviceLockStaysBehindMutex, InCommand
<1>2. QED  BY <1>1, SocketInvHolds, PTL

\* aesdsocket.c:304-328: what a worker sends is all the device or the file
\* holds, ending with the worker's own command.
THEOREM RepliesAreSnapshots == Spec => []ReplyIsOwnSnapshot
<1>1. SocketInv => ReplyIsOwnSnapshot
  BY DEF SocketInv, SnapshotInv, CommandStands, EndsWithOwn,
         ReplyIsOwnSnapshot
<1>2. QED  BY <1>1, SocketInvHolds, PTL

-----------------------------------------------------------------------------
(***************************************************************************)
(* The file only grows, by whole commands and timestamps.                  *)
(***************************************************************************)
LEMMA StoreGrowsFile ==
    ASSUME NEW bytes \in Texts, Store(bytes)
    PROVE  UNCHANGED file \/ \E text \in Texts : file' = file \o text
  BY DEF Store

LEMMA FileStep ==
    ASSUME SocketInv, Next, file' # file
    PROVE  \/ \E text \in Texts : file' = file \o text
           \/ main = "kill_mutex" /\ file' = << >>
<1> USE DEF devicevars
<1>1. ~Crash
  BY DEF Crash
<1>2. ASSUME NEW t \in Thread, Alarm(t) \/ Handler(t)
      PROVE  \E text \in Texts : file' = file \o text
  <2>1. Store(Stamp) /\ Stamp \in Texts
    BY <1>1, <1>2 DEF Alarm, Handler, AlarmLock, AlarmWrite, Texts
  <2>2. QED  BY <2>1, StoreGrowsFile
<1>3. ASSUME NEW c \in Client, Worker(c), ~Handler(c)
      PROVE  \E text \in Texts : file' = file \o text
  <2>1. Write(c)
    BY <1>1, <1>3, WorkerFails
       DEF Worker, Lock, Receive, ReceiveNothing, FileSize, IoctlSeekTo,
           FileRead, Send, Finish, Break
  <2>2. rbuffer[c].kind = "line" /\ rbuffer[c] \in Packets
    BY <2>1 DEF Write, At, NoPacket, SocketInv, ServerTypes, TypeOK, BufferFits
  <2>3. QED  BY <2>1, <2>2, ConstantTypes, StoreGrowsFile DEF Write
<1>4. CASE Main /\ ~Handler(MainThread)
  <2>1. KillMutex
    BY <1>1, <1>4
       DEF Main, Accept, AcceptAndStart, AcceptAndForget, AcceptAndClose,
           AcceptWithoutThread, AcceptCannotOpen, SelectTimeout, IdleClose,
           Reap, ReapFreedNode, StopTimer, KillThreads, KillThreadsFails,
           KillFreedNode, KillFile, CloseData, ReturnFromMain, Threads
  <2>2. QED  BY <2>1 DEF KillMutex, MainAt
<1>5. ~Signal /\ \A c \in Client : ~Connect(c)
  BY DEF Signal, Connect
<1>6. QED  BY <1>2, <1>3, <1>4, <1>5 DEF Next, Thread

\* aesdsocket.c:122, 320, 518: nothing that a client, the timer or an earlier
\* run has stored is overwritten before the file is deleted at the end.
THEOREM FileGrows == Spec => FileOnlyGrows
<1>1. SocketInv /\ [Next]_vars =>
        [ \/ \E text \in Texts : file' = file \o text
          \/ main = "kill_mutex" /\ file' = << >> ]_file
  BY FileStep DEF vars, devicevars
<1>2. QED  BY <1>1, SocketInvHolds, PTL DEF Spec, FileOnlyGrows

=============================================================================
