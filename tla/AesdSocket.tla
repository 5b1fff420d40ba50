----------------------------- MODULE AesdSocket -----------------------------
(***************************************************************************)
(* The socket server, server/aesdsocket.c: the main thread accepts         *)
(* connections, starts one worker thread for each, joins finished workers  *)
(* when it is idle and cleans up after a signal; the workers take turns,   *)
(* under one mutex, to store a received command and to send everything     *)
(* that is stored back.                                                    *)
(*                                                                         *)
(* Built with USE_AESD_CHAR_DEVICE the commands are stored in /dev/aesdchar*)
(* which is the ring of the driver: the server is its only user, so each   *)
(* system call is one step.  A call that leaves dev->lock held (see        *)
(* AesdChar) makes every later call on the device wait for ever.           *)
(*                                                                         *)
(* Built without, they are appended to a regular file, and so is a         *)
(* timestamp whenever an interval timer expires: the signal handler of     *)
(* SIGALRM does it, in whichever thread the signal finds.                  *)
(***************************************************************************)
EXTENDS AesdDevice, FiniteSets, SequencesExt

CONSTANTS
    Client,             \* the clients, one connection each
    Script,             \* the sequences of packets a client may send
    Failures,           \* whether malloc, pthread_create, fopen, write and
                        \* send can fail
    Destroyed,          \* the mutex after pthread_mutex_destroy
    CharDevice,         \* USE_AESD_CHAR_DEVICE
    MainThread,         \* the main thread, where threads are told apart
    Stamp,              \* the text of a timestamp
    Leftover,           \* what an earlier run may have left in the file
    MaxTicks            \* bound: how often the timer expires

(***************************************************************************)
(* What one recv returns: a command that contains '\n', a seek command, or *)
(* bytes without '\n'.                                                     *)
(***************************************************************************)
Line(bytes) == [kind |-> "line", bytes |-> bytes]

SeekCmd(cmd, off) ==
    [kind |-> "seek", write_cmd |-> cmd, write_cmd_offset |-> off]

Part == [kind |-> "part"]

NoPacket == [kind |-> "none"]

Packets == UNION {Range(script) : script \in Script}

Commands == {[buffptr |-> packet.bytes, size |-> Len(packet.bytes)] :
                packet \in {p \in Packets : p.kind = "line"}}

\* What the server stores, and the characters that may be in the file.
Texts == {Stamp} \cup {packet.bytes : packet \in
                            {p \in Packets : p.kind = "line"}}

Char == UNION {Range(text) : text \in Texts \cup Leftover}

ASSUME IdentityAssumption ==
    /\ MainThread \notin Client
    /\ NULL \notin Client \cup {MainThread, Destroyed, "open", "closed"}
    /\ Destroyed \notin Client \cup {MainThread}

ASSUME InputAssumption ==
    /\ \A script \in Script : script \in Seq(Packets)
    /\ \A packet \in Packets :
        \/ packet.kind = "line"
        \/ packet.kind = "seek" /\ packet.write_cmd \in Nat
                               /\ packet.write_cmd_offset \in Nat
        \/ packet.kind = "part"
    /\ \A text \in Texts \cup Leftover : text \in Seq(Char)
    /\ MaxTicks \in Nat

VARIABLES
    process,            \* "running", "exited" or "crashed"
    main,               \* where the main thread is
    signal_sign,        \* set by the handler of SIGINT and SIGTERM
    datafd,             \* NULL, "open", or "closed": a FILE already closed
    mutex,              \* the worker that holds it, NULL or Destroyed
    ring, f_pos,        \* the device, and the position of the open file
    devlock,            \* dev->lock has been left held
    file,               \* the bytes of the regular file
    conn,               \* each client's connection
    packets,            \* what each client is still going to send
    wpc,                \* where each worker is
    rbuffer, sbuffer,   \* its buffers
    size_read,          \* its local size_read
    list,               \* the thread list, newest first
    param,              \* "none", "valid" or "freed": its thread_data
    complete,           \* thread_complete_status
    joins,              \* how often each worker has been joined
    alarm,              \* where each thread is in the handler of SIGALRM
    ticks               \* how often the timer has expired

mainvars   == <<process, main, signal_sign>>
devicevars == <<ring, f_pos, devlock, file>>
workervars == <<wpc, rbuffer, sbuffer, size_read>>
listvars   == <<list, param, complete, joins>>
alarmvars  == <<alarm, ticks>>
vars == <<mainvars, datafd, mutex, devicevars, conn, packets,
          workervars, listvars, alarmvars>>

Thread == Client \cup {MainThread}

Init ==
    /\ process = "running"
    /\ main = "select"
    /\ signal_sign = FALSE
    /\ datafd = NULL
    /\ mutex = NULL
    /\ ring = EmptyBuffer /\ f_pos = 0 /\ devlock = FALSE
    /\ file \in IF CharDevice THEN {<< >>} ELSE Leftover
    /\ conn = [c \in Client |-> "none"]
    /\ packets = [c \in Client |-> << >>]
    /\ wpc = [c \in Client |-> "none"]
    /\ rbuffer = [c \in Client |-> NoPacket]
    /\ sbuffer = [c \in Client |-> << >>]
    /\ size_read = [c \in Client |-> 0]
    /\ list = << >>
    /\ param = [c \in Client |-> "none"]
    /\ complete = [c \in Client |-> FALSE]
    /\ joins = [c \in Client |-> 0]
    /\ alarm = [t \in Thread |-> "none"]
    /\ ticks = 0

-----------------------------------------------------------------------------
(***************************************************************************)
(* The environment: clients connect, somebody sends SIGINT or SIGTERM.     *)
(***************************************************************************)
Connect(c) ==
    /\ process = "running"
    /\ conn[c] = "none"
    /\ conn' = [conn EXCEPT ![c] = "queued"]
    /\ \E script \in Script : packets' = [packets EXCEPT ![c] = script]
    /\ UNCHANGED <<mainvars, datafd, mutex, devicevars, workervars, listvars,
                   alarmvars>>

\* signal_handler
Signal ==
    /\ process = "running"
    /\ ~signal_sign
    /\ signal_sign' = TRUE
    /\ UNCHANGED <<process, main, datafd, mutex, devicevars, conn, packets,
                   workervars, listvars, alarmvars>>

Crash ==
    /\ process' = "crashed"
    /\ UNCHANGED <<main, signal_sign, datafd, mutex, devicevars, conn, packets,
                   workervars, listvars, alarmvars>>

-----------------------------------------------------------------------------
(***************************************************************************)
(* Workers: tcp_echoback.  A step of a worker changes where it is and      *)
(* little else.  A thread that is in the handler of SIGALRM does nothing   *)
(* else before the handler returns.                                        *)
(***************************************************************************)
OutsideHandler(t) == process = "running" /\ alarm[t] = "none"

At(c, place) == OutsideHandler(c) /\ wpc[c] = place

Goto(c, place) == wpc' = [wpc EXCEPT ![c] = place]

Outside == <<mainvars, datafd, conn, listvars, alarmvars>>

\* pthread_mutex_lock of a default mutex: also its owner waits.
Lock(c) ==
    /\ At(c, "lock")
    /\ mutex = NULL
    /\ mutex' = c
    /\ Goto(c, "recv")
    /\ UNCHANGED <<Outside, devicevars, packets, rbuffer, sbuffer, size_read>>

\* tcp_receive returns data; a packet without '\n' goes round the loop with
\* the mutex still held.
Receive(c) ==
    /\ At(c, "recv")
    /\ packets[c] # << >>
    /\ packets' = [packets EXCEPT ![c] = Tail(@)]
    /\ rbuffer' = [rbuffer EXCEPT ![c] = Head(packets[c])]
    /\ Goto(c, CASE Head(packets[c]).kind = "line" -> "write"
                 [] Head(packets[c]).kind = "seek" -> "size"
                 [] Head(packets[c]).kind = "part" -> "lock")
    /\ UNCHANGED <<Outside, mutex, devicevars, sbuffer, size_read>>

\* Leaves the loop at the end of the connection without unlocking.
ReceiveNothingLocked(c) ==
    /\ At(c, "recv")
    /\ Goto(c, "finish")
    /\ UNCHANGED <<Outside, mutex, devicevars, packets, rbuffer, sbuffer,
                   size_read>>

\* The client is silent for 15 seconds, has closed, or recv fails.
ReceiveNothing(c) ==
    /\ At(c, "recv")
    /\ mutex' = NULL
    /\ Goto(c, "finish")
    /\ UNCHANGED <<Outside, devicevars, packets, rbuffer, sbuffer, size_read>>

\* Unlocks on the way out of the loop.
BreakUnlocking(c) ==
    /\ mutex' = NULL
    /\ Goto(c, "break")
    /\ UNCHANGED <<Outside, devicevars, packets, rbuffer, sbuffer, size_read>>

\* break out of the loop, with the mutex held.
Break(c) ==
    /\ Goto(c, "break")
    /\ UNCHANGED <<Outside, mutex, devicevars, packets, rbuffer, sbuffer,
                   size_read>>

(***************************************************************************)
(* param->datafd is the FILE main opened.  When main has closed it, fileno *)
(* reads freed memory: it yields -1, which every call rejects, or the      *)
(* process crashes.                                                        *)
(***************************************************************************)
CanCall == datafd = "open" /\ ~devlock

ClosedFile(c) == datafd = "closed" /\ (Break(c) \/ Crash)

\* A call that waits for dev->lock fails when the signal hits this thread.
Interrupted(c) == datafd = "open" /\ devlock /\ signal_sign /\ Break(c)

StoredBytes ==
    IF CharDevice
    THEN FlattenSeq([k \in 1..Count(ring) |-> Contents(ring)[k].buffptr])
    ELSE file

\* The file was opened with "r+": a write goes where the position is.
StoreAtPosition(bytes) ==
    IF CharDevice
    THEN /\ ring' = AddEntry(ring, [buffptr |-> bytes, size |-> Len(bytes)])
         /\ f_pos' = f_pos + Len(bytes)
         /\ UNCHANGED <<devlock, file>>
    ELSE /\ file' = SubSeq(file, 1, f_pos) \o bytes
                      \o SubSeq(file, f_pos + Len(bytes) + 1, Len(file))
         /\ f_pos' = f_pos + Len(bytes)
         /\ UNCHANGED <<ring, devlock>>

\* The file was opened with "a+": a write goes to its end, wherever f_pos is.
Store(bytes) ==
    IF CharDevice
    THEN /\ ring' = AddEntry(ring, [buffptr |-> bytes, size |-> Len(bytes)])
         /\ f_pos' = f_pos + Len(bytes)
         /\ UNCHANGED <<devlock, file>>
    ELSE /\ file' = file \o bytes
         /\ f_pos' = Len(file')
         /\ UNCHANGED <<ring, devlock>>

\* Lets another worker in between the write and the read.
WriteUnlocking(c) ==
    /\ At(c, "write")
    /\ CanCall
    /\ Store(rbuffer[c].bytes)
    /\ mutex' = NULL
    /\ Goto(c, "size")
    /\ UNCHANGED <<Outside, packets, rbuffer, sbuffer, size_read>>

Write(c) ==
    /\ At(c, "write")
    /\ CanCall
    /\ Store(rbuffer[c].bytes)
    /\ Goto(c, "size")
    /\ UNCHANGED <<Outside, mutex, packets, rbuffer, sbuffer, size_read>>

WriteFails(c) ==
    /\ At(c, "write")
    /\ ClosedFile(c) \/ (Failures /\ CanCall /\ Break(c))

\* file_size: SEEK_END, then back to SEEK_SET; -1 - -1 for a bad descriptor.
FileSize(c) ==
    LET next == IF rbuffer[c].kind = "seek" THEN "ioctl" ELSE "read" IN
    /\ At(c, "size")
    /\ \/ /\ CanCall
          /\ size_read' = [size_read EXCEPT ![c] =
                            IF CharDevice THEN TotalSize(ring) ELSE Len(file)]
          /\ f_pos' = 0
       \/ /\ datafd = "closed"
          /\ size_read' = [size_read EXCEPT ![c] = 0]
          /\ UNCHANGED f_pos
    /\ Goto(c, next)
    /\ UNCHANGED <<Outside, mutex, ring, devlock, file, packets, rbuffer,
                   sbuffer>>

\* The seek command; the result of ioctl is not looked at.  A regular file
\* rejects it with ENOTTY.
IoctlSeekTo(c) ==
    LET target == SeekTo(ring, rbuffer[c].write_cmd,
                         rbuffer[c].write_cmd_offset)
    IN
    /\ At(c, "ioctl")
    /\ \/ /\ CharDevice /\ CanCall
          /\ f_pos' = IF target = EINVAL THEN f_pos ELSE target
          /\ devlock' = (target = EINVAL)
       \/ /\ ~CharDevice \/ datafd = "closed"
          /\ UNCHANGED <<f_pos, devlock>>
    /\ Goto(c, "read")
    /\ UNCHANGED <<Outside, mutex, ring, file, packets, rbuffer, sbuffer,
                   size_read>>

\* file_read: everything from the position on, if size is positive.
FileRead(c) ==
    /\ At(c, "read")
    /\ size_read[c] > 0
    /\ CanCall
    /\ sbuffer' = [sbuffer EXCEPT ![c] =
            SubSeq(StoredBytes, f_pos + 1, Len(StoredBytes))]
    /\ f_pos' = Len(StoredBytes)
    /\ Goto(c, "send")
    /\ UNCHANGED <<Outside, mutex, ring, devlock, file, packets, rbuffer,
                   size_read>>

FileReadFails(c) ==
    /\ At(c, "read")
    /\ ClosedFile(c) \/ Interrupted(c) \/ (size_read[c] <= 0 /\ Break(c))

\* Clears rbuffer and sbuffer and unlocks; the next packet may be another's.
Send(c) ==
    /\ At(c, "send")
    /\ sbuffer[c] # << >>
    /\ rbuffer' = [rbuffer EXCEPT ![c] = NoPacket]
    /\ sbuffer' = [sbuffer EXCEPT ![c] = << >>]
    /\ mutex' = NULL
    /\ Goto(c, "lock")
    /\ UNCHANGED <<Outside, devicevars, packets, size_read>>

\* The client has gone: send fails, or SIGPIPE ends the process.
SendFails(c) ==
    /\ At(c, "send")
    /\ Failures \/ sbuffer[c] = << >>
    /\ Break(c) \/ Crash

\* thread_complete_status = true; return NULL
Finish(c) ==
    /\ At(c, "finish") \/ At(c, "break")
    /\ complete' = [complete EXCEPT ![c] = TRUE]
    /\ Goto(c, IF wpc[c] = "break" THEN "failed" ELSE "done")
    /\ UNCHANGED <<mainvars, datafd, conn, list, param, joins, mutex,
                   devicevars, packets, rbuffer, sbuffer, size_read, alarmvars>>

-----------------------------------------------------------------------------
(***************************************************************************)
(* The interval timer, in the build with a regular file.  It is started    *)
(* when the file has been opened, stopped first thing by process_kill, and *)
(* not stopped by an idle round.  The signal goes to any thread that does  *)
(* not block it; its handler blocks it in that thread.                     *)
(***************************************************************************)
TimerRuns ==
    /\ ~CharDevice
    /\ datafd # NULL
    /\ main \notin {"kill", "kill_file", "kill_mutex", "return"}

Exists(t) == t \in Client => wpc[t] # "none" /\ joins[t] = 0

HandlerTo(t, place) == alarm' = [alarm EXCEPT ![t] = place]

Alarm(t) ==
    /\ TimerRuns
    /\ ticks < MaxTicks
    /\ OutsideHandler(t)
    /\ Exists(t)
    /\ HandlerTo(t, "lock")
    /\ ticks' = ticks + 1
    /\ UNCHANGED <<mainvars, datafd, mutex, devicevars, conn, packets,
                   workervars, listvars>>

InHandler(t, place) == process = "running" /\ alarm[t] = place

\* Does not wait for the mutex.
AlarmLockNothing(t) ==
    /\ InHandler(t, "lock")
    /\ HandlerTo(t, "write")
    /\ UNCHANGED <<mainvars, datafd, mutex, devicevars, conn, packets,
                   workervars, listvars, ticks>>

\* pthread_mutex_lock, whatever the thread was doing when it was stopped.
AlarmLock(t) ==
    /\ InHandler(t, "lock")
    /\ mutex = NULL
    /\ mutex' = t
    /\ HandlerTo(t, "write")
    /\ UNCHANGED <<mainvars, datafd, devicevars, conn, packets,
                   workervars, listvars, ticks>>

\* Leaves the handler without unlocking.
AlarmWriteLocked(t) ==
    /\ InHandler(t, "write")
    /\ IF datafd = "open" THEN Store(Stamp) ELSE UNCHANGED devicevars
    /\ HandlerTo(t, "none")
    /\ UNCHANGED <<mainvars, datafd, mutex, conn, packets, workervars,
                   listvars, ticks>>

\* Through a FILE that has been closed the write fails, or the process
\* crashes.
AlarmWrite(t) ==
    /\ InHandler(t, "write")
    /\ \/ /\ IF datafd = "open" THEN Store(Stamp) ELSE UNCHANGED devicevars
          /\ mutex' = NULL
          /\ HandlerTo(t, "none")
          /\ UNCHANGED <<mainvars, datafd, conn, packets, workervars,
                         listvars, ticks>>
       \/ datafd = "closed" /\ Crash

Handler(t) == AlarmLock(t) \/ AlarmWrite(t)

Worker(c) ==
    \/ Handler(c)
    \/ Lock(c) \/ Receive(c) \/ ReceiveNothing(c)
    \/ Write(c) \/ WriteFails(c) \/ FileSize(c) \/ IoctlSeekTo(c)
    \/ FileRead(c) \/ FileReadFails(c) \/ Send(c) \/ SendFails(c) \/ Finish(c)

-----------------------------------------------------------------------------
(***************************************************************************)
(* The main thread.                                                        *)
(***************************************************************************)
MainAt(place) == OutsideHandler(MainThread) /\ main = place

Threads == <<mutex, devicevars, workervars, packets, alarmvars>>

\* if (signal_sign) after every round of the loop.
Proceed(otherwise) ==
    /\ main' = IF ~signal_sign THEN otherwise
               ELSE IF CharDevice THEN "kill" ELSE "stop_timer"
    /\ UNCHANGED <<process, signal_sign>>

\* datafd is opened once; a FILE that was closed is not NULL.
OpenData == datafd' = IF datafd = NULL THEN "open" ELSE datafd

\* A worker thread for the new connection, with its node in the list.
AcceptAndStart(c) ==
    /\ OpenData
    /\ conn' = [conn EXCEPT ![c] = "open"]
    /\ param' = [param EXCEPT ![c] = "valid"]
    /\ list' = <<c>> \o list
    /\ Goto(c, "lock")
    /\ Proceed("select")
    /\ UNCHANGED <<mutex, devicevars, packets, rbuffer, sbuffer, size_read,
                   complete, joins, alarmvars>>

\* malloc of the thread_data or of the list node fails: the socket is lost.
AcceptAndForget(c) ==
    /\ Failures
    /\ OpenData
    /\ conn' = [conn EXCEPT ![c] = "open"]
    /\ Proceed("select")
    /\ UNCHANGED <<Threads, listvars>>

\* malloc of the pthread_t fails: thread_data_deinit closes the socket.
AcceptAndClose(c) ==
    /\ Failures
    /\ OpenData
    /\ conn' = [conn EXCEPT ![c] = "closed"]
    /\ Proceed("select")
    /\ UNCHANGED <<Threads, listvars>>

\* pthread_create fails: thread_data_deinit frees what the node points to.
AcceptWithoutThread(c) ==
    /\ Failures
    /\ OpenData
    /\ conn' = [conn EXCEPT ![c] = "closed"]
    /\ param' = [param EXCEPT ![c] = "freed"]
    /\ list' = <<c>> \o list
    /\ Proceed("select")
    /\ UNCHANGED <<Threads, complete, joins>>

\* fopen fails: main returns EXIT_FAILURE.
AcceptCannotOpen ==
    /\ Failures
    /\ datafd = NULL
    /\ process' = "exited"
    /\ UNCHANGED <<main, signal_sign, datafd, conn, Threads, listvars>>

Accept(c) ==
    /\ MainAt("select")
    /\ conn[c] = "queued"
    /\ \/ AcceptAndStart(c) \/ AcceptAndForget(c) \/ AcceptAndClose(c)
       \/ AcceptWithoutThread(c) \/ AcceptCannotOpen

\* Nobody has connected for 15 seconds.
SelectTimeout ==
    /\ MainAt("select")
    /\ \A c \in Client : conn[c] # "queued"
    /\ Proceed("idle")
    /\ UNCHANGED <<datafd, conn, Threads, listvars>>

\* fclose; the pointer keeps its value.  Closing it twice is undefined: the
\* C library aborts, or it goes unnoticed.
CloseData(next) ==
    \/ /\ datafd' = IF datafd = NULL THEN NULL ELSE "closed"
       /\ main' = next
       /\ UNCHANGED <<process, signal_sign, conn, Threads, listvars>>
    \/ datafd = "closed" /\ Crash

IdleClose == MainAt("idle") /\ CloseData("reap")

\* Every thread of the list, finished or not.
AnyThread == {c \in Range(list) : param[c] = "valid"}

Completed == {c \in Range(list) : param[c] = "valid" /\ complete[c]}

\* The node of a thread that was not created points to freed memory.
FreedNode == \E c \in Range(list) : param[c] = "freed"

\* pthread_join waits for a thread that is in the handler.
CanJoin == \A c \in Completed : alarm[c] = "none"

\* Leaves thread_complete_status as it is.
ReapKeepingStatus ==
    /\ MainAt("reap")
    /\ CanJoin
    /\ joins' = [c \in Client |-> IF c \in Completed THEN joins[c] + 1
                                                     ELSE joins[c]]
    /\ main' = "select"
    /\ UNCHANGED <<process, signal_sign, datafd, conn, Threads, list, param,
                   complete>>

\* Only takes note of the finished threads.
ReapWithoutJoin ==
    /\ MainAt("reap")
    /\ complete' = [c \in Client |-> complete[c] /\ c \notin Completed]
    /\ main' = "select"
    /\ UNCHANGED <<process, signal_sign, datafd, conn, Threads, list, param,
                   joins>>

\* check_for_completed_threads: it joins, and forgets that it has to close.
Reap ==
    /\ MainAt("reap")
    /\ CanJoin
    /\ joins' = [c \in Client |-> IF c \in Completed THEN joins[c] + 1
                                                     ELSE joins[c]]
    /\ complete' = [c \in Client |-> complete[c] /\ c \notin Completed]
    /\ main' = "select"
    /\ UNCHANGED <<process, signal_sign, datafd, conn, Threads, list, param>>

ReapFreedNode == MainAt("reap") /\ FreedNode /\ Crash

(***************************************************************************)
(* process_kill, and the return from main that ends all threads.           *)
(***************************************************************************)
StopTimer ==
    /\ MainAt("stop_timer")
    /\ main' = "kill"
    /\ UNCHANGED <<process, signal_sign, datafd, conn, Threads, listvars>>

\* Waits for every worker to finish before it cleans up.
KillThreadsJoiningAll ==
    /\ MainAt("kill")
    /\ CanJoin
    /\ Completed = AnyThread
    /\ joins' = [c \in Client |-> IF c \in Completed THEN joins[c] + 1
                                                     ELSE joins[c]]
    /\ conn' = [c \in Client |-> IF c \in Completed THEN "closed" ELSE conn[c]]
    /\ param' = [c \in Client |-> IF c \in Completed THEN "none" ELSE param[c]]
    /\ list' = SelectSeq(list, LAMBDA c : c \notin Completed)
    /\ main' = "kill_file"
    /\ UNCHANGED <<process, signal_sign, datafd, Threads, complete>>

KillThreads ==
    /\ MainAt("kill")
    /\ CanJoin
    /\ joins' = [c \in Client |-> IF c \in Completed THEN joins[c] + 1
                                                     ELSE joins[c]]
    /\ conn' = [c \in Client |-> IF c \in Completed THEN "closed" ELSE conn[c]]
    /\ param' = [c \in Client |-> IF c \in Completed THEN "none" ELSE param[c]]
    /\ list' = SelectSeq(list, LAMBDA c : c \notin Completed)
    /\ main' = "kill_file"
    /\ UNCHANGED <<process, signal_sign, datafd, Threads, complete>>

\* shutdown of a connection its client has reset fails: ERROR_HANDLER exits.
KillThreadsFails ==
    /\ MainAt("kill")
    /\ Failures
    /\ Completed # {}
    /\ process' = "exited"
    /\ UNCHANGED <<main, signal_sign, datafd, conn, Threads, listvars>>

KillFreedNode == MainAt("kill") /\ FreedNode /\ Crash

KillFile == MainAt("kill_file") /\ CloseData("kill_mutex")

\* With file_delete: the file is closed by now, nobody else can change it.
KillMutex ==
    /\ MainAt("kill_mutex")
    /\ mutex' = Destroyed
    /\ file' = << >>
    /\ main' = "return"
    /\ UNCHANGED <<process, signal_sign, datafd, ring, f_pos, devlock, conn,
                   packets, workervars, listvars, alarmvars>>

ReturnFromMain ==
    /\ MainAt("return")
    /\ process' = "exited"
    /\ UNCHANGED <<main, signal_sign, datafd, conn, Threads, listvars>>

Main ==
    \/ \E c \in Client : Accept(c)
    \/ Handler(MainThread)
    \/ SelectTimeout \/ IdleClose \/ Reap \/ ReapFreedNode
    \/ StopTimer \/ KillThreads \/ KillThreadsFails \/ KillFreedNode
    \/ KillFile \/ KillMutex \/ ReturnFromMain

Next ==
    \/ Signal
    \/ Main
    \/ \E c \in Client : Connect(c) \/ Worker(c)
    \/ \E t \in Thread : Alarm(t)

Spec == Init /\ [][Next]_vars

(***************************************************************************)
(* The scheduler runs every thread; select and recv time out.  Clients and *)
(* signals come when they like, or never.                                  *)
(***************************************************************************)
Fairness == WF_vars(Main) /\ \A c \in Client : WF_vars(Worker(c))

FairSpec == Spec /\ Fairness

-----------------------------------------------------------------------------
\* A worker that broke out of its loop is "failed", not "done", afterwards.
Ended == {"done", "failed"}

Places == {"none", "lock", "recv", "write", "size", "ioctl", "read", "send",
           "break", "finish"} \cup Ended

TypeOK ==
    /\ process \in {"running", "exited", "crashed"}
    /\ main \in {"select", "idle", "reap", "stop_timer", "kill", "kill_file",
                 "kill_mutex", "return"}
    /\ datafd \in {NULL, "open", "closed"}
    /\ mutex \in Thread \cup {NULL, Destroyed}
    /\ ring \in RingOf(Commands)
    /\ Consistent(ring, Commands)
    /\ f_pos \in Nat
    /\ file \in Seq(Char)
    /\ conn \in [Client -> {"none", "queued", "open", "closed"}]
    /\ packets \in [Client -> Seq(Packets)]
    /\ wpc \in [Client -> Places]
    /\ rbuffer \in [Client -> Packets \cup {NoPacket}]
    /\ sbuffer \in [Client -> Seq(Char)]
    /\ size_read \in [Client -> Nat]
    /\ param \in [Client -> {"none", "valid", "freed"}]
    /\ complete \in [Client -> BOOLEAN]
    /\ alarm \in [Thread -> {"none", "lock", "write"}]
    /\ ticks \in 0..MaxTicks

\* process_kill has removed the regular file.
Deleted == ~CharDevice /\ main = "return"

InCommand(c) == wpc[c] \in {"write", "size", "ioctl", "read", "send"}

(***************************************************************************)
(* What a worker sends back for a command is all the device holds, ending  *)
(* with that command: no other worker, and no handler that adds a          *)
(* timestamp, has written or moved the position of the shared file since.  *)
(* For a seek command it is the end of what the device holds               *)
(* (aesdsocket.c:304-305, 327-328).                                        *)
(***************************************************************************)
ReplyIsOwnSnapshot ==
    \A c \in Client : wpc[c] = "send" /\ ~Deleted =>
        /\ IsSuffix(sbuffer[c], StoredBytes)
        /\ rbuffer[c].kind = "line" =>
            /\ sbuffer[c] = StoredBytes
            /\ IF CharDevice
               THEN Last(Contents(ring)).buffptr = rbuffer[c].bytes
               ELSE IsSuffix(rbuffer[c].bytes, file)

(***************************************************************************)
(* pthread_join is called at most once for a thread, and only for one that *)
(* has finished; its socket is not closed under it.                        *)
(***************************************************************************)
JoinedOnce ==
    \A c \in Client :
        /\ joins[c] <= 1
        /\ joins[c] = 1 => wpc[c] \in Ended

SocketOutlivesWorker ==
    \A c \in Client : wpc[c] \notin Ended \cup {"none"} => conn[c] = "open"

(***************************************************************************)
(* The driver's mutex left held by a rejected seek is never met by another *)
(* worker: the one that sent the seek keeps the server's own mutex.        *)
(***************************************************************************)
DeviceLockStaysBehindMutex ==
    devlock =>
        /\ mutex # NULL
        /\ \A c \in Client : InCommand(c) => mutex \in {c, Destroyed}

(***************************************************************************)
(* The process ends after SIGINT or SIGTERM, whatever the workers wait for.*)
(***************************************************************************)
SignalEndsProcess == signal_sign ~> process # "running"

\* A finished worker is joined by the next idle round or at the end.
FinishedIsJoined ==
    \A c \in Client :
        complete[c] ~> (joins[c] = 1 \/ process # "running")

(***************************************************************************)
(* A worker that waits for the mutex gets it, unless a worker has left     *)
(* with it on a failed call, waits for it twice, is stuck in the device, or*)
(* has been stopped by the timer's signal while it holds it.               *)
(***************************************************************************)
MutexIsLost ==
    \/ mutex = Destroyed
    \/ /\ mutex \in Client
       /\ \/ alarm[mutex] = "lock"
          \/ /\ alarm[mutex] = "none"
             /\ devlock \/ wpc[mutex] \in {"break", "failed", "lock"}

WorkerGetsMutex ==
    \A c \in Client :
        wpc[c] = "lock" ~>
            (wpc[c] # "lock" \/ MutexIsLost \/ process # "running")

(***************************************************************************)
(* The regular file only grows, by whole commands and whole timestamps,    *)
(* until it is deleted at the end: nothing a client or an earlier run has  *)
(* stored is overwritten (aesdsocket.c:122, 320, 518).                     *)
(***************************************************************************)
FileOnlyGrows ==
    [][ \/ \E text \in Texts : file' = file \o text
        \/ main = "kill_mutex" /\ file' = << >> ]_file

(***************************************************************************)
(* The timer's signal handler gets the mutex and returns, unless the mutex *)
(* is lost; it can be lost to the very thread that the handler has stopped *)
(* (aesdsocket.c:516).                                                     *)
(***************************************************************************)
HandlerReturns ==
    \A t \in Thread :
        alarm[t] # "none" ~>
            (alarm[t] = "none" \/ MutexIsLost \/ process # "running")

(***************************************************************************)
(* What remains of SignalEndsProcess with the timer: the process ends      *)
(* after SIGINT or SIGTERM unless main itself is in the handler, or joins  *)
(* a thread that is, and waits for a mutex that is lost.                   *)
(***************************************************************************)
MainWaitsForLostMutex ==
    /\ MutexIsLost
    /\ alarm[MainThread] = "lock" \/ ~CanJoin

SignalEndsProcessOrMainWaits ==
    signal_sign ~> (process # "running" \/ MainWaitsForLostMutex)

(***************************************************************************)
(* aesdsocket.c:298 - "wait for a packet which ends with '\n' character":  *)
(* after a packet without one the worker waits for the next packet, not    *)
(* for the mutex it holds.                                                 *)
(***************************************************************************)
NeverWaitsForItself == \A c \in Client : ~(wpc[c] = "lock" /\ mutex = c)

(***************************************************************************)
(* aesdsocket.c:120 - "Create/open a file to write the data received from  *)
(* a client", and 177 - "close the file in the ideal time when no data     *)
(* recived": a worker that handles a command has an open file.             *)
(***************************************************************************)
FileOpenInCommand ==
    \A c \in Client : InCommand(c) /\ main \notin {"kill_mutex", "return"}
        => datafd = "open"

=============================================================================
