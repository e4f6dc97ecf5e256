---------------------------- MODULE ServerChannel ----------------------------
(***************************************************************************)
(* One server channel (a ServerChannelBase object), shared by the thread   *)
(* that runs the asyncore main loop and by the worker threads of the task  *)
(* dispatcher.                                                             *)
(*                                                                         *)
(* The main loop reads requests, queues one task per request and switches  *)
(* the channel to synchronous mode; a worker services the queued tasks and *)
(* gives the channel back with set_async().  Only queue_task(), service()  *)
(* and cancel() take the lock; async_mode, will_close, connected, outbuf   *)
(* and last_activity are read and written without it.                      *)
(*                                                                         *)
(* The thread pool itself is the module TaskDispatcher; here its queue is  *)
(* the number of times this channel is waiting in it.  A byte string is a  *)
(* sequence of units, each unit the number of the request it answers.      *)
(***************************************************************************)
EXTENDS Integers, Sequences, FiniteSets

CONSTANTS
  Workers,          \* handler threads of the task dispatcher
  Main,             \* the thread that runs asyncore.loop()
  None,             \* "no thread": the value of task_lock when it is free
  Batches,          \* what one recv() may return: sequences of pieces
  MaxRequests,      \* bound: requests a client starts
  MaxWrites,        \* bound: write() calls of one task
  SendBytes,        \* adj.send_bytes, in units
  LogSocketErrors,  \* adj.log_socket_errors
  ClientMayLeave,   \* may the peer disappear?
  Maintenance,      \* do connections time out and new ones arrive?
  MayCancel         \* may the dispatcher be shut down (cancel_pending)?

\* A piece is what one parser.received() call consumes: the rest of a request,
\* blank lines only, the beginning of a request, or bytes the parser raises on.
Piece == {"full", "empty", "part", "bad"}

ASSUME ThreadsAssumption == Main \notin Workers /\ None \notin Workers \cup {Main}
ASSUME BoundsAssumption  == /\ MaxRequests \in Nat
                            /\ MaxWrites \in Nat
                            /\ SendBytes \in Nat \ {0}
ASSUME BatchesAssumption == Batches \subseteq Seq(Piece)
ASSUME SwitchAssumption  == /\ LogSocketErrors \in BOOLEAN
                            /\ ClientMayLeave \in BOOLEAN
                            /\ Maintenance \in BOOLEAN
                            /\ MayCancel \in BOOLEAN

Threads == Workers \cup {Main}

VARIABLES
  \* attributes of the channel
  async_mode, will_close, connected, running_tasks, tasks, proto_request,
  outbuf,
  inactive,      \* last_activity < now - adj.channel_timeout
  \* shared with the rest of the server
  task_lock,     \* holder of task_lock, or None
  queue,         \* entries of the dispatcher's queue that are this channel
  trigger,       \* an unread byte in the trigger's pipe
  listening,     \* the server's listening socket is open
  \* the peer
  peer,          \* "open" or "gone"
  \* thread-local state
  pc,
  num_sent,      \* _flush_some(): units sent and not yet skipped
  data,          \* received(): pieces not consumed yet
  current,       \* request being queued (Main) or serviced (a worker)
  writes,        \* write() calls left to the current task
  exc,           \* exception the current task raised
  ready,         \* events the main loop asked for, then those select() reported
  \* history
  started,       \* number of requests the parser has begun
  arrived,       \* completed requests, in order of completion
  disposed,      \* tasks taken by service() or cancel(), in that order
  wrote,         \* units appended to outbuf
  sent,          \* units handed to the socket
  late,          \* a task was serviced after will_close had been set
  closed_by      \* why the connection was closed

modeVars  == <<async_mode, will_close>>
closeVars == <<connected, closed_by>>
taskVars  == <<running_tasks, tasks, disposed, late>>
bufVars   == <<outbuf, num_sent, wrote, sent>>
readVars  == <<proto_request, data, started, arrived>>
loopVars  == <<ready, listening>>
workVars  == <<writes, exc>>
vars == <<modeVars, closeVars, taskVars, bufVars, readVars, loopVars, workVars,
          inactive, task_lock, queue, trigger, peer, pc, current>>

\* What polling, reading, flushing and a worker's own steps leave alone.
pollFrame  == <<modeVars, taskVars, bufVars, readVars, workVars, task_lock,
                queue, peer, current>>
readFrame  == <<bufVars, workVars, task_lock, trigger, listening, peer>>
flushFrame == <<modeVars, taskVars, readVars, writes, loopVars, task_lock,
                queue, trigger, peer, current>>
workFrame  == <<closeVars, readVars, loopVars, num_sent, sent, peer>>

Init ==
  /\ async_mode = TRUE /\ will_close = FALSE
  /\ connected = TRUE /\ closed_by = "no"
  /\ running_tasks = FALSE /\ tasks = <<>> /\ disposed = <<>> /\ late = FALSE
  /\ outbuf = <<>> /\ wrote = <<>> /\ sent = <<>>
  /\ num_sent = [t \in Threads |-> 0]
  /\ proto_request = 0 /\ data = <<>> /\ started = 0 /\ arrived = <<>>
  /\ ready = {} /\ listening = TRUE
  /\ writes = [w \in Workers |-> 0] /\ exc = [w \in Workers |-> "none"]
  /\ inactive = FALSE
  /\ task_lock = None /\ queue = 0 /\ trigger = FALSE
  /\ peer = "open"
  /\ pc = [t \in Threads |-> IF t = Main THEN "scan" ELSE "idle"]
  /\ current = [t \in Threads |-> 0]

Goto(t, l) == pc' = [pc EXCEPT ![t] = l]
Jump(t, l) == /\ Goto(t, l)
              /\ UNCHANGED <<flushFrame, closeVars, bufVars, exc, inactive>>

\* dispatcher.close() behind DualModeChannel.close(): the caller has checked
\* the assertion on async_mode.
Closed(why) == /\ connected' = FALSE
               /\ closed_by' = IF connected THEN why ELSE closed_by

-----------------------------------------------------------------------------
(* The main loop: asyncore.poll().                                         *)

readable == async_mode /\ ~will_close
\* Mutants: one of the two reasons for wanting to write is forgotten.
writableToClose == async_mode /\ will_close
writableToFlush == async_mode /\ outbuf # <<>>
writable == async_mode /\ (will_close \/ outbuf # <<>>)

\* Build the argument lists of select().
Scan ==
  /\ pc[Main] = "scan"
  /\ ready' = {"trigger"}
              \cup (IF Maintenance /\ listening THEN {"accept"} ELSE {})
              \cup (IF connected /\ readable THEN {"read"} ELSE {})
              \cup (IF connected /\ writable THEN {"write"} ELSE {})
  /\ Goto(Main, "select")
  /\ UNCHANGED <<pollFrame, closeVars, listening, inactive, trigger>>

\* The bound on the client: every piece but the rest of a pending request
\* starts a new request.
Fits(batch) == started + Len(batch) <= MaxRequests + (IF proto_request = 0 THEN 0 ELSE 1)

\* What select() may report now, of what it was asked for.
Reportable(e) == CASE e = "trigger" -> trigger
                   [] e = "read"    -> peer = "gone" \/ \E b \in Batches : Fits(b)
                   [] OTHER         -> TRUE

\* select() returns: the trigger's byte is always noticed.
Select(events) ==
  /\ pc[Main] = "select"
  /\ events \subseteq ready /\ events # {}
  /\ \A e \in events : Reportable(e)
  /\ trigger => "trigger" \in events
  /\ ready' = events
  /\ Goto(Main, "dispatch")
  /\ UNCHANGED <<pollFrame, closeVars, listening, inactive, trigger>>

\* The channel's descriptor was closed between the scan and select().
SelectBadDescriptor ==
  /\ pc[Main] = "select"
  /\ ~connected /\ ready \cap {"read", "write"} # {}
  /\ Jump(Main, "dead")

\* Handlers run in the order of the socket map: trigger, server, channel.
Handling(e) == /\ pc[Main] = "dispatch"
               /\ e \in ready
               /\ e # "trigger" => "trigger" \notin ready
               /\ e \in {"read", "write"} => "accept" \notin ready
               /\ e = "write" => "read" \notin ready
               /\ ready' = ready \ {e}

EndOfPoll ==
  /\ pc[Main] = "dispatch" /\ ready = {}
  /\ Jump(Main, "scan")

\* trigger.handle_read(): empty the pipe (the thunks are in module Trigger).
DrainTrigger ==
  /\ Handling("trigger")
  /\ trigger' = FALSE
  /\ UNCHANGED <<pollFrame, closeVars, listening, inactive, pc>>

\* Mutant: connections are reaped by age alone.
ZombieByAge == inactive
Zombie == ~running_tasks /\ inactive

\* handle_accept() builds a channel for another connection, and its
\* constructor runs kill_zombies() over active_channels, where a closed channel
\* stays until its descriptor is used again.
KillZombies ==
  /\ Handling("accept")
  /\ \E active \in (IF connected THEN {TRUE} ELSE BOOLEAN) :
        Goto(Main, IF active /\ Zombie THEN "kill" ELSE "dispatch")
  /\ UNCHANGED <<pollFrame, closeVars, listening, inactive, trigger>>

\* channel.close() of kill_zombies(); a failed assertion leaves the new
\* channel's constructor and handle_error() closes the *listening* socket.
KillClose ==
  /\ pc[Main] = "kill"
  /\ Goto(Main, "dispatch")
  /\ \/ /\ async_mode
        /\ Closed("reaped") /\ UNCHANGED listening
     \/ /\ ~async_mode
        /\ listening' = FALSE /\ UNCHANGED closeVars
  /\ UNCHANGED <<pollFrame, ready, inactive, trigger>>

-----------------------------------------------------------------------------
(* Reading: handle_read() and received().                                  *)

\* The event is stale: the channel left the socket map, or handle_read()
\* returns at once.
HandleReadIgnored ==
  /\ Handling("read")
  /\ ~connected \/ ~async_mode \/ will_close
  /\ UNCHANGED <<pollFrame, closeVars, listening, inactive, trigger, pc>>

HandleRead(batch) ==
  /\ Handling("read")
  /\ connected /\ async_mode /\ ~will_close
  /\ peer = "open"
  /\ Fits(batch)
  /\ data' = batch
  /\ inactive' = FALSE
  /\ Goto(Main, "received")
  /\ UNCHANGED <<readFrame, modeVars, closeVars, taskVars, proto_request,
                 started, arrived, queue, current>>

\* recv() reports end of file or an error: handle_close(), or
\* handle_comm_error(), closes the channel.
HandleReadClosed ==
  /\ Handling("read")
  /\ connected /\ async_mode /\ ~will_close
  /\ peer = "gone"
  /\ Closed("peer")
  /\ UNCHANGED <<pollFrame, listening, inactive, trigger, pc>>

\* The parser the next piece goes to: a fresh one unless a request is pending.
preq == IF proto_request = 0 THEN started + 1 ELSE proto_request
TakePiece(kinds) == /\ pc[Main] = "received"
                    /\ data # <<>> /\ Head(data) \in kinds
                    /\ started' = IF proto_request = 0 THEN started + 1 ELSE started

\* The piece completes no task: blank lines, or the start of a request.
ReceivedNothing ==
  /\ TakePiece({"empty", "part"})
  /\ proto_request' = IF Head(data) = "part" THEN preq ELSE 0
  /\ data' = Tail(data)
  /\ UNCHANGED <<readFrame, modeVars, closeVars, taskVars, arrived, ready,
                 inactive, queue, pc, current>>

\* The piece completes a request: handle_request() makes a task of it.
ReceivedRequest ==
  /\ TakePiece({"full"})
  /\ proto_request' = 0
  /\ data' = Tail(data)
  /\ current' = [current EXCEPT ![Main] = preq]
  /\ arrived' = Append(arrived, preq)
  /\ Goto(Main, "queue_task")
  /\ UNCHANGED <<readFrame, modeVars, closeVars, taskVars, ready, inactive,
                 queue>>

\* The parser raises: asyncore.read() calls handle_error(), which closes the
\* channel; the assertion in close() is not caught by anyone.
ReceivedBad ==
  /\ TakePiece({"bad"})
  /\ data' = <<>>
  /\ \/ /\ async_mode
        /\ Closed("error") /\ Goto(Main, "dispatch")
     \/ /\ ~async_mode
        /\ Goto(Main, "dead") /\ UNCHANGED closeVars
  /\ UNCHANGED <<readFrame, modeVars, taskVars, proto_request, arrived, ready,
                 inactive, queue, current>>

ReceivedAll ==
  /\ pc[Main] = "received" /\ data = <<>>
  /\ Jump(Main, "dispatch")

\* Mutant: task_lock is not respected.
LockIgnored == TRUE
LockFree == task_lock = None

Queued(task) == Append(tasks, task)

\* Mutant: the channel is queued for every task.
StartAlways == TRUE
Start == ~running_tasks

\* queue_task(): the part under task_lock, then set_sync(), then addTask().
QueueTask ==
  /\ pc[Main] = "queue_task"
  /\ LockFree
  /\ tasks' = Queued(current[Main])
  /\ running_tasks' = TRUE
  /\ Goto(Main, IF Start THEN "set_sync" ELSE "received")
  /\ UNCHANGED <<readFrame, modeVars, closeVars, readVars, disposed, late,
                 ready, inactive, queue, current>>

SetSync ==
  /\ pc[Main] = "set_sync"
  /\ async_mode' = FALSE
  /\ Goto(Main, "addTask")
  /\ UNCHANGED <<readFrame, closeVars, taskVars, readVars, will_close, ready,
                 inactive, queue, current>>

AddTask ==
  /\ pc[Main] = "addTask"
  /\ queue' = queue + 1
  /\ Goto(Main, "received")
  /\ UNCHANGED <<readFrame, modeVars, closeVars, taskVars, readVars, ready,
                 inactive, current>>

-----------------------------------------------------------------------------
(* Writing.  The three loops that call _flush_some(): handle_write() in    *)
(* the main loop, write() and close_when_done() in a worker; and flush().  *)

WorkerFlushes == {"write", "flush", "close_when_done"}
Flushing(t) == pc[t] \in {"handle_write"} \cup WorkerFlushes

\* Mutant: will_close is looked at before the buffer.
FlushableUnlessClosing == outbuf # <<>> /\ ~will_close
Flushable == outbuf # <<>>

HandleWrite ==
  /\ Handling("write")
  /\ \/ /\ ~connected \/ ~async_mode                  \* stale event
        /\ UNCHANGED <<closeVars, inactive, pc>>
     \/ /\ connected /\ async_mode /\ Flushable
        /\ Goto(Main, "handle_write")
        /\ UNCHANGED <<closeVars, inactive>>
     \/ /\ connected /\ async_mode /\ ~Flushable
        /\ IF will_close THEN Closed("done") ELSE UNCHANGED closeVars
        /\ inactive' = FALSE
        /\ UNCHANGED pc
  /\ UNCHANGED <<pollFrame, listening, trigger>>

\* Where the caller of _flush_some() goes when it has sent nothing, ...
SentNone(t) == CASE pc[t] = "handle_write"    -> "dispatch"
                 [] pc[t] = "write"           -> "exec"
                 [] pc[t] = "flush"           -> "flush"
                 [] pc[t] = "close_when_done" -> "will_close"
\* ... when it has sent something and rest is left, ...
AfterWrite(rest) == IF Len(rest) >= SendBytes THEN "write" ELSE "exec"
\* Mutant: handle_write() goes on like write(), as long as much is buffered.
SentSomeGoOn(t, rest) == CASE pc[t] \in {"handle_write", "write"} -> AfterWrite(rest)
                           [] pc[t] = "flush"           -> "flush"
                           [] pc[t] = "close_when_done" -> "close_when_done"
SentSome(t, rest) == CASE pc[t] = "handle_write"    -> "dispatch"
                       [] pc[t] = "write"           -> AfterWrite(rest)
                       [] pc[t] = "flush"           -> "flush"
                       [] pc[t] = "close_when_done" -> "close_when_done"
\* ... and when it raises: the task fails; from close_when_done() the
\* exception leaves the task at once.
Raised(t) == IF pc[t] = "close_when_done" THEN "readd" ELSE "fail"

\* handle_write() ends by setting last_activity.
Touched(t) == inactive' = IF pc[t] = "handle_write" THEN FALSE ELSE inactive

\* outbuf.get() and a send() that takes n units.
FlushSend(t, n) ==
  /\ Flushing(t) /\ num_sent[t] = 0
  /\ connected /\ peer = "open"
  /\ n <= Len(outbuf)
  /\ sent' = sent \o SubSeq(outbuf, 1, n)
  /\ num_sent' = [num_sent EXCEPT ![t] = n]
  /\ UNCHANGED <<flushFrame, closeVars, outbuf, wrote, exc, inactive, pc>>

\* Nothing to send, not connected, or the socket would block (flush() has
\* made it blocking).
FlushNothing(t) ==
  /\ Flushing(t) /\ num_sent[t] = 0
  /\ \/ outbuf = <<>> /\ pc[t] # "flush"
     \/ outbuf # <<>> /\ ~connected
     \/ outbuf # <<>> /\ peer = "open" /\ pc[t] # "flush"
  /\ Goto(t, SentNone(t))
  /\ Touched(t)
  /\ UNCHANGED <<flushFrame, closeVars, bufVars, exc>>

\* flush() is done; making a closed socket non-blocking again raises.
Flushed(w) ==
  /\ pc[w] = "flush" /\ num_sent[w] = 0 /\ outbuf = <<>>
  /\ exc' = IF connected THEN exc ELSE [exc EXCEPT ![w] = "os"]
  /\ Goto(w, IF connected THEN "exec" ELSE "fail")
  /\ UNCHANGED <<flushFrame, closeVars, bufVars, inactive>>

\* send() to a peer that is gone.  dispatcher.send() answers a disconnection
\* with handle_close(), whose assertion fails in synchronous mode, and lets
\* any other OSError through.
FlushError(t) ==
  /\ Flushing(t) /\ num_sent[t] = 0
  /\ outbuf # <<>> /\ connected /\ peer = "gone"
  /\ \/ /\ async_mode
        /\ Closed("peer")
        /\ Goto(t, SentNone(t)) /\ Touched(t)
        /\ UNCHANGED exc
     \/ /\ t \in Workers
        /\ \E e \in {"os"} \cup (IF async_mode THEN {} ELSE {"other"}) :
              exc' = [exc EXCEPT ![t] = e]
        /\ Goto(t, Raised(t))
        /\ UNCHANGED <<closeVars, inactive>>
  /\ UNCHANGED <<flushFrame, bufVars>>

\* Mutant: the whole chunk is skipped, however much of it was sent.
SkippedChunk(t) == SubSeq(outbuf, SendBytes + 1, Len(outbuf))
Skipped(t) == SubSeq(outbuf, num_sent[t] + 1, Len(outbuf))

\* outbuf.skip(): a ValueError when the buffer has been closed, or emptied by
\* the other thread, meanwhile.
FlushSkip(t) ==
  /\ Flushing(t) /\ num_sent[t] > 0
  /\ num_sent' = [num_sent EXCEPT ![t] = 0]
  /\ \/ /\ connected /\ num_sent[t] <= Len(outbuf)
        /\ outbuf' = Skipped(t)
        /\ Goto(t, SentSome(t, outbuf'))
        /\ Touched(t)
        /\ UNCHANGED <<closeVars, exc>>
     \/ /\ ~connected \/ num_sent[t] > Len(outbuf)
        /\ IF t = Main
           THEN /\ Closed("error") /\ Goto(t, "dispatch") /\ UNCHANGED exc
           ELSE /\ exc' = [exc EXCEPT ![t] =
                              IF pc[t] = "flush" /\ ~connected THEN "os" ELSE "other"]
                /\ Goto(t, Raised(t)) /\ UNCHANGED closeVars
        /\ UNCHANGED <<outbuf, inactive>>
  /\ UNCHANGED <<flushFrame, wrote, sent>>

-----------------------------------------------------------------------------
(* The worker threads: service(), AbstractTask.service(), set_async().     *)

\* The get() on the dispatcher's queue waits.
Available == queue > 0

\* handlerThread() takes the channel from the queue and calls service().
Take(w) ==
  /\ pc[w] = "idle" /\ Available
  /\ queue' = queue - 1
  /\ Goto(w, "service")
  /\ UNCHANGED <<readFrame, modeVars, closeVars, taskVars, readVars, ready,
                 inactive, current>>

\* The part of service() under task_lock: pop the next task ...
PopTask(w) ==
  /\ pc[w] = "service" /\ LockFree
  /\ tasks # <<>>
  /\ tasks' = Tail(tasks)
  /\ disposed' = Append(disposed, Head(tasks))
  /\ current' = [current EXCEPT ![w] = Head(tasks)]
  /\ writes' = [writes EXCEPT ![w] = MaxWrites]
  /\ late' = (late \/ will_close)
  /\ Goto(w, "exec")
  /\ UNCHANGED <<workFrame, modeVars, running_tasks, outbuf, wrote, exc,
                 inactive, task_lock, queue, trigger>>

\* ... or, with no task left, give the channel back while holding the lock.
NoMoreTasks(w) ==
  /\ pc[w] = "service" /\ LockFree
  /\ tasks = <<>>
  /\ running_tasks' = FALSE
  /\ task_lock' = w
  /\ Goto(w, "set_async")
  /\ UNCHANGED <<workFrame, modeVars, workVars, tasks, disposed, late, outbuf,
                 wrote, inactive, queue, trigger, current>>

\* Mutant: the main loop is not woken.
Asleep == UNCHANGED trigger
Awake == trigger' = TRUE

\* set_async(): async_mode, then the trigger, then last_activity.
SetAsync(w) ==
  /\ pc[w] = "set_async"
  /\ async_mode' = TRUE
  /\ Goto(w, "pull_trigger")
  /\ UNCHANGED <<readFrame, closeVars, taskVars, readVars, will_close, ready,
                 inactive, queue, current>>

PullTrigger(w) ==
  /\ pc[w] = "pull_trigger"
  /\ Awake
  /\ Goto(w, "last_activity")
  /\ UNCHANGED <<pollFrame, closeVars, loopVars, inactive>>

SetLastActivity(w) ==
  /\ pc[w] = "last_activity"
  /\ inactive' = FALSE
  /\ task_lock' = None
  /\ Goto(w, "idle")
  /\ UNCHANGED <<workFrame, modeVars, taskVars, workVars, outbuf, wrote, queue,
                 trigger, current>>

\* The task calls channel.write(): append, then the loop on send_bytes.  The
\* buffer of a closed channel raises ValueError.
Write(w) ==
  /\ pc[w] = "exec" /\ writes[w] > 0
  /\ writes' = [writes EXCEPT ![w] = @ - 1]
  /\ \/ /\ connected
        /\ outbuf' = Append(outbuf, current[w])
        /\ wrote' = Append(wrote, current[w])
        /\ Goto(w, AfterWrite(outbuf'))
        /\ UNCHANGED exc
     \/ /\ ~connected
        /\ exc' = [exc EXCEPT ![w] = "other"]
        /\ Goto(w, "fail")
        /\ UNCHANGED <<outbuf, wrote>>
  /\ UNCHANGED <<workFrame, modeVars, taskVars, inactive, task_lock, queue,
                 trigger, current>>

\* The task calls channel.flush(); setblocking() of a closed socket raises.
Flush(w) ==
  /\ pc[w] = "exec" /\ outbuf # <<>>
  /\ exc' = IF connected THEN exc ELSE [exc EXCEPT ![w] = "os"]
  /\ Goto(w, IF connected THEN "flush" ELSE "fail")
  /\ UNCHANGED <<flushFrame, closeVars, bufVars, inactive>>

\* The application raises.
ApplicationError(w) ==
  /\ pc[w] = "exec"
  /\ exc' = [exc EXCEPT ![w] = "other"]
  /\ Goto(w, "fail")
  /\ UNCHANGED <<flushFrame, closeVars, bufVars, inactive>>

\* The task ends normally, with or without close_on_finish.
Finish(w, close_on_finish) ==
  /\ pc[w] = "exec"
  /\ Jump(w, IF close_on_finish THEN "close_when_done" ELSE "service")

\* AbstractTask.service() handles the exception: an OSError always closes
\* the channel, and is dropped when socket errors are not logged.
Fail(w, close_on_finish) ==
  /\ pc[w] = "fail"
  /\ exc[w] = "os" => close_on_finish
  /\ exc' = IF exc[w] = "os" /\ ~LogSocketErrors
            THEN [exc EXCEPT ![w] = "none"] ELSE exc
  /\ Goto(w, IF close_on_finish THEN "close_when_done" ELSE "readd")
  /\ UNCHANGED <<flushFrame, closeVars, bufVars, inactive>>

AfterTask(w) == IF exc[w] = "none" THEN "service" ELSE "readd"

\* Mutant: close_when_done() closes the socket itself.
WillCloseAtOnce(w) ==
  /\ pc[w] = "will_close"
  /\ Closed("done")
  /\ Goto(w, AfterTask(w))
  /\ UNCHANGED <<flushFrame, bufVars, exc, inactive>>

\* The end of close_when_done(): will_close, and async_mode with the trigger
\* if the channel was synchronous.
WillClose(w) ==
  /\ pc[w] = "will_close"
  /\ will_close' = TRUE
  /\ async_mode' = TRUE
  /\ Goto(w, IF async_mode THEN AfterTask(w) ELSE "pull_close")
  /\ UNCHANGED <<readFrame, closeVars, taskVars, readVars, ready, inactive,
                 queue, current>>

PullClose(w) ==
  /\ pc[w] = "pull_close"
  /\ Awake
  /\ Goto(w, AfterTask(w))
  /\ UNCHANGED <<pollFrame, closeVars, loopVars, inactive>>

\* Mutant: service() lets the exception out and forgets the other tasks.
ReaddNothing(w) ==
  /\ pc[w] = "readd"
  /\ exc' = [exc EXCEPT ![w] = "none"]
  /\ Goto(w, "idle")
  /\ UNCHANGED <<flushFrame, closeVars, bufVars, inactive>>

\* A task raised: service() puts the channel back in the queue and leaves.
Readd(w) ==
  /\ pc[w] = "readd"
  /\ queue' = queue + 1
  /\ exc' = [exc EXCEPT ![w] = "none"]
  /\ Goto(w, "idle")
  /\ UNCHANGED <<workFrame, modeVars, taskVars, outbuf, wrote, writes,
                 inactive, task_lock, trigger, current>>

-----------------------------------------------------------------------------
(* The dispatcher's shutdown and the environment.                          *)

\* shutdown() between two polls: the queue is drained and cancel() called.
\* No worker can be in service() here, so cancel() is one step: n units
\* leave in close_when_done(); with the peer gone it raises, and only the
\* finally clause, set_async(), is executed.
Cancel(n) ==
  /\ MayCancel
  /\ pc[Main] = "scan" /\ LockFree
  /\ queue > 0 /\ queue' = queue - 1
  /\ running_tasks' = FALSE
  /\ tasks' = <<>> /\ disposed' = disposed \o tasks
  /\ async_mode' = TRUE /\ Awake /\ inactive' = FALSE
  /\ LET flushes == tasks # <<>> /\ connected /\ outbuf # <<>>
         broken  == flushes /\ peer = "gone"
     IN  /\ n <= IF flushes /\ ~broken THEN Len(outbuf) ELSE 0
         /\ sent' = sent \o SubSeq(outbuf, 1, n)
         /\ outbuf' = SubSeq(outbuf, n + 1, Len(outbuf))
         /\ \/ UNCHANGED closeVars
            \/ broken /\ async_mode /\ Closed("peer")
         /\ will_close' = (will_close \/ (tasks # <<>> /\ ~broken))
  /\ UNCHANGED <<readVars, loopVars, workVars, late, num_sent, wrote,
                 task_lock, peer, pc, current>>

\* adj.channel_timeout seconds have passed since last_activity.
Timeout ==
  /\ Maintenance /\ ~inactive
  /\ inactive' = TRUE
  /\ UNCHANGED <<flushFrame, closeVars, bufVars, exc, pc>>

PeerLeaves ==
  /\ ClientMayLeave /\ peer = "open"
  /\ peer' = "gone"
  /\ UNCHANGED <<modeVars, closeVars, taskVars, bufVars, readVars, loopVars,
                 workVars, inactive, task_lock, queue, trigger, pc, current>>

-----------------------------------------------------------------------------
Poll == \/ Scan \/ SelectBadDescriptor \/ EndOfPoll \/ DrainTrigger
        \/ KillZombies \/ KillClose
        \/ \E events \in SUBSET ready : Select(events)

Read == \/ HandleReadIgnored \/ HandleReadClosed
        \/ \E batch \in Batches : HandleRead(batch)
        \/ ReceivedNothing \/ ReceivedRequest \/ ReceivedBad \/ ReceivedAll
        \/ QueueTask \/ SetSync \/ AddTask

FlushSome(t) == \/ \E n \in 1..SendBytes : FlushSend(t, n)
                \/ FlushNothing(t) \/ FlushError(t) \/ FlushSkip(t)

MainStep == Poll \/ Read \/ HandleWrite \/ FlushSome(Main)

Service(w) == \/ Take(w) \/ PopTask(w) \/ NoMoreTasks(w)
              \/ SetAsync(w) \/ PullTrigger(w) \/ SetLastActivity(w)
              \/ Write(w) \/ Flush(w) \/ ApplicationError(w)
              \/ \E c \in BOOLEAN : Finish(w, c) \/ Fail(w, c)
              \/ WillClose(w) \/ PullClose(w) \/ Readd(w)
              \/ FlushSome(w) \/ Flushed(w)

Environment == \/ \E n \in 0..Len(outbuf) : Cancel(n)
               \/ Timeout \/ PeerLeaves

Next == MainStep \/ (\E w \in Workers : Service(w)) \/ Environment

Spec == Init /\ [][Next]_vars

\* The scheduler runs every thread that can run, and the client keeps reading:
\* its socket becomes writable, and takes bytes, again and again.
Fairness ==
  /\ WF_vars(MainStep)
  /\ \A w \in Workers : WF_vars(Service(w))
  /\ SF_vars(\E events \in SUBSET ready : "write" \in events /\ Select(events))
  /\ SF_vars(\E n \in 1..SendBytes : FlushSend(Main, n))

FairSpec == Spec /\ Fairness

-----------------------------------------------------------------------------
(* Properties.                                                             *)

MainPcs == {"scan", "select", "dispatch", "kill", "received", "queue_task",
            "set_sync", "addTask", "handle_write", "dead"}
WorkerPcs == {"idle", "service", "exec", "fail", "will_close", "pull_close",
              "readd", "set_async", "pull_trigger", "last_activity"} \cup WorkerFlushes

PcOK == /\ pc \in [Threads -> MainPcs \cup WorkerPcs]
        /\ pc[Main] \in MainPcs /\ \A w \in Workers : pc[w] \in WorkerPcs

\* Every variable keeps its type.
TypeOK ==
  /\ async_mode \in BOOLEAN /\ will_close \in BOOLEAN
  /\ connected \in BOOLEAN
  /\ closed_by \in {"no", "done", "peer", "error", "reaped"}
  /\ running_tasks \in BOOLEAN /\ late \in BOOLEAN
  /\ tasks \in Seq(Nat) /\ disposed \in Seq(Nat) /\ arrived \in Seq(Nat)
  /\ outbuf \in Seq(Nat) /\ wrote \in Seq(Nat) /\ sent \in Seq(Nat)
  /\ num_sent \in [Threads -> Nat]
  /\ proto_request \in Nat /\ started \in Nat /\ data \in Seq(Piece)
  /\ ready \subseteq {"trigger", "accept", "read", "write"}
  /\ listening \in BOOLEAN /\ trigger \in BOOLEAN /\ inactive \in BOOLEAN
  /\ writes \in [Workers -> Nat]
  /\ exc \in [Workers -> {"none", "os", "other"}]
  /\ task_lock \in Workers \cup {None}
  /\ queue \in Nat
  /\ peer \in {"open", "gone"}
  /\ PcOK
  /\ current \in [Threads -> Nat]

\* A worker between taking the channel from the queue and giving it up.
Active(w) == pc[w] \notin {"idle", "set_async", "pull_trigger", "last_activity"}
\* The main loop has set running_tasks and not yet queued the channel.
Starting == pc[Main] \in {"set_sync", "addTask"}

\* The channel is in one place at most: being queued, in the dispatcher's
\* queue, or in the hands of one worker; and running_tasks says whether.  Its
\* tasks therefore never run in two threads at once.
SingleService ==
  /\ queue <= 1
  /\ Starting => queue = 0
  /\ \A w \in Workers : Active(w) => queue = 0 /\ ~Starting
  /\ \A v, w \in Workers : Active(v) /\ Active(w) => v = w
  /\ running_tasks <=> (Starting \/ queue = 1 \/ \E w \in Workers : Active(w))

\* The handover between the two modes: while tasks are running the main loop
\* stays off the channel (unless it is about to be closed), and a channel the
\* main loop stays off is one somebody will give back.
Ownership ==
  /\ running_tasks /\ async_mode => will_close \/ pc[Main] = "set_sync"
  /\ ~async_mode => running_tasks \/ \E w \in Workers : pc[w] = "set_async"

\* Requests are serviced (or cancelled) in the order they arrived, each once.
FIFO ==
  disposed \o tasks \o (IF pc[Main] = "queue_task" THEN <<current[Main]>> ELSE <<>>) = arrived

\* The units between send() and skip().
Unskipped == LET S == {t \in Threads : num_sent[t] > 0}
             IN IF S = {} THEN 0 ELSE num_sent[CHOOSE t \in S : TRUE]

\* What went out and what is buffered is exactly what the tasks wrote, no unit
\* lost, repeated or moved, unless a task was serviced after will_close.
WireIntegrity ==
  ~late => /\ Unskipped <= Len(sent)
           /\ SubSeq(sent, 1, Len(sent) - Unskipped) \o outbuf = wrote

\* A connection closed because of will_close has had its whole output sent,
\* unless a task was serviced after will_close.
CleanClose == closed_by = "done" /\ ~late => sent = wrote

\* The main loop never sleeps in select() on an outdated interest in this
\* channel: what it would ask for now it has asked for, or a byte is, or is
\* about to be, in the trigger's pipe.
NoLostWakeup ==
  /\ pc[Main] = "select" /\ connected
  /\ \/ readable /\ "read" \notin ready
     \/ writable /\ "write" \notin ready
  => trigger \/ \E w \in Workers : pc[w] \in {"pull_trigger", "pull_close"}

\* kill_zombies() closes no channel whose tasks are queued or running, however
\* long they take.
ReapOnlyIdle ==
  pc[Main] = "kill" => tasks = <<>> /\ queue = 0 /\ \A w \in Workers : ~Active(w)

\* The descriptor is never closed while the main loop waits on it, unless a
\* task was serviced after will_close.
CloseOutsideSelect == [][connected /\ ~connected' => pc[Main] # "select" \/ late]_vars

\* Every request that arrived is serviced or cancelled, unless will_close was
\* set before (a late task may spin for ever in flush()).
EveryTaskDisposed ==
  \A k \in 1..MaxRequests :
     k \in {arrived[i] : i \in DOMAIN arrived}
       ~> late \/ k \in {disposed[i] : i \in DOMAIN disposed}

\* Buffered output is sent in the end, or the connection is closed.
OutputLeaves == outbuf # <<>> ~> outbuf = <<>> \/ ~connected

\* A channel that will_close is closed.
WillCloseCloses == will_close ~> ~connected

\* The channel implements TaskSequence: a task is in progress from its
\* service() to the return, or the exception, of that call.
Serving(w) == pc[w] \in {"exec", "fail", "will_close", "pull_close"} \cup WorkerFlushes

Sequence == INSTANCE TaskSequence WITH
  waiting <- IF pc[Main] = "queue_task" THEN Append(tasks, current[Main]) ELSE tasks,
  active  <- {current[w] : w \in {v \in Workers : Serving(v)}}

\* Tasks are "processed in sequence": oldest first, one at a time.
ProcessedInSequence == Sequence!Spec

-----------------------------------------------------------------------------
(* What the repository says of the channel, and the code does not do.      *)

\* handle_error() "handles program errors": they do not end the main loop.
MainLoopSurvives == pc[Main] # "dead"
=============================================================================
