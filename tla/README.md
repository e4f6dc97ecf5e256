# zope.server in TLA+

zope.server is an asyncore-based network server: one thread runs the main loop
and all sockets, a pool of worker threads services requests. This directory
models the parts where the two meet, and the HTTP and FTP protocols built on
them, checks them with TLC on small instances, and proves what matters most with
TLAPS for any number of threads and requests.
Paths below are relative to `src/src/zope/server/`.

## 1. Inventory

| Component | Files | State | Operations | What is hard | What makes it correct |
|---|---|---|---|---|---|
| Server channel | `dualmodechannel.py`, `serverchannelbase.py`, `task.py` | `async_mode`, `will_close`, `connected`, `running_tasks`, `tasks`, `proto_request`, `outbuf`, `last_activity`, `task_lock` | `readable`, `writable`, `handle_read`, `received`, `handle_request`, `queue_task`, `service`, `cancel`, `set_sync`, `set_async`, `write`, `flush`, `_flush_some`, `close_when_done`, `close`, `handle_error`, `handle_comm_error` | Shared by the main loop and workers; only three methods lock; a task may close the channel while others are queued; peers leave at any moment | Tasks one at a time and in order; nothing lost or reordered on the wire; no lost wakeup; closed only by the main loop, after its output |
| Task dispatcher | `taskthreads.py` | `threads`, `stop_count`, `queue` | `setThreadCount`, `addTask`, `handlerThread`, `shutdown` | Threads told to stop have not stopped yet; tasks and logging raise; the shutdown timeout expires | The pool has the size asked for; each task taken once, in order; none forgotten |
| Trigger | `trigger.py` | `thunks`, `lock`, the pipe | `pull_trigger`, `_physical_pull`, `handle_read` | Pulls race with the drain; the pipe may be full | No wakeup and no thunk is lost; thunks run in order |
| Buffers | `buffers.py` | `file` (its bytes and position), `remain` | `append`, `get`, `skip`, `prune`, `close` | One file position for reading and writing; a failed write leaves it wrong | A FIFO of bytes |
| Server and limits | `serverbase.py`, `maxsockets.py`, `adjustments.py`, the class attributes of `serverchannelbase.py` | asyncore's socket map, `active_channels`, `next_channel_cleanup` | `readable`, `handle_accept`, `add_channel`, `del_channel`, `check_maintenance`, `kill_zombies` | Descriptors are used again; the two maps disagree | The limit holds; cleanups find every open channel |
| HTTP parsing | `http/httprequestparser.py`, `http/chunking.py`, `fixedstreamreceiver.py`, `utilities.py` | `header_plus`, `chunked`, `content_length`, `body_rcv`, `completed`, `empty` | `received`, `parse_header` | Input is split at any byte | The result does not depend on the split; nothing is consumed of the next request |
| HTTP task | `http/httptask.py`, `wsgihttpserver.py`, `publisherhttpserver.py` | `wrote_header`, `close_on_finish`, `response_headers` | `start`, `prepareResponseHeaders`, `write`, `finish`, `start_response` | Exceptions after the header went out | A connection kept open carries only responses whose end is known |
| Line receiver | `linereceiver/` | the parser's `inbuf`, `authenticated` | `received`, `handle_request`, `reply`, `exception`, `LineTask` | Some commands run in the main thread, others are queued | Replies in the order of the commands, and none missing; those that need a login have one |
| FTP control channel | `ftp/server.py`, `ftp/publisher.py` | `username`, `credentials`, `authenticated`, `cwd`, `restart_position`, `_rnfr`, transfer mode | the FTP commands | A command in the main loop changes the session under one that a worker runs | The file system is opened with accepted credentials only; a position is used once |
| FTP data connections | `ftp/server.py` | `passive_listener`, `port_addr`, `client_dc`, `STORChannel`, `RETRChannel` | PASV, PORT, ABOR, `asyncConnectData`, `closedData`, the passive listener, the events and writes of the data channels, `finishSTOR` | The connection is opened from a worker and accepted in the main loop; worker and main loop flush and close a download's channel, and change `client_dc`, without a lock | One transfer at a time, with the connection made for it, which ends and is answered truly |
| Dates, loggers, interfaces, packaging | `http/http_date.py`, `logger/`, `interfaces/` | none | formatting | none | - |

How they interact: `ServerBase.handle_accept` builds a channel, which registers
in the socket map and in `active_channels`. The main loop calls `readable`,
`writable`, `handle_read` and `handle_write` of each channel. `received` feeds
the parser; a complete request becomes a task; `queue_task` calls `set_sync` and
`server.addTask(channel)`, and the dispatcher's worker calls
`channel.service()`, which pops tasks and, when none is left, calls `set_async`.
Workers call `write`, `flush` and `close_when_done`, which use the buffer and the
socket directly, and pull the trigger to make the main loop look again.

The protocols are on top: `HTTPServerChannel` and `LineServerChannel` are server
channels whose parsers and tasks are HTTP's and FTP's. An FTP session has a
passive listener and one data channel at a time besides, each in the socket map,
which tell the control channel what becomes of them and which a worker reaches
through a thunk of the trigger.

## 2. Plan

In the order in which it was done, most important first:

1. `ServerChannel` with `TaskSequence` (abstract) and `ServerChannelProofs`.
2. `TaskDispatcher`, with `TaskDispatcherProofs`.
3. `FileBuffer` with `ByteQueue` (abstract); proved in `OutputProofs`.
4. `Trigger`.
5. `ChannelServer`; what the main loop serves is proved of both in `MainLoopProofs`.
6. `HTTPRequestParser`, with `HTTPRequestParserProofs`.
7. `HTTPTask`, with `HTTPTaskProofs`.
8. `FTPTransfer`, with `FTPTransferProofs`.
9. `FTPServerChannel`, which is the line receiver too, with `FTPServerChannelProofs`.

10. `RETRChannel`, the writes of a download; proved in `OutputProofs` too.

What would come next: the channel composed with the dispatcher, and the control
channel's replies as output that two threads flush.

## 3. Modules

### ServerChannel

One channel, the thread `Main` and the set `Workers`. Each variable carries the
name of the attribute it models; `pc` holds where each thread is. Steps end
where the code releases what other threads may see: every access to an
unprotected attribute that another thread tests is a step of its own, and what
is done under `task_lock` is one step unless something under the lock is read
without it, which is why `NoMoreTasks`, `SetAsync`, `PullTrigger` and
`SetLastActivity` (all under the lock in `service()`) are four steps, with
`task_lock` held from the first to the last.

| Actions | Code |
|---|---|
| `Scan`, `Select`, `SelectBadDescriptor`, `Handling`, `EndOfPoll` | `asyncore.poll()`: build the sets, select, call the handlers in the order of the map (external) |
| `HandleRead*`, `Received*` | `handle_read`, `received`, `handle_request`, `handle_error`, `handle_comm_error` |
| `QueueTask`, `SetSync`, `AddTask` | `queue_task`: under the lock, then `set_sync`, then `addTask` |
| `HandleWrite`, `FlushSend`, `FlushNothing`, `FlushError`, `FlushSkip`, `Flushed` | the loops over `_flush_some`, in whatever thread: `send()` and `skip()` are two steps |
| `Take`, `PopTask`, `NoMoreTasks`, `SetAsync`, `PullTrigger`, `SetLastActivity`, `Readd` | `handlerThread`, `service`, `set_async` |
| `Write`, `Flush`, `ApplicationError`, `Finish`, `Fail`, `WillClose`, `PullClose` | the task, `AbstractTask.service`, `close_when_done` |
| `KillZombies`, `KillClose` | `check_maintenance`, `kill_zombies`, called by the constructor of another channel |
| `Cancel` | `shutdown(cancel_pending)` and `cancel` |
| `Timeout`, `PeerLeaves` | the clock and the client |

A received batch of bytes is a sequence of pieces, one for each call of
`parser.received()`: what is left of a request (`full`), only blank lines
(`empty`), the beginning of a request (`part`) or bytes that make the parser
raise (`bad`). A byte of output is the number of the request it answers. The
socket map's order is by creation: trigger, server socket, channel.

A worker that has sent `will_close` keeps servicing the tasks that are left, in
asynchronous mode: from then on the main loop and the worker share `outbuf`
without a lock. The history variable `late` says that this happened; several
properties except those channels.

`TaskSequence` is what `IServerChannel.queue_task()` promises. The refinement
maps its `waiting` to `tasks` plus the request between the parser and the queue,
and `active` to the tasks of the workers inside a task's `service()`.

### TaskDispatcher

`setThreadCount`, `addTask`, the five steps of `handlerThread` and the four of
`shutdown`. Everything under `thread_mgmt_lock` is one step. `died` counts the
threads that end because `log.exception()` raised. A `cancel()` that raises, as
that of a channel whose client has left does, ends `shutdown()`: `shut` is `failed`.

### FileBuffer and ByteQueue

The bytes of the file, its position and `remain`; `append` may fail in the
middle (disk full). `ByteQueue` is the FIFO it is meant to be.

### Trigger

Pulling threads first append the thunk under the lock, then write a byte, which
waits while the pipe is full; `handle_read` drains up to `RecvSize` bytes, takes
the lock, runs the thunks one by one and empties the list.

### ChannelServer

Many channels, the socket map, `active_channels` (both by descriptor, the lowest
free one being used first), the limit and the cleanups. `Reserved` is the number
of entries of the map that are not channels: the trigger and the listening socket.

### HTTPRequestParser

The loop of `ServerChannelBase.received()` over `HTTPRequestParser.received()`,
`FixedStreamReceiver.received()` and `ChunkedReceiver.received()`: one action is
one turn of the innermost loop, on the data that is left. `Recv` cuts the stream
anywhere. A symbol is a byte, or a run of bytes that no cut can tell apart, such
as the name and value of a header field; line ends, blanks, digits of a chunk
size and `;` are bytes. `Behind` and `Suffix` keep the way the code counts what it
consumed, from the end of the data that came last. The reference, `Requests`
with `ChunkedBodyOf` for chunked bodies, is a recursive function that reads the whole
stream from its beginning and knows nothing of the parser's state.

### HTTPTask

One connection and its tasks, one after the other: `start_response` (also with
`exc_info`) or, for servers that are no WSGI servers, `setResponseStatus` and
`setResponseHeaders`; `write`, which prepares and sends the header first; `finish`;
and the two kinds of exceptions, as `AbstractTask.service()` handles them.
`response_headers` is the mapping, `accumulated_headers` the list that WSGI
applications fill. `Client` is a reader of the connection that goes by the
headers it finds there.

### FTPServerChannel

The control channel of a session, with the line receiver: `PartOfLine`, `Line` and
`TooLong` are `LineCommandParser.received()`; `Reject`, `Queue`, `RunInMain` and
`Unknown` are the branches of `handle_request()`; the worker pops and runs the
queued commands. A command is an operator from its arguments and the session to
its possible outcomes: the session it leaves, its replies (none, one, or for RETR without
a name two), whether it closes the channel and whether it opened the file system. Three
commands are more than one step, because the main loop may run others inside them:
PASS (`Pass`, `Authenticated`, `LoggedIn`: the credentials are read, accepted, and
the session is marked); RETR (`Retr` and `Reset`: the restart position is read, and
reset), which may end without having written anything (`RetrNothing`), or open the data
channel with its first write (`Opens`, with the reply 150) and succeed or fail behind that
(`Sent`, with a second reply or none); and LIST with NLST, which `Opens` and `Sent` are
for as well. A reply to a channel that has closed is lost. What a data channel reports of itself
is in the next two modules.

### FTPTransfer

The data connections of one session: `cmd_pasv`, `cmd_port`, `cmd_abor`, `cmd_quit`
and `close` in the main loop. `RunThunk` is `asyncConnectData()` called through the
trigger, for uploads; a download runs it in the worker, where it is
`asyncConnectData` (the test of `client_dc` in `abortData()`), `AbortOld` or `AbortNone`
(its use, which raises if the main loop has set it to `None` meanwhile), `Assign`,
`connectData`, `Remember` and `connectPort`. Between these the main loop may accept
(`Accept` and `AcceptedFor` are the two halves of `PassiveListener.handle_accept()`) and a
channel may close: `Closes` is the channel's own `close()` and `closedData` what it calls behind
it, which sets `client_dc` to `None` whoever it is by then. The history `forgotten` marks a channel
that lost its place like this. In the main loop `abortData()` is one step but for its
`closedData`: the worker changes `client_dc` only while the main loop reads no commands, or when
the session ends.

A data channel is a record with the states of its socket; `Report`, `Closed` and
`Aborted` are operators on it. What is sent is left out here: what a download's
channel reports as it ends is one of what it may report (`FlushedAll`, `Lost`, `WriteCloses`),
and which of these it is, is the next module's.

### RETRChannel

The channel of one download, with every step of its output. A data channel is always
asynchronous, so `write()` and `close_when_done()` in the worker and `handle_write()`
and the other events in the main loop run the same methods at once, without a lock. `at`
says where each thread is; `flush_some`, `get_chunk`, `Takes`, `Disconnected`, `SendRaises`,
`skip_sent`, `close_dc`, `reportDefault` and `Shut` are the steps of `_flush_some()` and
`close()`, for either thread, and `within` tells which loop of the worker they return to.
`_open`, `Connects` and `ConnectFails` are the first write, with the moment in which the
socket is in the map and not yet connected. The history `shared` says that both threads
have been in methods of the channel at once. Each operation of the buffer is one step, as
are `connectData()` and a close of the control channel, which `FTPTransfer` has in their parts.

## 4. Runs

| Run | What it checks and shows |
|---|---|
| `channel` | Two workers, three requests, all kinds of batches, leaving peers, cleanups, shutdown: `SingleService`, `Ownership`, `NoLostWakeup`, `ReapOnlyIdle`, `CloseOutsideSelect`, and the refinement `ProcessedInSequence` |
| `channel_bytes` | Two pipelined requests, two workers, partial sends of up to two units: `WireIntegrity`, `CleanClose`; under `FairSpec` `EveryTaskDisposed`, `OutputLeaves`, `WillCloseCloses` |
| `dispatcher` | Three thread numbers, counts 0..2, two tasks added up to three times: through resizings, failing tasks, dying threads and a shutdown: `PoolInv`, `StopsAreTold`; under `FairSpec` `Converges` (to the number asked for), `EveryTaskTaken`, `EveryTaskServicedOrCancelled` |
| `main_loop` | The trigger: two threads, two thunks, a pipe of two bytes: `TriggerInv` (order, and no thunk lost); under its `Fairness` `EveryThunkRuns`, `PullReturns`. The server: four connections over four descriptors with a limit of three: `MapsInv`, `ZombiesReaped` |
| `http_parser` | 126 streams of two pipelined requests, cut in every way: `SplitIndependent` (the requests are those of the reference), `Drains` (`received()` ends) |
| `http_task` | Two requests of every version and `Connection` field, every use of the header stores, exceptions anywhere: `ClientReads`, `ClosedOnDemand` |
| `ftp_control` | A login and any two commands, apart or in one batch, and batches of up to four that overtake one another: `OpensAccepted`, `RepliesInOrder`, `RestartUsedOnce`; under `FairSpec` `EveryCommandAnswered` |
| `ftp_transfer` | Two transfers with three PASV or PORT, ABOR, QUIT, connections early, late or never, channels that close while the next one opens: `OneTransfer`, `HandedOver`; under `FairSpec` `TransfersEnd` |
| `output` | The buffer: reads and skips over appended bytes, failures: `BufferInv`, and the refinement of `ByteQueue`, `IsByteQueue`. A download of up to three units, two to a send, in every interleaving of the worker with the main loop's events: `SuccessIsWhole` (if no event comes into a call of the worker); under `DownloadFairness` `DownloadEnds` |
| `parser_error` | Violation of `MainLoopSurvives`: an error of the parser behind a pipelined request ends the main loop |
| `stored_whole` | Violation of `StoredWhole`: an upload that breaks off is stored and answered as complete |
| `all_transferred` | Violation of `AllTransferred`: worker and main loop flush the same part; it is sent twice, or another is dropped, and 226 follows |

Bounds, and why they are enough. Two workers are the fewest that can disturb
each other through one channel, and `SingleService` shows that no more than one
is ever inside. Two pipelined requests give a task behind one that closes the
connection; three give one behind both and a partial one. `SendBytes` is one
(every write flushes) or two (writes that do not flush, partial sends, two
responses in one send). The pipe of the trigger has two bytes, so that pulls
fill it; four connections, closed and accepted again, use every descriptor
again, and the limit leaves room for three at a time. In `TaskDispatcher` the
thread numbers 0..2 with counts up to 2 leave a number for a thread started while
one that is to stop is still there. Two requests in a stream are enough for one
to take bytes of the next, and `MCHTTPRequestParser` lists each kind of body and
of line end; what is left of the first is all that the second can notice. Two
responses on a connection are enough to mistake where the first ends. Two
transfers are enough for one to be aborted by the next, or to get its
connection, three PASV or PORT for the listener of one to be replaced by that of the
other, and a download has three units, two to a send,
so that a chunk may go in part, two chunks differ, and a write may come behind one that
flushed; a command that
waits, one that runs and one that overtakes them make batches of three, and
`Meetings` has those that share an attribute of the session.
`MCMainLoop` and `MCOutput` each hold two specifications that share no state: the variable
`subject`, which never changes, says which of the two goes on, so that the run explores the one
and the other, not their product; the fairness is that of the one with liveness properties.
`CHECK_DEADLOCK FALSE` is set where the client or the callers may simply have
nothing more to do (all requests sent, all `addTask` calls made).

Fairness. Threads are scheduled by the operating system: each thread that can
step does (`WF` for the main loop and each worker); waiting for a lock, the
queue or the pipe is not being able to step. A client keeps reading: whenever
its socket could become writable again and again, `select()` reports it and a
`send()` takes bytes (`SF` on those two). No fairness for clients sending,
leaving, timeouts, or calls of the dispatcher's interface, except that
`shutdown()`, once called, goes on. In `HTTPRequestParser` the loop of `received()`
goes on while there is data. In `FTPTransfer` the worker goes on, and so do the
main loop's thunks, its accepting, `closedData` and, for each data channel, the events that
`select()` keeps reporting; nothing is sent there, and clients owe nothing: `TransfersEnd` asks
for the end of an upload only once its client has ended it. In `RETRChannel` the worker, the
events of the main loop and each thread's flushing go on, and a `send()` that is tried
again and again takes something or finds the client gone (`SF` on `Proceeds`): as for
`ServerChannel`, a client reads as long as it stays. Of one that stays and stops
reading nothing is shown. In `FTPServerChannel` the worker and the main loop go on.

### Observed while modelling

What follows shows in the models, or was met while reading for them, and has no run of
its own but where one is named.

Channel, dispatcher, server.
- A late task (one serviced after `will_close`) shares `outbuf` with the main
  loop, without a lock. Where its peer is gone it closes the channel in the
  worker's thread (the `late` in `CloseOutsideSelect`).
- `flush()` spins for ever on a channel closed behind its back, and the tasks
  after it are neither serviced nor cancelled (the `late` in `EveryTaskDisposed`).
- `kill_zombies()` may pick a channel that is still synchronous: it reads
  `running_tasks` and `last_activity` without the lock. `ReapOnlyIdle` holds all the same.
- A thread that dies because logging raised leaves `stop_count` at -1 and is
  never replaced (`died` in `StopsAreTold`).
- `shutdown()` may drain the `None` of a thread that outlived its timeout, which
  then waits on the queue for ever; and its own `get()` may find the queue empty
  and wait likewise.
- A `cancel()` that raises, as that of a channel whose client has left does, ends
  `shutdown()`, although `ITask` says that "either service() or cancel() is called for every task
  queued": the tasks behind it get neither (`failed` in `EveryTaskServicedOrCancelled`).
- A buffer whose file cannot be written keeps its length, but the bytes before cannot be
  read any more, so that the main loop is called for output for ever (`failed` in `BufferInv`).
- `del_channel()` leaves closed channels in `active_channels`, until their
  descriptor is used again. At the connection limit no channel is constructed,
  so no cleanup runs and idle connections stay.

HTTP.
- An exception that is no `OSError`, behind a header that keeps the connection,
  leaves it open behind half a response (`task.py:48`; `cut` in `ClientReads`).
- Requests pipelined behind one whose response says `Connection: close` are
  serviced, and their responses written behind it.
- `start_response()` called twice without `exc_info` is taken for the first call
  (`wsgihttpserver.py:33`), so that fields add up; the model calls it as WSGI allows.

FTP, data connections.
- The worker and the main loop both get, send and skip from the buffer of a download, for its
  channel is asynchronous from the first (`all_transferred`): a part is sent twice, and
  the second `skip()` drops another that was never sent, or raises. `SuccessIsWhole` holds where
  no event comes into a call of the worker (`shared`).
- `create_socket()` puts the channel of an active download into the socket map before `connect()`,
  and a socket that is not connected polls as hung up: the main loop may close the channel, whose
  buffer is still empty, and report 226 with all of the file to come (`handle_read` on a socket `created`,
  which `shared` excepts). The worker's next `append()` raises.
- `closedData()` sets `client_dc` to `None` whoever it is. If a worker has aborted the old
  channel and assigned the new one before the main loop gets there, the new one is forgotten, and stays
  open behind ABOR, the next transfer and the end of the session, although `close()` is to "make sure the
  passive listener and active client DC get closed". `OneTransfer` excepts exactly these (`forgotten`).
- `abortData()` tests `client_dc` and uses it: in the worker it may be `None` by then, and the
  AttributeError closes the control channel (`AbortNone`).
- A download whose worker reads `accepted` just before the listener sets it
  registers itself too late: the connection is kept and never used. A second
  download over the old listener may then hand the socket to the first, aborted
  channel. Uploads register in the main loop and are safe (`HandedOver`) but in two cases,
  which it excepts. Where a transfer was answered twice (`ToldTwice`), the client may send PASV
  while another upload waits; the new listener replaces the one that remembered the upload, and keeps
  the connection it accepts. It takes three PASV. Where a channel was forgotten, it may
  still be known to a listener.
- A client that sends both PASV and PORT, and connects, makes the data channel
  take two sockets, of which one leaks, contrary to the comment at
  `ftp/server.py:706`. The model's client sends one of them.
- A download of nothing is never answered, and its channel is never closed: it opens
  with the first write (`RetrNothing`), and the "zero-length file" of `ftp/server.py:873` to
  875 cannot be reached. `EveryCommandAnswered` excepts these downloads (`silent`).
- A download that fails behind its first write is answered with 150 and an error, and the channel
  that closes behind that says nothing, unless it reported before: then there are three replies. LIST
  likewise. If the error itself cannot be followed by `close_when_done()`, the session ends.
- 425 may come before the 150 it belongs to, and be followed by a 226 when
  `connectPort()` fails at once. A download aborted by its client may be answered
  twice, with 426 and then an error of the file system. A client that goes before
  the first write is answered with 226.
- An upload that another transfer replaces is never answered.

FTP, control channel.
- Replies of commands that run in the main loop overtake those of queued ones,
  QUIT's as well, and both threads write to one `outbuf`. QUIT makes the channel
  asynchronous, so that the assertion in `finishSTOR()` fails for an upload that
  was pipelined before it.
- `authenticated` is checked when a command is queued, not when it runs: after
  a USER in between, it runs with the credentials of the login before
  (`OpensAccepted` is what remains true).
- A REST that comes between reading and resetting `restart_position` is lost;
  STOR and APPE ignore the position and leave it for the next RETR.
- RETR without an argument is answered twice. The
  reply `MODE_UNKNOWN` does not exist, so that MODE is answered "500 Unknown Reply Code".
- A line that is too long is refused, and what is left of it becomes a command.

## 5. Proofs

The theorems assume of the constants only what the `ASSUME`s of the modules say:
the threads are distinct, the bounds are numbers, a send takes a unit at least, there are finitely many
descriptors and thread numbers, what the client sends is a sequence of batches,
of requests or of symbols, and `None` is no number and, in `HTTPTask`, no list of header fields.
They hold for any number of workers, requests, connections, threads and calls.

| Module | Theorem | States |
|---|---|---|
| `ServerChannelProofs` | `TypeCorrect` | `Spec => []TypeOK` |
| | `ServicedOnce` | `Spec => []SingleService` |
| | `OwnedByOne` | `Spec => []Ownership` |
| | `ReapsOnlyIdle` | `Spec => []ReapOnlyIdle` |
| | `WokenInTime` | `Spec => []NoLostWakeup` |
| | `ClosedOutsideSelect` | `Spec => CloseOutsideSelect` |
| | `InOrder` | `Spec => []FIFO`, which no run checks: TLC sees it as part of the refinement |
| | `WireIntact` | `Spec => []WireIntegrity` |
| | `ClosedClean` | `Spec => []CleanClose` |
| | `ImplementsTaskSequence` | `Spec => ProcessedInSequence`, the refinement of `TaskSequence` |
| `TaskDispatcherProofs` | `PoolCorrect` | `Spec => []PoolInv` |
| | `StopsCounted` | `Spec => []StopsAreTold` |
| `MainLoopProofs` | `TriggerCorrect` | `TriggerSpec => []TriggerInv` |
| | `MapsCorrect` | `Spec => []MapsInv` |
| | `CleanupExact` | `Spec => ZombiesReaped` |
| `OutputProofs` | `RemainCorrect` | `Spec => []BufferInv` |
| | `ImplementsByteQueue` | `Spec => IsByteQueue`, the refinement of `ByteQueue` |
| | `DownloadTypes` | `DownloadSpec => []DownloadTypeOK`, which no run checks |
| | `WholeWhenAlone` | `DownloadSpec => []SuccessIsWhole` |
| `FTPServerChannelProofs` | `LoginCorrect` | `Spec => []OpensAccepted` |
| | `RestartCorrect` | `Spec => []RestartUsedOnce` |
| | `AnsweredInOrder` | `Spec => []RepliesInOrder` |
| | `TypeCorrect` | `Spec => []TypeOK` |
| `FTPTransferProofs` | `TypeCorrect` | `Spec => []TypeOK`, which no run checks |
| | `OneAtATime` | `Spec => []OneTransfer` |
| | `HandedOverAlways` | `Spec => []HandedOver` |
| `HTTPRequestParserProofs` | `TypeCorrect` | `Spec => []TypeOK` |
| | `ReadWhole` | `Spec => []SplitIndependent` |
| | `StreamIsRead` | `Spec => []IInv`, of which the other two are consequences |
| `HTTPTaskProofs` | `TypeCorrect` | `Spec => []TypeOK` |
| | `ClosedAsAsked` | `Spec => []ClosedOnDemand` |
| | `ReadAsMeant` | `Spec => []ClientReads` |

`ServerChannelProofs`. `TypeOK` is inductive by itself. The others rest on one
inductive invariant, `Handover`. `SingleService` is inductive, and says who can be
where. `Ownership` is not: when `set_async()` restores `async_mode`, tasks must not
be running, and what ensures it is the lock. `LockInv` states that: a worker giving
the channel back holds `task_lock`, and while anybody holds it `running_tasks`
is false, since only `queue_task()` sets it and needs the lock. `ReapOnlyIdle`
needs `IdleInv`, that a channel nobody services has no tasks. `NoLostWakeup`
needs `Ownership`: a worker's write, or its `close_when_done()`, changes what the
main loop would ask for only if the channel is asynchronous, and then
`will_close` was set before and the main loop already wants to write.
`ClosedOutsideSelect` needs that too, and `LateInv`: a task in progress on a
channel with `will_close` set was begun after it. The proof that `Handover` is
preserved goes action by action; the actions of `_flush_some()` share one
argument, for they move a thread only within a task.

`WireIntact` and `ClosedClean` are one invariant, `Wire`, upon `Handover`.
`WireIntegrity` speaks of what was sent and what was written; `skip()` needs to know
as well that the units a thread has sent and not yet skipped are both the last ones
on the wire and the first ones in `outbuf` (`WireInv`), and that there is one such
thread at most, on a connected channel (`FlushInv`). That is where the locking of
the channel pays: a worker flushes only what is synchronous, the main loop only
what is not, unless the task is late. `OneFlushing` is that argument, and the
lemmas behind it say what `send()`, `skip()`, `write()` and a close leave of `Wire`.
`CleanClose` follows because the main loop closes for `will_close` only with an
empty buffer, and with no thread between `send()` and `skip()` nothing else is left.

`InOrder` needs no more than `TypeOK`: four actions move a request from the
parser to `tasks` to `disposed`, and each moves the end of one sequence to the
next. `ImplementsTaskSequence` combines `Handover` with them: the parser's
request is a `Queue` step, `PopTask` a `Begin` (no other worker is in a task, by
`SingleService`), a worker's return from a task an `End`, `Cancel` a `Cancel`,
and all other steps stutter.

`TaskDispatcherProofs`. `ThreadBudget` alone is not inductive: that a thread which
exits lowers both sides by one needs `Registered`, that its number is still in
`threads` while it runs. `setThreadCount()` is the step that takes work: the numbers it
starts threads under are free, so that the size of the set grows by exactly their
count (`Joining`). `StopsAreTold` is inductive upon `PoolInv`: it counts the `None`s in
the queue and the threads about to exit, so that each action must be shown to move
one of either (the `Pills...` lemmas and `OneMoreExits` say what appending, taking and exiting do to
a count), and as many as the pool shrinks by in `setThreadCount()`.

`MainLoopProofs`. Of the trigger, `RunInOrder` and `NoLostThunk` need `Phases`: the lock is held
exactly while `handle_read()` runs the list and clears it, so that no thunk joins a
list that is about to be cleared. `AppendPart` and `NextPart` say what an append
and the loop's next turn do to the part of the list still to be run.

Of the server, `MapsInv` is inductive. A descriptor is used again only when
no open channel has it, so `add_channel()` overwrites an entry of `active_channels`
only if it belongs to a closed channel; the limit is kept because a channel is
accepted only below it, and one step adds one entry at most (`OneMore`).
`CleanupExact` needs `OpenIsTracked`: without it `kill_zombies()` would not find all
open channels.

`OutputProofs`, of the buffer. `BufferInv` is not inductive, for it says nothing of `remain`
after a failed write; `IInv` adds that `remain` is never less than what can be
read, so that `get()`, which reads no more than that, does not take more from `remain`
than it has. For the refinement, `AppendPart` shows that the unread part of a file
at whose end bytes are written is the unread part before, with the bytes behind it.

Of a download, `DInv` has two parts that hold whatever the threads do to each other. `Kept` is the types, that no more
is written than there is, and that a part to be sent is no longer than `SendBytes`. `Plugged` says
when the socket is closed (exactly when there is no control channel any more), that `will_close` is
the worker's last act, and that the worker closes a channel only once its client has gone or it
is closed already. The third, `Alone`, holds until both threads have been in methods of the
channel at once: `Apart`, that they are not; `Closing`, that the main loop closes a connection whose client
stays only with an empty buffer behind `close_when_done()`; `Ordered`, that what is in the buffer follows
what was sent, but for the units still to be skipped (`Follow`), and that a part about to be sent is the
first of the buffer (`Prefix`); and `Told`, that success was reported when all was sent. `KeptNext`,
`PluggedNext` and `AloneNext` go action by action; `AloneKept` gathers the actions
that leave what was written, sent and buffered alone.

`FTPServerChannelProofs`. Most commands do nothing to the attributes in question.
`Sound` says so of an outcome: it keeps the credentials, does not log in, and the
position is what it was, zero, or that of the command's own number. `ServiceSound`
and `MainSound` prove it of each command that the worker and the main loop run, and
`WorkEnds` gathers the five ways in which a command in the worker ends.
`LoginCorrect` then needs `Login`, which speaks of what is under way: `authenticated`
is checked when a command is queued, so every queued command but PASS, and every
one that runs, was queued in a session with accepted credentials, and these are
never taken away, though a later USER clears `authenticated`. `RestartCorrect`
needs `Position`: a position that has been used is not in `restart_position`, nor
in the hands of a RETR that has read it and not yet reset it. `AnsweredInOrder`
needs `Numbers`: the commands still queued are numbered upwards, the one in the
worker's hands comes before them, and no reply of the worker is to a command behind the one it
runs (`Ordered`); a reply of the main loop is to the command that has just come in, with the highest number. `Terse`
says that an outcome has one reply at most, `Twice` which ends have two, and `Replying` that a reply to a number
that is high enough keeps the order.
`TypeCorrect` is about the working directory, which `_generatePath()` computes by a
fold over the names of the path: `GeneratesNormal` says that what comes out has no
empty name and no "..", whatever goes in.

`FTPTransferProofs`. `Chan` is what a data channel can be: closed exactly when it
has no control channel, and not answered if it is an upload that nobody has connected yet.
`Reporting`, `Aborting`, `ClosingChan`, `Happening` show that the operators on channels stay in `Chan` and
take nothing back of what has been answered or forgotten (`Follows`). `OneTransfer`
needs to know what is under way: `Threads`, that the main loop reads a command only
when the worker has nothing left, so that there is one transfer at most in the
worker's hands or among the thunks; `Known`, whom the control channel and the
listener remember, and that a closed channel is known for no longer than until its `closedData()`; `Downloads`, what a
worker inside `asyncConnectData()` can rely on at each of its steps, which behind the assignment is
that `client_dc` is its channel or `None`; and `Finishing`, that `finishSTOR()` is for uploads that have
ended. The lemma for each of the five conjuncts goes action by action; `Working`, `RunningThunk`, `AbortingData`
and `Forgetting` say once what a step makes of the channels.
`HandedOverAlways` is a second invariant on top, `Conversation`: as long as no
transfer was answered twice and no channel forgotten, a client with a transfer under way waits for its
answer, so that no PASV replaces the listener that remembers the upload.

`HTTPTaskProofs`. `Demand` is what `ClosedOnDemand` needs: until the header is written
`close_on_finish` is set, so that whatever ends the task before closes the
connection, and behind it it is set if the client wants that. The types say besides
that a mapping has one value for a name (`OneValue`), which is what makes counting
the names and counting the fields the same.

`ReadAsMeant` has to say what `Client`, a recursive function of the wire, makes of
any wire. `ClientReader` shows that the function it is the value of exists (`ReadBack`
extends it by one position at a time) and is unique; `EndStays` and `EndMoves` say that
where a body ends depends neither on what comes behind it nor on what came before;
so `ReadTogether`: where the client waits for a response, it reads what is
appended as it would read that alone. `OneResponse` says what it reads of one
header with the body behind it. The invariant has two parts. `Promised`: what the
header stores say is what the application said, at most one length and one coding;
the body goes no further than that; and a header that keeps the connection tells
where the body ends (`PreparedKeeps`, which is about `prepareResponseHeaders()`).
`Reading`: the wire is one that the client has read in full, and behind it the
header and body of the current task; or `close_when_done()` was called, and up to
there the client reads the responses and one more at most.

`HTTPRequestParserProofs`. `SplitIndependent` compares `requests` with what the
reference reads in the part of the stream that has come. It is not inductive: it says
nothing of what the parser holds back. `Meaning(preq, y)` is what a parser that
holds back what it does will make of any symbols `y` that are still to come:
behind an incomplete header `Requests` of both, behind a header the request
with the rest of its body, and then the requests in what follows. `StreamMeans`
says that whatever `x` comes, the requests in the stream up to now with `x` behind
it are the requests already handled and then the meaning of `data` and `x`. Being about
every `x`, it survives a `Recv` (which only names the beginning of `x`), and a turn of
the loop preserves it if the turn does not change what the parser and the data mean
together. `Waiting` is what that needs: there is no end of a header, line or trailer in
what is held back. So an end that the code finds by looking at what is held back
and the new data together is in the new data (`Found`, `HeaderFound`,
`LineFound`, `TrailerFound`), and more symbols behind do not move it (`LineEndsStay`,
`HeaderEndsStay`, `TrailerEndsStay`); `LeftOver` is the arithmetic of `Behind` and
`Suffix`, by which the code counts what it consumed from the end of the data. There is one
lemma for each kind of turn (`HeaderStep`, `FixedStep`, `ChunkDataStep`, `ControlStep`,
`TrailerStep`). When all data is used, `x` empty gives `SplitIndependent` (`AllMade`):
a parser that waits means no request by itself.

The reference is two recursive functions, one inside the other, of which it must
first be shown that they exist. `Recursion` does so for any function that descends in
some measure, by approximations that are right below `n`; here the measure is the
length of the stream, for each line, chunk and header takes a symbol at least
(`ChunkNextIs`, `RequestNextIs`). The size of a chunk is computed by a fold, which
`FoldExists` treats in the same way, and a number because of `HexType`.

Induction. The library states it for operators, which the provers cannot
instantiate; for a set of numbers it follows from `WFMin`, that a well-founded
relation has a minimal element in every nonempty set that is given as one. `Least` (and
`Induction` in `FTPServerChannelProofs` and `HTTPRequestParserProofs`, `Backwards` in
`HTTPTaskProofs`) is that: no
least counterexample, no counterexample. A fold or a recursive function is a CHOOSE,
so that it must first be shown, by the same induction, that there is such a function.

Only model-checked is liveness (`EveryTaskDisposed`, `OutputLeaves`, `WillCloseCloses`,
`Converges`, `EveryTaskTaken`, `EveryTaskServicedOrCancelled`, `EveryThunkRuns`,
`PullReturns`, `Drains`, `EveryCommandAnswered`, `TransfersEnd`, `DownloadEnds`), for fairness and
`ENABLED` are beyond the prover. The three violations are TLC's counterexamples.
Every other property of a run is a theorem.

## 6. Not modelled

- Out-of-band data (`handle_expt`), a server without a dispatcher,
  `computeIPAddress`, logging and the loggers.
- The Windows trigger, and `close()` of a trigger.
- `prune()` and the copying constructor of buffers: no caller but tests.
- HEAD, CGI variables, the environment of WSGI and the forms of URIs: formats, about
  which no property is stated. The same holds for HTTP dates, the listings of
  `ls.py` and the texts of replies.
- What `publisher.py` makes of a file system: a command is answered, refused or
  raises, and the model lets it do any of these.
- The interfaces, which have no behaviour, and the package's build files.

asyncore, `select`, `queue.Queue`, pipes, temporary files and the kernel are
modelled from how this code uses them and marked external.
