----------------------------- MODULE FTPTransfer -----------------------------
(* The data connections of one FTP control channel: the passive listener,  *)
(* the data channels, and the transfers that use them.  Two threads touch  *)
(* them: the main loop, and the worker that runs RETR and STOR.  A step    *)
(* ends where the other thread may see or change what the next one reads:  *)
(* in the main loop inside handle_accept() and before closedData().        *)
(*                                                                         *)
(* What is sent is left out, and of a download what its channel reports is *)
(* one of what it may: RETRChannel has both.  LIST and NLST are downloads. *)
(*                                                                         *)
(* The client sends PASV or PORT before each transfer, not both, and waits *)
(* for its end before it asks for another one, but may send ABOR or QUIT   *)
(* any time.                                                               *)
EXTENDS Naturals, Sequences, SequencesExt, FiniteSets

CONSTANTS
  MaxTransfers,  \* transfers, at most
  MaxCommands,   \* PASV and PORT commands, at most
  None

ASSUME BoundsAssumption == /\ {MaxTransfers, MaxCommands} \subseteq Nat
                           /\ None \notin Nat

VARIABLES
  control,     \* the control channel: [async_mode, will_close, connected, running_tasks, tasks]
  listener,    \* its passive_listener: [up, closed, accepted, client_dc]
  port_addr,   \* its port_addr is set
  client_dc,   \* its client_dc, or None
  dcs,         \* all data channels so far, by number
  thunks,      \* of the trigger: data channels to be connected
  worker,      \* what the worker is about to do: [at, dc]
  main,        \* where the main loop is: [at, dc], see Accept and Closes
  dialled,     \* the client has connected to the listener's port
  client,      \* the client: "asks", is "ready" for a transfer, or "waits" for its end
  commands     \* history: PASV and PORT commands so far

vars == <<control, listener, port_addr, client_dc, dcs, thunks, worker, main,
          dialled, client, commands>>

NoListener == [up |-> FALSE, closed |-> TRUE, accepted |-> FALSE, client_dc |-> None]
Idle == [at |-> "idle", dc |-> None]

\* A data channel: what the classes say, and as history its final replies, and
\* whether the end of another one has made the control channel forget it.
NewChannel(kind) ==
  [kind |-> kind, state |-> "new", reported |-> FALSE, control_channel |-> TRUE,
   will_close |-> FALSE, peer |-> "there", answers |-> <<>>, forgotten |-> FALSE]

Init ==
  /\ control = [async_mode |-> TRUE, will_close |-> FALSE, connected |-> TRUE,
                running_tasks |-> FALSE, tasks |-> <<>>]
  /\ listener = NoListener /\ port_addr = FALSE /\ client_dc = None
  /\ dcs = <<>> /\ thunks = <<>> /\ worker = Idle
  /\ main = Idle /\ dialled = FALSE /\ client = "asks" /\ commands = 0

-----------------------------------------------------------------------------
(* Data channels: what their methods make of one, as a record.             *)

Open(d) == d.state \in {"connecting", "connected"}

\* report(): the final reply, if the control channel is still known.
Report(d, code) ==
  [d EXCEPT !.reported = TRUE,
            !.answers = IF d.control_channel /\ control.connected THEN Append(@, code) ELSE @]

\* close(): the report of a download, unless there was one, and no control
\* channel any more. An upload closes only when it is complete, without one.
Shut(d) == [d EXCEPT !.state = "closed", !.control_channel = FALSE]
Closed(d, code) ==
  Shut(IF d.reported \/ ~control.connected \/ d.kind = "stor" THEN d ELSE Report(d, code))

\* abort()
Aborted(d) == IF d.state = "closed" THEN [d EXCEPT !.reported = TRUE]
              ELSE Shut([d EXCEPT !.reported = TRUE])

\* set_socket(), create_socket()
Connecting(d) == [d EXCEPT !.state = "connecting"]

\* Mutant: the channel stays as it is.
ForgottenData == dcs
\* abortData() on the data channels.
AbortedData == IF client_dc = None THEN dcs ELSE [dcs EXCEPT ![client_dc] = Aborted(@)]
\* In the main loop: closedData() comes next, and forgets whatever client_dc is.
AbortData == dcs' = AbortedData
             /\ main' = IF client_dc = None THEN main ELSE [at |-> "closed", dc |-> client_dc]

\* Mutant: a task that comes while others run is lost.
QueuedIfIdle(c, task) == [c EXCEPT !.tasks = IF c.running_tasks THEN @ ELSE Append(@, task),
                                   !.running_tasks = TRUE, !.async_mode = @ /\ c.running_tasks]
\* queue_task() and set_sync(): see ServerChannel.
Queued(c, task) == [c EXCEPT !.tasks = Append(@, task), !.running_tasks = TRUE,
                             !.async_mode = @ /\ c.running_tasks]

\* close_when_done() of the control channel
WillClose(c) == [c EXCEPT !.will_close = TRUE, !.async_mode = TRUE]

\* The client, once a transfer is answered.
AfterAnswers(ds) ==
  IF \E n \in DOMAIN dcs : Len(ds[n].answers) > Len(dcs[n].answers) THEN "asks" ELSE client

-----------------------------------------------------------------------------
(* Commands, as the main loop reads them.  The trigger comes first in the  *)
(* socket map, so that thunks pulled before the control channel came back  *)
(* to the main loop have been run.                                         *)

Readable == control.connected /\ control.async_mode /\ ~control.will_close
MainIdle == main = Idle
Command == Readable /\ MainIdle /\ thunks = <<>>

cmd_pasv ==
  /\ Command /\ client # "waits" /\ commands < MaxCommands /\ ~port_addr
  /\ listener' = [NoListener EXCEPT !.up = TRUE, !.closed = FALSE]
  /\ dialled' = FALSE /\ commands' = commands + 1 /\ client' = "ready"
  /\ UNCHANGED <<control, port_addr, client_dc, dcs, thunks, worker, main>>

cmd_port ==
  /\ Command /\ client # "waits" /\ commands < MaxCommands /\ ~listener.up
  /\ port_addr' = TRUE /\ commands' = commands + 1 /\ client' = "ready"
  /\ UNCHANGED <<control, listener, client_dc, dcs, thunks, worker, main, dialled>>

cmd_abor ==
  /\ Command
  /\ listener' = NoListener /\ dialled' = FALSE
  /\ AbortData
  /\ client' = "asks"
  /\ UNCHANGED <<control, port_addr, client_dc, thunks, worker, commands>>

cmd_quit ==
  /\ Command
  /\ control' = WillClose(control)
  /\ UNCHANGED <<listener, port_addr, client_dc, dcs, thunks, worker, main, dialled, client, commands>>

\* STOR, APPE; RETR, LIST, NLST: handle_request() queues them for the worker.
QueueTransfer(kind) ==
  /\ Command /\ client = "ready" /\ Len(dcs) < MaxTransfers
  /\ control' = Queued(control, [kind |-> kind, dc |-> None])
  /\ client' = "waits"
  /\ UNCHANGED <<listener, port_addr, client_dc, dcs, thunks, worker, main, dialled, commands>>

\* close() of the control channel, once everything has been sent, or when the
\* client is gone.
close ==
  /\ MainIdle /\ control.connected /\ control.async_mode
  /\ control' = [control EXCEPT !.connected = FALSE]
  /\ listener' = NoListener /\ dialled' = FALSE
  /\ AbortData
  /\ UNCHANGED <<port_addr, client_dc, thunks, worker, client, commands>>

-----------------------------------------------------------------------------
(* asyncConnectData() in the main loop, for uploads.                       *)

\* connectPort() may find at once that it cannot connect.
PortAnswers == {<<>>, <<"NO_DATA_CONN">>}
ToPort(d, answer) == IF answer = <<>> THEN Connecting(d) ELSE Report(Connecting(d), answer[1])

\* The listener hands over the connection it has, or remembers the channel.
ConnectedVia(l, d) == IF l.up /\ l.accepted THEN Connecting(d) ELSE d
\* Mutant: it forgets the channel.
Forgetful(l, n) == IF l.up /\ l.accepted THEN NoListener ELSE l
Remembering(l, n) ==
  IF l.up /\ l.accepted THEN NoListener
  ELSE IF l.up THEN [l EXCEPT !.client_dc = n] ELSE l

RunThunk ==
  /\ MainIdle /\ thunks # <<>>
  /\ LET n == Head(thunks)
     IN  \E answer \in IF port_addr THEN PortAnswers ELSE {<<>>} :
           LET passive == ConnectedVia(listener, AbortedData[n])
           IN  dcs' = [AbortedData EXCEPT ![n] = IF port_addr THEN ToPort(passive, answer) ELSE passive]
     /\ client_dc' = n
     /\ listener' = Remembering(listener, n)
  /\ thunks' = Tail(thunks) /\ port_addr' = FALSE
  /\ client' = AfterAnswers(dcs')
  /\ UNCHANGED <<control, worker, main, dialled, commands>>

\* handle_accept(): first the socket, then the channel that waits for it.
Accept ==
  /\ MainIdle /\ dialled /\ listener.up /\ ~listener.closed
  /\ listener' = [listener EXCEPT !.accepted = TRUE, !.closed = TRUE]
  /\ main' = [main EXCEPT !.at = "accepting"] /\ dialled' = FALSE
  /\ UNCHANGED <<control, port_addr, client_dc, dcs, thunks, worker, client, commands>>

AcceptedFor ==
  /\ main.at = "accepting" /\ main' = Idle
  /\ IF listener.client_dc # None
     THEN /\ dcs' = [dcs EXCEPT ![listener.client_dc] = Connecting(@)]
          /\ listener' = NoListener
     ELSE UNCHANGED <<dcs, listener>>
  /\ UNCHANGED <<control, port_addr, client_dc, thunks, worker, dialled, client, commands>>

-----------------------------------------------------------------------------
(* Events of the data channels in the main loop.                           *)

Becomes(n, e) == dcs' = [dcs EXCEPT ![n] = e] /\ client' = AfterAnswers(dcs')

Established(n) ==
  /\ MainIdle /\ dcs[n].state = "connecting" /\ dcs[n].peer = "there"
  /\ Becomes(n, [dcs[n] EXCEPT !.state = "connected"])
  /\ UNCHANGED <<control, listener, port_addr, client_dc, thunks, worker, main, dialled, commands>>

\* The channel n closes ...
Closes(n, code, at) ==
  /\ MainIdle /\ Open(dcs[n])
  /\ Becomes(n, Closed(dcs[n], code)) /\ main' = [at |-> at, dc |-> n]
  /\ UNCHANGED <<control, listener, port_addr, client_dc, thunks, worker, dialled, commands>>

\* ... and then the control channel has no data channel any more, even if it
\* has got another one meanwhile.
closedData ==
  /\ main.at \in {"closed", "ended"} /\ main' = Idle
  /\ dcs' = IF client_dc \in {None, main.dc} THEN dcs ELSE [dcs EXCEPT ![client_dc].forgotten = TRUE]
  /\ client_dc' = None
  /\ control' = IF main.at = "closed" THEN control
                ELSE Queued(control, [kind |-> "finish", dc |-> main.dc])
  /\ UNCHANGED <<listener, port_addr, thunks, worker, dialled, client, commands>>

\* STORChannel.handle_close(): the end of the file, or an error that
\* asyncore.dispatcher takes to handle_close() as well. finishSTOR() is queued.
handle_close(n) ==
  dcs[n].kind = "stor" /\ dcs[n].peer # "there" /\ Closes(n, "TRANS_SUCCESS", "ended")

\* A download has been sent.
FlushedAll(n) ==
  /\ dcs[n].kind = "retr" /\ dcs[n].state = "connected" /\ dcs[n].will_close
  /\ Closes(n, "TRANS_SUCCESS", "closed")

\* Or its client has gone, or the worker in write() has got into the way.
Lost(n) ==
  /\ dcs[n].kind = "retr" /\ (dcs[n].peer # "there" \/ worker.dc = n)
  /\ \E code \in {"NO_DATA_CONN", "TRANS_SUCCESS", "TRANSFER_ABORTED"} : Closes(n, code, "closed")

-----------------------------------------------------------------------------
(* The worker.                                                             *)

At(at) == worker.at = at
Goto(at) == worker' = [worker EXCEPT !.at = at]
Return == worker' = Idle
New == Len(dcs) + 1

PopTask ==
  /\ At("idle") /\ control.tasks # <<>>
  /\ worker' = [at |-> Head(control.tasks).kind, dc |-> Head(control.tasks).dc]
  /\ control' = [control EXCEPT !.tasks = Tail(@)]
  /\ UNCHANGED <<listener, port_addr, client_dc, dcs, thunks, main, dialled, client, commands>>

NoMoreTasks ==
  /\ At("idle") /\ control.tasks = <<>> /\ control.running_tasks
  /\ control' = [control EXCEPT !.running_tasks = FALSE, !.async_mode = TRUE]
  /\ UNCHANGED <<listener, port_addr, client_dc, dcs, thunks, worker, main, dialled, client, commands>>

\* No such file, one that cannot be written, or exception(): the error is the
\* only reply.
Refuse ==
  /\ At("stor") \/ At("retr")
  /\ Return /\ client' = "asks"
  /\ control' \in {control, WillClose(control)}
  /\ UNCHANGED <<listener, port_addr, client_dc, dcs, thunks, main, dialled, commands>>

\* cmd_stor(): the main loop is to connect the channel, and then the reply.
cmd_stor ==
  /\ At("stor")
  /\ dcs' = Append(dcs, NewChannel("stor"))
  /\ thunks' = Append(thunks, New)
  /\ worker' = [at |-> "opening", dc |-> New]
  /\ UNCHANGED <<control, listener, port_addr, client_dc, main, dialled, client, commands>>

StorReply ==
  /\ At("opening") /\ Return
  /\ UNCHANGED <<control, listener, port_addr, client_dc, dcs, thunks, main, dialled, client, commands>>

\* finishSTOR(): the file is written, or not, or writing it raises, which
\* exception() answers before it closes the control channel.
finishSTOR ==
  /\ At("finish") /\ Return
  /\ \E code \in IF control.async_mode THEN {"INTERNAL_ERROR"}
                 ELSE {"TRANS_SUCCESS", "ERR_OPEN_WRITE", "INTERNAL_ERROR"} :
       /\ dcs' = [dcs EXCEPT ![worker.dc].answers = IF control.connected THEN Append(@, code) ELSE @]
       /\ control' = IF code = "INTERNAL_ERROR" THEN WillClose(control) ELSE control
  /\ client' = "asks"
  /\ UNCHANGED <<listener, port_addr, client_dc, thunks, main, dialled, commands>>

\* cmd_retr(): the first write() opens the channel: _open() replies, and calls
\* asyncConnectData() from here.
cmd_retr ==
  /\ At("retr")
  /\ dcs' = Append(dcs, NewChannel("retr"))
  /\ worker' = [at |-> "connect", dc |-> New]
  /\ UNCHANGED <<control, listener, port_addr, client_dc, thunks, main, dialled, client, commands>>

\* The file system writes nothing at all: nobody connects, or replies.
RetrNothing ==
  /\ At("retr")
  /\ dcs' = Append(dcs, [NewChannel("retr") EXCEPT !.will_close = TRUE])
  /\ Return
  /\ UNCHANGED <<control, listener, port_addr, client_dc, thunks, main, dialled, client, commands>>

\* abortData() of asyncConnectData() in the worker: is there a data channel ...
asyncConnectData ==
  /\ At("connect")
  /\ Goto(IF client_dc = None THEN "assign" ELSE "abort")
  /\ UNCHANGED <<control, listener, port_addr, client_dc, dcs, thunks, main, dialled, client, commands>>

\* ... which, if it is still there, is aborted ...
AbortOld ==
  /\ At("abort") /\ client_dc # None
  /\ dcs' = AbortedData /\ client_dc' = None
  /\ Goto("assign")
  /\ UNCHANGED <<control, listener, port_addr, thunks, main, dialled, client, commands>>

\* ... while None has no abort(), which exception() answers.
AbortNone ==
  /\ At("abort") /\ client_dc = None /\ Return
  /\ dcs' = [dcs EXCEPT ![worker.dc].answers = Append(@, "INTERNAL_ERROR")]
  /\ control' = WillClose(control) /\ client' = "asks"
  /\ UNCHANGED <<listener, port_addr, client_dc, thunks, main, dialled, commands>>

Assign ==
  /\ At("assign") /\ client_dc' = worker.dc
  /\ Goto(IF listener.up THEN "passive" ELSE "port")
  /\ UNCHANGED <<control, listener, port_addr, dcs, thunks, main, dialled, client, commands>>

\* connectData(): self.accepted is read, and then the channel remembered.
connectData ==
  /\ At("passive")
  /\ dcs' = [dcs EXCEPT ![worker.dc] = ConnectedVia(listener, @)]
  /\ listener' = IF listener.accepted THEN NoListener ELSE listener
  /\ Goto(IF listener.accepted THEN "port" ELSE "remember")
  /\ UNCHANGED <<control, port_addr, client_dc, thunks, main, dialled, client, commands>>

Remember ==
  /\ At("remember")
  /\ listener' = [listener EXCEPT !.client_dc = worker.dc]
  /\ Goto("port")
  /\ UNCHANGED <<control, port_addr, client_dc, dcs, thunks, main, dialled, client, commands>>

connectPort ==
  /\ At("port")
  /\ dcs' \in IF port_addr THEN {[dcs EXCEPT ![worker.dc] = ToPort(@, answer)] : answer \in PortAnswers}
              ELSE {dcs}
  /\ client' = AfterAnswers(dcs')
  /\ port_addr' = FALSE /\ Goto("write")
  /\ UNCHANGED <<control, listener, client_dc, thunks, main, dialled, commands>>

\* send() finds that the client has gone, and closes the channel from here.
WriteCloses ==
  /\ worker.at \in {"write", "failed"} /\ dcs[worker.dc].state = "connected" /\ dcs[worker.dc].peer # "there"
  /\ \E code \in {"TRANS_SUCCESS", "TRANSFER_ABORTED"} : Becomes(worker.dc, Closed(dcs[worker.dc], code))
  /\ client_dc' = None
  /\ UNCHANGED <<control, listener, port_addr, thunks, worker, main, dialled, commands>>

\* An OSError: of the file system, of send(), or of write() if the channel was
\* closed meanwhile. Behind the reply it is close_when_done() that may raise.
WriteFails ==
  /\ At("write") /\ Goto("failed")
  /\ dcs' = [dcs EXCEPT ![worker.dc].reported = TRUE,
                        ![worker.dc].answers = Append(@, "ERR_OPEN_READ")]
  /\ client' = "asks"
  /\ UNCHANGED <<control, listener, port_addr, client_dc, thunks, main, dialled, commands>>

SendFails ==
  /\ At("failed") /\ dcs[worker.dc].peer # "there" /\ Return
  /\ control' = WillClose(control)
  /\ UNCHANGED <<listener, port_addr, client_dc, dcs, thunks, main, dialled, client, commands>>

\* Another exception of the file system or the channel, which exception() answers.
ReadRaises ==
  /\ worker.at \in {"write", "failed"} /\ Return
  /\ dcs' = [dcs EXCEPT ![worker.dc].answers = Append(@, "INTERNAL_ERROR")]
  /\ control' = WillClose(control) /\ client' = "asks"
  /\ UNCHANGED <<listener, port_addr, client_dc, thunks, main, dialled, commands>>

\* close_when_done() behind the last write.
RetrWritten ==
  /\ worker.at \in {"write", "failed"} /\ Return
  /\ dcs' = [dcs EXCEPT ![worker.dc].will_close = TRUE]
  /\ UNCHANGED <<control, listener, port_addr, client_dc, thunks, main, dialled, client, commands>>

-----------------------------------------------------------------------------
(* The client.                                                             *)

Dial ==
  /\ listener.up /\ ~listener.closed /\ ~dialled /\ dialled' = TRUE
  /\ UNCHANGED <<control, listener, port_addr, client_dc, dcs, thunks, worker, main, client, commands>>

\* The client closes a data connection, or there is none or no more.
Leaves(n, how) ==
  /\ Open(dcs[n]) /\ dcs[n].peer = "there"
  /\ dcs' = [dcs EXCEPT ![n].peer = how]
  /\ UNCHANGED <<control, listener, port_addr, client_dc, thunks, worker, main, dialled, client, commands>>

-----------------------------------------------------------------------------
Work == \/ PopTask \/ NoMoreTasks \/ Refuse \/ cmd_stor \/ StorReply \/ finishSTOR
        \/ cmd_retr \/ RetrNothing \/ asyncConnectData \/ AbortOld \/ AbortNone \/ Assign
        \/ connectData \/ Remember \/ connectPort
        \/ WriteCloses \/ WriteFails \/ SendFails \/ ReadRaises \/ RetrWritten
Event(n) == Established(n) \/ handle_close(n) \/ FlushedAll(n) \/ Lost(n)
Main == RunThunk \/ Accept \/ AcceptedFor \/ closedData \/ \E n \in DOMAIN dcs : Event(n)
Commands == cmd_pasv \/ cmd_port \/ cmd_abor \/ cmd_quit \/ close
            \/ \E kind \in {"stor", "retr"} : QueueTransfer(kind)
Client == Dial \/ \E n \in DOMAIN dcs, how \in {"eof", "reset"} : Leaves(n, how)
Next == Work \/ Main \/ Commands \/ Client

Spec == Init /\ [][Next]_vars
\* The threads go on; the main loop handles every event that stays ready.
FairSpec == Spec /\ WF_vars(Work) /\ WF_vars(RunThunk) /\ WF_vars(Accept) /\ WF_vars(AcceptedFor)
            /\ WF_vars(closedData)
            /\ \A n \in 1..MaxTransfers : WF_vars(n \in DOMAIN dcs /\ Event(n))

-----------------------------------------------------------------------------
(* Properties *)

Codes == {"TRANS_SUCCESS", "TRANSFER_ABORTED", "NO_DATA_CONN", "ERR_OPEN_READ",
          "ERR_OPEN_WRITE", "INTERNAL_ERROR"}
Transfers == 1..MaxTransfers

\* Every variable has its type: the control channel's flags and task queue,
\* the listener, the data channels and the place of the worker.
TypeOK ==
  /\ control \in [async_mode : BOOLEAN, will_close : BOOLEAN, connected : BOOLEAN, running_tasks : BOOLEAN,
                  tasks : Seq([kind : {"stor", "retr", "finish"}, dc : Transfers \cup {None}])]
  /\ listener \in [up : BOOLEAN, closed : BOOLEAN, accepted : BOOLEAN, client_dc : Transfers \cup {None}]
  /\ {port_addr, dialled} \subseteq BOOLEAN
  /\ main.at \in {"idle", "accepting", "closed", "ended"} /\ main.dc \in Transfers \cup {None}
  /\ client_dc \in Transfers \cup {None}
  /\ dcs \in Seq([kind : {"stor", "retr"}, state : {"new", "connecting", "connected", "closed"},
                  reported : BOOLEAN, control_channel : BOOLEAN, will_close : BOOLEAN,
                  peer : {"there", "eof", "reset"}, answers : Seq(Codes), forgotten : BOOLEAN])
  /\ thunks \in Seq(Transfers)
  /\ client \in {"asks", "ready", "waits"}
  /\ worker.dc \in Transfers \cup {None} /\ commands \in 0..MaxCommands

\* A data channel that is open is the one the control channel knows, so that
\* ABOR, the next transfer and the end of the session can abort it, unless the
\* end of the channel before came after it was assigned.
\* (asyncConnectData, abortData, closedData)
OneTransfer == \A n \in DOMAIN dcs : Open(dcs[n]) => client_dc = n \/ dcs[n].forgotten

\* A client was told twice of the end of a transfer: it may have sent PASV again
\* when another one of its transfers was still to begin.
ToldTwice == \E n \in DOMAIN dcs : Len(dcs[n].answers) > 1

\* An upload never waits for a connection that the listener has accepted and
\* keeps: whichever comes first, handle_accept() or connectData(), the channel
\* gets the socket. (PassiveListener)  Unless the client was told twice, and has
\* replaced the listener that knew the channel, or a channel was forgotten.
HandedOver ==
  MainIdle /\ client_dc # None /\ ~ToldTwice /\ (\A n \in DOMAIN dcs : ~dcs[n].forgotten) =>
    LET d == dcs[client_dc]
    IN  d.kind = "stor" /\ d.state = "new" => ~(listener.up /\ listener.accepted)

\* A transfer was answered, or aborted, which ABOR and the next transfer do.
Told(n) == n \in DOMAIN dcs /\ (dcs[n].answers # <<>> \/ dcs[n].reported)

\* An upload whose client has ended it ends: the client is told, or the control
\* channel closes. (STORChannel.handle_close, FinishSTORTask)
Ending(n) == n \in DOMAIN dcs /\ dcs[n].kind = "stor" /\ Open(dcs[n]) /\ dcs[n].peer # "there"
TransfersEnd == \A n \in Transfers : Ending(n) ~> Told(n) \/ ~control.connected

\* finishSTOR() is "called by STORChannel when the client has sent all data":
\* no upload that its client broke off is stored and answered as complete.
StoredWhole ==
  \A n \in DOMAIN dcs : dcs[n].kind = "stor" /\ dcs[n].peer = "reset"
                           => "TRANS_SUCCESS" \notin Range(dcs[n].answers)
=============================================================================
