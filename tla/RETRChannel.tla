----------------------------- MODULE RETRChannel -----------------------------
(* The data channel of one download, RETR, LIST or NLST.  A data channel is *)
(* always in async mode, so the worker, in write() and close_when_done(),   *)
(* and the main loop, in its events, run the same methods on it with no     *)
(* lock between them.  A step ends where the other thread may change what   *)
(* the next one reads.                                                      *)
(*                                                                          *)
(* The operations of the buffer are steps, as are connectData() and a close *)
(* of the control channel, which FTPTransfer has in their parts.  A reply   *)
(* to a control channel that has closed is lost.                            *)
EXTENDS Naturals, Sequences, SequencesExt

CONSTANTS
  SendBytes,  \* adj.send_bytes, in units of data
  MaxUnits    \* units of the file, at most

ASSUME UnitsAssumption == SendBytes \in Nat \ {0} /\ MaxUnits \in Nat

VARIABLES
  dc,       \* the channel: [opened, socket, control_channel, reported, will_close, outbuf]
  control,  \* the control channel is connected
  peer,     \* the client of the data connection is there
  at,       \* where the threads are: the main loop, and the worker
  within,   \* of what the worker's _flush_some() is a part
  chunk,    \* what get() has returned to a thread
  num_sent, \* and how much of it send() has taken
  written,  \* history: the units written so far, which are 1, 2, ...
  wire,     \* history: the units sent
  answers,  \* history: the replies to the command, but for the first
  shared    \* history: both threads have been in methods of the channel at once

downloadVars == <<dc, control, peer, at, within, chunk, num_sent, written, wire, answers, shared>>

Threads == {"main", "worker"}
\* Where the worker is in none of the channel's methods.
Outside == {"reading", "error", "silence", "raised", "out"}

DownloadInit ==
  /\ dc = [opened |-> FALSE, socket |-> "none", control_channel |-> TRUE, reported |-> FALSE,
           will_close |-> FALSE, outbuf |-> <<>>]
  /\ control = TRUE /\ peer = TRUE
  /\ at = [main |-> "idle", worker |-> "reading"] /\ within = "write"
  /\ chunk = [t \in Threads |-> <<>>] /\ num_sent = [t \in Threads |-> 0]
  /\ written = 0 /\ wire = <<>> /\ answers = <<>> /\ shared = FALSE

Both == at["main"] # "idle" /\ at["worker"] \notin Outside
\* The thread t goes on.
Goto(t, place) == at' = [at EXCEPT ![t] = place] /\ shared' = (shared \/ Both')

\* report()
Reported(code) ==
  /\ dc' = [dc EXCEPT !.reported = TRUE]
  /\ answers' = IF dc.control_channel /\ control THEN Append(answers, code) ELSE answers

-----------------------------------------------------------------------------
(* The worker: readfile() of the file system writes to the channel.         *)

Data == <<wire, chunk, num_sent>>

write ==
  /\ at["worker"] = "reading" /\ written < MaxUnits
  /\ Goto("worker", IF ~dc.control_channel THEN "error" ELSE IF dc.opened THEN "append" ELSE "open")
  /\ UNCHANGED <<dc, control, peer, within, written, answers, Data>>

\* The first one opens the channel: asyncConnectData() finds the connection, or
\* a listener, an address or nothing; the reply, or abortData(), may raise.
_open ==
  /\ at["worker"] = "open"
  /\ \/ \E s \in {"none", "waiting", "connecting", "created"} :
          /\ dc' = [dc EXCEPT !.opened = TRUE, !.socket = s]
          /\ Goto("worker", IF s = "created" THEN "connect" ELSE "append")
     \/ dc' = [dc EXCEPT !.opened = TRUE] /\ Goto("worker", "raised")
  /\ UNCHANGED <<control, peer, within, written, answers, Data>>

\* connectPort() has created the socket, which is in the socket map by now.
Connects ==
  /\ at["worker"] = "connect" /\ dc.socket = "created"
  /\ dc' = [dc EXCEPT !.socket = "connecting"]
  /\ Goto("worker", "append")
  /\ UNCHANGED <<control, peer, within, written, answers, Data>>

ConnectFails ==
  /\ at["worker"] = "connect"
  /\ Goto("worker", "append") /\ peer' = (peer /\ dc.socket = "closed")
  /\ answers' = IF dc.control_channel /\ control THEN Append(answers, "NO_DATA_CONN") ELSE answers
  /\ dc' = [dc EXCEPT !.reported = TRUE, !.socket = IF @ = "closed" THEN @ ELSE "connecting"]
  /\ UNCHANGED <<control, within, written, Data>>

append_data ==
  /\ at["worker"] = "append"
  /\ IF dc.socket = "closed"
     THEN Goto("worker", "raised") /\ UNCHANGED <<dc, written>>
     ELSE /\ dc' = [dc EXCEPT !.outbuf = Append(@, written + 1)]
          /\ written' = written + 1 /\ Goto("worker", "loop")
  /\ UNCHANGED <<control, peer, within, answers, Data>>

Loop ==
  /\ at["worker"] = "loop"
  /\ Goto("worker", IF Len(dc.outbuf) >= SendBytes THEN "flush" ELSE "reading")
  /\ UNCHANGED <<dc, control, peer, within, written, answers, Data>>

\* readfile() has ended: close_when_done().
ReadDone ==
  /\ at["worker"] = "reading"
  /\ within' = "close" /\ Goto("worker", "flush")
  /\ UNCHANGED <<dc, control, peer, written, answers, Data>>

\* Or it raises, an OSError or something else.
ReadFails ==
  /\ at["worker"] = "reading"
  /\ \E place \in {"error", "raised"} : Goto("worker", place)
  /\ UNCHANGED <<dc, control, peer, within, written, answers, Data>>

Answer(code) == answers' = IF control THEN Append(answers, code) ELSE answers
ErrorReply ==
  /\ at["worker"] = "error" /\ Answer("ERR_OPEN_READ")
  /\ Goto("worker", "silence")
  /\ UNCHANGED <<dc, control, peer, within, written, Data>>

Silence ==
  /\ at["worker"] = "silence"
  /\ dc' = [dc EXCEPT !.reported = TRUE]
  /\ within' = "fail" /\ Goto("worker", "flush")
  /\ UNCHANGED <<control, peer, written, answers, Data>>

\* exception() of the control channel
Raised ==
  /\ at["worker"] = "raised" /\ Answer("INTERNAL_ERROR")
  /\ Goto("worker", "out")
  /\ UNCHANGED <<dc, control, peer, within, written, Data>>

Finish ==
  /\ at["worker"] = "finish"
  /\ dc' = [dc EXCEPT !.will_close = TRUE]
  /\ Goto("worker", "out")
  /\ UNCHANGED <<control, peer, within, written, answers, Data>>

-----------------------------------------------------------------------------
(* _flush_some() and close(), of the thread t.                              *)

\* Where _flush_some() returns to, with something sent or not.
After(t, some) ==
  CASE t = "main" -> "idle"
    [] t = "worker" /\ within = "write" -> IF some THEN "loop" ELSE "reading"
    [] OTHER -> IF some THEN "flush" ELSE "finish"

\* A ValueError: handle_error() closes the channel, or exception() answers.
GotoRaise(t) == Goto(t, IF t = "main" THEN "close" ELSE "raised")

flush_some(t) ==
  /\ at[t] = "flush"
  /\ Goto(t, IF dc.outbuf # <<>> /\ dc.socket = "connected" THEN "get" ELSE After(t, FALSE))
  /\ UNCHANGED <<dc, control, peer, within, written, answers, Data>>

get_chunk(t) ==
  /\ at[t] = "get"
  /\ IF dc.socket = "closed"
     THEN GotoRaise(t) /\ UNCHANGED chunk
     ELSE /\ chunk' = [chunk EXCEPT ![t] = SubSeq(dc.outbuf, 1,
                         IF Len(dc.outbuf) < SendBytes THEN Len(dc.outbuf) ELSE SendBytes)]
          /\ Goto(t, "send")
  /\ UNCHANGED <<dc, control, peer, within, written, answers, wire, num_sent>>

\* send() takes some of it.
Takes(t, k) ==
  /\ at[t] = "send" /\ dc.socket # "closed" /\ k \in 0..Len(chunk[t])
  /\ wire' = wire \o SubSeq(chunk[t], 1, k)
  /\ num_sent' = [num_sent EXCEPT ![t] = k]
  /\ Goto(t, IF k = 0 THEN After(t, FALSE) ELSE "skip")
  /\ UNCHANGED <<dc, control, peer, within, written, answers, chunk>>

\* Or it finds that the client has gone, or the socket: it closes the channel ...
Disconnected(t) ==
  /\ at[t] = "send" /\ (~peer \/ dc.socket = "closed")
  /\ Goto(t, "close")
  /\ UNCHANGED <<dc, control, peer, within, written, answers, Data>>

\* ... or raises, and the main loop closes the channel after a report.  Behind
\* an error it is the end of the session.
SendRaises(t) ==
  /\ at[t] = "send" /\ ~peer /\ dc.socket # "closed"
  /\ IF t = "main" THEN Reported("TRANSFER_ABORTED") ELSE UNCHANGED <<dc, answers>>
  /\ Goto(t, CASE t = "main" -> "close" [] t = "worker" /\ within = "fail" -> "out" [] OTHER -> "error")
  /\ UNCHANGED <<control, peer, within, written, Data>>

\* Mutant: all that get() returned is dropped, sent or not.
SkippedChunk(outbuf, n) == SubSeq(outbuf, SendBytes + 1, Len(outbuf))
Skipped(outbuf, n) == SubSeq(outbuf, n + 1, Len(outbuf))
skip_sent(t) ==
  /\ at[t] = "skip"
  /\ IF dc.socket = "closed" \/ Len(dc.outbuf) < num_sent[t]
     THEN GotoRaise(t) /\ UNCHANGED dc
     ELSE /\ dc' = [dc EXCEPT !.outbuf = Skipped(@, num_sent[t])]
          /\ Goto(t, After(t, TRUE))
  /\ UNCHANGED <<control, peer, within, written, answers, Data>>

close_dc(t) ==
  /\ at[t] = "close"
  /\ Goto(t, IF dc.control_channel /\ control /\ ~dc.reported THEN "report" ELSE "shut")
  /\ UNCHANGED <<dc, control, peer, within, written, answers, Data>>

\* reportDefault(); a channel that was not opened is not closed here.
reportDefault(t) ==
  /\ at[t] = "report"
  /\ Reported(IF dc.outbuf = <<>> THEN "TRANS_SUCCESS" ELSE "TRANSFER_ABORTED")
  /\ Goto(t, "shut")
  /\ UNCHANGED <<control, peer, within, written, Data>>

Shut(t) ==
  /\ at[t] = "shut"
  /\ dc' = [dc EXCEPT !.socket = "closed", !.control_channel = FALSE]
  /\ Goto(t, After(t, FALSE))
  /\ UNCHANGED <<control, peer, within, written, answers, Data>>

-----------------------------------------------------------------------------
(* Events of the main loop.                                                 *)

MainIdle == at["main"] = "idle"
Static == <<peer, within, written, Data>>

\* The listener's handle_accept() has the connection for a channel that waits.
Accepted ==
  /\ MainIdle /\ dc.socket = "waiting"
  /\ dc' = [dc EXCEPT !.socket = "connecting"]
  /\ UNCHANGED <<control, at, answers, shared, Static>>

\* handle_connect_event()
Established ==
  /\ MainIdle /\ dc.socket = "connecting"
  /\ dc' = [dc EXCEPT !.socket = "connected"]
  /\ UNCHANGED <<control, at, answers, shared, Static>>

\* A socket that is not connected is readable when its connection has failed,
\* and also before connect() was called.
handle_read ==
  /\ MainIdle /\ dc.socket \in {"created"} \cup (IF peer THEN {} ELSE {"connecting"})
  /\ Goto("main", "close")
  /\ \/ UNCHANGED <<dc, answers>>
     \/ dc.socket = "connecting" /\ Reported("NO_DATA_CONN")
  /\ UNCHANGED <<control, Static>>

\* Mutant: a channel without output is not writable.
writableToSend == dc.outbuf # <<>>
writable == dc.will_close \/ dc.outbuf # <<>>
handle_write ==
  /\ MainIdle /\ dc.socket = "connected" /\ writable
  /\ Goto("main", IF dc.outbuf # <<>> THEN "flush" ELSE "will_close")
  /\ UNCHANGED <<dc, control, answers, Static>>

\* The test of outbuf may have been the scan's, and this is that of will_close.
close_if_done ==
  /\ at["main"] = "will_close"
  /\ Goto("main", IF dc.will_close THEN "close" ELSE "idle")
  /\ UNCHANGED <<dc, control, answers, Static>>

\* abort(), by ABOR or the next transfer, or as the control channel closes.
Aborted == [dc EXCEPT !.reported = TRUE, !.control_channel = FALSE, !.socket = "closed"]
Abort ==
  /\ dc.opened
  /\ MainIdle \/ at["worker"] = "out"
  /\ dc' = Aborted /\ control' \in {control, FALSE}
  /\ UNCHANGED <<at, answers, shared, Static>>

ControlCloses ==
  /\ MainIdle /\ control /\ control' = FALSE
  /\ UNCHANGED <<dc, at, answers, shared, Static>>

PeerLeaves ==
  /\ peer /\ peer' = FALSE
  /\ UNCHANGED <<dc, control, at, within, written, answers, shared, Data>>

-----------------------------------------------------------------------------
Flushing(t) ==
  \/ flush_some(t) \/ get_chunk(t) \/ (\E k \in 0..SendBytes : Takes(t, k)) \/ Disconnected(t)
  \/ SendRaises(t) \/ skip_sent(t) \/ close_dc(t) \/ reportDefault(t) \/ Shut(t)
Reading ==
  \/ write \/ _open \/ Connects \/ ConnectFails \/ append_data \/ Loop \/ ReadDone \/ ReadFails
  \/ ErrorReply \/ Silence \/ Raised \/ Finish
Events == Accepted \/ Established \/ handle_read \/ handle_write \/ close_if_done
DownloadNext ==
  Reading \/ Events \/ (\E t \in Threads : Flushing(t)) \/ Abort \/ ControlCloses \/ PeerLeaves

DownloadSpec == DownloadInit /\ [][DownloadNext]_downloadVars
\* Both threads go on, and the client reads what it is sent, as long as it stays.
Proceeds(t) == Disconnected(t) \/ SendRaises(t) \/ \E k \in 1..SendBytes : Takes(t, k)
DownloadFairness ==
  /\ WF_downloadVars(Reading) /\ WF_downloadVars(Established \/ handle_read \/ handle_write \/ close_if_done)
  /\ \A t \in Threads : WF_downloadVars(Flushing(t)) /\ SF_downloadVars(Proceeds(t))
DownloadFair == DownloadSpec /\ DownloadFairness

-----------------------------------------------------------------------------
(* Properties *)

Places == {"flush", "get", "send", "skip", "close", "report", "shut"}
FinalCodes == {"TRANS_SUCCESS", "TRANSFER_ABORTED", "NO_DATA_CONN", "ERR_OPEN_READ", "INTERNAL_ERROR"}
Units == Seq(1..MaxUnits)

\* Every variable has its type: the channel, its buffer, and where both threads
\* are.
DownloadTypeOK ==
  /\ dc \in [opened : BOOLEAN, control_channel : BOOLEAN, reported : BOOLEAN, will_close : BOOLEAN,
             socket : {"none", "waiting", "created", "connecting", "connected", "closed"}, outbuf : Units]
  /\ {control, peer, shared} \subseteq BOOLEAN
  /\ at["main"] \in Places \cup {"idle", "will_close"}
  /\ at["worker"] \in Places \cup Outside \cup {"open", "connect", "append", "loop", "finish"}
  /\ within \in {"write", "close", "fail"}
  /\ chunk \in [Threads -> Units] /\ num_sent \in [Threads -> 0..SendBytes]
  /\ written \in 0..MaxUnits /\ wire \in Seq(1..MaxUnits) /\ answers \in Seq(FinalCodes)

Upto(n) == [i \in 1..n |-> i]

\* A client that stays and is told of success has been sent the file, all of it,
\* in order and nothing twice, whatever the sends take and wherever the events
\* of the main loop come between the calls of the worker; unless one of them has
\* come into such a call. (write, close_when_done, handle_write, reportDefault)
SuccessIsWhole ==
  peer /\ ~shared /\ "TRANS_SUCCESS" \in Range(answers) => dc.will_close /\ wire = Upto(written)

\* A download of which all was written, and that is connected or will be, is
\* closed in the end. (handle_write, close_when_done)
DownloadEnds ==
  dc.will_close /\ dc.socket \in {"connecting", "connected"} ~> dc.socket = "closed"

\* Success means what reportDefault() says of an empty buffer, "All data
\* transferred": nothing is missing from what was sent, or in it twice.
AllTransferred == peer /\ "TRANS_SUCCESS" \in Range(answers) => wire = Upto(Len(wire))
=============================================================================
