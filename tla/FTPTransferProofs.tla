-------------------------- MODULE FTPTransferProofs --------------------------
EXTENDS FTPTransfer, SequenceTheorems, TLAPS

-----------------------------------------------------------------------------
(* Data channels.                                                          *)

ChannelType ==
  [kind : {"stor", "retr"}, state : {"new", "connecting", "connected", "closed"},
   reported : BOOLEAN, control_channel : BOOLEAN, will_close : BOOLEAN,
   peer : {"there", "eof", "reset"}, answers : Seq(Codes), forgotten : BOOLEAN]

Chan ==
  {d \in ChannelType :
     /\ d.kind = "stor" /\ d.state = "new" => d.answers = <<>>
     /\ d.state = "closed" <=> ~d.control_channel}

LEMMA Typed ==
  ASSUME NEW d \in Chan
  PROVE  d \in ChannelType /\ d.answers \in Seq(Codes) /\ Len(d.answers) \in Nat
<1>1. d \in ChannelType /\ d.answers \in Seq(Codes)
  BY DEF Chan, ChannelType
<1> QED
  BY <1>1

\* One more reply.
LEMMA OneMore ==
  ASSUME NEW s \in Seq(Codes), NEW c \in Codes
  PROVE  /\ Append(s, c) \in Seq(Codes) /\ Append(s, c) # <<>>
         /\ Len(s) \in Nat /\ Len(Append(s, c)) = Len(s) + 1 /\ Len(s) <= Len(Append(s, c))
<1>1. Append(s, c) \in Seq(Codes) /\ Len(s) \in Nat /\ Len(Append(s, c)) = Len(s) + 1
  OBVIOUS
<1>2. Append(s, c) # <<>>
  BY <1>1
<1> QED
  BY <1>1, <1>2

LEMMA NewChan ==
  /\ \A kind \in {"stor", "retr"} : NewChannel(kind) \in Chan
  /\ [NewChannel("retr") EXCEPT !.will_close = TRUE] \in Chan
<1>1. <<>> \in Seq(Codes)
  OBVIOUS
<1> QED
  BY <1>1 DEF NewChannel, Chan, ChannelType

\* What a channel is afterwards: no answer is taken back.
Follows(d, e) == /\ e.kind = d.kind /\ Len(d.answers) <= Len(e.answers)
                 /\ (d.answers # <<>> => e.answers # <<>>) /\ (d.forgotten => e.forgotten)

LEMMA FollowsOn ==
  ASSUME NEW d \in Chan, NEW e \in Chan
  PROVE  Follows(d, d) /\ (Follows(d, e) => \A c \in Chan : Follows(c, d) => Follows(c, e))
<1>1. Len(d.answers) \in Nat /\ Len(e.answers) \in Nat /\ \A c \in Chan : Len(c.answers) \in Nat
  BY Typed
<1>2. \A i, j, k \in Nat : i <= j /\ j <= k => i <= k
  OBVIOUS
<1>3. Follows(d, d)
  BY <1>1 DEF Follows
<1>4. ASSUME Follows(d, e), NEW c \in Chan, Follows(c, d)
      PROVE  Follows(c, e)
  BY <1>1, <1>2, <1>4 DEF Follows
<1> QED
  BY <1>3, <1>4

\* A change that is no reply.
LEMMA Untold ==
  ASSUME NEW d \in Chan, NEW e \in ChannelType, e.kind = d.kind, e.answers = d.answers,
         d.forgotten => e.forgotten, e.state = "closed" <=> ~e.control_channel,
         e.kind = "stor" /\ e.state = "new" => d.state = "new"
  PROVE  e \in Chan /\ Follows(d, e)
<1>1. e \in Chan
  BY DEF Chan
<1>2. Follows(d, e)
  BY Typed DEF Follows
<1> QED
  BY <1>1, <1>2

\* A reply, to a channel that no upload is waiting for.
LEMMA Answering ==
  ASSUME NEW d \in Chan, NEW code \in Codes, NEW e \in ChannelType, e.kind = d.kind, e.state = d.state,
         e.control_channel = d.control_channel, e.forgotten = d.forgotten,
         e.answers = Append(d.answers, code), ~(d.kind = "stor" /\ d.state = "new")
  PROVE  e \in Chan /\ Follows(d, e) /\ Len(e.answers) = Len(d.answers) + 1
<1>1. /\ e.answers # <<>> /\ Len(e.answers) = Len(d.answers) + 1 /\ Len(d.answers) <= Len(e.answers)
  BY Typed, OneMore
<1>2. e \in Chan
  BY DEF Chan
<1> QED
  BY <1>1, <1>2 DEF Follows

\* report()
LEMMA Reporting ==
  ASSUME NEW d \in Chan, NEW code \in Codes, d.state # "new", control.connected \in BOOLEAN
  PROVE  /\ Report(d, code) \in Chan /\ Follows(d, Report(d, code))
         /\ Report(d, code).state = d.state /\ Report(d, code).peer = d.peer
<1> DEFINE as == IF d.control_channel /\ control.connected THEN Append(d.answers, code) ELSE d.answers
           e == [d EXCEPT !.reported = TRUE, !.answers = as]
<1>1. d \in ChannelType /\ d.answers \in Seq(Codes)
  BY Typed
<1>2. Report(d, code) = e
  BY <1>1 DEF Report, ChannelType
<1>3. as \in Seq(Codes)
  BY <1>1, OneMore
<1>4. as = d.answers \/ as = Append(d.answers, code)
  OBVIOUS
<1> HIDE DEF as
<1>5. /\ e \in ChannelType /\ e.answers = as /\ e.kind = d.kind /\ e.state = d.state /\ e.peer = d.peer
      /\ e.control_channel = d.control_channel /\ e.forgotten = d.forgotten
  BY <1>1, <1>3 DEF ChannelType
<1> HIDE DEF e
<1>6. CASE as = d.answers
  <2>1. d.state = "closed" <=> ~d.control_channel
    BY DEF Chan
  <2> QED
    BY <1>2, <1>5, <1>6, <2>1, Untold
<1>7. CASE as = Append(d.answers, code)
  BY <1>2, <1>5, <1>7, Answering
<1> QED
  BY <1>4, <1>6, <1>7

\* abort()
LEMMA Aborting ==
  ASSUME NEW d \in Chan
  PROVE  /\ Aborted(d) \in Chan /\ Aborted(d).state = "closed" /\ Follows(d, Aborted(d))
         /\ Aborted(d).answers = d.answers
<1>1. d \in ChannelType /\ d.state = "closed" <=> ~d.control_channel
  BY DEF Chan
<1>2. /\ Aborted(d) \in ChannelType /\ Aborted(d).kind = d.kind /\ Aborted(d).answers = d.answers
      /\ Aborted(d).state = "closed" /\ ~Aborted(d).control_channel /\ Aborted(d).forgotten = d.forgotten
  BY <1>1, Typed DEF Aborted, Shut, ChannelType
<1> QED
  BY <1>2, Untold

\* A socket for a channel that has none.
LEMMA ConnectingChan ==
  ASSUME NEW d \in Chan, d.state = "new"
  PROVE  /\ Connecting(d) \in Chan /\ Connecting(d).state = "connecting" /\ Follows(d, Connecting(d))
         /\ Connecting(d).answers = d.answers
<1>1. d \in ChannelType /\ d.control_channel
  BY DEF Chan
<1>2. /\ Connecting(d) \in ChannelType /\ Connecting(d).kind = d.kind /\ Connecting(d).answers = d.answers
      /\ Connecting(d).state = "connecting" /\ Connecting(d).control_channel = d.control_channel
      /\ Connecting(d).forgotten = d.forgotten
  BY <1>1 DEF Connecting, ChannelType
<1> QED
  BY <1>1, <1>2, Untold

LEMMA PortChan ==
  ASSUME NEW d \in Chan, d.state = "new", NEW answer \in PortAnswers, control.connected \in BOOLEAN
  PROVE  /\ ToPort(d, answer) \in Chan /\ ToPort(d, answer).state = "connecting"
         /\ Follows(d, ToPort(d, answer))
<1> DEFINE c == Connecting(d)
<1>1. c \in Chan /\ c.state = "connecting" /\ Follows(d, c)
  BY ConnectingChan
<1> HIDE DEF c
<1>2. CASE answer = <<>>
  BY <1>1, <1>2 DEF ToPort, c
<1>3. CASE answer = <<"NO_DATA_CONN">>
  <2>1. ToPort(d, answer) = Report(c, "NO_DATA_CONN")
    BY <1>3 DEF ToPort, c
  <2>2. /\ Report(c, "NO_DATA_CONN") \in Chan /\ Report(c, "NO_DATA_CONN").state = "connecting"
        /\ Follows(c, Report(c, "NO_DATA_CONN"))
    BY <1>1, Reporting DEF Codes
  <2> QED
    BY <1>1, <2>1, <2>2, FollowsOn
<1> QED
  BY <1>2, <1>3 DEF PortAnswers

\* close() of a channel that is open.
LEMMA ClosingChan ==
  ASSUME NEW d \in Chan, Open(d), NEW code \in Codes, control.connected \in BOOLEAN
  PROVE  /\ Closed(d, code) \in Chan /\ Closed(d, code).state = "closed" /\ Follows(d, Closed(d, code))
         /\ d.kind = "stor" => Closed(d, code).answers = d.answers
<1>1. ASSUME NEW e \in Chan
      PROVE  Shut(e) \in Chan /\ Shut(e).state = "closed" /\ Follows(e, Shut(e)) /\ Shut(e).answers = e.answers
  <2>1. /\ Shut(e) \in ChannelType /\ Shut(e).kind = e.kind /\ Shut(e).answers = e.answers
        /\ Shut(e).state = "closed" /\ ~Shut(e).control_channel /\ Shut(e).forgotten = e.forgotten
    BY Typed DEF Shut, ChannelType
  <2> QED
    BY <2>1, Untold
<1>2. CASE d.reported \/ ~control.connected \/ d.kind = "stor"
  BY <1>1, <1>2 DEF Closed
<1>3. CASE ~(d.reported \/ ~control.connected \/ d.kind = "stor")
  <2>1. Report(d, code) \in Chan /\ Follows(d, Report(d, code))
    BY Reporting DEF Open
  <2>2. Closed(d, code) = Shut(Report(d, code))
    BY <1>3 DEF Closed
  <2>3. \A e \in Chan : Follows(d, Report(d, code)) /\ Follows(Report(d, code), e) => Follows(d, e)
    BY <2>1, FollowsOn
  <2> QED
    BY <1>1, <1>3, <2>1, <2>2, <2>3
<1> QED
  BY <1>2, <1>3
-----------------------------------------------------------------------------
(* Events of the data channels.                                            *)

\* An event is one of a channel that has a socket.
Happens(n, e) ==
  /\ MainIdle /\ Open(dcs[n]) /\ Follows(dcs[n], e)
  /\ Becomes(n, e)
  /\ UNCHANGED <<control, listener, port_addr, client_dc, thunks, worker, dialled, commands>>
  /\ \/ UNCHANGED main /\ e.state = "connected"
     \/ main' = [at |-> "closed", dc |-> n] /\ e.state = "closed"
     \/ /\ main' = [at |-> "ended", dc |-> n] /\ e.state = "closed"
        /\ e.kind = "stor" /\ e.answers = dcs[n].answers

LEMMA Happening ==
  ASSUME dcs \in Seq(Chan), control.connected \in BOOLEAN, NEW n \in DOMAIN dcs, Event(n)
  PROVE  \E e \in Chan : Happens(n, e)
<1> DEFINE d == dcs[n]
<1>1. d \in Chan /\ d \in ChannelType
  BY Typed
<1>2. CASE Established(n)
  <2> DEFINE e == [d EXCEPT !.state = "connected"]
  <2>1. d.state = "connecting" /\ d.control_channel
    BY <1>1, <1>2 DEF Established, Chan
  <2>2. /\ e \in ChannelType /\ e.kind = d.kind /\ e.answers = d.answers /\ e.state = "connected"
        /\ e.control_channel = d.control_channel /\ e.forgotten = d.forgotten
    BY <1>1 DEF ChannelType
  <2> HIDE DEF e
  <2>3. e \in Chan /\ Follows(d, e)
    BY <1>1, <2>1, <2>2, Untold
  <2>4. Happens(n, e)
    BY <1>2, <2>1, <2>2, <2>3 DEF Established, Happens, Open, e
  <2> QED
    BY <2>3, <2>4
<1>3. ASSUME NEW code \in Codes, NEW at \in {"closed", "ended"}, Closes(n, code, at),
             at = "ended" => d.kind = "stor"
      PROVE  \E e \in Chan : Happens(n, e)
  <2> DEFINE e == Closed(d, code)
  <2>1. e \in Chan /\ e.state = "closed" /\ Follows(d, e) /\ (d.kind = "stor" => e.answers = d.answers)
    BY <1>1, <1>3, ClosingChan DEF Closes
  <2> HIDE DEF e
  <2>2. e.kind = d.kind
    BY <2>1 DEF Follows
  <2>3. /\ MainIdle /\ Open(d) /\ Becomes(n, e) /\ main' = [at |-> at, dc |-> n]
        /\ UNCHANGED <<control, listener, port_addr, client_dc, thunks, worker, dialled, commands>>
    BY <1>3 DEF Closes, e
  <2>4. Happens(n, e)
    BY <1>3, <2>1, <2>2, <2>3 DEF Happens
  <2> QED
    BY <2>1, <2>4
<1>4. CASE handle_close(n)
  BY <1>3, <1>4 DEF handle_close, Codes
<1>5. CASE FlushedAll(n)
  BY <1>3, <1>5 DEF FlushedAll, Codes
<1>6. CASE Lost(n)
  BY <1>3, <1>6 DEF Lost, Codes
<1> QED
  BY <1>2, <1>4, <1>5, <1>6 DEF Event
-----------------------------------------------------------------------------
(* The inductive invariant.                                                *)

Task == [kind : {"stor", "retr", "finish"}, dc : Transfers \cup {None}]
Control == [async_mode : BOOLEAN, will_close : BOOLEAN, connected : BOOLEAN,
            running_tasks : BOOLEAN, tasks : Seq(Task)]
Listener == [up : BOOLEAN, closed : BOOLEAN, accepted : BOOLEAN, client_dc : Transfers \cup {None}]
PlacesBefore == {"connect", "abort", "assign"}
PlacesAfter == {"passive", "remember", "port", "write", "failed"}
Places == {"idle", "stor", "retr", "finish", "opening"} \cup PlacesBefore \cup PlacesAfter
MainPlaces == {"idle", "accepting", "closed", "ended"}

\* Types, and the bound on the transfers.
Types ==
  /\ control \in Control /\ listener \in Listener
  /\ port_addr \in BOOLEAN /\ dialled \in BOOLEAN
  /\ main \in [at : MainPlaces, dc : Transfers \cup {None}]
  /\ dcs \in Seq(Chan) /\ Len(dcs) <= MaxTransfers
  /\ client_dc \in DOMAIN dcs \cup {None}
  /\ thunks \in Seq(Transfers) /\ worker \in [at : Places, dc : Transfers \cup {None}]
  /\ client \in {"asks", "ready", "waits"} /\ commands \in 0..MaxCommands

\* A transfer is about to begin, or being written; a channel is being closed.
First(tasks) == tasks # <<>> /\ tasks[1].kind # "finish"
OnlyFirst(tasks) == \A i \in DOMAIN tasks : i # 1 => tasks[i].kind = "finish"
Beginning == worker.at \in {"stor", "retr"} \/ First(control.tasks)
Downloading == worker.at \in PlacesBefore \cup PlacesAfter
Closing == main.at \in {"closed", "ended"}

\* The main loop reads a command only when the worker has nothing left to do,
\* so that no more than one transfer is under way in the worker.
Threads ==
  /\ control.async_mode => control.will_close \/ ~control.running_tasks
  /\ ~control.running_tasks => control.tasks = <<>> /\ worker.at = "idle"
  /\ OnlyFirst(control.tasks) /\ (First(control.tasks) => worker.at = "idle")
  /\ Beginning \/ Downloading => ~control.async_mode /\ thunks = <<>>
  /\ Beginning => Len(dcs) < MaxTransfers
  /\ Len(thunks) <= 1
  /\ client = "ready" => thunks = <<>> /\ ~Beginning /\ ~Downloading

\* finishSTOR() is for uploads that have ended.
Ended(ds) == {n \in DOMAIN ds : ds[n].kind = "stor" /\ ds[n].state = "closed"}
FinishIn(tasks, D) == \A i \in DOMAIN tasks : tasks[i].kind = "finish" => tasks[i].dc \in D
Finishing ==
  /\ FinishIn(control.tasks, Ended(dcs))
  /\ worker.at = "finish" => worker.dc \in Ended(dcs)
  /\ main.at = "ended" => main.dc \in Ended(dcs)

\* Whom the control channel and the listener know: a channel that is closed for
\* no longer than until closedData().
Waiting(ds) == {n \in DOMAIN ds : ds[n].kind = "stor" /\ ds[n].state = "new"}
Held(n) == client_dc = n \/ dcs[n].forgotten
Known ==
  /\ Closing => main.dc \in DOMAIN dcs /\ dcs[main.dc].state = "closed"
  /\ client_dc # None /\ dcs[client_dc].state = "closed" => Closing /\ main.dc = client_dc
  /\ OneTransfer
  /\ listener.client_dc # None => /\ listener.up /\ listener.client_dc \in DOMAIN dcs
                                  /\ dcs[listener.client_dc].state = "new" /\ Held(listener.client_dc)
  /\ listener.up => ~port_addr /\ control.connected
  /\ client = "ready" \/ Beginning \/ thunks # <<>> => listener.client_dc = None
  /\ \A i \in DOMAIN thunks : thunks[i] # client_dc /\ thunks[i] \in Waiting(dcs)

\* The worker at the channel of a download.
Downloads ==
  Downloading =>
    /\ worker.dc \in DOMAIN dcs /\ dcs[worker.dc].kind = "retr"
    /\ worker.at \in PlacesBefore => /\ listener.client_dc = None /\ client_dc # worker.dc
                               /\ dcs[worker.dc].state = "new"
    /\ worker.at = "assign" => client_dc = None
    /\ worker.at \in PlacesAfter => client_dc \in {worker.dc, None}
    /\ worker.at \in {"passive", "remember"} => listener.up /\ listener.client_dc = None
    /\ worker.at \in {"passive", "remember"} \/ (worker.at = "port" /\ port_addr) =>
         dcs[worker.dc].state = "new" /\ Held(worker.dc)

IInv == Types /\ Threads /\ Finishing /\ Known /\ Downloads

-----------------------------------------------------------------------------
(* What becomes of the channels.                                           *)

Onward(ds, es) ==
  /\ es \in Seq(Chan) /\ DOMAIN ds \subseteq DOMAIN es
  /\ \A n \in DOMAIN ds : Follows(ds[n], es[n]) /\ (ds[n].state = "closed" => es[n].state = "closed")

LEMMA Replacing ==
  ASSUME NEW ds \in Seq(Chan), NEW n \in DOMAIN ds, NEW e \in Chan, NEW es, es = [ds EXCEPT ![n] = e]
  PROVE  /\ es \in Seq(Chan) /\ DOMAIN es = DOMAIN ds /\ Len(es) = Len(ds) /\ es[n] = e
         /\ \A m \in DOMAIN ds : m # n => es[m] = ds[m]
         /\ Follows(ds[n], e) /\ (ds[n].state = "closed" => e.state = "closed") => Onward(ds, es)
<1>1. /\ es \in Seq(Chan) /\ DOMAIN es = DOMAIN ds /\ Len(es) = Len(ds) /\ es[n] = e
      /\ \A m \in DOMAIN ds : m # n => es[m] = ds[m]
  OBVIOUS
<1>2. \A m \in DOMAIN ds : ds[m] \in Chan
  OBVIOUS
<1>3. \A m \in DOMAIN ds : Follows(ds[m], ds[m])
  BY <1>2, FollowsOn
<1> QED
  BY <1>1, <1>3 DEF Onward

LEMMA Appending ==
  ASSUME NEW ds \in Seq(Chan), NEW e \in Chan, NEW es, es = Append(ds, e)
  PROVE  /\ es \in Seq(Chan) /\ Len(es) = Len(ds) + 1 /\ DOMAIN es = DOMAIN ds \cup {Len(ds) + 1}
         /\ Len(ds) + 1 \notin DOMAIN ds /\ es[Len(ds) + 1] = e
         /\ \A m \in DOMAIN ds : es[m] = ds[m]
         /\ Onward(ds, es)
<1>1. /\ es \in Seq(Chan) /\ Len(es) = Len(ds) + 1 /\ DOMAIN es = 1..Len(ds) + 1 /\ DOMAIN ds = 1..Len(ds)
      /\ Len(ds) \in Nat
      /\ es[Len(ds) + 1] = e /\ \A m \in DOMAIN ds : es[m] = ds[m]
  OBVIOUS
<1>2. DOMAIN es = DOMAIN ds \cup {Len(ds) + 1} /\ Len(ds) + 1 \notin DOMAIN ds
  BY <1>1
<1>3. \A m \in DOMAIN ds : ds[m] \in Chan
  OBVIOUS
<1>4. \A m \in DOMAIN ds : Follows(ds[m], ds[m])
  BY <1>3, FollowsOn
<1> QED
  BY <1>1, <1>2, <1>4 DEF Onward

LEMMA Staying == ASSUME NEW ds \in Seq(Chan) PROVE Onward(ds, ds)
<1>1. \A m \in DOMAIN ds : ds[m] \in Chan
  OBVIOUS
<1> QED
  BY <1>1, FollowsOn DEF Onward

\* abortData()
LEMMA AbortingData ==
  ASSUME Types, OneTransfer
  PROVE  /\ AbortedData \in Seq(Chan) /\ DOMAIN AbortedData = DOMAIN dcs /\ Len(AbortedData) = Len(dcs)
         /\ \A n \in DOMAIN dcs : n # client_dc => AbortedData[n] = dcs[n]
         /\ \A n \in DOMAIN dcs : /\ Open(AbortedData[n]) => AbortedData[n].forgotten
                                  /\ AbortedData[n].answers = dcs[n].answers
         /\ client_dc # None => AbortedData[client_dc].state = "closed"
         /\ Onward(dcs, AbortedData)
<1>1. CASE client_dc = None
  <2>1. AbortedData = dcs /\ dcs \in Seq(Chan)
    BY <1>1 DEF AbortedData, Types
  <2>2. \A n \in DOMAIN dcs : n # client_dc
    BY <1>1, BoundsAssumption DEF Types
  <2> QED
    BY <1>1, <2>1, <2>2, Staying DEF OneTransfer
<1>2. CASE client_dc # None
  <2> DEFINE e == Aborted(dcs[client_dc])
  <2>1. client_dc \in DOMAIN dcs /\ dcs[client_dc] \in Chan /\ dcs \in Seq(Chan)
    BY <1>2 DEF Types
  <2>2. AbortedData = [dcs EXCEPT ![client_dc] = e]
    BY <1>2 DEF AbortedData
  <2>3. e \in Chan /\ e.state = "closed" /\ Follows(dcs[client_dc], e) /\ e.answers = dcs[client_dc].answers
    BY <2>1, Aborting
  <2> HIDE DEF e
  <2>4. /\ AbortedData \in Seq(Chan) /\ DOMAIN AbortedData = DOMAIN dcs /\ Len(AbortedData) = Len(dcs)
        /\ AbortedData[client_dc] = e
        /\ \A m \in DOMAIN dcs : m # client_dc => AbortedData[m] = dcs[m]
        /\ Onward(dcs, AbortedData)
    BY <2>1, <2>2, <2>3, Replacing
  <2>5. \A n \in DOMAIN dcs : /\ Open(AbortedData[n]) => AbortedData[n].forgotten
                              /\ AbortedData[n].answers = dcs[n].answers
    BY <2>3, <2>4 DEF OneTransfer, Open
  <2> QED
    BY <2>3, <2>4, <2>5
<1> QED
  BY <1>1, <1>2

\* closedData()
LEMMA Forgetting ==
  ASSUME Types, closedData
  PROVE  /\ dcs' \in Seq(Chan) /\ DOMAIN dcs' = DOMAIN dcs /\ Len(dcs') = Len(dcs) /\ Onward(dcs, dcs')
         /\ \A n \in DOMAIN dcs : /\ dcs'[n].kind = dcs[n].kind /\ dcs'[n].state = dcs[n].state
                                  /\ dcs'[n].answers = dcs[n].answers
                                  /\ n = client_dc => n = main.dc \/ dcs'[n].forgotten
<1>1. CASE client_dc \in {None, main.dc}
  <2>1. dcs' = dcs /\ dcs \in Seq(Chan) /\ None \notin DOMAIN dcs
    BY <1>1, BoundsAssumption DEF closedData, Types
  <2> QED
    BY <1>1, <2>1, Staying
<1>2. CASE client_dc \notin {None, main.dc}
  <2> DEFINE d == dcs[client_dc]
             e == [d EXCEPT !.forgotten = TRUE]
  <2>1. client_dc \in DOMAIN dcs /\ d \in Chan /\ d \in ChannelType /\ dcs \in Seq(Chan)
    BY <1>2, Typed DEF Types
  <2>2. dcs' = [dcs EXCEPT ![client_dc] = e]
    BY <1>2, <2>1 DEF closedData
  <2>3. /\ e \in ChannelType /\ e.kind = d.kind /\ e.answers = d.answers /\ e.state = d.state
        /\ e.control_channel = d.control_channel /\ e.forgotten
    BY <2>1 DEF ChannelType
  <2>4. d.state = "closed" <=> ~d.control_channel
    BY <2>1 DEF Chan
  <2> HIDE DEF e
  <2>5. e \in Chan /\ Follows(d, e)
    BY <2>1, <2>3, <2>4, Untold
  <2>6. /\ dcs' \in Seq(Chan) /\ DOMAIN dcs' = DOMAIN dcs /\ Len(dcs') = Len(dcs) /\ dcs'[client_dc] = e
        /\ \A m \in DOMAIN dcs : m # client_dc => dcs'[m] = dcs[m]
        /\ Onward(dcs, dcs')
    BY <2>1, <2>2, <2>3, <2>5, Replacing, ZenonT(40)
  <2> QED
    BY <2>3, <2>6
<1> QED
  BY <1>1, <1>2

\* What the worker makes of the channel at hand.
Replies == WriteFails \/ ReadRaises \/ AbortNone \/ (finishSTOR /\ control.connected)
Works == \/ connectData \/ connectPort \/ WriteCloses \/ WriteFails \/ ReadRaises \/ RetrWritten
         \/ AbortNone \/ finishSTOR
WorkerMakes(d, e) ==
  /\ worker.dc \in DOMAIN dcs /\ d = dcs[worker.dc] /\ dcs' = [dcs EXCEPT ![worker.dc] = e]
  /\ Follows(d, e)
  /\ \/ e.state = d.state
     \/ /\ worker.at = "passive" \/ (worker.at = "port" /\ port_addr)
        /\ Held(worker.dc) /\ d.state = "new" /\ e.state = "connecting"
     \/ WriteCloses /\ d.state = "connected" /\ e.state = "closed" /\ client_dc' = None
  /\ Replies => Len(e.answers) = Len(d.answers) + 1

LEMMA Working ==
  ASSUME IInv, Works
  PROVE  \E e \in Chan : WorkerMakes(dcs[worker.dc], e)
<1> DEFINE d == dcs[worker.dc]
<1>0. /\ worker.dc \in DOMAIN dcs /\ (~finishSTOR => d.kind = "retr")
      /\ (finishSTOR => d.kind = "stor" /\ d.state = "closed")
  BY DEF IInv, Downloads, Downloading, PlacesBefore, PlacesAfter, Finishing, Ended, At, Works,
         connectData, connectPort, WriteCloses, WriteFails, ReadRaises, RetrWritten, AbortNone, finishSTOR
<1>1. /\ dcs \in Seq(Chan) /\ d \in Chan /\ d \in ChannelType /\ d.answers \in Seq(Codes)
      /\ control.connected \in BOOLEAN /\ (d.state = "closed" <=> ~d.control_channel)
      /\ d.kind = "stor" => d.state = "closed"
  BY <1>0, Typed DEF IInv, Types, Control, Chan
<1>2. dcs = [dcs EXCEPT ![worker.dc] = d]
  BY <1>0, <1>1
<1>3. Follows(d, d)
  BY <1>1, FollowsOn
<1>4. CASE connectData
  <2>1. worker.at = "passive" /\ d.state = "new" /\ Held(worker.dc)
    BY <1>4 DEF connectData, At, IInv, Downloads, Downloading, PlacesAfter
  <2> DEFINE e == ConnectedVia(listener, d)
  <2>2. dcs' = [dcs EXCEPT ![worker.dc] = e] /\ e \in {d, Connecting(d)}
    BY <1>4 DEF connectData, ConnectedVia
  <2>3. ~Replies
    BY <2>1 DEF Replies, WriteFails, ReadRaises, AbortNone, finishSTOR, At
  <2>4. /\ Connecting(d) \in Chan /\ Connecting(d).state = "connecting" /\ Follows(d, Connecting(d))
    BY <1>1, <2>1, ConnectingChan
  <2> HIDE DEF e
  <2>5. e \in Chan /\ Follows(d, e) /\ (e.state = d.state \/ e.state = "connecting")
    BY <1>1, <1>3, <2>2, <2>4
  <2> QED
    BY <1>0, <2>1, <2>2, <2>3, <2>5 DEF WorkerMakes
<1>5. CASE connectPort
  <2>1. worker.at = "port"
    BY <1>5 DEF connectPort, At
  <2>3. ~Replies
    BY <2>1 DEF Replies, WriteFails, ReadRaises, AbortNone, finishSTOR, At
  <2>4. CASE port_addr
    <3>1. d.state = "new" /\ Held(worker.dc)
      BY <2>1, <2>4 DEF IInv, Downloads, Downloading, PlacesAfter
    <3>2. PICK answer \in PortAnswers : dcs' = [dcs EXCEPT ![worker.dc] = ToPort(d, answer)]
      BY <1>5, <2>4 DEF connectPort
    <3> DEFINE e == ToPort(d, answer)
    <3>3. e \in Chan /\ e.state = "connecting" /\ Follows(d, e)
      BY <1>1, <3>1, PortChan
    <3> HIDE DEF e
    <3> QED
      BY <1>0, <2>1, <2>3, <2>4, <3>1, <3>2, <3>3 DEF WorkerMakes, e
  <2>5. CASE ~port_addr
    BY <1>0, <1>1, <1>2, <1>3, <1>5, <2>3, <2>5 DEF connectPort, WorkerMakes
  <2> QED
    BY <2>4, <2>5
<1>6. CASE WriteCloses
  <2>1. PICK code \in {"TRANS_SUCCESS", "TRANSFER_ABORTED"} : Becomes(worker.dc, Closed(d, code))
    BY <1>6 DEF WriteCloses
  <2> DEFINE e == Closed(d, code)
  <2>2. e \in Chan /\ e.state = "closed" /\ Follows(d, e) /\ d.state = "connected"
    BY <1>1, <1>6, ClosingChan DEF WriteCloses, Open, Codes
  <2>3. dcs' = [dcs EXCEPT ![worker.dc] = e] /\ client_dc' = None
    BY <1>6, <2>1 DEF Becomes, WriteCloses
  <2>4. ~Replies
    BY <1>6 DEF Replies, WriteCloses, WriteFails, ReadRaises, AbortNone, finishSTOR, At, Goto, Return, Idle, IInv, Types
  <2> HIDE DEF e
  <2> QED
    BY <1>0, <1>6, <2>2, <2>3, <2>4 DEF WorkerMakes
<1>7. ASSUME NEW code \in Codes, NEW e, dcs' = [dcs EXCEPT ![worker.dc] = e],
             NEW r \in BOOLEAN, e = [d EXCEPT !.reported = r, !.answers = Append(@, code)]
      PROVE  \E f \in Chan : WorkerMakes(d, f)
  <2>1. Append(d.answers, code) \in Seq(Codes)
    BY <1>1, OneMore
  <2>2. /\ e \in ChannelType /\ e.answers = Append(d.answers, code) /\ e.kind = d.kind /\ e.state = d.state
        /\ e.control_channel = d.control_channel /\ e.forgotten = d.forgotten
    BY <1>1, <1>7, <2>1 DEF ChannelType
  <2>3. e \in Chan /\ Follows(d, e) /\ Len(e.answers) = Len(d.answers) + 1
    BY <1>1, <2>2, Answering
  <2> QED
    BY <1>0, <1>7, <2>2, <2>3 DEF WorkerMakes
<1>8. CASE WriteFails
  <2>1. dcs' = [dcs EXCEPT ![worker.dc] = [d EXCEPT !.reported = TRUE, !.answers = Append(@, "ERR_OPEN_READ")]]
    BY <1>0, <1>1, <1>8 DEF WriteFails
  <2> QED
    BY <1>7, <2>1 DEF Codes
<1>9. CASE ReadRaises \/ AbortNone
  <2>1. dcs' = [dcs EXCEPT ![worker.dc] = [d EXCEPT !.answers = Append(@, "INTERNAL_ERROR")]]
    BY <1>0, <1>1, <1>9 DEF ReadRaises, AbortNone
  <2>2. d.reported \in BOOLEAN /\ [d EXCEPT !.answers = Append(@, "INTERNAL_ERROR")]
                              = [d EXCEPT !.reported = d.reported, !.answers = Append(@, "INTERNAL_ERROR")]
    BY <1>1 DEF ChannelType
  <2> QED
    BY <1>7, <2>1, <2>2 DEF Codes
<1>10. CASE RetrWritten
  <2> DEFINE e == [d EXCEPT !.will_close = TRUE]
  <2>1. dcs' = [dcs EXCEPT ![worker.dc] = e]
    BY <1>0, <1>1, <1>10 DEF RetrWritten
  <2>2. /\ e \in ChannelType /\ e.answers = d.answers /\ e.kind = d.kind /\ e.state = d.state
        /\ e.control_channel = d.control_channel /\ e.forgotten = d.forgotten
    BY <1>1 DEF ChannelType
  <2>3. CASE ~Replies
    <3> HIDE DEF e, d
    <3>1. e \in Chan /\ Follows(d, e)
      BY <1>1, <2>2, Untold
    <3> QED
      BY <1>0, <2>1, <2>2, <2>3, <3>1 DEF WorkerMakes, d
  <2>4. CASE finishSTOR \/ AbortNone
    BY <1>10, <2>4 DEF finishSTOR, AbortNone, RetrWritten, At
  <2> QED
    BY <1>8, <1>9, <2>3, <2>4 DEF Replies
<1>11. CASE finishSTOR
  <2>1. PICK code \in {"INTERNAL_ERROR", "TRANS_SUCCESS", "ERR_OPEN_WRITE"} :
          dcs' = [dcs EXCEPT ![worker.dc].answers = IF control.connected THEN Append(@, code) ELSE @]
    BY <1>11 DEF finishSTOR
  <2>2. CASE control.connected
    <3>1. dcs' = [dcs EXCEPT ![worker.dc] = [d EXCEPT !.answers = Append(@, code)]]
      BY <1>0, <1>1, <2>1, <2>2
    <3>2. d.reported \in BOOLEAN /\ [d EXCEPT !.answers = Append(@, code)]
                                = [d EXCEPT !.reported = d.reported, !.answers = Append(@, code)]
      BY <1>1 DEF ChannelType
    <3> QED
      BY <1>7, <3>1, <3>2 DEF Codes
  <2>3. CASE ~control.connected
    <3>1. dcs' = [dcs EXCEPT ![worker.dc] = d]
      BY <1>0, <1>1, <2>1, <2>3 DEF ChannelType
    <3>2. ~Replies
      BY <1>11, <2>3 DEF Replies, WriteFails, ReadRaises, AbortNone, finishSTOR, At
    <3> QED
      BY <1>0, <1>1, <1>3, <3>1, <3>2 DEF WorkerMakes
  <2> QED
    BY <2>2, <2>3
<1> QED
  BY <1>4, <1>5, <1>6, <1>8, <1>9, <1>10, <1>11 DEF Works

LEMMA SingleElement ==
  ASSUME NEW S, NEW s \in Seq(S), s # <<>>, Len(s) <= 1
  PROVE  s = <<s[1]>> /\ Head(s) = s[1] /\ Tail(s) = <<>> /\ 1 \in DOMAIN s
<1>1. Len(s) \in Nat /\ Len(s) # 0 /\ DOMAIN s = 1..Len(s)
  BY EmptySeq
<1>2. Len(s) = 1
  BY <1>1
<1>3. s = <<s[1]>>
  BY <1>1, <1>2
<1>4. Head(s) = s[1] /\ 1 \in DOMAIN s
  BY <1>1, <1>2
<1>5. Tail(s) = <<>>
  <2>1. Tail(s) \in Seq(S) /\ Len(Tail(s)) = 0
    BY <1>2
  <2> QED
    BY <2>1, EmptySeq
<1> QED
  BY <1>3, <1>4, <1>5

\* asyncConnectData() of an upload
LEMMA RunningThunk ==
  ASSUME IInv, RunThunk
  PROVE  \E n \in DOMAIN dcs, e \in Chan :
           /\ thunks = <<n>> /\ thunks' = <<>> /\ n # client_dc /\ n \in Waiting(dcs)
           /\ dcs' = [AbortedData EXCEPT ![n] = e] /\ Follows(dcs[n], e)
           /\ e.state \in {"new", "connecting"}
           /\ e.state = "new" <=> ~port_addr /\ ~(listener.up /\ listener.accepted)
           /\ client_dc' = n /\ listener' = Remembering(listener, n)
<1> DEFINE n == thunks[1]
<1>1. /\ thunks = <<n>> /\ Head(thunks) = n /\ Tail(thunks) = <<>> /\ 1 \in DOMAIN thunks
      /\ thunks' = <<>>
  <2>1. thunks \in Seq(Transfers) /\ thunks # <<>> /\ Len(thunks) <= 1
    BY DEF IInv, Types, Threads, RunThunk
  <2>2. thunks = <<n>> /\ Head(thunks) = n /\ Tail(thunks) = <<>> /\ 1 \in DOMAIN thunks
    BY <2>1, SingleElement
  <2>3. thunks' = Tail(thunks)
    BY DEF RunThunk
  <2> QED
    BY <2>2, <2>3
<1>2. n # client_dc /\ n \in Waiting(dcs)
  BY <1>1 DEF IInv, Known
<1>3. n \in DOMAIN dcs /\ dcs[n].state = "new" /\ dcs[n] \in Chan /\ control.connected \in BOOLEAN
  BY <1>2 DEF Waiting, IInv, Types, Control
<1>4. AbortedData[n] = dcs[n]
  BY <1>2, <1>3, AbortingData DEF IInv, Known
<1> HIDE DEF n
<1> DEFINE passive == ConnectedVia(listener, dcs[n])
<1>5. PICK answer \in IF port_addr THEN PortAnswers ELSE {<<>>} :
        dcs' = [AbortedData EXCEPT ![n] = IF port_addr THEN ToPort(passive, answer) ELSE passive]
  BY <1>1, <1>4 DEF RunThunk
<1> DEFINE e == IF port_addr THEN ToPort(passive, answer) ELSE passive
<1>6. /\ e \in Chan /\ Follows(dcs[n], e) /\ e.state \in {"new", "connecting"}
      /\ e.state = "new" <=> ~port_addr /\ ~(listener.up /\ listener.accepted)
  <2>1. CASE port_addr
    <3>1. ~listener.up
      BY <2>1 DEF IInv, Known
    <3>2. passive = dcs[n] /\ answer \in PortAnswers
      BY <2>1, <3>1 DEF ConnectedVia
    <3>3. ToPort(dcs[n], answer) \in Chan /\ ToPort(dcs[n], answer).state = "connecting"
          /\ Follows(dcs[n], ToPort(dcs[n], answer))
      BY <1>3, <3>2, PortChan
    <3> QED
      BY <2>1, <3>2, <3>3
  <2>2. CASE ~port_addr
    <3>1. e = IF listener.up /\ listener.accepted THEN Connecting(dcs[n]) ELSE dcs[n]
      BY <2>2 DEF ConnectedVia
    <3>2. Connecting(dcs[n]) \in Chan /\ Connecting(dcs[n]).state = "connecting"
          /\ Follows(dcs[n], Connecting(dcs[n])) /\ Follows(dcs[n], dcs[n])
      BY <1>3, ConnectingChan, FollowsOn
    <3> QED
      BY <1>3, <2>2, <3>1, <3>2
  <2> QED
    BY <2>1, <2>2
<1>7. client_dc' = n /\ listener' = Remembering(listener, n)
  BY <1>1 DEF RunThunk
<1> QED
  BY <1>1, <1>2, <1>3, <1>5, <1>6, <1>7

\* handle_accept() with a channel that waits, and the client's end of a channel
LEMMA Accepting ==
  ASSUME IInv, AcceptedFor
  PROVE  \/ UNCHANGED <<dcs, listener>> /\ listener.client_dc = None
         \/ /\ listener' = NoListener /\ listener.client_dc # None
            /\ \E n \in DOMAIN dcs, e \in Chan :
                 /\ n = listener.client_dc /\ Held(n) /\ dcs[n].state = "new"
                 /\ dcs' = [dcs EXCEPT ![n] = e] /\ e.state = "connecting" /\ Follows(dcs[n], e)
                 /\ e.answers = dcs[n].answers
<1>1. CASE listener.client_dc = None
  BY <1>1 DEF AcceptedFor
<1>2. CASE listener.client_dc # None
  <2> DEFINE n == listener.client_dc
             e == Connecting(dcs[n])
  <2>1. /\ n \in DOMAIN dcs /\ Held(n) /\ listener' = NoListener
        /\ dcs[n].state = "new" /\ dcs[n] \in Chan /\ dcs' = [dcs EXCEPT ![n] = e]
    BY <1>2 DEF AcceptedFor, IInv, Known, Types
  <2>2. e \in Chan /\ e.state = "connecting" /\ Follows(dcs[n], e) /\ e.answers = dcs[n].answers
    BY <2>1, ConnectingChan
  <2> HIDE DEF e
  <2> QED
    BY <1>2, <2>1, <2>2
<1> QED
  BY <1>1, <1>2

LEMMA Leaving ==
  ASSUME IInv, NEW n \in DOMAIN dcs, NEW how \in {"eof", "reset"}, Leaves(n, how)
  PROVE  \E e \in Chan : /\ dcs' = [dcs EXCEPT ![n] = e] /\ Follows(dcs[n], e) /\ Open(dcs[n])
                         /\ e.state = dcs[n].state /\ e.answers = dcs[n].answers
<1> DEFINE d == dcs[n]
           e == [d EXCEPT !.peer = how]
<1>1. d \in Chan /\ d \in ChannelType /\ Open(d)
  BY Typed DEF IInv, Types, Leaves
<1>2. /\ e \in ChannelType /\ e.kind = d.kind /\ e.answers = d.answers /\ e.state = d.state
      /\ e.control_channel = d.control_channel /\ e.forgotten = d.forgotten
  BY <1>1 DEF ChannelType
<1>3. dcs' = [dcs EXCEPT ![n] = e]
  BY <1>1 DEF Leaves
<1>4. d.state = "closed" <=> ~d.control_channel
  BY <1>1 DEF Chan
<1> HIDE DEF d, e
<1>5. e \in Chan /\ Follows(d, e)
  BY <1>1, <1>2, <1>4, Untold
<1> QED
  BY <1>1, <1>2, <1>3, <1>5 DEF d

\* No channel is taken away, and none is opened again.
LEMMA GoingOn ==
  ASSUME IInv, [Next]_vars
  PROVE  /\ Onward(dcs, dcs')
         /\ \/ Len(dcs') = Len(dcs)
            \/ /\ Len(dcs') = Len(dcs) + 1
               /\ worker.at \in {"stor", "retr"} /\ worker'.at \notin {"stor", "retr"}
               /\ UNCHANGED control
<1> DEFINE Going == /\ Onward(dcs, dcs')
                    /\ \/ Len(dcs') = Len(dcs)
                       \/ /\ Len(dcs') = Len(dcs) + 1
                          /\ worker.at \in {"stor", "retr"} /\ worker'.at \notin {"stor", "retr"}
                          /\ UNCHANGED control
<1>0. dcs \in Seq(Chan) /\ OneTransfer /\ (\A n \in DOMAIN dcs : dcs[n] \in Chan) /\ control.connected \in BOOLEAN
  BY DEF IInv, Types, Known, Control
<1>1. CASE UNCHANGED dcs
  BY <1>0, <1>1, Staying
<1>2. CASE dcs' = AbortedData
  BY <1>0, <1>2, AbortingData DEF IInv
<1>3. ASSUME NEW n \in DOMAIN dcs, NEW e \in Chan, dcs' = [dcs EXCEPT ![n] = e],
             Follows(dcs[n], e), dcs[n].state # "closed" \/ e.state = "closed"
      PROVE  Going
  BY <1>0, <1>3, Replacing
<1>4. ASSUME NEW e \in Chan, dcs' = Append(dcs, e), worker.at \in {"stor", "retr"},
             worker'.at \notin {"stor", "retr"}, UNCHANGED control
      PROVE  Going
  BY <1>0, <1>4, Appending, ZenonT(30)
<1> HIDE DEF Going
<1>5. CASE Commands \/ Dial \/ Accept \/ asyncConnectData \/ AbortOld \/ Assign
  <2>1. dcs' \in {dcs, AbortedData}
    BY <1>5 DEF Commands, cmd_pasv, cmd_port, cmd_abor, cmd_quit, close, QueueTransfer, Dial, Accept,
                asyncConnectData, AbortOld, Assign, AbortData
  <2> QED
    BY <1>1, <1>2, <2>1 DEF Going
<1>6. CASE Works
  <2>1. PICK e \in Chan : WorkerMakes(dcs[worker.dc], e)
    BY <1>6, Working
  <2>2. /\ worker.dc \in DOMAIN dcs /\ dcs' = [dcs EXCEPT ![worker.dc] = e] /\ Follows(dcs[worker.dc], e)
        /\ dcs[worker.dc].state # "closed" \/ e.state = "closed"
    BY <2>1 DEF WorkerMakes
  <2> QED
    BY <1>3, <2>2 DEF Going
<1>7. CASE PopTask \/ NoMoreTasks \/ Refuse \/ StorReply \/ Remember \/ SendFails \/ UNCHANGED vars
  BY <1>1, <1>7 DEF PopTask, NoMoreTasks, Refuse, StorReply, Remember, SendFails, vars, Going
<1>8. CASE cmd_stor \/ cmd_retr \/ RetrNothing
  <2>1. /\ worker.at \in {"stor", "retr"} /\ worker'.at \notin {"stor", "retr"} /\ UNCHANGED control
        /\ dcs' \in {Append(dcs, NewChannel("stor")), Append(dcs, NewChannel("retr")),
                     Append(dcs, [NewChannel("retr") EXCEPT !.will_close = TRUE])}
    BY <1>8 DEF cmd_stor, cmd_retr, RetrNothing, At, Return, Idle
  <2>2. PICK e \in Chan : dcs' = Append(dcs, e)
    BY <2>1, NewChan
  <2> QED
    BY <1>4, <2>1, <2>2 DEF Going
<1>9. CASE RunThunk
  <2>1. PICK n \in DOMAIN dcs, e \in Chan :
           /\ n # client_dc /\ n \in Waiting(dcs)
           /\ dcs' = [AbortedData EXCEPT ![n] = e] /\ Follows(dcs[n], e)
    BY <1>9, RunningThunk
  <2>2. /\ AbortedData \in Seq(Chan) /\ DOMAIN AbortedData = DOMAIN dcs /\ Len(AbortedData) = Len(dcs)
        /\ AbortedData[n] = dcs[n] /\ Onward(dcs, AbortedData)
    BY <1>0, <2>1, AbortingData DEF IInv
  <2>3. /\ dcs' \in Seq(Chan) /\ DOMAIN dcs' = DOMAIN dcs /\ Len(dcs') = Len(dcs) /\ dcs'[n] = e
        /\ \A m \in DOMAIN dcs : m # n => dcs'[m] = AbortedData[m]
    BY <2>1, <2>2, Replacing
  <2>4. dcs[n].state # "closed"
    BY <2>1 DEF Waiting
  <2>5. Onward(dcs, dcs')
    BY <2>1, <2>2, <2>3, <2>4 DEF Onward
  <2> QED
    BY <2>3, <2>5 DEF Going
<1>10. CASE AcceptedFor
  BY <1>1, <1>3, <1>10, Accepting DEF Going
<1>11. ASSUME NEW n \in DOMAIN dcs, Event(n)
       PROVE  Going
  <2>1. PICK e \in Chan : Happens(n, e)
    BY <1>0, <1>11, Happening
  <2> QED
    BY <1>3, <2>1 DEF Happens, Becomes, Open
<1>12. ASSUME NEW n \in DOMAIN dcs, NEW how \in {"eof", "reset"}, Leaves(n, how)
       PROVE  Going
  BY <1>3, <1>12, Leaving DEF Open
<1>13. CASE closedData
  BY <1>13, Forgetting DEF Going, IInv
<1> QED
  BY <1>5, <1>6, <1>7, <1>8, <1>9, <1>10, <1>11, <1>12, <1>13 DEF Next, Work, Works, Main, Client, Going

-----------------------------------------------------------------------------
(* The queue of tasks.                                                     *)

LEMMA QueueingTask ==
  ASSUME NEW ts \in Seq(Task), NEW x \in Task, NEW us, us = Append(ts, x)
  PROVE  /\ us \in Seq(Task) /\ us # <<>>
         /\ First(us) <=> First(ts) \/ (ts = <<>> /\ x.kind # "finish")
         /\ OnlyFirst(ts) /\ (ts = <<>> \/ x.kind = "finish") => OnlyFirst(us)
         /\ \A D : FinishIn(ts, D) /\ (x.kind = "finish" => x.dc \in D) => FinishIn(us, D)
<1>1. /\ us \in Seq(Task) /\ us # <<>> /\ DOMAIN ts = 1..Len(ts) /\ DOMAIN us = 1..Len(ts) + 1
      /\ Len(ts) \in Nat /\ us[Len(ts) + 1] = x /\ \A i \in DOMAIN ts : us[i] = ts[i]
      /\ ts = <<>> <=> Len(ts) = 0
  BY EmptySeq
<1>2. DOMAIN us = DOMAIN ts \cup {Len(ts) + 1} /\ (ts # <<>> => 1 \in DOMAIN ts)
      /\ (ts = <<>> => Len(ts) + 1 = 1 /\ DOMAIN ts = {})
  BY <1>1
<1> QED
  BY <1>1, <1>2 DEF First, OnlyFirst, FinishIn

LEMMA PoppingTask ==
  ASSUME NEW ts \in Seq(Task), ts # <<>>
  PROVE  /\ Tail(ts) \in Seq(Task) /\ Head(ts) \in Task /\ Head(ts) = ts[1]
         /\ OnlyFirst(ts) => OnlyFirst(Tail(ts)) /\ ~First(Tail(ts))
         /\ \A D : FinishIn(ts, D) => /\ FinishIn(Tail(ts), D)
                                      /\ Head(ts).kind = "finish" => Head(ts).dc \in D
<1>1. /\ Tail(ts) \in Seq(Task) /\ Head(ts) = ts[1] /\ Head(ts) \in Task /\ DOMAIN ts = 1..Len(ts)
      /\ Len(ts) \in Nat /\ DOMAIN Tail(ts) = 1..Len(ts) - 1 /\ Len(ts) # 0
      /\ \A i \in DOMAIN Tail(ts) : Tail(ts)[i] = ts[i + 1]
      /\ Tail(ts) # <<>> => 1 \in DOMAIN Tail(ts)
  BY EmptySeq
<1>2. 1 \in DOMAIN ts /\ \A i \in DOMAIN Tail(ts) : i + 1 \in DOMAIN ts /\ i + 1 # 1
  BY <1>1
<1> QED
  BY <1>1, <1>2 DEF First, OnlyFirst, FinishIn

-----------------------------------------------------------------------------
(* Every step preserves the invariant.                                     *)

LEMMA QueuedControl ==
  ASSUME control \in Control, NEW x \in Task
  PROVE  /\ Queued(control, x) \in Control
         /\ Queued(control, x).tasks = Append(control.tasks, x)
         /\ Queued(control, x).running_tasks = TRUE
         /\ Queued(control, x).async_mode = (control.async_mode /\ control.running_tasks)
         /\ Queued(control, x).will_close = control.will_close
         /\ Queued(control, x).connected = control.connected
<1>1. Append(control.tasks, x) \in Seq(Task)
  BY DEF Control
<1> QED
  BY <1>1 DEF Queued, Control

LEMMA WillCloseControl ==
  ASSUME control \in Control
  PROVE  WillClose(control) \in Control /\ WillClose(control) = [control EXCEPT !.will_close = TRUE, !.async_mode = TRUE]
  BY DEF WillClose, Control

\* The task of an upload that has ended.
LEMMA Finish ==
  ASSUME IInv, closedData, main.at = "ended"
  PROVE  \E x \in Task : x.kind = "finish" /\ x.dc = main.dc /\ main.dc \in Ended(dcs)
                         /\ control' = Queued(control, x)
<1>1. main.dc \in Ended(dcs)
  BY DEF IInv, Finishing
<1>2. main.dc \in Transfers
  BY <1>1, BoundsAssumption DEF Ended, IInv, Types, Transfers
<1> QED
  BY <1>1, <1>2 DEF closedData, Task

LEMMA TypesNext == ASSUME IInv, [Next]_vars PROVE Types'
<1>1. /\ control \in Control /\ listener \in Listener
      /\ port_addr \in BOOLEAN /\ dialled \in BOOLEAN
      /\ main \in [at : MainPlaces, dc : Transfers \cup {None}]
      /\ dcs \in Seq(Chan) /\ Len(dcs) <= MaxTransfers /\ Len(dcs) \in Nat
      /\ client_dc \in DOMAIN dcs \cup {None}
      /\ thunks \in Seq(Transfers) /\ worker \in [at : Places, dc : Transfers \cup {None}]
      /\ client \in {"asks", "ready", "waits"} /\ commands \in 0..MaxCommands
      /\ DOMAIN dcs = 1..Len(dcs)
  BY DEF IInv, Types
<1>2. dcs' \in Seq(Chan) /\ DOMAIN dcs \subseteq DOMAIN dcs' /\ Len(dcs') <= MaxTransfers
  <2>1. worker.at \in {"stor", "retr"} => Len(dcs) < MaxTransfers
    BY DEF IInv, Threads, Beginning
  <2> QED
    BY <1>1, <2>1, GoingOn, BoundsAssumption DEF Onward
<1>3. DOMAIN dcs \subseteq Transfers /\ DOMAIN dcs' \subseteq Transfers
  <2>1. Len(dcs') \in Nat /\ DOMAIN dcs' = 1..Len(dcs') /\ MaxTransfers \in Nat
    BY <1>2, BoundsAssumption
  <2> QED
    BY <1>1, <1>2, <2>1 DEF Transfers
<1>4. NoListener \in Listener /\ Idle \in [at : MainPlaces, dc : Transfers \cup {None}]
      /\ Idle \in [at : Places, dc : Transfers \cup {None}]
  BY DEF NoListener, Listener, Idle, MainPlaces, Places
<1>5. AfterAnswers(dcs') \in {"asks", "ready", "waits"}
  BY <1>1 DEF AfterAnswers
<1>6. CASE cmd_pasv \/ cmd_port \/ cmd_abor \/ cmd_quit \/ close
  <2>1. control' \in Control
    BY <1>1, <1>6, WillCloseControl DEF cmd_pasv, cmd_port, cmd_abor, cmd_quit, close, Control
  <2>2. listener' \in Listener
    BY <1>1, <1>4, <1>6 DEF cmd_pasv, cmd_port, cmd_abor, cmd_quit, close, Listener
  <2>3. commands' \in 0..MaxCommands
    BY <1>1, <1>6, BoundsAssumption DEF cmd_pasv, cmd_port, cmd_abor, cmd_quit, close
  <2>4. main' \in [at : MainPlaces, dc : Transfers \cup {None}]
    BY <1>1, <1>3, <1>6 DEF cmd_pasv, cmd_port, cmd_abor, cmd_quit, close, AbortData, MainPlaces
  <2>5. /\ UNCHANGED <<client_dc, thunks, worker>> /\ port_addr' \in BOOLEAN /\ dialled' \in BOOLEAN
        /\ client' \in {"asks", "ready", "waits"}
    BY <1>1, <1>6 DEF cmd_pasv, cmd_port, cmd_abor, cmd_quit, close
  <2> QED
    BY <1>1, <1>2, <2>1, <2>2, <2>3, <2>4, <2>5 DEF Types
<1>7. ASSUME NEW kind \in {"stor", "retr"}, QueueTransfer(kind)
      PROVE  Types'
  <2>1. control' \in Control
    BY <1>1, <1>7, QueuedControl DEF QueueTransfer, Task
  <2> QED
    BY <1>1, <1>2, <1>7, <2>1 DEF QueueTransfer, Types
<1>8. CASE RunThunk
  <2>1. PICK n \in DOMAIN dcs : thunks' = <<>> /\ client_dc' = n /\ listener' = Remembering(listener, n)
    BY <1>8, RunningThunk
  <2>2. listener' \in Listener
    BY <1>1, <1>3, <1>4, <2>1 DEF Remembering, Listener
  <2>3. thunks' \in Seq(Transfers) /\ client_dc' \in DOMAIN dcs' \cup {None}
    BY <1>2, <2>1
  <2> QED
    BY <1>1, <1>2, <1>5, <1>8, <2>2, <2>3 DEF RunThunk, Types
<1>9. CASE Accept \/ AcceptedFor \/ Dial
  <2>1. listener' \in Listener
    BY <1>1, <1>4, <1>9 DEF Accept, AcceptedFor, Dial, Listener
  <2>2. main' \in [at : MainPlaces, dc : Transfers \cup {None}]
    BY <1>1, <1>4, <1>9 DEF Accept, AcceptedFor, Dial, MainPlaces
  <2> QED
    BY <1>1, <1>2, <1>9, <2>1, <2>2 DEF Accept, AcceptedFor, Dial, Types
<1>10. ASSUME NEW n \in DOMAIN dcs, Event(n)
       PROVE  Types'
  <2>1. PICK e \in Chan : Happens(n, e)
    BY <1>1, <1>10, Happening DEF Control
  <2>2. main' \in [at : MainPlaces, dc : Transfers \cup {None}]
    BY <1>1, <1>3, <2>1 DEF Happens, MainPlaces
  <2> QED
    BY <1>1, <1>2, <1>5, <2>1, <2>2 DEF Happens, Becomes, Types
<1>11. ASSUME NEW n \in DOMAIN dcs, NEW how \in {"eof", "reset"}, Leaves(n, how)
       PROVE  Types'
  BY <1>1, <1>2, <1>11 DEF Leaves, Types
<1>12. CASE PopTask
  <2>1. /\ Head(control.tasks) \in Task /\ Tail(control.tasks) \in Seq(Task)
    BY <1>1, <1>12, PoppingTask DEF PopTask, Control
  <2>2. control' \in Control
    BY <1>1, <1>12, <2>1 DEF PopTask, Control
  <2>3. worker' \in [at : Places, dc : Transfers \cup {None}]
    BY <1>12, <2>1 DEF PopTask, Task, Places
  <2> QED
    BY <1>1, <1>2, <1>12, <2>2, <2>3 DEF PopTask, Types
<1>13. CASE cmd_stor \/ cmd_retr
  <2>1. New \in Transfers
    BY <1>1, <1>13, BoundsAssumption DEF cmd_stor, cmd_retr, At, New, Transfers, IInv, Threads, Beginning
  <2>2. Append(thunks, New) \in Seq(Transfers)
    BY <1>1, <2>1
  <2>3. worker' \in [at : Places, dc : Transfers \cup {None}]
    BY <1>13, <2>1 DEF cmd_stor, cmd_retr, Places, PlacesBefore
  <2> QED
    BY <1>1, <1>2, <1>13, <2>2, <2>3 DEF cmd_stor, cmd_retr, Types
<1>14. CASE asyncConnectData \/ AbortOld \/ Assign \/ connectData \/ Remember \/ connectPort \/ WriteFails
  <2>1. worker' \in [at : Places, dc : Transfers \cup {None}]
    BY <1>1, <1>14 DEF asyncConnectData, AbortOld, Assign, connectData, Remember, connectPort, WriteFails, Goto,
       Places, PlacesBefore, PlacesAfter
  <2>2. listener' \in Listener
    BY <1>1, <1>4, <1>14 DEF asyncConnectData, AbortOld, Assign, connectData, Remember, connectPort, WriteFails, Listener
  <2>3. client_dc' \in DOMAIN dcs \cup {None}
    <3>1. Assign => worker.dc \in DOMAIN dcs
      BY DEF Assign, At, IInv, Downloads, Downloading, PlacesBefore
    <3> QED
      BY <1>1, <1>14, <3>1 DEF asyncConnectData, AbortOld, Assign, connectData, Remember, connectPort, WriteFails
  <2>4. /\ UNCHANGED <<control, thunks, main, dialled, commands>> /\ port_addr' \in BOOLEAN
        /\ client' \in {"asks", "ready", "waits"}
    BY <1>1, <1>5, <1>14 DEF asyncConnectData, AbortOld, Assign, connectData, Remember, connectPort, WriteFails
  <2> QED
    BY <1>1, <1>2, <2>1, <2>2, <2>3, <2>4 DEF Types
<1>15. CASE NoMoreTasks \/ Refuse \/ finishSTOR \/ ReadRaises \/ AbortNone \/ SendFails
  <2>1. control' \in Control
    BY <1>1, <1>15, WillCloseControl DEF NoMoreTasks, Refuse, finishSTOR, ReadRaises, AbortNone, SendFails, Control
  <2>2. worker' \in [at : Places, dc : Transfers \cup {None}]
    BY <1>1, <1>4, <1>15 DEF NoMoreTasks, Refuse, finishSTOR, ReadRaises, AbortNone, SendFails, Return
  <2> QED
    BY <1>1, <1>2, <1>15, <2>1, <2>2 DEF NoMoreTasks, Refuse, finishSTOR, ReadRaises, AbortNone, SendFails, Types
<1>16. CASE StorReply \/ RetrNothing \/ RetrWritten
  <2>1. worker' \in [at : Places, dc : Transfers \cup {None}]
    BY <1>4, <1>16 DEF StorReply, RetrNothing, RetrWritten, Return
  <2> QED
    BY <1>1, <1>2, <1>16, <2>1 DEF StorReply, RetrNothing, RetrWritten, Types
<1>17. CASE UNCHANGED vars
  BY <1>1, <1>2, <1>17 DEF vars, Types
<1>18. CASE WriteCloses
  BY <1>1, <1>2, <1>5, <1>18 DEF WriteCloses, Becomes, Types
<1>19. CASE closedData
  <2>1. control' \in Control
    BY <1>1, <1>19, Finish, QueuedControl DEF closedData
  <2> QED
    BY <1>1, <1>2, <1>4, <1>19, <2>1 DEF closedData, Types
<1> QED
  BY <1>6, <1>7, <1>8, <1>9, <1>10, <1>11, <1>12, <1>13, <1>14, <1>15, <1>16, <1>17, <1>18, <1>19
     DEF Next, Work, Main, Commands, Client

LEMMA ThreadsNext == ASSUME IInv, [Next]_vars PROVE Threads'
<1>1. /\ control \in Control /\ worker \in [at : Places, dc : Transfers \cup {None}]
      /\ control.tasks \in Seq(Task) /\ thunks \in Seq(Transfers)
      /\ Len(dcs) \in Nat /\ Len(dcs') \in Nat
  BY GoingOn DEF IInv, Types, Onward, Control
<1>2. /\ control.async_mode => control.will_close \/ ~control.running_tasks
      /\ ~control.running_tasks => control.tasks = <<>> /\ worker.at = "idle"
      /\ OnlyFirst(control.tasks) /\ (First(control.tasks) => worker.at = "idle")
      /\ Beginning \/ Downloading => ~control.async_mode /\ thunks = <<>>
      /\ Beginning => Len(dcs) < MaxTransfers
      /\ Len(thunks) <= 1
      /\ client = "ready" => thunks = <<>> /\ ~Beginning /\ ~Downloading
  BY DEF IInv, Threads
<1>3. \/ Len(dcs') = Len(dcs)
      \/ worker'.at \notin {"stor", "retr"} /\ UNCHANGED control /\ worker.at \in {"stor", "retr"}
  BY GoingOn
<1>4. AfterAnswers(dcs') # "ready" \/ client = "ready"
  BY DEF AfterAnswers
<1>5. ~First(<<>>) /\ OnlyFirst(<<>>)
  BY DEF First, OnlyFirst
<1>6. CASE /\ UNCHANGED <<control, worker, thunks>>
           /\ client' # "ready" \/ client = "ready"
  BY <1>1, <1>2, <1>3, <1>6 DEF Threads, Beginning, Downloading
<1>7. CASE Command /\ UNCHANGED <<worker, thunks>> /\ control' \in {control, WillClose(control)}
  <2>1. /\ ~control.running_tasks /\ control.tasks = <<>> /\ worker.at = "idle" /\ thunks = <<>>
        /\ control'.tasks = <<>> /\ control'.running_tasks = control.running_tasks
        /\ ~control.will_close /\ (control' = control \/ control'.will_close)
    BY <1>1, <1>2, <1>7, WillCloseControl DEF Command, Readable, Control
  <2> QED
    BY <1>1, <1>2, <1>5, <1>7, <2>1 DEF Threads, Beginning, Downloading, PlacesBefore, PlacesAfter
<1>8. CASE close
  <2>1. /\ control'.async_mode = control.async_mode /\ control'.will_close = control.will_close
        /\ control'.running_tasks = control.running_tasks /\ control'.tasks = control.tasks
        /\ UNCHANGED <<worker, thunks, client>>
    BY <1>1, <1>8 DEF close, Control
  <2> QED
    BY <1>1, <1>2, <1>3, <2>1 DEF Threads, Beginning, Downloading
<1>9. ASSUME NEW kind \in {"stor", "retr"}, QueueTransfer(kind)
      PROVE  Threads'
  <2> DEFINE x == [kind |-> kind, dc |-> None]
  <2>1. x \in Task /\ x.kind # "finish"
    BY DEF Task
  <2>2. /\ ~control.running_tasks /\ control.tasks = <<>> /\ worker.at = "idle" /\ thunks = <<>>
        /\ UNCHANGED <<worker, thunks, dcs>> /\ client' = "waits" /\ Len(dcs) < MaxTransfers
        /\ control' = Queued(control, x)
    BY <1>1, <1>2, <1>9 DEF QueueTransfer, Command, Readable
  <2> HIDE DEF x
  <2>3. OnlyFirst(control'.tasks) /\ control'.running_tasks /\ ~control'.async_mode
    BY <1>1, <1>2, <2>1, <2>2, QueuedControl, QueueingTask
  <2> QED
    BY <1>1, <1>2, <2>2, <2>3 DEF Threads, Beginning, Downloading, PlacesBefore, PlacesAfter
<1>10. CASE closedData
  <2>1. UNCHANGED <<worker, thunks, client>>
    BY <1>10 DEF closedData
  <2>2. CASE UNCHANGED control
    BY <1>6, <2>1, <2>2
  <2>3. ASSUME NEW x \in Task, x.kind = "finish", control' = Queued(control, x)
        PROVE  Threads'
    <3>1. /\ OnlyFirst(control'.tasks) /\ (First(control'.tasks) => First(control.tasks))
          /\ control'.running_tasks /\ control'.will_close = control.will_close
          /\ control'.async_mode = (control.async_mode /\ control.running_tasks)
      BY <1>1, <1>2, <2>3, QueuedControl, QueueingTask, ZenonT(30)
    <3> QED
      BY <1>1, <1>2, <1>3, <2>1, <3>1 DEF Threads, Beginning, Downloading
  <2> QED
    BY <1>10, <2>2, <2>3, Finish DEF closedData
<1>11. CASE RunThunk
  <2>1. thunks' = <<>> /\ Len(thunks') <= 1 /\ UNCHANGED <<control, worker>> /\ (client' # "ready" \/ client = "ready")
    <3>1. thunks' = <<>>
      BY <1>11, RunningThunk
    <3>2. Len(thunks') <= 1
      BY <3>1
    <3>3. UNCHANGED <<control, worker>> /\ client' = AfterAnswers(dcs')
      BY <1>11 DEF RunThunk
    <3> QED
      BY <1>4, <3>1, <3>2, <3>3
  <2> QED
    BY <1>1, <1>2, <1>3, <2>1 DEF Threads, Beginning, Downloading
<1>12. CASE PopTask
  <2>1. /\ control'.tasks = Tail(control.tasks) /\ control'.async_mode = control.async_mode
        /\ control'.will_close = control.will_close /\ control'.running_tasks = control.running_tasks
        /\ worker' = [at |-> control.tasks[1].kind, dc |-> Head(control.tasks).dc]
        /\ control.tasks # <<>> /\ worker.at = "idle" /\ UNCHANGED <<thunks, dcs, client>>
        /\ control.tasks[1] \in Task
    BY <1>1, <1>12, PoppingTask DEF PopTask, Control, At
  <2>2. OnlyFirst(control'.tasks) /\ ~First(control'.tasks)
    BY <1>1, <1>2, <2>1, PoppingTask
  <2>3. worker'.at \in {"stor", "retr", "finish"} /\ (worker'.at # "finish" => First(control.tasks))
    BY <2>1 DEF Task, First
  <2> QED
    BY <1>1, <1>2, <2>1, <2>2, <2>3 DEF Threads, Beginning, Downloading, PlacesBefore, PlacesAfter
<1>13. CASE NoMoreTasks
  BY <1>1, <1>2, <1>5, <1>13 DEF NoMoreTasks, Control, At, Threads, Beginning, Downloading, PlacesBefore, PlacesAfter
<1>14. CASE cmd_stor
  <2>1. /\ worker.at = "stor" /\ worker'.at = "opening" /\ thunks = <<>> /\ thunks' = Append(thunks, New)
        /\ UNCHANGED <<control, client>>
    BY <1>2, <1>14 DEF cmd_stor, At, Beginning
  <2>2. Len(thunks') <= 1
    BY <2>1
  <2> QED
    BY <1>1, <1>2, <1>3, <2>1, <2>2 DEF Threads, Beginning, Downloading, PlacesBefore, PlacesAfter
<1>15. CASE /\ worker.at # "idle" /\ worker'.at \notin {"stor", "retr"} /\ UNCHANGED thunks
            /\ worker'.at \in PlacesBefore \cup PlacesAfter =>
                 control' = control /\ worker.at \in {"retr"} \cup PlacesBefore \cup PlacesAfter
            /\ control' \in {control, WillClose(control)}
            /\ client' # "ready" \/ client = "ready"
  <2>1. /\ control'.tasks = control.tasks /\ control'.running_tasks = control.running_tasks
        /\ (control' = control \/ control'.will_close)
    BY <1>1, <1>15, WillCloseControl DEF Control
  <2>2. ~First(control.tasks) /\ control.running_tasks
    BY <1>2, <1>15
  <2> QED
    BY <1>1, <1>2, <1>15, <2>1, <2>2 DEF Threads, Beginning, Downloading
<1>16. CASE \/ asyncConnectData \/ AbortOld \/ Assign \/ connectData \/ Remember \/ connectPort \/ WriteFails
  BY <1>1, <1>4, <1>15, <1>16 DEF asyncConnectData, AbortOld, Assign, connectData, Remember, connectPort, WriteFails,
     At, Goto, PlacesBefore, PlacesAfter
<1>17. CASE \/ Refuse \/ StorReply \/ finishSTOR \/ RetrNothing \/ ReadRaises \/ RetrWritten \/ cmd_retr
            \/ AbortNone \/ SendFails
  BY <1>1, <1>15, <1>17 DEF Refuse, StorReply, finishSTOR, RetrNothing, ReadRaises, RetrWritten,
     cmd_retr, AbortNone, SendFails, At, Return, Idle, PlacesBefore, PlacesAfter
<1>18. CASE cmd_pasv \/ cmd_port
  <2>1. Command /\ UNCHANGED <<worker, thunks, control>>
    BY <1>18 DEF cmd_pasv, cmd_port
  <2> QED
    BY <1>7, <2>1
<1>19. CASE cmd_abor \/ cmd_quit
  BY <1>7, <1>19 DEF cmd_abor, cmd_quit
<1>20. CASE Accept \/ AcceptedFor \/ Dial \/ WriteCloses \/ UNCHANGED vars
  BY <1>4, <1>6, <1>20 DEF Accept, AcceptedFor, Dial, WriteCloses, Becomes, vars
<1>21. ASSUME NEW n \in DOMAIN dcs, NEW how \in {"eof", "reset"}, Leaves(n, how)
       PROVE  Threads'
  BY <1>6, <1>21 DEF Leaves
<1>22. ASSUME NEW n \in DOMAIN dcs, Event(n)
       PROVE  Threads'
  <2>1. PICK e \in Chan : Happens(n, e)
    BY Happening, <1>22 DEF IInv, Types, Control
  <2> QED
    BY <1>4, <1>6, <2>1 DEF Happens, Becomes
<1> QED
  BY <1>8, <1>9, <1>10, <1>11, <1>12, <1>13, <1>14, <1>16, <1>17, <1>18, <1>19, <1>20, <1>21, <1>22
     DEF Next, Work, Main, Commands, Client

LEMMA FinishingNext == ASSUME IInv, [Next]_vars PROVE Finishing'
<1>1. /\ control \in Control /\ control.tasks \in Seq(Task)
      /\ FinishIn(control.tasks, Ended(dcs)) /\ (worker.at = "finish" => worker.dc \in Ended(dcs))
      /\ main.at = "ended" => main.dc \in Ended(dcs)
  BY DEF IInv, Types, Control, Finishing
<1>2. Ended(dcs) \subseteq Ended(dcs')
  BY GoingOn DEF Onward, Follows, Ended
<1>3. \A tasks, D, E : FinishIn(tasks, D) /\ D \subseteq E => FinishIn(tasks, E)
  BY DEF FinishIn
<1>4. CASE /\ control'.tasks = control.tasks /\ (worker' = worker \/ worker'.at # "finish")
           /\ main' = main \/ main'.at # "ended"
  BY <1>1, <1>2, <1>3, <1>4 DEF Finishing
<1>5. ASSUME NEW kind \in {"stor", "retr"}, QueueTransfer(kind)
      PROVE  Finishing'
  <2> DEFINE x == [kind |-> kind, dc |-> None]
  <2>1. x \in Task /\ x.kind # "finish" /\ control' = Queued(control, x) /\ UNCHANGED <<worker, main>>
    BY <1>5 DEF Task, QueueTransfer
  <2> HIDE DEF x
  <2>2. FinishIn(control'.tasks, Ended(dcs))
    BY <1>1, <2>1, QueuedControl, QueueingTask
  <2> QED
    BY <1>1, <1>2, <1>3, <2>1, <2>2 DEF Finishing
<1>6. ASSUME NEW n \in DOMAIN dcs, Event(n)
      PROVE  Finishing'
  <2>1. PICK e \in Chan : Happens(n, e)
    BY Happening, <1>6 DEF IInv, Types, Control
  <2>2. UNCHANGED <<control, worker>> /\ dcs' = [dcs EXCEPT ![n] = e] /\ dcs \in Seq(Chan)
    BY <2>1 DEF Happens, Becomes, IInv, Types
  <2>3. CASE main'.at = "ended"
    <3>1. main'.dc = n /\ e.kind = "stor" /\ e.state = "closed"
      BY <2>1, <2>3 DEF Happens, MainIdle, Idle
    <3>2. n \in Ended(dcs')
      BY <2>2, <3>1, Replacing DEF Ended
    <3> QED
      BY <1>1, <1>2, <1>3, <2>2, <3>1, <3>2 DEF Finishing
  <2> QED
    BY <1>4, <2>2, <2>3
<1>7. CASE PopTask
  <2>1. /\ control'.tasks = Tail(control.tasks) /\ control.tasks # <<>> /\ UNCHANGED main
        /\ worker' = [at |-> Head(control.tasks).kind, dc |-> Head(control.tasks).dc]
    BY <1>1, <1>7 DEF PopTask, Control
  <2>2. /\ FinishIn(control'.tasks, Ended(dcs))
        /\ Head(control.tasks).kind = "finish" => Head(control.tasks).dc \in Ended(dcs)
    BY <1>1, <2>1, PoppingTask
  <2> QED
    BY <1>1, <1>2, <1>3, <2>1, <2>2 DEF Finishing
<1>8. CASE cmd_pasv \/ cmd_port \/ cmd_abor \/ cmd_quit \/ close \/ Dial \/ Accept \/ AcceptedFor \/ RunThunk
  <2>1. control'.tasks = control.tasks /\ UNCHANGED worker
    BY <1>1, <1>8 DEF cmd_pasv, cmd_port, cmd_abor, cmd_quit, close, Dial, Accept, AcceptedFor, RunThunk,
       WillClose, Control
  <2>2. main' = main \/ main'.at # "ended"
    BY <1>8 DEF cmd_pasv, cmd_port, cmd_abor, cmd_quit, close, Dial, Accept, AcceptedFor, RunThunk, AbortData,
       Idle, IInv, Types
  <2> QED
    BY <1>4, <2>1, <2>2
<1>9. CASE NoMoreTasks \/ Refuse \/ cmd_stor \/ StorReply \/ finishSTOR \/ cmd_retr \/ RetrNothing
  <2>1. (worker' = worker \/ worker'.at # "finish") /\ UNCHANGED main
    BY <1>9 DEF NoMoreTasks, Refuse, cmd_stor, StorReply, finishSTOR, cmd_retr, RetrNothing, Return, Idle
  <2>2. control' \in {control, WillClose(control), [control EXCEPT !.running_tasks = FALSE, !.async_mode = TRUE]}
    BY <1>9 DEF NoMoreTasks, Refuse, cmd_stor, StorReply, finishSTOR, cmd_retr, RetrNothing
  <2>3. control'.tasks = control.tasks
    BY <1>1, <2>2 DEF WillClose, Control
  <2> QED
    BY <1>4, <2>1, <2>3
<1>10. CASE \/ asyncConnectData \/ AbortOld \/ AbortNone \/ Assign \/ connectData \/ Remember \/ connectPort
            \/ WriteCloses \/ WriteFails \/ SendFails \/ ReadRaises \/ RetrWritten \/ UNCHANGED vars
  <2>1. worker \in [at : Places, dc : Transfers \cup {None}]
    BY DEF IInv, Types
  <2>2. (worker' = worker \/ worker'.at # "finish") /\ UNCHANGED main
    BY <1>10, <2>1 DEF asyncConnectData, AbortOld, AbortNone, Assign, connectData, Remember, connectPort,
       WriteCloses, Becomes, WriteFails, SendFails, ReadRaises, RetrWritten, vars, Return, Idle, Goto
  <2>3. control' \in {control, WillClose(control)}
    BY <1>10 DEF asyncConnectData, AbortOld, AbortNone, Assign, connectData, Remember, connectPort,
       WriteCloses, WriteFails, SendFails, ReadRaises, RetrWritten, vars
  <2>4. control'.tasks = control.tasks
    BY <1>1, <2>3 DEF WillClose, Control
  <2> QED
    BY <1>4, <2>2, <2>4
<1>11. ASSUME NEW n \in DOMAIN dcs, NEW how \in {"eof", "reset"}, Leaves(n, how)
       PROVE  Finishing'
  BY <1>4, <1>11 DEF Leaves
<1>12. CASE closedData
  <2>1. UNCHANGED worker /\ main'.at # "ended"
    BY <1>12 DEF closedData, Idle
  <2>2. CASE UNCHANGED control
    BY <1>4, <2>1, <2>2
  <2>3. ASSUME NEW x \in Task, x.dc \in Ended(dcs), control' = Queued(control, x)
        PROVE  Finishing'
    <3>1. FinishIn(control'.tasks, Ended(dcs))
      BY <1>1, <2>3, QueuedControl, QueueingTask
    <3> QED
      BY <1>1, <1>2, <1>3, <2>1, <3>1 DEF Finishing
  <2> QED
    BY <1>12, <2>2, <2>3, Finish DEF closedData
<1> QED
  BY <1>5, <1>6, <1>7, <1>8, <1>9, <1>10, <1>11, <1>12 DEF Next, Work, Main, Commands, Client

LEMMA KnownNext == ASSUME IInv, [Next]_vars PROVE Known'
<1>1. /\ dcs \in Seq(Chan) /\ client_dc \in DOMAIN dcs \cup {None} /\ thunks \in Seq(Transfers)
      /\ listener \in Listener /\ control \in Control /\ control.tasks \in Seq(Task)
      /\ port_addr \in BOOLEAN /\ main \in [at : MainPlaces, dc : Transfers \cup {None}]
      /\ worker \in [at : Places, dc : Transfers \cup {None}]
  BY DEF IInv, Types, Control
<1>2. /\ Closing => main.dc \in DOMAIN dcs /\ dcs[main.dc].state = "closed"
      /\ client_dc # None /\ dcs[client_dc].state = "closed" => Closing /\ main.dc = client_dc
      /\ OneTransfer
      /\ listener.client_dc # None => /\ listener.up /\ listener.client_dc \in DOMAIN dcs
                                      /\ dcs[listener.client_dc].state = "new" /\ Held(listener.client_dc)
      /\ listener.up => ~port_addr /\ control.connected
      /\ client = "ready" \/ Beginning \/ thunks # <<>> => listener.client_dc = None
      /\ \A i \in DOMAIN thunks : thunks[i] # client_dc /\ thunks[i] \in Waiting(dcs)
  BY DEF IInv, Known
<1>3. /\ NoListener.client_dc = None /\ ~NoListener.up
      /\ \A i \in DOMAIN thunks : thunks[i] # None
      /\ \A n \in DOMAIN dcs : n # None
  <2>1. None \notin Transfers /\ DOMAIN dcs \subseteq Nat
    BY <1>1, BoundsAssumption DEF Transfers
  <2> QED
    BY <1>1, <2>1, BoundsAssumption DEF NoListener
<1>4. AfterAnswers(dcs') # "ready" \/ client = "ready"
  BY DEF AfterAnswers
<1>5. Onward(dcs, dcs')
  BY GoingOn
<1>6. \A n \in DOMAIN dcs : /\ n \in DOMAIN dcs' /\ dcs'[n].kind = dcs[n].kind
                            /\ dcs[n].forgotten => dcs'[n].forgotten
                            /\ dcs[n].state = "closed" => dcs'[n].state = "closed"
  BY <1>5 DEF Onward, Follows
\* Steps that leave the channels, or all states of channels, as they are.
<1>7. CASE /\ UNCHANGED <<client_dc, thunks, main>>
           /\ port_addr' = port_addr \/ ~port_addr'
           /\ DOMAIN dcs' = DOMAIN dcs /\ \A n \in DOMAIN dcs : dcs'[n].state = dcs[n].state
           /\ control'.connected = control.connected
           /\ listener' = NoListener \/ (listener'.client_dc = listener.client_dc /\ listener'.up = listener.up)
           /\ (client' = "ready" => client = "ready") /\ (Beginning' => Beginning \/ client = "ready")
  <2>1. OneTransfer'
    BY <1>2, <1>6, <1>7 DEF OneTransfer, Open
  <2>2. \A i \in DOMAIN thunks' : thunks'[i] # client_dc' /\ thunks'[i] \in Waiting(dcs')
    BY <1>2, <1>6, <1>7 DEF Waiting
  <2>3. listener'.client_dc # None =>
           /\ listener'.up /\ listener'.client_dc \in DOMAIN dcs'
           /\ dcs'[listener'.client_dc].state = "new" /\ Held(listener.client_dc)'
    <3>1. CASE listener' = NoListener
      BY <1>3, <3>1
    <3>2. CASE listener'.client_dc = listener.client_dc /\ listener'.up = listener.up
      <4> DEFINE n == listener.client_dc
      <4>1. SUFFICES ASSUME n # None
                     PROVE  listener'.up /\ n \in DOMAIN dcs' /\ dcs'[n].state = "new"
                            /\ (client_dc' = n \/ dcs'[n].forgotten)
        BY <3>2 DEF Held
      <4>2. listener.up /\ n \in DOMAIN dcs /\ dcs[n].state = "new" /\ (client_dc = n \/ dcs[n].forgotten)
        BY <1>2, <4>1 DEF Held
      <4> QED
        BY <1>6, <1>7, <3>2, <4>2
    <3> QED
      BY <1>7, <3>1, <3>2
  <2>4. (listener'.up => ~port_addr' /\ control'.connected)
        /\ (client' = "ready" \/ Beginning' \/ thunks' # <<>> => listener'.client_dc = None)
    BY <1>2, <1>3, <1>7
  <2>5. /\ Closing' => main'.dc \in DOMAIN dcs' /\ dcs'[main'.dc].state = "closed"
        /\ client_dc' # None /\ dcs'[client_dc'].state = "closed" => Closing' /\ main'.dc = client_dc'
    BY <1>1, <1>2, <1>7 DEF Closing
  <2> QED
    BY <2>1, <2>2, <2>3, <2>4, <2>5 DEF Known
<1>8. CASE cmd_pasv \/ cmd_port
  <2>1. /\ ~Beginning' /\ thunks = <<>> /\ UNCHANGED <<control, client_dc, dcs, thunks, worker, main>>
        /\ control.connected
    <3>1. control.tasks = <<>> /\ worker.at = "idle" /\ thunks = <<>> /\ control.connected
      BY <1>8 DEF cmd_pasv, cmd_port, Command, Readable, IInv, Threads
    <3> QED
      BY <1>8, <3>1 DEF cmd_pasv, cmd_port, Beginning, First
  <2>2. \/ listener'.up /\ listener'.client_dc = None /\ ~port_addr'
        \/ ~listener'.up /\ listener'.client_dc = None
    BY <1>1, <1>2, <1>8 DEF cmd_pasv, cmd_port, NoListener, Listener
  <2> QED
    BY <1>2, <2>1, <2>2 DEF Known, OneTransfer, Closing
<1>9. CASE cmd_quit
  <2>1. control'.connected = control.connected /\ control'.tasks = control.tasks
    BY <1>1, <1>9 DEF cmd_quit, WillClose, Control
  <2> QED
    BY <1>7, <1>9, <2>1 DEF cmd_quit, Beginning
<1>10. ASSUME NEW kind \in {"stor", "retr"}, QueueTransfer(kind)
      PROVE  Known'
  <2>1. control'.connected = control.connected
    BY <1>1, <1>10 DEF QueueTransfer, Queued, Control
  <2> QED
    BY <1>7, <1>10, <2>1 DEF QueueTransfer
<1>11. CASE cmd_abor \/ close
  <2>1. /\ dcs' = AbortedData /\ listener' = NoListener /\ UNCHANGED <<thunks, client_dc>> /\ main = Idle
        /\ main' = IF client_dc = None THEN main ELSE [at |-> "closed", dc |-> client_dc]
    BY <1>11 DEF cmd_abor, close, AbortData, Command, MainIdle
  <2>2. /\ DOMAIN AbortedData = DOMAIN dcs
        /\ \A n \in DOMAIN dcs : n # client_dc => AbortedData[n] = dcs[n]
        /\ \A n \in DOMAIN dcs : Open(AbortedData[n]) => AbortedData[n].forgotten
        /\ client_dc # None => AbortedData[client_dc].state = "closed"
    BY AbortingData DEF IInv, Known
  <2>3. \A i \in DOMAIN thunks : thunks[i] # client_dc /\ thunks[i] \in Waiting(dcs')
    BY <1>2, <2>1, <2>2 DEF Waiting
  <2>4. OneTransfer'
    BY <2>1, <2>2 DEF OneTransfer
  <2>5. CASE client_dc = None
    <3>1. ~Closing'
      BY <2>1, <2>5 DEF Closing, Idle
    <3> QED
      BY <1>3, <2>1, <2>3, <2>4, <2>5, <3>1 DEF Known
  <2>6. CASE client_dc # None
    <3>1. Closing' /\ main'.dc = client_dc' /\ client_dc' \in DOMAIN dcs' /\ dcs'[client_dc'].state = "closed"
      BY <1>1, <2>1, <2>2, <2>6 DEF Closing
    <3> QED
      BY <1>3, <2>1, <2>3, <2>4, <3>1 DEF Known
  <2> QED
    BY <2>5, <2>6
<1>12. CASE RunThunk
  <2>1. PICK n \in DOMAIN dcs, e \in Chan :
           /\ thunks' = <<>> /\ n # client_dc
           /\ dcs' = [AbortedData EXCEPT ![n] = e] /\ e.state \in {"new", "connecting"}
           /\ e.state = "new" <=> ~port_addr /\ ~(listener.up /\ listener.accepted)
           /\ client_dc' = n /\ listener' = Remembering(listener, n)
    BY <1>12, RunningThunk
  <2>2. /\ AbortedData \in Seq(Chan) /\ DOMAIN AbortedData = DOMAIN dcs
        /\ \A m \in DOMAIN dcs : Open(AbortedData[m]) => AbortedData[m].forgotten
    BY AbortingData DEF IInv, Known
  <2>3. DOMAIN dcs' = DOMAIN dcs /\ dcs'[n] = e /\ \A m \in DOMAIN dcs : m # n => dcs'[m] = AbortedData[m]
    BY <2>1, <2>2, Replacing
  <2>4. OneTransfer'
    BY <2>1, <2>2, <2>3 DEF OneTransfer
  <2>5. UNCHANGED <<control, worker>> /\ ~port_addr' /\ (client' = "ready" => client = "ready")
        /\ main' = Idle /\ main = Idle
    BY <1>4, <1>12 DEF RunThunk, MainIdle
  <2>6. client # "ready" /\ ~Beginning
    BY <1>12 DEF RunThunk, IInv, Threads
  <2>7. ~Beginning'
    BY <2>5, <2>6 DEF Beginning
  <2>8. /\ listener'.up => listener.up
        /\ listener'.client_dc # None =>
             listener'.up /\ listener'.client_dc = n /\ ~listener.accepted /\ listener.up
    BY <1>1, <1>2, <1>3, <2>1 DEF Remembering, Listener
  <2>9. listener'.client_dc # None => dcs'[n].state = "new"
    BY <1>2, <2>1, <2>3, <2>8
  <2>10. \A i \in DOMAIN thunks' : FALSE
    BY <2>1
  <2>11. ~Closing' /\ dcs'[client_dc'].state # "closed"
    BY <2>1, <2>3, <2>5 DEF Closing, Idle
  <2>12. listener'.client_dc # None =>
           /\ listener'.up /\ listener'.client_dc \in DOMAIN dcs'
           /\ dcs'[listener'.client_dc].state = "new" /\ Held(listener.client_dc)'
    <3>1. listener'.client_dc # None => listener'.client_dc = client_dc' /\ listener'.client_dc = n
      BY <2>1, <2>8
    <3> QED
      BY <2>3, <2>8, <2>9, <3>1 DEF Held
  <2> QED
    <3>1. ~(client' = "ready" \/ Beginning' \/ thunks' # <<>>)
      BY <2>1, <2>5, <2>6, <2>7
    <3>2. listener'.up => ~port_addr' /\ control'.connected
      BY <1>2, <2>5, <2>8
    <3> QED
      BY <2>4, <2>10, <2>11, <2>12, <3>1, <3>2 DEF Known
<1>13. CASE Accept \/ Dial
  <2>1. /\ listener'.client_dc = listener.client_dc /\ listener'.up = listener.up
        /\ UNCHANGED <<client_dc, thunks, port_addr, dcs, control, client, worker>>
    BY <1>1, <1>13 DEF Accept, Dial, Listener
  <2>2. CASE main' = main
    BY <1>7, <2>1, <2>2 DEF Beginning
  <2>3. CASE Accept
    <3>1. ~Closing /\ ~Closing'
      BY <1>1, <2>3 DEF Accept, MainIdle, Idle, Closing
    <3> QED
      BY <1>2, <2>1, <3>1 DEF Known, OneTransfer, Held, Beginning
  <2> QED
    BY <1>13, <2>2, <2>3 DEF Dial
<1>14. CASE AcceptedFor
  <2>0. /\ UNCHANGED <<client_dc, thunks, port_addr, control, client, worker>>
        /\ ~Closing /\ ~Closing'
    BY <1>14 DEF AcceptedFor, Closing, Idle
  <2>1. CASE UNCHANGED <<dcs, listener>>
    BY <1>2, <2>0, <2>1 DEF Known, OneTransfer, Held, Beginning
  <2>2. ASSUME listener' = NoListener, NEW n \in DOMAIN dcs, Held(n), dcs[n].state = "new",
               NEW e \in Chan, dcs' = [dcs EXCEPT ![n] = e], e.state = "connecting", n = listener.client_dc,
               n # None
        PROVE  Known'
    <3>1. DOMAIN dcs' = DOMAIN dcs /\ dcs'[n] = e /\ \A m \in DOMAIN dcs : m # n => dcs'[m] = dcs[m]
      BY <1>1, <2>2, Replacing
    <3>2. OneTransfer'
      BY <1>2, <1>6, <2>0, <2>2, <3>1 DEF OneTransfer, Held
    <3>3. thunks = <<>> /\ \A i \in DOMAIN thunks : FALSE
      BY <1>2, <2>2
    <3>4. client_dc # None => dcs'[client_dc].state # "closed"
      BY <1>2, <2>0, <2>2, <3>1
    <3> QED
      BY <1>3, <2>0, <2>2, <3>1, <3>2, <3>3, <3>4 DEF Known
  <2> QED
    BY <1>14, <2>1, <2>2, Accepting
<1>15. ASSUME NEW n \in DOMAIN dcs, Event(n)
       PROVE  Known'
  <2>1. PICK e \in Chan : Happens(n, e)
    BY Happening, <1>15 DEF IInv, Types, Control
  <2>2. /\ Open(dcs[n]) /\ e.state # "new"
        /\ dcs' = [dcs EXCEPT ![n] = e] /\ main = Idle
        /\ UNCHANGED <<control, listener, port_addr, client_dc, thunks, worker>>
        /\ client' = "ready" => client = "ready"
        /\ main' = Idle \/ (main' \in {[at |-> "closed", dc |-> n], [at |-> "ended", dc |-> n]} /\ e.state = "closed")
        /\ e.state = "closed" => main' \in {[at |-> "closed", dc |-> n], [at |-> "ended", dc |-> n]}
    BY <1>4, <2>1 DEF Happens, Becomes, MainIdle
  <2>3. DOMAIN dcs' = DOMAIN dcs /\ dcs'[n] = e /\ \A m \in DOMAIN dcs : m # n => dcs'[m] = dcs[m]
    BY <1>1, <2>2, Replacing
  <2>4. OneTransfer'
    BY <1>2, <1>6, <2>2, <2>3 DEF OneTransfer, Open
  <2>5. \A i \in DOMAIN thunks : thunks[i] # client_dc' /\ thunks[i] \in Waiting(dcs')
    BY <1>2, <2>2, <2>3 DEF Waiting, Open
  <2>6. listener.client_dc # None => /\ listener.client_dc \in DOMAIN dcs'
                                     /\ dcs'[listener.client_dc].state = "new" /\ Held(listener.client_dc)'
    BY <1>2, <2>2, <2>3 DEF Open, Held
  <2>7. Closing' => main'.dc \in DOMAIN dcs' /\ dcs'[main'.dc].state = "closed"
    BY <2>2, <2>3 DEF Closing, Idle
  <2>8. client_dc' # None /\ dcs'[client_dc'].state = "closed" => Closing' /\ main'.dc = client_dc'
    <3>1. ~Closing
      BY <2>2 DEF Closing, Idle
    <3>2. e.state = "closed" => Closing' /\ main'.dc = n
      BY <2>2 DEF Closing
    <3> QED
      BY <1>1, <1>2, <2>2, <2>3, <3>1, <3>2
  <2>9. Beginning' => Beginning
    BY <2>2 DEF Beginning
  <2> QED
    BY <1>2, <2>2, <2>4, <2>5, <2>6, <2>7, <2>8, <2>9 DEF Known
<1>16. ASSUME NEW n \in DOMAIN dcs, NEW how \in {"eof", "reset"}, Leaves(n, how)
       PROVE  Known'
  <2>1. PICK e \in Chan : dcs' = [dcs EXCEPT ![n] = e] /\ Follows(dcs[n], e) /\ e.state = dcs[n].state
    BY <1>16, Leaving
  <2>2. DOMAIN dcs' = DOMAIN dcs /\ \A m \in DOMAIN dcs : dcs'[m].state = dcs[m].state
    BY <1>1, <2>1, Replacing
  <2>3. UNCHANGED <<client_dc, thunks, port_addr, control, client, worker, listener, main>>
    BY <1>16 DEF Leaves
  <2> QED
    BY <1>7, <2>2, <2>3 DEF Beginning
<1>17. CASE PopTask
  <2>1. /\ control'.tasks = Tail(control.tasks) /\ control'.connected = control.connected
        /\ worker'.at = control.tasks[1].kind /\ control.tasks # <<>>
    BY <1>1, <1>17, PoppingTask DEF PopTask, Control
  <2>2. ~First(Tail(control.tasks))
    BY <1>1, <2>1, PoppingTask DEF IInv, Threads
  <2>3. Beginning' => Beginning
    BY <2>1, <2>2 DEF Beginning, First
  <2> QED
    BY <1>7, <1>17, <2>1, <2>3 DEF PopTask
<1>18. CASE NoMoreTasks \/ Refuse \/ StorReply \/ SendFails \/ UNCHANGED vars
  <2>1. control' \in {control, WillClose(control), [control EXCEPT !.running_tasks = FALSE, !.async_mode = TRUE]}
    BY <1>18 DEF NoMoreTasks, Refuse, StorReply, SendFails, vars
  <2>2. control'.connected = control.connected /\ control'.tasks = control.tasks
    BY <1>1, <2>1 DEF WillClose, Control
  <2>3. /\ UNCHANGED <<client_dc, dcs, thunks, port_addr, listener, main>>
        /\ (client' = "ready" => client = "ready") /\ (worker' = worker \/ worker'.at = "idle")
    BY <1>18 DEF NoMoreTasks, Refuse, StorReply, SendFails, vars, Return, Idle
  <2> QED
    BY <1>7, <2>2, <2>3 DEF Beginning
<1>19. CASE cmd_stor \/ cmd_retr \/ RetrNothing
  <2>1. /\ Beginning /\ ~First(control.tasks) /\ client # "ready" /\ ~Beginning' /\ thunks = <<>>
    BY <1>19 DEF cmd_stor, cmd_retr, RetrNothing, At, Return, Idle, IInv, Threads, Beginning
  <2>2. PICK e \in Chan : /\ dcs' = Append(dcs, e) /\ e.state = "new"
                          /\ (thunks' = thunks \/ (thunks' = Append(thunks, New) /\ e.kind = "stor"))
    <3>1. /\ NewChannel("stor").state = "new" /\ NewChannel("stor").kind = "stor"
          /\ NewChannel("retr").state = "new" /\ [NewChannel("retr") EXCEPT !.will_close = TRUE].state = "new"
      BY DEF NewChannel
    <3>2. /\ NewChannel("stor") \in Chan /\ NewChannel("retr") \in Chan
          /\ [NewChannel("retr") EXCEPT !.will_close = TRUE] \in Chan
      BY NewChan
    <3> QED
      BY <1>19, <3>1, <3>2 DEF cmd_stor, cmd_retr, RetrNothing
  <2>3. UNCHANGED <<client_dc, port_addr, control, client, listener, main>>
    BY <1>19 DEF cmd_stor, cmd_retr, RetrNothing
  <2>4. /\ DOMAIN dcs' = DOMAIN dcs \cup {New} /\ New \notin DOMAIN dcs /\ dcs'[New] = e
        /\ \A m \in DOMAIN dcs : dcs'[m] = dcs[m]
    BY <1>1, <2>2, Appending DEF New
  <2>5. OneTransfer'
    BY <1>2, <2>2, <2>3, <2>4 DEF OneTransfer, Open
  <2>6. New # client_dc /\ (e.kind = "stor" => New \in Waiting(dcs'))
    <3>1. Len(dcs) \in Nat /\ New = Len(dcs) + 1
      BY <1>1 DEF New
    <3>2. New # None
      BY <3>1, BoundsAssumption
    <3> QED
      BY <1>1, <2>2, <2>4, <3>2 DEF Waiting
  <2>7. \A i \in DOMAIN thunks' : thunks'[i] # client_dc /\ thunks'[i] \in Waiting(dcs')
    <3>1. CASE thunks' = thunks
      BY <2>1, <3>1
    <3>2. CASE thunks' = Append(thunks, New) /\ e.kind = "stor"
      <4>1. thunks' = <<New>>
        BY <2>1, <3>2
      <4> QED
        BY <2>6, <3>2, <4>1
    <3> QED
      BY <2>2, <3>1, <3>2
  <2>8. listener.client_dc = None
    BY <1>2, <2>1
  <2> QED
    BY <1>1, <1>2, <2>1, <2>3, <2>4, <2>5, <2>7, <2>8 DEF Known, Closing
<1>20. CASE asyncConnectData
  <2>1. UNCHANGED <<control, listener, port_addr, client_dc, dcs, thunks, main, client>> /\ worker'.at \notin {"stor", "retr"}
    BY <1>1, <1>20 DEF asyncConnectData, Goto
  <2> QED
    BY <1>7, <2>1 DEF Beginning
<1>21. CASE AbortOld
  <2>1. /\ dcs' = AbortedData /\ client_dc' = None /\ worker'.at \notin {"stor", "retr"}
        /\ UNCHANGED <<control, listener, port_addr, thunks, main, client>>
        /\ worker.at = "abort"
    BY <1>1, <1>21 DEF AbortOld, At, Goto
  <2>2. listener.client_dc = None /\ thunks = <<>> /\ client # "ready" /\ ~First(control.tasks)
    BY <2>1 DEF IInv, Downloads, Downloading, PlacesBefore, Threads
  <2>3. /\ DOMAIN AbortedData = DOMAIN dcs
        /\ \A n \in DOMAIN dcs : Open(AbortedData[n]) => AbortedData[n].forgotten
    BY AbortingData DEF IInv, Known
  <2>4. OneTransfer'
    BY <2>1, <2>3 DEF OneTransfer
  <2>5. Closing' => main'.dc \in DOMAIN dcs' /\ dcs'[main'.dc].state = "closed"
    BY <1>2, <1>6, <2>1 DEF Closing
  <2> QED
    BY <1>2, <2>1, <2>2, <2>4, <2>5 DEF Known, Beginning
<1>22. CASE Assign
  <2>1. /\ client_dc' = worker.dc /\ worker'.at \notin {"stor", "retr"} /\ worker.at = "assign"
        /\ UNCHANGED <<control, listener, port_addr, dcs, thunks, main, client>>
    BY <1>1, <1>22 DEF Assign, At, Goto
  <2>2. /\ listener.client_dc = None /\ thunks = <<>> /\ client # "ready" /\ ~First(control.tasks)
        /\ client_dc = None /\ worker.dc \in DOMAIN dcs /\ dcs[worker.dc].state = "new"
    BY <2>1 DEF IInv, Downloads, Downloading, PlacesBefore, Threads
  <2>3. OneTransfer'
    BY <1>2, <1>3, <2>1, <2>2 DEF OneTransfer
  <2> QED
    BY <1>2, <2>1, <2>2, <2>3 DEF Known, Beginning, Closing
<1>23. CASE Remember
  <2>1. /\ worker.at = "remember" /\ worker' = [worker EXCEPT !.at = "port"]
        /\ UNCHANGED <<control, port_addr, client_dc, dcs, thunks, main, client>>
        /\ listener' = [listener EXCEPT !.client_dc = worker.dc]
    BY <1>23 DEF Remember, At, Goto
  <2>2. /\ Held(worker.dc) /\ dcs[worker.dc].state = "new" /\ listener.up /\ worker.dc \in DOMAIN dcs
        /\ client # "ready" /\ ~First(control.tasks) /\ thunks = <<>>
    BY <2>1 DEF IInv, Downloads, Downloading, PlacesAfter, Threads
  <2>3. worker'.at = "port" /\ listener'.client_dc = worker.dc /\ listener'.up
    BY <1>1, <2>1, <2>2 DEF Listener
  <2>4. Held(worker.dc)'
    BY <2>1, <2>2 DEF Held
  <2> QED
    BY <1>2, <1>3, <2>1, <2>2, <2>3, <2>4 DEF Known, Beginning, OneTransfer, Closing
<1>24. CASE Works
  <2>1. PICK e \in Chan : WorkerMakes(dcs[worker.dc], e)
    BY <1>24, Working
  <2> DEFINE d == dcs[worker.dc]
  <2>2. /\ worker.dc \in DOMAIN dcs /\ dcs' = [dcs EXCEPT ![worker.dc] = e] /\ e.kind = d.kind
        /\ \/ e.state = d.state
           \/ /\ Held(worker.dc) /\ d.state = "new" /\ e.state = "connecting"
              /\ listener.client_dc = None
           \/ WriteCloses /\ d.state = "connected" /\ e.state = "closed" /\ client_dc' = None
    <3>1. worker.at = "passive" => listener.client_dc = None
      BY DEF IInv, Downloads, Downloading, PlacesAfter
    <3> QED
      BY <1>2, <2>1, <3>1 DEF WorkerMakes, Follows
  <2>3. DOMAIN dcs' = DOMAIN dcs /\ dcs'[worker.dc] = e /\ \A m \in DOMAIN dcs : m # worker.dc => dcs'[m] = dcs[m]
    BY <1>1, <2>2, Replacing
  <2>5. /\ UNCHANGED <<thunks, main>> /\ (port_addr' = port_addr \/ ~port_addr')
        /\ (listener' = listener \/ listener' = NoListener)
        /\ control' \in {control, WillClose(control)} /\ (client' = "ready" => client = "ready")
        /\ (worker' = worker \/ worker'.at \notin {"stor", "retr"})
        /\ ~WriteCloses => UNCHANGED client_dc
    BY <1>1, <1>4, <1>24 DEF Works, connectData, connectPort, WriteCloses, Becomes, WriteFails, ReadRaises, RetrWritten,
       AbortNone, finishSTOR, Return, Idle, Goto
  <2>6. control'.connected = control.connected /\ control'.tasks = control.tasks
    BY <1>1, <2>5 DEF WillClose, Control
  <2>7. Beginning' => Beginning
    BY <2>5, <2>6 DEF Beginning
  <2>8. CASE e.state = d.state /\ UNCHANGED client_dc
    BY <1>1, <1>7, <2>2, <2>3, <2>5, <2>6, <2>7, <2>8
  <2>9. CASE ~WriteCloses /\ Held(worker.dc) /\ d.state = "new" /\ e.state = "connecting" /\ listener.client_dc = None
    <3>1. OneTransfer'
      BY <1>2, <1>6, <2>3, <2>5, <2>9 DEF OneTransfer, Held, Open
    <3>2. listener'.client_dc = None /\ (listener'.up => ~port_addr' /\ control'.connected)
      BY <1>1, <1>2, <1>3, <2>5, <2>6, <2>9
    <3>3. \A i \in DOMAIN thunks' : thunks'[i] # client_dc' /\ thunks'[i] \in Waiting(dcs')
      <4>1. worker.at # "idle" => thunks = <<>> \/ worker.at \notin PlacesBefore \cup PlacesAfter
        BY DEF IInv, Threads, Downloading
      <4>2. worker.dc \notin Waiting(dcs)
        <5>1. finishSTOR => d.state = "closed"
          BY DEF finishSTOR, At, IInv, Finishing, Ended
        <5>2. ~finishSTOR => d.kind = "retr"
          BY <1>24 DEF Works, IInv, Downloads, Downloading, PlacesBefore, PlacesAfter, At,
             connectData, connectPort, WriteCloses, WriteFails, ReadRaises, RetrWritten, AbortNone, finishSTOR
        <5> QED
          BY <5>1, <5>2 DEF Waiting
      <4> QED
        BY <1>2, <2>3, <2>5, <2>9, <4>2 DEF Waiting
    <3>4. /\ Closing' => main'.dc \in DOMAIN dcs' /\ dcs'[main'.dc].state = "closed"
          /\ client_dc' # None /\ dcs'[client_dc'].state = "closed" => Closing' /\ main'.dc = client_dc'
      <4>1. Closing' <=> Closing
        BY <2>5 DEF Closing
      <4>2. main' = main /\ client_dc' = client_dc
        BY <2>5, <2>9
      <4>3. client_dc # None /\ dcs'[client_dc].state = "closed" => dcs[client_dc].state = "closed"
        BY <1>1, <2>3, <2>9
      <4> QED
        BY <1>2, <1>6, <4>1, <4>2, <4>3
    <3> QED
      BY <3>1, <3>2, <3>3, <3>4 DEF Known
  <2>10. CASE WriteCloses
    <3>0. /\ UNCHANGED <<listener, port_addr, control, worker>> /\ client_dc' = None /\ d.state = "connected"
          /\ worker.at \in {"write", "failed"}
      BY <2>10 DEF WriteCloses
    <3>1. client_dc \in {worker.dc, None}
      BY <3>0 DEF IInv, Downloads, Downloading, PlacesAfter
    <3>2. e.state \in {"connected", "closed"}
      BY <2>2, <3>0
    <3>3. OneTransfer'
      <4>1. e.state = "closed" \/ e.forgotten
        <5>1. PICK code \in Codes : dcs' = [dcs EXCEPT ![worker.dc] = Closed(d, code)]
          BY <2>10 DEF WriteCloses, Becomes, Codes
        <5>2. Closed(d, code).state = "closed"
          <6>1. d \in Chan /\ control.connected \in BOOLEAN
            BY <1>1, <2>2 DEF Control
          <6> QED
            BY <3>0, <6>1, ClosingChan DEF Open
        <5> QED
          BY <1>1, <2>2, <2>3, <5>1, <5>2
      <4> QED
        BY <1>2, <1>3, <1>6, <2>3, <3>0, <3>1, <4>1 DEF OneTransfer, Open
    <3>4. listener.client_dc # None => /\ listener.client_dc \in DOMAIN dcs'
                                       /\ dcs'[listener.client_dc].state = "new" /\ Held(listener.client_dc)'
      BY <1>2, <1>3, <2>3, <3>0, <3>1 DEF Held
    <3>5. \A i \in DOMAIN thunks' : thunks'[i] # client_dc' /\ thunks'[i] \in Waiting(dcs')
      BY <1>2, <1>3, <2>3, <2>5, <3>0 DEF Waiting
    <3>6. Closing' => main'.dc \in DOMAIN dcs' /\ dcs'[main'.dc].state = "closed"
      BY <1>2, <1>6, <2>5 DEF Closing
    <3> QED
      BY <1>2, <2>5, <2>6, <2>7, <3>0, <3>3, <3>4, <3>5, <3>6 DEF Known
  <2> QED
    BY <2>2, <2>5, <2>8, <2>9, <2>10
<1>25. CASE closedData
  <2>1. /\ DOMAIN dcs' = DOMAIN dcs
        /\ \A n \in DOMAIN dcs : /\ dcs'[n].state = dcs[n].state
                                 /\ n = client_dc => n = main.dc \/ dcs'[n].forgotten
    BY <1>25, Forgetting DEF IInv
  <2>2. /\ client_dc' = None /\ main' = Idle /\ main.at \in {"closed", "ended"}
        /\ UNCHANGED <<listener, port_addr, thunks, worker, client>>
    BY <1>25 DEF closedData
  <2>3. dcs[main.dc].state = "closed"
    BY <1>2, <2>2 DEF Closing
  <2>4. OneTransfer'
    BY <1>2, <1>6, <2>1, <2>2, <2>3 DEF OneTransfer, Open
  <2>5. listener.client_dc # None => /\ listener.client_dc \in DOMAIN dcs'
                                     /\ dcs'[listener.client_dc].state = "new" /\ Held(listener.client_dc)'
    BY <1>2, <1>6, <2>1, <2>2, <2>3 DEF Held
  <2>6. \A i \in DOMAIN thunks' : thunks'[i] # client_dc' /\ thunks'[i] \in Waiting(dcs')
    BY <1>2, <1>3, <1>6, <2>1, <2>2 DEF Waiting
  <2>7. control'.connected = control.connected /\ (First(control'.tasks) => First(control.tasks))
    <3>1. CASE UNCHANGED control
      BY <3>1
    <3>2. ASSUME NEW x \in Task, x.kind = "finish", control' = Queued(control, x)
          PROVE  control'.connected = control.connected /\ (First(control'.tasks) => First(control.tasks))
      <4> DEFINE us == Append(control.tasks, x)
      <4>1. control'.connected = control.connected /\ control'.tasks = us
        BY <1>1, <3>2, QueuedControl
      <4>2. us = Append(control.tasks, x) /\ control.tasks \in Seq(Task)
        BY <1>1
      <4> HIDE DEF us
      <4>3. First(us) <=> First(control.tasks) \/ (control.tasks = <<>> /\ x.kind # "finish")
        BY <4>2, QueueingTask, ZenonT(30)
      <4> QED
        BY <3>2, <4>1, <4>3
    <3> QED
      BY <1>25, <3>1, <3>2, Finish DEF closedData
  <2>8. ~Closing' /\ (Beginning' => Beginning)
    BY <2>2, <2>7 DEF Closing, Idle, Beginning
  <2> QED
    BY <1>2, <2>2, <2>4, <2>5, <2>6, <2>7, <2>8 DEF Known
<1> QED
  BY <1>8, <1>9, <1>10, <1>11, <1>12, <1>13, <1>14, <1>15, <1>16, <1>17, <1>18, <1>19, <1>20, <1>21, <1>22,
     <1>23, <1>24, <1>25 DEF Next, Work, Works, Main, Commands, Client

LEMMA DownloadsNext == ASSUME IInv, [Next]_vars PROVE Downloads'
<1>1. /\ dcs \in Seq(Chan) /\ client_dc \in DOMAIN dcs \cup {None} /\ listener \in Listener
      /\ worker \in [at : Places, dc : Transfers \cup {None}]
      /\ DOMAIN dcs \subseteq DOMAIN dcs' /\ \A n \in DOMAIN dcs : dcs'[n].kind = dcs[n].kind
      /\ None \notin DOMAIN dcs
      /\ \A n \in DOMAIN dcs : dcs[n].forgotten => dcs'[n].forgotten
  <2>1. None \notin DOMAIN dcs
    BY BoundsAssumption DEF IInv, Types
  <2> QED
    BY <2>1, GoingOn DEF IInv, Types, Onward, Follows
<1>2. Downloading =>
        /\ worker.dc \in DOMAIN dcs /\ dcs[worker.dc].kind = "retr"
        /\ worker.at \in PlacesBefore => /\ listener.client_dc = None /\ client_dc # worker.dc
                                         /\ dcs[worker.dc].state = "new"
        /\ worker.at = "assign" => client_dc = None
        /\ worker.at \in PlacesAfter => client_dc \in {worker.dc, None}
        /\ worker.at \in {"passive", "remember"} => listener.up /\ listener.client_dc = None
        /\ worker.at \in {"passive", "remember"} \/ (worker.at = "port" /\ port_addr) =>
             dcs[worker.dc].state = "new" /\ (client_dc = worker.dc \/ dcs[worker.dc].forgotten)
  BY DEF IInv, Downloads, Held
<1>3. Downloading => ~control.async_mode /\ thunks = <<>> /\ ~First(control.tasks)
  BY DEF IInv, Threads, Downloading, PlacesBefore, PlacesAfter
<1>4. listener.up => ~port_addr
  BY DEF IInv, Known
<1>5. CASE ~Downloading'
  BY <1>5 DEF Downloads
<1>6. CASE /\ UNCHANGED <<worker, client_dc, port_addr>>
           /\ \A n \in DOMAIN dcs : dcs'[n].state = dcs[n].state
           /\ listener'.client_dc = listener.client_dc /\ listener'.up = listener.up
  <2>1. CASE Downloading
    BY <1>1, <1>2, <1>6, <2>1 DEF Downloads, Downloading, Held
  <2>2. CASE ~Downloading
    BY <1>5, <1>6, <2>2 DEF Downloading
  <2> QED
    BY <2>1, <2>2
<1>7. CASE Commands \/ RunThunk
  <2>1. UNCHANGED worker /\ (control.async_mode \/ thunks # <<>>)
    BY <1>7 DEF Commands, cmd_pasv, cmd_port, cmd_abor, cmd_quit, close, QueueTransfer, Command, Readable, RunThunk
  <2> QED
    BY <1>3, <1>5, <2>1 DEF Downloading
<1>8. CASE Accept \/ Dial \/ UNCHANGED vars
  <2>1. /\ UNCHANGED <<worker, client_dc, port_addr, dcs>>
        /\ listener'.client_dc = listener.client_dc /\ listener'.up = listener.up
    BY <1>1, <1>8 DEF Accept, Dial, vars, Listener
  <2> QED
    BY <1>6, <2>1
<1>9. CASE AcceptedFor
  <2>1. UNCHANGED <<worker, client_dc, port_addr>>
    BY <1>9 DEF AcceptedFor
  <2>2. CASE UNCHANGED <<dcs, listener>>
    BY <1>6, <2>1, <2>2
  <2>3. CASE listener.client_dc # None /\ listener' = NoListener
    <3>1. listener.up
      BY <2>3 DEF IInv, Known
    <3>2. Downloading => worker.at \notin PlacesBefore \cup {"passive", "remember"} /\ ~port_addr
      BY <1>2, <1>4, <2>3, <3>1
    <3>3. CASE Downloading
      BY <1>1, <1>2, <2>1, <3>2, <3>3 DEF Downloads, Downloading, PlacesBefore
    <3>4. CASE ~Downloading
      BY <1>5, <2>1, <3>4 DEF Downloading
    <3> QED
      BY <3>3, <3>4
  <2> QED
    BY <1>9, <2>2, <2>3, Accepting
<1>10. ASSUME NEW n \in DOMAIN dcs, Event(n)
       PROVE  Downloads'
  <2>1. PICK e \in Chan : Happens(n, e)
    BY Happening, <1>10 DEF IInv, Types, Control
  <2>2. /\ Open(dcs[n]) /\ dcs' = [dcs EXCEPT ![n] = e]
        /\ UNCHANGED <<worker, listener, port_addr, client_dc>>
    BY <2>1 DEF Happens, Becomes
  <2>3. \A m \in DOMAIN dcs : m # n => dcs'[m] = dcs[m]
    BY <1>1, <2>2, Replacing
  <2>4. \A m \in DOMAIN dcs : dcs[m].state = "new" => dcs'[m].state = "new"
    BY <2>2, <2>3 DEF Open
  <2>5. CASE Downloading
    <3>1. worker.at \in PlacesBefore \/ worker.at \in {"passive", "remember"} \/ (worker.at = "port" /\ port_addr)
            => dcs'[worker.dc].state = "new"
      BY <1>2, <2>4, <2>5
    <3> QED
      BY <1>1, <1>2, <2>2, <2>5, <3>1 DEF Downloads, Downloading, Held
  <2>6. CASE ~Downloading
    BY <1>5, <2>2, <2>6 DEF Downloading
  <2> QED
    BY <2>5, <2>6
<1>11. ASSUME NEW n \in DOMAIN dcs, NEW how \in {"eof", "reset"}, Leaves(n, how)
       PROVE  Downloads'
  <2>1. PICK e \in Chan : dcs' = [dcs EXCEPT ![n] = e] /\ e.state = dcs[n].state
    BY <1>11, Leaving
  <2>2. \A m \in DOMAIN dcs : dcs'[m].state = dcs[m].state
    BY <1>1, <2>1, Replacing
  <2> QED
    BY <1>6, <1>11, <2>2 DEF Leaves
<1>12. CASE PopTask \/ NoMoreTasks \/ Refuse \/ cmd_stor \/ StorReply \/ finishSTOR \/ RetrNothing
            \/ AbortNone \/ SendFails \/ ReadRaises \/ RetrWritten
  <2>1. CASE PopTask
    <3>1. Head(control.tasks).kind \in {"stor", "retr", "finish"} /\ worker'.at = Head(control.tasks).kind
      BY <2>1, PoppingTask DEF PopTask, IInv, Types, Control, Task
    <3> QED
      BY <1>5, <3>1 DEF Downloading, PlacesBefore, PlacesAfter
  <2>2. CASE NoMoreTasks
    BY <1>5, <2>2 DEF NoMoreTasks, At, Downloading, PlacesBefore, PlacesAfter
  <2>3. CASE cmd_stor
    BY <1>5, <2>3 DEF cmd_stor, Downloading, PlacesBefore, PlacesAfter
  <2>4. CASE ~(PopTask \/ NoMoreTasks \/ cmd_stor)
    <3>1. worker' = Idle
      BY <1>12, <2>4 DEF Refuse, StorReply, finishSTOR, RetrNothing, AbortNone, SendFails, ReadRaises, RetrWritten, Return
    <3> QED
      BY <1>5, <3>1 DEF Idle, Downloading, PlacesBefore, PlacesAfter
  <2> QED
    BY <2>1, <2>2, <2>3, <2>4
<1>13. CASE cmd_retr
  <2>1. /\ worker' = [at |-> "connect", dc |-> New] /\ dcs' = Append(dcs, NewChannel("retr"))
        /\ UNCHANGED <<listener, client_dc>> /\ worker.at = "retr"
    BY <1>13 DEF cmd_retr, At
  <2>2. /\ New \in DOMAIN dcs' /\ dcs'[New] = NewChannel("retr") /\ New \notin DOMAIN dcs
    BY <1>1, <2>1, NewChan, Appending DEF New
  <2>3. NewChannel("retr").kind = "retr" /\ NewChannel("retr").state = "new"
    BY DEF NewChannel
  <2>4. listener.client_dc = None
    BY <2>1 DEF IInv, Known, Beginning
  <2>5. New # None
    <3>1. Len(dcs) \in Nat
      BY <1>1
    <3> QED
      BY <3>1, BoundsAssumption DEF New
  <2> QED
    BY <1>1, <2>1, <2>2, <2>3, <2>4, <2>5 DEF Downloads, PlacesAfter
<1>14. CASE asyncConnectData
  <2>1. /\ worker.at = "connect" /\ UNCHANGED <<listener, client_dc, dcs>> /\ worker'.dc = worker.dc
        /\ worker'.at = (IF client_dc = None THEN "assign" ELSE "abort")
    BY <1>1, <1>14 DEF asyncConnectData, At, Goto
  <2>2. /\ worker.dc \in DOMAIN dcs /\ dcs[worker.dc].kind = "retr" /\ listener.client_dc = None
        /\ client_dc # worker.dc /\ dcs[worker.dc].state = "new"
    BY <1>2, <2>1 DEF Downloading, PlacesBefore
  <2> QED
    BY <1>1, <2>1, <2>2 DEF Downloads, PlacesAfter
<1>15. CASE AbortOld
  <2>1. /\ worker.at = "abort" /\ UNCHANGED listener /\ worker'.dc = worker.dc /\ worker'.at = "assign"
        /\ client_dc' = None /\ dcs' = AbortedData
    BY <1>1, <1>15 DEF AbortOld, At, Goto
  <2>2. /\ worker.dc \in DOMAIN dcs /\ dcs[worker.dc].kind = "retr" /\ listener.client_dc = None
        /\ client_dc # worker.dc /\ dcs[worker.dc].state = "new"
    BY <1>2, <2>1 DEF Downloading, PlacesBefore
  <2>3. AbortedData[worker.dc] = dcs[worker.dc]
    BY <2>2, AbortingData DEF IInv, Known
  <2> QED
    BY <1>1, <2>1, <2>2, <2>3 DEF Downloads, PlacesAfter
<1>16. CASE Assign
  <2>1. /\ worker.at = "assign" /\ UNCHANGED <<listener, dcs, port_addr>> /\ worker'.dc = worker.dc
        /\ client_dc' = worker.dc /\ worker'.at = (IF listener.up THEN "passive" ELSE "port")
    BY <1>1, <1>16 DEF Assign, At, Goto
  <2>2. /\ worker.dc \in DOMAIN dcs /\ dcs[worker.dc].kind = "retr" /\ listener.client_dc = None
        /\ dcs[worker.dc].state = "new"
    BY <1>2, <2>1 DEF Downloading, PlacesBefore
  <2> QED
    BY <1>1, <2>1, <2>2 DEF Downloads, PlacesBefore, Held
<1>17. CASE connectData
  <2>1. /\ worker.at = "passive" /\ worker'.dc = worker.dc
        /\ worker'.at = (IF listener.accepted THEN "port" ELSE "remember")
        /\ dcs' = [dcs EXCEPT ![worker.dc] = ConnectedVia(listener, dcs[worker.dc])]
        /\ listener' = IF listener.accepted THEN NoListener ELSE listener
        /\ UNCHANGED <<client_dc, port_addr>>
    BY <1>1, <1>17 DEF connectData, At, Goto
  <2>2. /\ worker.dc \in DOMAIN dcs /\ dcs[worker.dc].kind = "retr" /\ client_dc \in {worker.dc, None}
        /\ dcs[worker.dc].state = "new" /\ listener.up /\ listener.client_dc = None
        /\ client_dc = worker.dc \/ dcs[worker.dc].forgotten
    BY <1>2, <2>1 DEF Downloading, PlacesAfter
  <2>3. ~listener.accepted => dcs'[worker.dc] = dcs[worker.dc]
    BY <1>1, <2>1, <2>2 DEF ConnectedVia
  <2>4. CASE listener.accepted
    BY <1>1, <1>4, <2>1, <2>2, <2>4 DEF Downloads, PlacesBefore
  <2>5. CASE ~listener.accepted
    BY <1>1, <2>1, <2>2, <2>3, <2>5 DEF Downloads, PlacesBefore, Held
  <2> QED
    BY <2>4, <2>5
<1>18. CASE Remember \/ connectPort
  <2>1. /\ worker.at \in {"remember", "port"} /\ UNCHANGED client_dc /\ worker'.dc = worker.dc
        /\ worker.at = "remember" => worker'.at = "port" /\ port_addr' = port_addr
        /\ worker.at = "port" => worker'.at = "write"
    BY <1>1, <1>18 DEF Remember, connectPort, At, Goto
  <2>2. /\ worker.dc \in DOMAIN dcs /\ dcs[worker.dc].kind = "retr" /\ client_dc \in {worker.dc, None}
        /\ worker.at = "remember" => listener.up
    BY <1>2, <2>1 DEF Downloading, PlacesAfter
  <2>3. worker'.at \in {"port", "write"} /\ (worker'.at = "port" => ~port_addr')
    BY <1>4, <2>1, <2>2
  <2> QED
    BY <1>1, <2>1, <2>2, <2>3 DEF Downloads, PlacesBefore
<1>19. CASE WriteCloses \/ WriteFails
  <2>1. /\ worker.at \in {"write", "failed"} /\ client_dc' \in {client_dc, None} /\ worker'.dc = worker.dc
        /\ worker'.at \in {"write", "failed"}
    BY <1>1, <1>19 DEF WriteCloses, WriteFails, At, Goto
  <2>2. worker.dc \in DOMAIN dcs /\ dcs[worker.dc].kind = "retr" /\ client_dc \in {worker.dc, None}
    BY <1>2, <2>1 DEF Downloading, PlacesAfter
  <2> QED
    BY <1>1, <2>1, <2>2 DEF Downloads, PlacesBefore
<1>20. CASE closedData
  <2>1. /\ client_dc' = None /\ UNCHANGED <<listener, worker, port_addr>> /\ main.at \in {"closed", "ended"}
    BY <1>20 DEF closedData
  <2>2. \A n \in DOMAIN dcs : /\ dcs'[n].state = dcs[n].state
                              /\ n = client_dc => n = main.dc \/ dcs'[n].forgotten
    BY <1>20, Forgetting DEF IInv
  <2>3. dcs[main.dc].state = "closed"
    BY <2>1 DEF IInv, Known, Closing
  <2>4. CASE Downloading
    <3>1. worker.dc \in DOMAIN dcs /\ dcs[worker.dc].state = "new"
             /\ (client_dc = worker.dc \/ dcs[worker.dc].forgotten) => dcs'[worker.dc].forgotten
      BY <1>1, <2>2, <2>3
    <3> QED
      BY <1>1, <1>2, <2>1, <2>2, <2>4, <3>1 DEF Downloads, Downloading, Held
  <2>5. CASE ~Downloading
    BY <1>5, <2>1, <2>5 DEF Downloading
  <2> QED
    BY <2>4, <2>5
<1> QED
  BY <1>7, <1>8, <1>9, <1>10, <1>11, <1>12, <1>13, <1>14, <1>15, <1>16, <1>17, <1>18, <1>19, <1>20
     DEF Next, Work, Main, Client

LEMMA IInvInit == Init => IInv
<1> SUFFICES ASSUME Init PROVE IInv
  OBVIOUS
<1>1. /\ <<>> \in Seq(Task) /\ <<>> \in Seq(Chan) /\ <<>> \in Seq(Transfers)
      /\ Len(<<>>) = 0 /\ DOMAIN <<>> = {} /\ 0 \in 0..MaxCommands
      /\ 0 <= MaxTransfers
  BY BoundsAssumption
<1>2. Types
  BY <1>1 DEF Init, Types, Control, Listener, NoListener, Idle, Places, MainPlaces
<1>3. Threads
  BY <1>1 DEF Init, Threads, First, OnlyFirst, Beginning, Downloading, PlacesBefore, PlacesAfter, Idle
<1>4. Finishing /\ Known /\ Downloads
  BY <1>1 DEF Init, Finishing, FinishIn, Known, OneTransfer, NoListener, First, Beginning, Closing, Downloads,
     Downloading, PlacesBefore, PlacesAfter, Idle
<1> QED
  BY <1>2, <1>3, <1>4 DEF IInv

THEOREM Invariance == Spec => []IInv
<1>1. IInv /\ [Next]_vars => IInv'
  BY TypesNext, ThreadsNext, FinishingNext, KnownNext, DownloadsNext DEF IInv
<1> QED
  BY <1>1, IInvInit, PTL DEF Spec

-----------------------------------------------------------------------------
(* What the invariant says.                                                *)

\* Every variable has its type, whatever the transfers do.
THEOREM TypeCorrect == Spec => []TypeOK
<1>1. IInv => TypeOK
  <2> SUFFICES ASSUME IInv PROVE TypeOK
    OBVIOUS
  <2>1. dcs \in Seq(ChannelType)
    <3>1. Chan \subseteq ChannelType
      BY DEF Chan
    <3> QED
      BY <3>1 DEF IInv, Types
  <2>2. DOMAIN dcs \subseteq Transfers
    BY BoundsAssumption DEF IInv, Types, Transfers
  <2> QED
    BY <2>1, <2>2 DEF IInv, Types, TypeOK, ChannelType, Control, Listener, Task, MainPlaces
<1> QED
  BY <1>1, Invariance, PTL

\* A data channel with a socket is the one the control channel knows and can
\* abort, unless closedData() of the channel before has made it forget that one:
\* asyncConnectData() aborts the one before, whoever calls it, and its steps in
\* the worker leave no other channel open, whatever the main loop does between.
THEOREM OneAtATime == Spec => []OneTransfer
<1>1. IInv => OneTransfer
  BY DEF IInv, Known
<1> QED
  BY <1>1, Invariance, PTL

-----------------------------------------------------------------------------
(* The listener hands over what it has accepted.                           *)

\* A transfer the client asked for is still to be connected.
Pending == Beginning \/ thunks # <<>> \/ worker.at \in PlacesBefore
\* The channels that were answered, and the one the control channel knows.
Heard(ds) == {n \in DOMAIN ds : ds[n].answers # <<>>}
HeldOpen == client_dc # None /\ dcs[client_dc].state # "closed"
NoneForgotten == \A n \in DOMAIN dcs : ~dcs[n].forgotten

\* As long as no transfer was answered twice, and none forgotten, the client
\* waits for the one that is under way: neither PASV nor PORT comes between.
Listening ==
  /\ HeldOpen /\ dcs[client_dc].answers = <<>> => client = "waits" /\ ~Pending
  /\ Pending => client = "waits"
  /\ HeldOpen \/ Pending =>
       /\ FinishIn(control.tasks, Heard(dcs)) /\ (worker.at = "finish" => worker.dc \in Heard(dcs))
       /\ main.at = "ended" => main.dc \in Heard(dcs)
  /\ client_dc # None /\ client_dc \in Waiting(dcs) /\ listener.up =>
       listener.client_dc = client_dc /\ (listener.accepted => main.at = "accepting")
Conversation == ~ToldTwice /\ NoneForgotten /\ control.connected => Listening

LEMMA OneAnswer ==
  ASSUME NEW s \in Seq(Codes), NEW u \in Seq(Codes), Len(u) <= 1, Len(u) > Len(s)
  PROVE  s = <<>> /\ u # <<>>
<1>1. Len(s) \in Nat /\ Len(u) \in Nat /\ (s # <<>> => Len(s) # 0)
  BY EmptySeq
<1> QED
  BY <1>1

\* A control channel that is connected was so before.
LEMMA StillConnected ==
  ASSUME IInv, [Next]_vars, control'.connected
  PROVE  control.connected
<1>1. control \in Control
  BY DEF IInv, Types
<1>2. CASE UNCHANGED control
  BY <1>2
<1>3. CASE closedData
  <2>1. ASSUME NEW x \in Task, control' = Queued(control, x)
        PROVE  control.connected
    BY <1>1, <2>1, QueuedControl
  <2> QED
    BY <1>2, <1>3, <2>1, Finish DEF closedData
<1>4. ASSUME NEW n \in DOMAIN dcs, Event(n)
      PROVE  control.connected
  <2>1. PICK e \in Chan : Happens(n, e)
    BY <1>1, <1>4, Happening DEF IInv, Types, Control
  <2> QED
    BY <1>2, <2>1 DEF Happens
<1>5. CASE Commands
  BY <1>1, <1>5 DEF Commands, cmd_pasv, cmd_port, cmd_abor, cmd_quit, QueueTransfer, close, Command, Readable
<1>6. CASE PopTask \/ NoMoreTasks \/ Refuse \/ finishSTOR \/ AbortNone \/ SendFails \/ ReadRaises
  BY <1>1, <1>6 DEF PopTask, NoMoreTasks, Refuse, finishSTOR, AbortNone, SendFails, ReadRaises, WillClose, Control
<1>7. CASE \/ cmd_stor \/ StorReply \/ cmd_retr \/ RetrNothing \/ asyncConnectData \/ AbortOld \/ Assign
           \/ connectData \/ Remember \/ connectPort \/ WriteCloses \/ WriteFails \/ RetrWritten
           \/ RunThunk \/ Accept \/ AcceptedFor \/ Client \/ UNCHANGED vars
  BY <1>2, <1>7 DEF cmd_stor, StorReply, cmd_retr, RetrNothing, asyncConnectData, AbortOld, Assign, connectData,
     Remember, connectPort, WriteCloses, WriteFails, RetrWritten, RunThunk, Accept, AcceptedFor, Client, Dial,
     Leaves, vars
<1> QED
  BY <1>3, <1>4, <1>5, <1>6, <1>7 DEF Next, Work, Main

\* What a step that answers no one twice, and forgets none, leaves.
LEMMA Untwice ==
  ASSUME IInv, [Next]_vars, ~ToldTwice', NoneForgotten', control'.connected
  PROVE  /\ ~ToldTwice /\ NoneForgotten /\ control.connected
         /\ Heard(dcs) \subseteq Heard(dcs')
         /\ \A n \in DOMAIN dcs : Len(dcs'[n].answers) > Len(dcs[n].answers) =>
              n \notin Heard(dcs) /\ n \in Heard(dcs')
         /\ \A n \in Waiting(dcs) : dcs[n].answers = <<>>
         /\ \A n \in Waiting(dcs') : dcs'[n].answers = <<>>
         /\ \A n \in DOMAIN dcs : dcs[n].state = "closed" => dcs'[n].state = "closed"
<1>1. Onward(dcs, dcs') /\ dcs \in Seq(Chan)
  BY GoingOn DEF IInv, Types
<1>2. ASSUME NEW n \in DOMAIN dcs
      PROVE  /\ n \in DOMAIN dcs' /\ dcs[n] \in Chan /\ dcs'[n] \in Chan /\ Follows(dcs[n], dcs'[n])
             /\ Len(dcs[n].answers) \in Nat /\ Len(dcs'[n].answers) \in Nat /\ Len(dcs'[n].answers) <= 1
             /\ dcs[n].answers \in Seq(Codes) /\ dcs'[n].answers \in Seq(Codes)
  <2>1. n \in DOMAIN dcs' /\ dcs[n] \in Chan /\ dcs'[n] \in Chan /\ Follows(dcs[n], dcs'[n])
    BY <1>1 DEF Onward
  <2>2. /\ Len(dcs[n].answers) \in Nat /\ Len(dcs'[n].answers) \in Nat
        /\ dcs[n].answers \in Seq(Codes) /\ dcs'[n].answers \in Seq(Codes)
    BY <2>1, Typed
  <2>3. ~(Len(dcs'[n].answers) > 1)
    BY <2>1 DEF ToldTwice
  <2> QED
    BY <2>1, <2>2, <2>3
<1>3. ~ToldTwice
  <2>1. \A n \in DOMAIN dcs : Len(dcs[n].answers) <= 1
    BY <1>2 DEF Follows
  <2> QED
    BY <1>2, <2>1 DEF ToldTwice
<1>4. NoneForgotten
  BY <1>2 DEF Follows, NoneForgotten
<1>5. Heard(dcs) \subseteq Heard(dcs')
  BY <1>2 DEF Follows, Heard
<1>6. \A n \in DOMAIN dcs : Len(dcs'[n].answers) > Len(dcs[n].answers) =>
        n \notin Heard(dcs) /\ n \in Heard(dcs')
  BY <1>2, OneAnswer DEF Heard
<1>7. \A n \in Waiting(dcs) : dcs[n].answers = <<>>
  BY <1>1 DEF Waiting, Chan
<1>8. \A n \in Waiting(dcs') : dcs'[n].answers = <<>>
  BY <1>1 DEF Waiting, Chan, Onward
<1>9. \A n \in DOMAIN dcs : dcs[n].state = "closed" => dcs'[n].state = "closed"
  BY <1>1 DEF Onward
<1> QED
  BY <1>3, <1>4, <1>5, <1>6, <1>7, <1>8, <1>9, StillConnected

LEMMA ConversationNext == ASSUME IInv, Conversation, [Next]_vars PROVE Conversation'
<1> SUFFICES ASSUME ~ToldTwice', NoneForgotten', control'.connected
             PROVE  Listening'
  BY DEF Conversation
<1>1. /\ dcs \in Seq(Chan) /\ client_dc \in DOMAIN dcs \cup {None} /\ thunks \in Seq(Transfers)
      /\ listener \in Listener /\ control \in Control /\ control.tasks \in Seq(Task)
      /\ main \in [at : MainPlaces, dc : Transfers \cup {None}]
      /\ worker \in [at : Places, dc : Transfers \cup {None}] /\ None \notin DOMAIN dcs
  <2>1. None \notin DOMAIN dcs
    BY BoundsAssumption DEF IInv, Types
  <2> QED
    BY <2>1 DEF IInv, Types, Control
<1>2. /\ ~ToldTwice /\ NoneForgotten /\ control.connected
      /\ Heard(dcs) \subseteq Heard(dcs')
      /\ \A n \in DOMAIN dcs : Len(dcs'[n].answers) > Len(dcs[n].answers) =>
           n \notin Heard(dcs) /\ n \in Heard(dcs')
      /\ \A n \in Waiting(dcs) : dcs[n].answers = <<>>
      /\ \A n \in Waiting(dcs') : dcs'[n].answers = <<>>
      /\ \A n \in DOMAIN dcs : dcs[n].state = "closed" => dcs'[n].state = "closed"
  BY Untwice
<1>3. /\ HeldOpen /\ dcs[client_dc].answers = <<>> => client = "waits" /\ ~Pending
      /\ Pending => client = "waits"
      /\ HeldOpen \/ Pending =>
           /\ FinishIn(control.tasks, Heard(dcs)) /\ (worker.at = "finish" => worker.dc \in Heard(dcs))
           /\ main.at = "ended" => main.dc \in Heard(dcs)
      /\ client_dc # None /\ client_dc \in Waiting(dcs) /\ listener.up =>
           listener.client_dc = client_dc /\ (listener.accepted => main.at = "accepting")
  BY <1>2 DEF Conversation, Listening
<1>4. \A tasks, D, E : FinishIn(tasks, D) /\ D \subseteq E => FinishIn(tasks, E)
  BY DEF FinishIn
<1>5. /\ FinishIn(control.tasks, Heard(dcs)) => FinishIn(control.tasks, Heard(dcs'))
      /\ FinishIn(<<>>, Heard(dcs')) /\ ~First(<<>>)
  BY <1>2, <1>4 DEF FinishIn, First
<1>6. /\ Beginning \/ Downloading => ~control.async_mode /\ thunks = <<>>
      /\ First(control.tasks) => worker.at = "idle"
      /\ client = "ready" => thunks = <<>> /\ ~Beginning /\ ~Downloading
  BY DEF IInv, Threads
<1>7. ASSUME Command
      PROVE  /\ control.tasks = <<>> /\ worker.at = "idle" /\ thunks = <<>> /\ ~Pending
             /\ ~First(control.tasks) /\ main = Idle /\ main.at = "idle"
  BY <1>5, <1>7 DEF Command, Readable, IInv, Threads, Pending, Beginning, MainIdle, Idle, PlacesBefore
\* An upload that waits is open, and not answered.
<1>8. client_dc # None /\ client_dc \in Waiting(dcs) => HeldOpen /\ dcs[client_dc].answers = <<>>
  BY <1>2 DEF Waiting, HeldOpen
\* Steps that change nothing the client waits for.
<1>9. CASE /\ UNCHANGED <<client_dc, client, main>> /\ control'.tasks = control.tasks
           /\ listener'.up = listener.up /\ listener'.client_dc = listener.client_dc
           /\ listener'.accepted = listener.accepted
           /\ worker' = worker \/ (worker'.at = "idle" /\ worker.at \in {"idle", "opening"})
           /\ UNCHANGED thunks
           /\ \A n \in DOMAIN dcs : dcs'[n].answers = dcs[n].answers
           /\ Waiting(dcs') = Waiting(dcs)
  <2>1. Pending' <=> Pending
    BY <1>9 DEF Pending, Beginning, PlacesBefore
  <2>2. HeldOpen' => HeldOpen
    BY <1>1, <1>2, <1>9 DEF HeldOpen
  <2>3. HeldOpen' \/ Pending' =>
           /\ FinishIn(control'.tasks, Heard(dcs')) /\ (worker'.at = "finish" => worker'.dc \in Heard(dcs'))
           /\ main'.at = "ended" => main'.dc \in Heard(dcs')
    BY <1>2, <1>3, <1>5, <1>9, <2>1, <2>2
  <2>4. HeldOpen' => dcs'[client_dc].answers = dcs[client_dc].answers
    BY <1>1, <1>9, <2>2 DEF HeldOpen
  <2> QED
    BY <1>3, <1>9, <2>1, <2>2, <2>3, <2>4 DEF Listening
<1>10. CASE cmd_pasv \/ cmd_port
  <2>1. /\ Command /\ client # "waits" /\ UNCHANGED <<control, client_dc, dcs, thunks, worker, main>>
    BY <1>10 DEF cmd_pasv, cmd_port
  <2>2. ~Pending' /\ control'.tasks = <<>> /\ worker'.at = "idle" /\ main'.at = "idle"
    BY <1>7, <2>1 DEF Pending, Beginning, PlacesBefore
  <2>3. HeldOpen' => HeldOpen /\ dcs'[client_dc'].answers # <<>>
    BY <1>3, <2>1 DEF HeldOpen
  <2>4. ~(client_dc' # None /\ client_dc' \in Waiting(dcs'))
    BY <1>3, <1>8, <2>1
  <2> QED
    BY <1>5, <2>2, <2>3, <2>4 DEF Listening
<1>11. CASE cmd_quit
  <2>1. control'.tasks = control.tasks
    BY <1>1, <1>11 DEF cmd_quit, WillClose, Control
  <2> QED
    BY <1>9, <1>11, <2>1 DEF cmd_quit
<1>12. CASE cmd_abor
  <2>1. dcs' = AbortedData /\ UNCHANGED <<client_dc, control, thunks, worker>> /\ Command
    BY <1>12 DEF cmd_abor, AbortData
  <2>2. ~Pending'
    BY <1>7, <2>1 DEF Pending, Beginning, PlacesBefore
  <2>3. client_dc' # None => dcs'[client_dc'].state = "closed"
    BY <2>1, AbortingData DEF IInv, Known
  <2> QED
    BY <2>2, <2>3 DEF Listening, HeldOpen, Waiting
<1>13. CASE close
  BY <1>1, <1>13 DEF close, Control
<1>14. ASSUME NEW kind \in {"stor", "retr"}, QueueTransfer(kind)
       PROVE  Listening'
  <2> DEFINE x == [kind |-> kind, dc |-> None]
  <2>1. /\ x \in Task /\ x.kind # "finish" /\ control' = Queued(control, x) /\ client = "ready" /\ client' = "waits"
        /\ UNCHANGED <<listener, client_dc, dcs, thunks, worker, main>> /\ Command
    BY <1>14 DEF Task, QueueTransfer
  <2> HIDE DEF x
  <2>2. control'.tasks = Append(<<>>, x) /\ <<>> \in Seq(Task)
    BY <1>1, <1>7, <2>1, QueuedControl
  <2>3. FinishIn(control'.tasks, Heard(dcs')) /\ worker'.at = "idle" /\ main'.at = "idle"
    BY <1>5, <1>7, <2>1, <2>2, QueueingTask
  <2>4. HeldOpen' => HeldOpen /\ dcs'[client_dc'].answers # <<>>
    BY <1>3, <2>1 DEF HeldOpen
  <2>5. ~(client_dc' # None /\ client_dc' \in Waiting(dcs'))
    BY <1>3, <1>8, <2>1
  <2> QED
    BY <2>1, <2>3, <2>4, <2>5 DEF Listening
<1>15. CASE RunThunk
  <2>1. PICK n \in DOMAIN dcs, e \in Chan :
           /\ thunks = <<n>> /\ thunks' = <<>> /\ n # client_dc /\ n \in Waiting(dcs)
           /\ dcs' = [AbortedData EXCEPT ![n] = e]
           /\ e.state = "new" <=> ~port_addr /\ ~(listener.up /\ listener.accepted)
           /\ client_dc' = n /\ listener' = Remembering(listener, n)
    BY <1>15, RunningThunk
  <2>2. /\ AbortedData \in Seq(Chan) /\ DOMAIN AbortedData = DOMAIN dcs
        /\ \A m \in DOMAIN dcs : AbortedData[m].answers = dcs[m].answers
    BY AbortingData DEF IInv, Known
  <2>3. DOMAIN dcs' = DOMAIN dcs /\ dcs'[n] = e /\ \A m \in DOMAIN dcs : m # n => dcs'[m] = AbortedData[m]
    BY <2>1, <2>2, Replacing
  <2>4. thunks # <<>> /\ Pending /\ UNCHANGED <<control, worker, main>> /\ client' = AfterAnswers(dcs')
        /\ main.at = "idle"
    BY <1>15 DEF RunThunk, Pending, MainIdle, Idle
  <2>5. ~Pending'
    BY <1>6, <2>1, <2>4 DEF Pending, Beginning, Downloading, PlacesBefore
  <2>6. e.answers = <<>> => client' = "waits"
    <3> SUFFICES ASSUME e.answers = <<>>
                 PROVE  ~ \E m \in DOMAIN dcs : Len(dcs'[m].answers) > Len(dcs[m].answers)
      BY <1>3, <2>4 DEF AfterAnswers
    <3>1. n \notin Heard(dcs')
      BY <2>3 DEF Heard
    <3>2. ASSUME NEW m \in DOMAIN dcs, Len(dcs'[m].answers) > Len(dcs[m].answers)
          PROVE  FALSE
      <4>1. m # n
        BY <1>2, <3>1, <3>2
      <4>2. m \in Heard(dcs') /\ m \notin Heard(dcs)
        BY <1>2, <3>2
      <4> QED
        BY <2>2, <2>3, <4>1, <4>2 DEF Heard
    <3> QED
      BY <3>2
  <2>7. n \in Waiting(dcs') /\ listener'.up => listener'.client_dc = n /\ ~listener'.accepted
    BY <1>1, <2>1, <2>3 DEF Waiting, Remembering, NoListener, Listener, IInv, Known
  <2>8. client_dc' # None /\ dcs'[client_dc'].answers = <<>> => client' = "waits" /\ ~Pending'
    BY <2>1, <2>3, <2>5, <2>6
  <2>9. /\ FinishIn(control'.tasks, Heard(dcs'))
        /\ worker'.at = "finish" => worker'.dc \in Heard(dcs')
        /\ main'.at # "ended"
    BY <1>2, <1>3, <1>5, <2>4
  <2>10. client_dc' \in Waiting(dcs') /\ listener'.up =>
           listener'.client_dc = client_dc' /\ (listener'.accepted => main'.at = "accepting")
    BY <2>1, <2>7
  <2> QED
    BY <2>5, <2>8, <2>9, <2>10 DEF Listening, HeldOpen
<1>16. CASE Accept
  <2>1. /\ UNCHANGED <<control, client_dc, dcs, thunks, worker, client>> /\ main'.at = "accepting"
        /\ listener'.up = listener.up /\ listener'.client_dc = listener.client_dc
    BY <1>1, <1>16 DEF Accept, Listener
  <2>2. (HeldOpen' <=> HeldOpen) /\ (Pending' <=> Pending)
    BY <2>1 DEF HeldOpen, Pending, Beginning
  <2> QED
    BY <1>3, <2>1, <2>2 DEF Listening
<1>17. CASE AcceptedFor
  <2>0. UNCHANGED <<client_dc, thunks, control, client, worker>> /\ main'.at = "idle"
    BY <1>17 DEF AcceptedFor, Idle
  <2>1. Pending' <=> Pending
    BY <2>0 DEF Pending, Beginning
  <2>2. CASE UNCHANGED <<dcs, listener>> /\ listener.client_dc = None
    <3>1. HeldOpen' <=> HeldOpen
      BY <2>0, <2>2 DEF HeldOpen
    <3> QED
      BY <1>3, <2>0, <2>1, <2>2, <3>1 DEF Listening
  <2>3. ASSUME NEW n \in DOMAIN dcs, listener' = NoListener,
               NEW e \in Chan, dcs' = [dcs EXCEPT ![n] = e], e.answers = dcs[n].answers
        PROVE  Listening'
    <3>1. dcs'[n] = e /\ \A m \in DOMAIN dcs : m # n => dcs'[m] = dcs[m]
      BY <1>1, <2>3, Replacing
    <3>2. HeldOpen' => HeldOpen /\ dcs'[client_dc].answers = dcs[client_dc].answers
      BY <1>1, <1>2, <2>0, <2>3, <3>1 DEF HeldOpen
    <3>3. ~listener'.up
      BY <2>3 DEF NoListener
    <3> QED
      BY <1>2, <1>3, <1>5, <2>0, <2>1, <3>2, <3>3 DEF Listening
  <2> QED
    BY <1>17, <2>2, <2>3, Accepting
<1>18. CASE Dial \/ StorReply \/ NoMoreTasks \/ UNCHANGED vars
  <2>1. /\ UNCHANGED <<client_dc, client, main, listener, dcs, thunks>>
        /\ worker' = worker \/ (worker'.at = "idle" /\ worker.at \in {"idle", "opening"})
    BY <1>18 DEF Dial, StorReply, NoMoreTasks, vars, At, Return, Idle
  <2>2. control'.tasks = control.tasks
    BY <1>1, <1>18 DEF Dial, StorReply, NoMoreTasks, vars, Control
  <2> QED
    BY <1>9, <2>1, <2>2
<1>19. ASSUME NEW n \in DOMAIN dcs, NEW how \in {"eof", "reset"}, Leaves(n, how)
       PROVE  Listening'
  <2>1. /\ UNCHANGED <<client_dc, client, main, listener, control, thunks, worker>>
        /\ Open(dcs[n])
    BY <1>19 DEF Leaves
  <2>2. PICK e \in Chan : /\ dcs' = [dcs EXCEPT ![n] = e] /\ Follows(dcs[n], e)
                          /\ e.state = dcs[n].state /\ e.answers = dcs[n].answers
    BY <1>19, Leaving
  <2>3. DOMAIN dcs' = DOMAIN dcs /\ dcs'[n] = e /\ \A m \in DOMAIN dcs : m # n => dcs'[m] = dcs[m]
    BY <1>1, <2>2, Replacing
  <2>4. \A m \in DOMAIN dcs : /\ dcs'[m].answers = dcs[m].answers
                             /\ dcs'[m].kind = dcs[m].kind /\ dcs'[m].state = dcs[m].state
    BY <2>2, <2>3 DEF Follows
  <2>5. Waiting(dcs') = Waiting(dcs)
    BY <2>3, <2>4 DEF Waiting
  <2> QED
    BY <1>9, <2>1, <2>4, <2>5
\* What happens to the channel at hand when nothing new is about to begin.
<1>20. ASSUME NEW n \in DOMAIN dcs, Event(n)
       PROVE  Listening'
  <2>1. PICK e \in Chan : Happens(n, e)
    BY <1>1, <1>20, Happening DEF Control
  <2>2. /\ Open(dcs[n]) /\ dcs' = [dcs EXCEPT ![n] = e] /\ Follows(dcs[n], e)
        /\ client' = AfterAnswers(dcs') /\ e.state # "new"
        /\ UNCHANGED <<control, listener, thunks, worker, client_dc>> /\ main.at = "idle"
        /\ e.state # "closed" => main' = main
    BY <2>1 DEF Happens, Becomes, MainIdle, Idle
  <2>3. DOMAIN dcs' = DOMAIN dcs /\ dcs'[n] = e /\ \A m \in DOMAIN dcs : m # n => dcs'[m] = dcs[m]
    BY <1>1, <2>2, Replacing
  <2>4. client_dc = n /\ HeldOpen
    <3>1. client_dc = n
      BY <1>2, <2>2 DEF NoneForgotten, IInv, Known, OneTransfer
    <3> QED
      BY <1>1, <2>2, <3>1 DEF HeldOpen, Open
  <2>5. ASSUME n \in Heard(dcs) \/ e.answers = <<>>
        PROVE  client' = client
    <3>1. ASSUME NEW m \in DOMAIN dcs, Len(dcs'[m].answers) > Len(dcs[m].answers)
          PROVE  FALSE
      <4>1. m \in Heard(dcs') /\ m \notin Heard(dcs)
        BY <1>2, <3>1
      <4>2. m = n
        BY <2>3, <4>1 DEF Heard
      <4> QED
        BY <2>3, <2>5, <4>1, <4>2 DEF Heard
    <3> QED
      BY <2>2, <3>1 DEF AfterAnswers
  <2>6. Pending' <=> Pending
    BY <2>2 DEF Pending, Beginning
  <2>7. Pending => n \in Heard(dcs) /\ n \in Heard(dcs')
    BY <1>2, <1>3, <2>4 DEF Heard
  <2>8. HeldOpen' /\ dcs'[client_dc'].answers = <<>> => client' = "waits" /\ ~Pending'
    <3> SUFFICES ASSUME dcs'[client_dc'].answers = <<>>
                 PROVE  client' = "waits" /\ ~Pending'
      OBVIOUS
    <3>1. e.answers = <<>> /\ dcs[n].answers = <<>>
      BY <2>2, <2>3, <2>4 DEF Follows
    <3> QED
      BY <1>3, <2>4, <2>5, <2>6, <3>1
  <2>9. Pending' => client' = "waits"
    BY <1>3, <2>5, <2>6, <2>7
  <2>10. HeldOpen' \/ Pending' =>
           /\ FinishIn(control'.tasks, Heard(dcs')) /\ (worker'.at = "finish" => worker'.dc \in Heard(dcs'))
           /\ main'.at = "ended" => main'.dc \in Heard(dcs')
    <3>1. FinishIn(control.tasks, Heard(dcs')) /\ (worker.at = "finish" => worker.dc \in Heard(dcs'))
      BY <1>2, <1>3, <1>5, <2>4
    <3>2. HeldOpen' => main'.at = "idle"
      BY <2>2, <2>3, <2>4 DEF HeldOpen
    <3>3. main'.at = "ended" => main'.dc = n
      BY <2>1, <2>2 DEF Happens
    <3> QED
      BY <2>2, <2>6, <2>7, <3>1, <3>2, <3>3
  <2>11. client_dc' \notin Waiting(dcs')
    BY <2>2, <2>3, <2>4 DEF Waiting
  <2> QED
    BY <2>8, <2>9, <2>10, <2>11 DEF Listening
<1>21. CASE closedData
  <2>1. /\ client_dc' = None /\ main' = Idle /\ UNCHANGED <<listener, thunks, worker, client>>
    BY <1>21 DEF closedData
  <2>2. \/ control'.tasks = control.tasks
        \/ /\ FinishIn(control.tasks, Heard(dcs')) /\ main.dc \in Heard(dcs') => FinishIn(control'.tasks, Heard(dcs'))
           /\ main.at = "ended" /\ (First(control'.tasks) => First(control.tasks))
    <3>1. CASE UNCHANGED control
      BY <3>1
    <3>2. ASSUME main.at = "ended", NEW x \in Task, x.kind = "finish", x.dc = main.dc, control' = Queued(control, x)
          PROVE  /\ FinishIn(control.tasks, Heard(dcs')) /\ main.dc \in Heard(dcs') => FinishIn(control'.tasks, Heard(dcs'))
                 /\ First(control'.tasks) => First(control.tasks)
      <4> DEFINE us == Append(control.tasks, x)
      <4>1. control'.tasks = us
        BY <1>1, <3>2, QueuedControl
      <4>2. us = Append(control.tasks, x) /\ control.tasks \in Seq(Task)
        BY <1>1
      <4> HIDE DEF us
      <4>3. /\ First(us) <=> First(control.tasks) \/ (control.tasks = <<>> /\ x.kind # "finish")
            /\ FinishIn(control.tasks, Heard(dcs')) /\ (x.kind = "finish" => x.dc \in Heard(dcs')) => FinishIn(us, Heard(dcs'))
        BY <4>2, QueueingTask, ZenonT(30)
      <4> QED
        BY <3>2, <4>1, <4>3
    <3> QED
      BY <1>21, <3>1, <3>2, Finish DEF closedData
  <2>3. Pending' => Pending
    BY <2>1, <2>2 DEF Pending, Beginning
  <2>4. Pending => FinishIn(control.tasks, Heard(dcs')) /\ (main.at = "ended" => main.dc \in Heard(dcs'))
                   /\ (worker.at = "finish" => worker.dc \in Heard(dcs'))
    BY <1>2, <1>3, <1>5
  <2>5. ~HeldOpen' /\ main'.at = "idle"
    BY <2>1 DEF HeldOpen, Idle
  <2>6. Pending' => FinishIn(control'.tasks, Heard(dcs'))
    BY <2>2, <2>3, <2>4
  <2> QED
    BY <1>3, <2>1, <2>3, <2>4, <2>5, <2>6 DEF Listening
<1>22. CASE PopTask
  <2>1. /\ control'.tasks = Tail(control.tasks) /\ control.tasks # <<>>
        /\ worker' = [at |-> Head(control.tasks).kind, dc |-> Head(control.tasks).dc]
        /\ UNCHANGED <<listener, client_dc, dcs, thunks, main, client>>
    BY <1>1, <1>22 DEF PopTask, Control
  <2>2. /\ ~First(control'.tasks) /\ Head(control.tasks) \in Task /\ Head(control.tasks) = control.tasks[1]
        /\ FinishIn(control.tasks, Heard(dcs)) =>
             /\ FinishIn(control'.tasks, Heard(dcs))
             /\ Head(control.tasks).kind = "finish" => Head(control.tasks).dc \in Heard(dcs)
    BY <1>1, <2>1, PoppingTask DEF IInv, Threads
  <2>3. Pending' => Pending
    BY <2>1, <2>2 DEF Pending, Beginning, First, Task, PlacesBefore
  <2>4. HeldOpen' <=> HeldOpen
    BY <2>1 DEF HeldOpen
  <2>5. HeldOpen' \/ Pending' =>
          /\ FinishIn(control'.tasks, Heard(dcs')) /\ (worker'.at = "finish" => worker'.dc \in Heard(dcs'))
          /\ main'.at = "ended" => main'.dc \in Heard(dcs')
    BY <1>3, <2>1, <2>2, <2>3, <2>4
  <2> QED
    BY <1>3, <2>1, <2>3, <2>4, <2>5 DEF Listening
\* A transfer begins: the one before, if any, is answered.
<1>23. ASSUME Pending, UNCHANGED <<client_dc, main>>, control'.tasks = control.tasks, worker'.at # "finish",
              Pending' => client' = "waits",
              \A n \in DOMAIN dcs : dcs'[n] = dcs[n], DOMAIN dcs \subseteq DOMAIN dcs'
       PROVE  Listening'
  <2>1. HeldOpen' => HeldOpen /\ dcs'[client_dc].answers # <<>>
    BY <1>1, <1>3, <1>23 DEF HeldOpen
  <2>2. FinishIn(control'.tasks, Heard(dcs')) /\ (main'.at = "ended" => main'.dc \in Heard(dcs'))
    BY <1>2, <1>3, <1>5, <1>23
  <2>3. client_dc' # None => client_dc' \notin Waiting(dcs')
    BY <1>1, <1>3, <1>8, <1>23 DEF Waiting
  <2> QED
    BY <1>23, <2>1, <2>2, <2>3 DEF Listening
<1>24. CASE Refuse \/ RetrNothing \/ cmd_stor \/ cmd_retr
  <2>1. /\ Beginning /\ UNCHANGED <<client_dc, main>> /\ worker'.at \in {"idle", "opening", "connect"}
        /\ control' \in {control, WillClose(control)}
    BY <1>24 DEF Refuse, RetrNothing, cmd_stor, cmd_retr, Beginning, At, Return, Idle
  <2>2. control'.tasks = control.tasks
    BY <1>1, <2>1 DEF WillClose, Control
  <2>3. ~First(control.tasks) /\ thunks = <<>> /\ client = "waits" /\ Pending
    BY <1>3, <1>6, <1>24, <2>1 DEF Refuse, RetrNothing, cmd_stor, cmd_retr, At, Pending
  <2>4. Pending' => client' = "waits"
    <3>1. CASE Refuse
      BY <2>1, <2>2, <2>3, <3>1 DEF Refuse, Pending, Beginning, Return, Idle, PlacesBefore
    <3>2. CASE ~Refuse
      BY <1>24, <2>3, <3>2 DEF RetrNothing, cmd_stor, cmd_retr
    <3> QED
      BY <3>1, <3>2
  <2>5. \A n \in DOMAIN dcs : dcs'[n] = dcs[n]
    <3>1. CASE Refuse
      BY <3>1 DEF Refuse
    <3>2. CASE ~Refuse
      <4>1. PICK e \in Chan : dcs' = Append(dcs, e)
        BY <1>24, <3>2, NewChan DEF RetrNothing, cmd_stor, cmd_retr
      <4> QED
        BY <1>1, <4>1, Appending
    <3> QED
      BY <3>1, <3>2
  <2>6. DOMAIN dcs \subseteq DOMAIN dcs'
    BY GoingOn DEF Onward
  <2> QED
    BY <1>23, <2>1, <2>2, <2>3, <2>4, <2>5, <2>6
<1>25. CASE finishSTOR
  <2>1. PICK e \in Chan : WorkerMakes(dcs[worker.dc], e)
    BY <1>25, Working DEF Works
  <2>2. /\ worker.dc \in DOMAIN dcs /\ dcs' = [dcs EXCEPT ![worker.dc] = e]
        /\ Len(e.answers) = Len(dcs[worker.dc].answers) + 1
    BY <1>2, <1>25, <2>1 DEF WorkerMakes, Replies
  <2>3. dcs'[worker.dc] = e /\ dcs[worker.dc] \in Chan
    BY <1>1, <2>2, Replacing
  <2>4. Len(e.answers) > Len(dcs[worker.dc].answers)
    BY <2>2, <2>3, Typed
  <2>5. worker.dc \notin Heard(dcs) /\ worker.at = "finish"
    BY <1>2, <1>25, <2>2, <2>3, <2>4 DEF finishSTOR, At
  <2>6. ~HeldOpen /\ ~Pending
    BY <1>3, <2>5
  <2>7. /\ UNCHANGED <<client_dc, thunks>> /\ worker'.at = "idle"
        /\ control' \in {control, WillClose(control)}
    BY <1>25 DEF finishSTOR, Return, Idle
  <2>8. control'.tasks = control.tasks
    BY <1>1, <2>7 DEF WillClose, Control
  <2>9. ~HeldOpen' /\ ~Pending'
    BY <1>1, <1>2, <2>6, <2>7, <2>8 DEF HeldOpen, Pending, Beginning, PlacesBefore
  <2>10. client_dc' # None => client_dc' \notin Waiting(dcs')
    BY <2>9 DEF HeldOpen, Waiting
  <2> QED
    BY <2>9, <2>10 DEF Listening
\* asyncConnectData() of a download.
<1>26. CASE asyncConnectData \/ AbortOld
  <2>1. /\ worker.at \in PlacesBefore /\ worker'.at \in PlacesBefore
        /\ UNCHANGED <<control, thunks, client, main, listener>>
    BY <1>1, <1>26 DEF asyncConnectData, AbortOld, At, Goto, PlacesBefore
  <2>2. Pending /\ Pending'
    BY <2>1 DEF Pending
  <2>3. FinishIn(control'.tasks, Heard(dcs')) /\ (main'.at = "ended" => main'.dc \in Heard(dcs'))
        /\ client' = "waits" /\ worker'.at # "finish"
    BY <1>2, <1>3, <1>5, <2>1, <2>2 DEF PlacesBefore
  <2>4. CASE AbortOld
    BY <2>3, <2>4 DEF AbortOld, Listening, HeldOpen
  <2>5. CASE asyncConnectData
    <3>1. UNCHANGED <<dcs, client_dc>>
      BY <2>5 DEF asyncConnectData
    <3> QED
      BY <1>23, <2>1, <2>2, <2>3, <3>1
  <2> QED
    BY <1>26, <2>4, <2>5
<1>27. CASE AbortNone
  <2>1. /\ worker.at = "abort" /\ worker'.at = "idle" /\ client_dc = None
        /\ UNCHANGED <<client_dc, thunks>> /\ control' = WillClose(control)
    BY <1>27 DEF AbortNone, At, Return, Idle
  <2>2. control'.tasks = control.tasks /\ ~First(control.tasks) /\ thunks = <<>>
    BY <1>1, <1>6, <2>1 DEF WillClose, Control, Downloading, PlacesBefore
  <2>3. ~Pending' /\ client_dc' = None
    BY <2>1, <2>2 DEF Pending, Beginning, PlacesBefore
  <2> QED
    BY <2>3 DEF Listening, HeldOpen
<1>28. CASE Assign
  <2>1. /\ worker.at = "assign" /\ client_dc' = worker.dc /\ worker'.at \in {"passive", "port"}
        /\ UNCHANGED <<control, thunks, client, dcs, main>>
    BY <1>1, <1>28 DEF Assign, At, Goto
  <2>2. Pending /\ thunks = <<>> /\ ~First(control.tasks)
    BY <1>6, <2>1 DEF Pending, Downloading, PlacesBefore
  <2>3. ~Pending' /\ client' = "waits"
    BY <1>3, <2>1, <2>2 DEF Pending, Beginning, PlacesBefore
  <2>4. FinishIn(control'.tasks, Heard(dcs')) /\ (main'.at = "ended" => main'.dc \in Heard(dcs'))
    BY <1>3, <2>1, <2>2
  <2>5. worker.dc \notin Waiting(dcs')
    <3>1. dcs[worker.dc].kind = "retr"
      BY <2>1 DEF IInv, Downloads, Downloading, PlacesBefore
    <3> QED
      BY <2>1, <3>1 DEF Waiting
  <2> QED
    BY <2>1, <2>3, <2>4, <2>5 DEF Listening
\* A download under way.
<1>29. CASE connectData \/ Remember \/ connectPort \/ WriteCloses \/ WriteFails \/ SendFails \/ ReadRaises
            \/ RetrWritten
  <2>1. /\ worker.at \in PlacesAfter
        /\ worker'.at \in {"idle", "remember", "port", "write", "failed"}
        /\ client_dc' \in {client_dc, None}
        /\ UNCHANGED <<thunks, main>> /\ control' \in {control, WillClose(control)}
    BY <1>1, <1>29 DEF connectData, Remember, connectPort, WriteCloses, WriteFails, SendFails, ReadRaises, RetrWritten,
       At, Goto, Return, Idle, PlacesAfter
  <2>2. control'.tasks = control.tasks
    BY <1>1, <2>1 DEF WillClose, Control
  <2>3. /\ worker.dc \in DOMAIN dcs /\ dcs[worker.dc].kind = "retr" /\ client_dc \in {worker.dc, None}
        /\ thunks = <<>> /\ ~First(control.tasks)
    BY <1>6, <2>1 DEF IInv, Downloads, Downloading, PlacesAfter
  <2>4. ~Pending'
    BY <2>1, <2>2, <2>3 DEF Pending, Beginning, PlacesBefore
  <2>5. worker.dc \in DOMAIN dcs' /\ dcs'[worker.dc].kind = "retr" /\ Follows(dcs[worker.dc], dcs'[worker.dc])
    BY <2>3, GoingOn DEF Onward, Follows
  <2>6. ASSUME dcs'[worker.dc].answers = <<>>, ~WriteCloses
        PROVE  client' = client
    <3>1. CASE connectData \/ Remember \/ SendFails \/ RetrWritten
      BY <3>1 DEF connectData, Remember, SendFails, RetrWritten
    <3>2. CASE connectPort \/ WriteFails \/ ReadRaises
      <4>1. PICK e \in Chan : WorkerMakes(dcs[worker.dc], e)
        BY <3>2, Working DEF Works
      <4>2. dcs'[worker.dc] = e /\ \A m \in DOMAIN dcs : m # worker.dc => dcs'[m] = dcs[m]
        BY <1>1, <4>1, Replacing DEF WorkerMakes
      <4>3. ~(WriteFails \/ ReadRaises)
        <5>1. dcs[worker.dc] \in Chan /\ Len(dcs[worker.dc].answers) \in Nat /\ Len(<<>>) = 0
          BY <1>1, <2>3, Typed
        <5>2. Replies => Len(<<>>) = Len(dcs[worker.dc].answers) + 1
          BY <2>6, <4>1, <4>2 DEF WorkerMakes
        <5> QED
          BY <5>1, <5>2 DEF Replies
      <4>4. ASSUME NEW m \in DOMAIN dcs, Len(dcs'[m].answers) > Len(dcs[m].answers)
            PROVE  FALSE
        <5>1. m \in Heard(dcs') /\ m \notin Heard(dcs)
          BY <1>2, <4>4
        <5> QED
          BY <2>6, <4>2, <5>1 DEF Heard
      <4>5. client' = AfterAnswers(dcs')
        BY <3>2, <4>3 DEF connectPort
      <4> QED
        BY <4>4, <4>5 DEF AfterAnswers
    <3> QED
      BY <1>29, <2>6, <3>1, <3>2
  <2>7. WriteCloses => client_dc' = None
    BY DEF WriteCloses
  <2>8. HeldOpen' => HeldOpen /\ ~WriteCloses /\ client_dc = worker.dc /\ client_dc' = worker.dc
    BY <1>2, <2>1, <2>3, <2>7 DEF HeldOpen
  <2>9. HeldOpen' /\ dcs'[client_dc'].answers = <<>> => client' = "waits"
    <3> SUFFICES ASSUME HeldOpen', dcs'[worker.dc].answers = <<>>
                 PROVE  client' = "waits"
      BY <2>8
    <3>1. dcs[client_dc].answers = <<>>
      BY <2>5, <2>8 DEF Follows
    <3> QED
      BY <1>3, <2>6, <2>8, <3>1
  <2>10. HeldOpen' => /\ FinishIn(control'.tasks, Heard(dcs'))
                      /\ main'.at = "ended" => main'.dc \in Heard(dcs')
    BY <1>2, <1>3, <1>5, <2>1, <2>2, <2>8
  <2>11. client_dc' # None => client_dc' \notin Waiting(dcs')
    BY <2>1, <2>3, <2>5 DEF Waiting
  <2> QED
    BY <2>1, <2>4, <2>9, <2>10, <2>11 DEF Listening
<1> QED
  BY <1>10, <1>11, <1>12, <1>13, <1>14, <1>15, <1>16, <1>17, <1>18, <1>19, <1>20, <1>21, <1>22, <1>24,
     <1>25, <1>26, <1>27, <1>28, <1>29 DEF Next, Work, Main, Commands, Client

\* An upload never waits for a connection that the listener has accepted and
\* keeps, unless a client was told twice of the end of a transfer, or a channel
\* forgotten by closedData() of the one before: the listener that the upload
\* waits for knows its channel, and hands over what it accepts.
THEOREM HandedOverAlways == Spec => []HandedOver
<1>1. Init => Conversation
  <2> SUFFICES ASSUME Init PROVE Listening
    BY DEF Conversation
  <2>1. client_dc = None /\ ~Pending
    BY DEF Init, Pending, Beginning, First, Idle, PlacesBefore
  <2> QED
    BY <2>1 DEF Listening, HeldOpen
<1>2. IInv /\ Conversation /\ [Next]_vars => Conversation'
  BY ConversationNext
<1>3. IInv /\ Conversation => HandedOver
  <2> SUFFICES ASSUME IInv, Conversation, MainIdle, client_dc # None, ~ToldTwice, NoneForgotten,
                      dcs[client_dc].kind = "stor", dcs[client_dc].state = "new",
                      listener.up, listener.accepted
               PROVE  FALSE
    BY DEF HandedOver, NoneForgotten
  <2>1. control.connected
    BY DEF IInv, Known
  <2>2. client_dc \in Waiting(dcs)
    BY DEF IInv, Types, Waiting
  <2> QED
    BY <2>1, <2>2 DEF Conversation, Listening, MainIdle, Idle
<1> QED
  BY <1>1, <1>2, <1>3, Invariance, PTL DEF Spec
=============================================================================
