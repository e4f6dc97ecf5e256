------------------------ MODULE FTPServerChannelProofs ------------------------
(* Proofs about FTPServerChannel, for any scripts of the client, accepted   *)
(* credentials and bounds: whose credentials open the file system, that the *)
(* position of a REST is used once, that the replies come in the order of   *)
(* the commands, and that the working directory is normalized.              *)
EXTENDS FTPServerChannel, SequenceTheorems, NaturalsInduction, WellFoundedInduction, TLAPS

-----------------------------------------------------------------------------
(* The commands.                                                           *)

Keys == {"credentials", "authenticated", "restart_position"}
\* What no command but PASS and RETR does to the session: it never logs in, it
\* keeps the credentials, and only REST sets a new position.
Sound(o, s) ==
  /\ {"session", "codes", "closes", "opens"} \subseteq DOMAIN o
  /\ Keys \subseteq DOMAIN o.session
  /\ o.session.credentials = s.credentials
  /\ o.session.authenticated \in {FALSE, s.authenticated}
  /\ o.session.restart_position \in {0, s.restart_position, lines + 1}
  /\ o.opens \in BOOLEAN

\* The position is as it was.
Unmoved(o, s) == o.session.restart_position = s.restart_position

\* t is a session with what matters here of s.
Same(t, s) ==
  /\ Keys \subseteq DOMAIN t /\ t.credentials = s.credentials
  /\ t.authenticated = s.authenticated /\ t.restart_position = s.restart_position

LEMMA OutcomeSound ==
  ASSUME NEW s, NEW t, Same(t, s), NEW c
  PROVE  /\ Sound(Outcome(t, c), s) /\ Unmoved(Outcome(t, c), s) /\ ~Outcome(t, c).opens
         /\ Outcome(t, c).session = t
  BY DEF Same, Sound, Unmoved, Outcome, Keys

LEMMA RaisedSound ==
  ASSUME NEW s, Same(s, s), NEW o \in Raised(s)
  PROVE  Sound(o, s) /\ Unmoved(o, s) /\ ~o.opens /\ o.session = s
<1> DEFINE e == Outcome(s, "INTERNAL_ERROR")
<1>1. /\ {"session", "codes", "closes", "opens"} \subseteq DOMAIN e
      /\ e.session = s /\ e.opens = FALSE
  BY DEF Outcome
<1> HIDE DEF e
<1>2. /\ {"session", "codes", "closes", "opens"} \subseteq DOMAIN o
      /\ o.session = s /\ o.opens = FALSE
  <2>1. CASE o = [e EXCEPT !.closes = TRUE]
    BY <1>1, <2>1
  <2>2. CASE o = [[e EXCEPT !.closes = TRUE] EXCEPT !.codes = <<>>]
    BY <1>1, <2>2
  <2> QED
    BY <2>1, <2>2 DEF Raised, SocketError, Exception, Closing, e
<1> QED
  BY <1>2 DEF Same, Sound, Unmoved

LEMMA OpeningSound ==
  ASSUME NEW s, NEW O, \A o \in O : Sound(o, s) /\ Unmoved(o, s), NEW p \in Opening(O)
  PROVE  Sound(p, s) /\ Unmoved(p, s)
<1>1. PICK o \in O : p = [o EXCEPT !.opens = TRUE]
  BY DEF Opening
<1>2. {"session", "codes", "closes", "opens"} \subseteq DOMAIN o
  BY DEF Sound
<1>3. /\ {"session", "codes", "closes", "opens"} \subseteq DOMAIN p
      /\ p.session = o.session /\ p.opens = TRUE
  BY <1>1, <1>2
<1> QED
  BY <1>3 DEF Sound, Unmoved

\* What a command that the worker runs makes of its session.
LEMMA WhetherSound ==
  ASSUME NEW s, Same(s, s), NEW t, Same(t, s), NEW done, NEW not, NEW o \in Whether(s, t, done, not)
  PROVE  Sound(o, s) /\ Unmoved(o, s)
<1>1. \A p \in {Outcome(t, done), Outcome(s, not)} \cup Raised(s) : Sound(p, s) /\ Unmoved(p, s)
  BY OutcomeSound, RaisedSound
<1> QED
  BY <1>1, OpeningSound DEF Whether

LEMMA ChangeSound ==
  ASSUME NEW s, Same(s, s), NEW args, NEW done, NEW error,
         NEW o \in Change(args, s, done, error)
  PROVE  Sound(o, s) /\ Unmoved(o, s)
<1>1. \A p \in {Outcome(s, done), Outcome(s, error), Exception(s), Outcome(s, "ERR_ARGS")} :
        Sound(p, s) /\ Unmoved(p, s)
  BY OutcomeSound, RaisedSound DEF Raised
<1>2. CASE args = <<>>
  BY <1>1, <1>2 DEF Change
<1>3. CASE args # <<>>
  BY <1>1, <1>3, OpeningSound DEF Change
<1> QED
  BY <1>2, <1>3

\* A change of another attribute.
LEMMA OtherKept ==
  ASSUME NEW s, Same(s, s), NEW x
  PROVE  /\ Same([s EXCEPT !.cwd = x], s) /\ Same([s EXCEPT !._rnfr = x], s)
         /\ Same([s EXCEPT !.username = x], s) /\ Same([s EXCEPT !.transfer_mode = x], s)
  BY DEF Same, Keys

LEMMA ServiceSound ==
  ASSUME NEW s, Same(s, s), NEW args,
         NEW method \in thread_commands \ {"pass", "retr"}, NEW o \in Run(method, args, s)
  PROVE  Sound(o, s) /\ Unmoved(o, s)
<1>1. CASE method = "cdup"
  <2>1. o \in cmd_cdup(args, s)
    BY <1>1 DEF Run
  <2> QED
    BY <2>1, OtherKept, WhetherSound DEF cmd_cdup
<1>2. CASE method = "cwd"
  <2>1. o \in cmd_cwd(args, s)
    BY <1>2 DEF Run
  <2> QED
    BY <2>1, OtherKept, WhetherSound DEF cmd_cwd
<1>3. CASE method = "size"
  BY <1>3, WhetherSound DEF Run, cmd_size
<1>4. CASE method = "mdtm"
  <2>1. o \in cmd_mdtm(args, s)
    BY <1>4 DEF Run
  <2>2. Sound(Outcome(s, "ERR_ARGS"), s) /\ Unmoved(Outcome(s, "ERR_ARGS"), s)
    BY OutcomeSound
  <2> QED
    BY <2>1, <2>2, OpeningSound, WhetherSound DEF cmd_mdtm
<1>5. CASE method \in {"dele", "mkd", "rmd"}
  BY <1>5, ChangeSound DEF Run, cmd_dele, cmd_mkd, cmd_rmd
<1>6. CASE method \in {"list", "nlst"}
  <2>1. o \in cmd_list(args, s)
    BY <1>6 DEF Run
  <2>2. \A p \in {Outcome(s, "ERR_NO_DIR_FILE"), Outcome(s, "ERR_NO_LIST")}
              \cup Raised(s) \cup {Outcome(s, "ERR_ARGS")} : Sound(p, s) /\ Unmoved(p, s)
    BY OutcomeSound, RaisedSound
  <2> QED
    BY <2>1, <2>2, OpeningSound DEF cmd_list
<1>7. CASE method = "rnfr"
  <2>1. o \in cmd_rnfr(args, s)
    BY <1>7 DEF Run
  <2> QED
    BY <2>1, OtherKept, WhetherSound DEF cmd_rnfr
<1>8. CASE method = "rnto"
  <2> DEFINE over == [s EXCEPT !._rnfr = None]
  <2>1. o \in cmd_rnto(args, s)
    BY <1>8 DEF Run
  <2>2. Same(over, s)
    BY OtherKept
  <2>3. CASE s._rnfr = None
    BY <2>1, <2>3, OutcomeSound DEF cmd_rnto
  <2>4. CASE s._rnfr # None
    <3>1. o \in Opening({Outcome(over, "SUCCESS_250"), Outcome(over, "ERR_RENAME"), Exception(s)})
      BY <2>1, <2>4 DEF cmd_rnto
    <3> HIDE DEF over
    <3>2. \A p \in {Outcome(over, "SUCCESS_250"), Outcome(over, "ERR_RENAME")} : Sound(p, s) /\ Unmoved(p, s)
      BY <2>2, OutcomeSound
    <3>3. Sound(Exception(s), s) /\ Unmoved(Exception(s), s)
      BY RaisedSound DEF Raised
    <3> QED
      BY <3>1, <3>2, <3>3, OpeningSound
  <2> QED
    BY <2>3, <2>4
<1>9. CASE method \in {"stor", "appe"}
  <2>1. o \in cmd_stor(args, s)
    BY <1>9 DEF Run
  <2> QED
    BY <2>1, OutcomeSound, WhetherSound DEF cmd_stor
<1>10. CASE method = "stru"
  <2>1. o \in cmd_stru(args, s)
    BY <1>10 DEF Run
  <2> QED
    BY <2>1, OutcomeSound DEF cmd_stru
<1> QED
  BY <1>1, <1>2, <1>3, <1>4, <1>5, <1>6, <1>7, <1>8, <1>9, <1>10 DEF thread_commands

\* The commands of the main loop: none opens the file system, and only REST
\* moves the position, to that of its own number or to zero.
LEMMA MainSound ==
  ASSUME NEW s, Same(s, s), s.authenticated \in BOOLEAN, NEW args,
         NEW method \in main_commands, NEW o \in Run(method, args, s)
  PROVE  Sound(o, s) /\ ~o.opens
<1>1. CASE method \in {"abor", "help", "mode", "noop", "pasv", "port", "pwd", "syst"}
  <2>1. o \in Raised(s) \/ \E c : o = Outcome(s, c)
    BY <1>1 DEF Run, cmd_abor, cmd_help, cmd_mode, cmd_noop, cmd_pasv, cmd_port, cmd_pwd, cmd_syst, Raised
  <2> QED
    BY <2>1, OutcomeSound, RaisedSound
<1>2. CASE method = "quit"
  <2> DEFINE p == Outcome(s, "GOODBYE")
  <2>1. o = [p EXCEPT !.closes = TRUE]
    BY <1>2 DEF Run, cmd_quit, Closing
  <2>2. Sound(p, s) /\ ~p.opens
    BY OutcomeSound
  <2> HIDE DEF p
  <2> QED
    BY <2>1, <2>2 DEF Sound
<1>3. CASE method = "user"
  <2> DEFINE out == [s EXCEPT !.authenticated = FALSE]
  <2>1. /\ Same(out, out) /\ out.credentials = s.credentials
        /\ out.authenticated = FALSE /\ out.restart_position = s.restart_position
    BY DEF Same, Keys
  <2>2. o = Outcome(out, "ERR_ARGS") \/ o = Outcome([out EXCEPT !.username = Head(args)], "PASS_REQUIRED")
    BY <1>3 DEF Run, cmd_user
  <2> HIDE DEF out
  <2>3. Same([out EXCEPT !.username = Head(args)], out)
    BY <2>1, OtherKept
  <2>4. Sound(o, out) /\ ~o.opens
    BY <2>1, <2>2, <2>3, OutcomeSound
  <2> QED
    BY <2>1, <2>4 DEF Sound
<1>4. CASE method = "type"
  <2>1. o \in Raised(s) \/ \E t, c : o = Outcome(t, c) /\ t \in {s, [s EXCEPT !.transfer_mode = Head(args)]}
    BY <1>4 DEF Run, cmd_type, Raised
  <2>2. CASE o \in Raised(s)
    BY <2>2, RaisedSound
  <2>3. ASSUME NEW t, NEW c, o = Outcome(t, c), t \in {s, [s EXCEPT !.transfer_mode = Head(args)]}
        PROVE  Sound(o, s) /\ ~o.opens
    <3>1. Same(t, s)
      BY <2>3, OtherKept
    <3> QED
      BY <2>3, <3>1, OutcomeSound
  <2> QED
    BY <2>1, <2>2, <2>3
<1>5. CASE method = "rest"
  <2>1. PICK t, c : /\ o = Outcome(t, c)
                    /\ t \in {s, [s EXCEPT !.restart_position = 0], [s EXCEPT !.restart_position = lines + 1]}
    BY <1>5 DEF Run, cmd_rest
  <2>2. /\ Same(t, t) /\ t.credentials = s.credentials /\ t.authenticated = s.authenticated
        /\ t.restart_position \in {0, s.restart_position, lines + 1}
    BY <2>1 DEF Same, Keys
  <2>3. o = Outcome(t, c)
    BY <2>1
  <2>4. Sound(o, t) /\ ~o.opens /\ o.session = t
    BY <2>2, <2>3, OutcomeSound
  <2> QED
    BY <2>2, <2>4 DEF Sound
<1> QED
  BY <1>1, <1>2, <1>3, <1>4, <1>5 DEF main_commands

-----------------------------------------------------------------------------
(* Types.                                                                  *)

Task == [method : thread_commands, args : Seq(STRING), n : Nat]
Channel == [async_mode : BOOLEAN, will_close : BOOLEAN, connected : BOOLEAN,
            running_tasks : BOOLEAN, tasks : Seq(Task)]
WorkerKeys == {"at", "n", "args", "start", "credentials"}

Types ==
  /\ script \in Seq(Seq(Piece)) /\ input \in Seq(Piece) /\ lines \in Nat
  /\ channel \in Channel
  /\ Same(session, session) /\ session.authenticated \in BOOLEAN
  /\ session.restart_position \in Nat
  /\ WorkerKeys \subseteq DOMAIN worker /\ worker.start \in Nat
  /\ starts \in Seq(Nat)

\* The outcomes with which a command may end, in the main loop or the worker.
LEMMA EndsTypes ==
  ASSUME Types, NEW by, NEW n, NEW o, NEW s, Sound(o, s), s.authenticated \in BOOLEAN,
         s.restart_position \in Nat, Ends(by, n, o)
  PROVE  /\ Same(session, session)' /\ session.authenticated' \in BOOLEAN
         /\ session.restart_position' \in Nat /\ channel' \in Channel
         /\ channel.tasks' = channel.tasks
<1>1. Same(session, session)' /\ session.restart_position' \in Nat
  BY DEF Types, Ends, Sound, Same
<1>2. session.authenticated' \in BOOLEAN
  BY DEF Ends, Sound
<1>3. CloseWhenDone(channel) \in Channel /\ CloseWhenDone(channel).tasks = channel.tasks
  BY DEF Types, Channel, CloseWhenDone
<1>4. channel' \in Channel /\ channel.tasks' = channel.tasks
  BY <1>3 DEF Types, Ends
<1> QED
  BY <1>1, <1>2, <1>4

LEMMA InitTypes == Init => Types
<1> SUFFICES ASSUME Init PROVE Types
  OBVIOUS
<1>1. script \in Seq(Seq(Piece))
  BY ScriptsAssumption DEF Init
<1>2. input = <<>> /\ lines = 0 /\ starts = <<>> /\ worker = Out
  BY DEF Init
<1>3. channel = [async_mode |-> TRUE, will_close |-> FALSE, connected |-> TRUE,
                 running_tasks |-> FALSE, tasks |-> <<>>]
  BY DEF Init
<1>4. channel \in Channel
  BY <1>3 DEF Channel
<1>5. /\ Keys \subseteq DOMAIN session /\ session.authenticated = FALSE
      /\ session.restart_position = 0
  BY DEF Init, Keys
<1>6. WorkerKeys \subseteq DOMAIN worker /\ worker.start \in Nat
  BY <1>2 DEF Out, WorkerKeys
<1>7. input \in Seq(Piece) /\ starts \in Seq(Nat) /\ lines \in Nat
  BY <1>2
<1>8. Same(session, session)
  BY <1>5 DEF Same
<1>9. session.authenticated \in BOOLEAN
  BY <1>5
<1>10. session.restart_position \in Nat
  BY <1>5
<1> QED
  BY <1>1, <1>4, <1>6, <1>7, <1>8, <1>9, <1>10 DEF Types

\* The line that is handled, as the worker will find it.
LEMMA LineTypes ==
  ASSUME Types, Line
  PROVE  /\ input' \in Seq(Piece) /\ lines' = lines + 1 /\ lines' \in Nat
         /\ Args \in Seq(STRING)
<1>1. Head(input) \in Piece /\ Tail(input) \in Seq(Piece)
  BY DEF Types, Line
<1>2. Head(input).args \in Seq(STRING)
  BY <1>1 DEF Piece
<1>3. Args \in Seq(STRING)
  <2>1. CASE Part(Head(input))
    BY <2>1 DEF Args
  <2>2. CASE ~Part(Head(input))
    BY <1>2, <2>2 DEF Args
  <2> QED
    BY <2>1, <2>2
<1> QED
  BY <1>1, <1>3 DEF Types, Line

LEMMA MainTypes == Types /\ (Main \/ Close) => Types'
<1> SUFFICES ASSUME Types, Main \/ Close PROVE Types'
  OBVIOUS
<1>1. CASE Recv
  <2>1. script' \in Seq(Seq(Piece)) /\ input' \in Seq(Piece)
    BY <1>1 DEF Types, Recv
  <2> QED
    BY <1>1, <2>1 DEF Types, Recv, Same
<1>2. CASE PartOfLine
  <2>1. input' \in Seq(Piece)
    BY <1>2 DEF Types, PartOfLine
  <2> QED
    BY <1>2, <2>1 DEF Types, PartOfLine, Same
<1>3. CASE Reject \/ Unknown
  <2>1. Line /\ UNCHANGED <<script, channel, session, worker, starts>>
    BY <1>3 DEF Reject, Unknown
  <2> QED
    BY <2>1, LineTypes DEF Types, Same
<1>4. CASE Queue
  <2>1. Line /\ UNCHANGED <<script, session, starts>> /\ Method \in thread_commands
    BY <1>4 DEF Queue
  <2>2. channel' \in Channel
    <3> DEFINE task == [method |-> Method, args |-> Args, n |-> lines + 1]
    <3>1. task \in Task
      BY <2>1, LineTypes DEF Types, Task
    <3> HIDE DEF task
    <3>2. Append(channel.tasks, task) \in Seq(Task)
      BY <3>1 DEF Types, Channel
    <3>3. Queued(channel, task) \in Channel
      BY <3>2 DEF Types, Channel, Queued
    <3> QED
      BY <1>4, <3>3 DEF Queue, task
  <2>3. WorkerKeys \subseteq DOMAIN worker' /\ worker'.start \in Nat
    BY <1>4 DEF Queue, Types, WorkerKeys
  <2> QED
    BY <2>1, <2>2, <2>3, LineTypes DEF Types, Same
<1>5. CASE RunInMain
  <2>1. Line /\ UNCHANGED <<script, worker, starts>> /\ Method \in main_commands
    BY <1>5 DEF RunInMain
  <2>2. PICK o \in Run(Method, Args, session) : Ends("main", lines + 1, o)
    BY <1>5 DEF RunInMain
  <2>3. Sound(o, session)
    BY <2>1, MainSound DEF Types
  <2>4. /\ Same(session, session)' /\ session.authenticated' \in BOOLEAN
        /\ session.restart_position' \in Nat /\ channel' \in Channel
    BY <2>2, <2>3, EndsTypes DEF Types
  <2> QED
    BY <2>1, <2>4, LineTypes DEF Types
<1>6. CASE Close
  <2>1. channel' \in Channel
    BY <1>6 DEF Close, Types, Channel
  <2> QED
    BY <1>6, <2>1 DEF Types, Close, Same
<1> QED
  BY <1>1, <1>2, <1>3, <1>4, <1>5, <1>6 DEF Main

\* What ends a command in the worker: s is the session it leaves but for what
\* an outcome may do to it.
Ending == Service \/ LoggedIn \/ Unauthorized \/ RetrRefused \/ RetrNothing \/ Sent
EndsFrom(o, s) ==
  /\ Sound(o, s) /\ Unmoved(o, s) /\ Same(s, s) /\ Ends("worker", worker.n, o)
  /\ s.credentials = session.credentials
  /\ s.authenticated = session.authenticated \/ (LoggedIn /\ s.authenticated = TRUE)
  /\ s.restart_position = session.restart_position

\* The ways in which a transfer ends.
LEMMA NothingSound ==
  ASSUME NEW s, Same(s, s), NEW error,
         NEW o \in Nothing(s, error) \cup {Closing(Outcome(s, error))}
  PROVE  Sound(o, s) /\ Unmoved(o, s) /\ ~o.opens /\ o.session = s
<1> DEFINE e == Outcome(s, error)
<1>1. Sound(e, s) /\ Unmoved(e, s) /\ ~e.opens /\ e.session = s
  BY OutcomeSound
<1>2. CASE o = Exception(s)
  BY <1>2, RaisedSound DEF Raised
<1>3. CASE o = e
  BY <1>1, <1>3
<1> HIDE DEF e
<1>4. CASE o = [e EXCEPT !.codes = <<>>] \/ o = [e EXCEPT !.closes = TRUE]
  BY <1>1, <1>4 DEF Sound, Unmoved
<1> QED
  BY <1>2, <1>3, <1>4 DEF Nothing, Closing, e

LEMMA RefusedSound ==
  ASSUME NEW s, Same(s, s), NEW o \in Opening({Outcome(s, "ERR_IS_NOT_FILE")} \cup Raised(s)),
         NEW before
  PROVE  LET p == [o EXCEPT !.codes = before \o @] IN Sound(p, s) /\ Unmoved(p, s)
<1>1. \A q \in {Outcome(s, "ERR_IS_NOT_FILE")} \cup Raised(s) : Sound(q, s) /\ Unmoved(q, s)
  BY OutcomeSound, RaisedSound
<1>2. Sound(o, s) /\ Unmoved(o, s)
  BY <1>1, OpeningSound
<1> QED
  BY <1>2 DEF Sound, Unmoved

LEMMA WorkEnds ==
  ASSUME Types, Ending
  PROVE  /\ worker' = Idle /\ UnchangedMain
         /\ \E o, s : EndsFrom(o, s)
         /\ UNCHANGED starts
<1> DEFINE Found == \E o, s : EndsFrom(o, s)
<1>1. Same(session, session)
  BY DEF Types
<1>2. worker' = Idle /\ UnchangedMain /\ UNCHANGED starts
  BY DEF Ending, Service, LoggedIn, Unauthorized, RetrRefused, RetrNothing, Sent
<1>3. CASE Service
  <2>1. worker.at \in thread_commands \ {"pass", "retr"}
    BY <1>3 DEF Service
  <2>2. PICK o \in Run(worker.at, worker.args, session) : Ends("worker", worker.n, o)
    BY <1>3 DEF Service
  <2>3. Sound(o, session) /\ Unmoved(o, session)
    BY <1>1, <2>1, ServiceSound
  <2>4. EndsFrom(o, session)
    BY <1>1, <2>1, <2>2, <2>3 DEF EndsFrom
  <2> QED
    BY <1>2, <2>4
<1>4. CASE LoggedIn
  <2> DEFINE s == [session EXCEPT !.authenticated = TRUE]
             o == Outcome(s, "LOGIN_SUCCESS")
  <2>1. Ends("worker", worker.n, o)
    BY <1>4 DEF LoggedIn
  <2>2. /\ Same(s, s) /\ s.credentials = session.credentials /\ s.authenticated = TRUE
        /\ s.restart_position = session.restart_position
    BY <1>1 DEF Same, Keys
  <2> HIDE DEF s
  <2>3. Sound(o, s) /\ Unmoved(o, s)
    BY <2>2, OutcomeSound
  <2>4. EndsFrom(o, s)
    BY <1>4, <2>1, <2>2, <2>3 DEF EndsFrom
  <2> QED
    BY <1>2, <2>4
<1>5. CASE Unauthorized
  <2>2. PICK o : Ends("worker", worker.n, o) /\ (o \in Raised(session) \/ o = Closing(Outcome(session, "LOGIN_MISMATCH")))
    BY <1>5 DEF Unauthorized
  <2>3. Sound(o, session) /\ Unmoved(o, session)
    <3> DEFINE p == Outcome(session, "LOGIN_MISMATCH")
    <3>1. Sound(p, session) /\ Unmoved(p, session)
      BY <1>1, OutcomeSound
    <3> HIDE DEF p
    <3>2. Sound(Closing(p), session) /\ Unmoved(Closing(p), session)
      BY <3>1 DEF Closing, Sound, Unmoved
    <3> QED
      BY <1>1, <2>2, <3>2, RaisedSound DEF p
  <2>4. EndsFrom(o, session)
    BY <1>1, <2>2, <2>3 DEF EndsFrom
  <2> QED
    BY <1>2, <2>4
<1>6. CASE RetrRefused
  <2> DEFINE before == IF worker.args = <<>> THEN <<"CMD_UNKNOWN">> ELSE <<>>
  <2>2. PICK o \in Opening({Outcome(session, "ERR_IS_NOT_FILE")} \cup Raised(session)) :
          Ends("worker", worker.n, [o EXCEPT !.codes = before \o @])
    BY <1>6 DEF RetrRefused
  <2> HIDE DEF before
  <2> DEFINE p == [o EXCEPT !.codes = before \o @]
  <2>4. Sound(p, session) /\ Unmoved(p, session)
    BY <1>1, RefusedSound
  <2>5. Ends("worker", worker.n, p)
    BY <2>2
  <2> HIDE DEF p
  <2>6. EndsFrom(p, session)
    BY <1>1, <2>4, <2>5 DEF EndsFrom
  <2> QED
    BY <1>2, <2>6
<1>7. CASE RetrNothing \/ Sent
  <2>1. PICK error, o :
          /\ o \in Nothing(session, error) \cup {Closing(Outcome(session, error))}
          /\ Ends("worker", worker.n, o)
    BY <1>7 DEF RetrNothing, Sent
  <2>2. Sound(o, session) /\ Unmoved(o, session)
    BY <1>1, <2>1, NothingSound
  <2>3. EndsFrom(o, session)
    BY <1>1, <2>1, <2>2 DEF EndsFrom
  <2> QED
    BY <1>2, <2>3
<1> QED
  BY <1>3, <1>4, <1>5, <1>6, <1>7 DEF Ending

LEMMA EndingTypes ==
  ASSUME Types, NEW o, NEW s, EndsFrom(o, s)
  PROVE  /\ Same(session, session)' /\ session.authenticated' \in BOOLEAN
         /\ session.restart_position' \in Nat /\ channel' \in Channel
         /\ channel.tasks' = channel.tasks
<1>1. s.authenticated \in BOOLEAN
  BY DEF EndsFrom, Types
<1>2. s.restart_position \in Nat
  BY DEF EndsFrom, Types
<1> QED
  BY <1>1, <1>2, EndsTypes DEF EndsFrom

LEMMA WorkTypes == Types /\ Work => Types'
<1> SUFFICES ASSUME Types, Work PROVE Types'
  OBVIOUS
<1>1. CASE Ending
  <2>1. worker' = Idle /\ UnchangedMain
    BY <1>1, WorkEnds
  <2>2. PICK o, s : EndsFrom(o, s)
    BY <1>1, WorkEnds
  <2>3. /\ Same(session, session)' /\ session.authenticated' \in BOOLEAN
        /\ session.restart_position' \in Nat /\ channel' \in Channel
    BY <2>2, EndingTypes
  <2>4. WorkerKeys \subseteq DOMAIN worker' /\ worker'.start \in Nat
    BY <2>1 DEF Idle, Out, WorkerKeys
  <2>5. starts' \in Seq(Nat)
    BY <1>1, WorkEnds DEF Types
  <2> QED
    BY <2>1, <2>3, <2>4, <2>5 DEF Types, UnchangedMain
<1>2. CASE PopTask
  <2>1. Head(channel.tasks) \in Task /\ Tail(channel.tasks) \in Seq(Task)
    BY <1>2 DEF PopTask, Types, Channel
  <2>2. channel' \in Channel
    BY <1>2, <2>1 DEF PopTask, Types, Channel
  <2>3. WorkerKeys \subseteq DOMAIN worker' /\ worker'.start \in Nat
    BY <1>2 DEF PopTask, Types, WorkerKeys
  <2> QED
    BY <1>2, <2>2, <2>3 DEF PopTask, Types, UnchangedMain, Same
<1>3. CASE NoMoreTasks
  <2>1. channel' \in Channel
    BY <1>3 DEF NoMoreTasks, givenBack, Types, Channel
  <2>2. WorkerKeys \subseteq DOMAIN worker' /\ worker'.start \in Nat
    BY <1>3 DEF NoMoreTasks, Out, WorkerKeys
  <2> QED
    BY <1>3, <2>1, <2>2 DEF NoMoreTasks, Types, UnchangedMain, Same
<1>4. CASE Pass \/ Authenticated
  <2>1. /\ Same(session, session)' /\ session.authenticated' \in BOOLEAN
        /\ session.restart_position' \in Nat
    BY <1>4 DEF Pass, Authenticated, asked, Types, Same, Keys
  <2>2. WorkerKeys \subseteq DOMAIN worker' /\ worker'.start \in Nat
    BY <1>4 DEF Pass, Authenticated, Types, WorkerKeys
  <2> QED
    BY <1>4, <2>1, <2>2 DEF Pass, Authenticated, Types, UnchangedMain
<1>5. CASE Retr
  <2>1. WorkerKeys \subseteq DOMAIN worker' /\ worker'.start \in Nat
    BY <1>5 DEF Retr, Types, WorkerKeys
  <2> QED
    BY <1>5, <2>1 DEF Retr, Types, UnchangedMain, Same
<1>6. CASE Reset
  <2>1. WorkerKeys \subseteq DOMAIN worker' /\ worker'.start \in Nat /\ starts' \in Seq(Nat)
    BY <1>6 DEF Reset, Types, WorkerKeys
  <2>2. /\ Same(session, session)' /\ session.authenticated' \in BOOLEAN
        /\ session.restart_position' \in Nat
    BY <1>6 DEF Reset, positionReset, Types, Same, Keys
  <2> QED
    BY <1>6, <2>1, <2>2 DEF Reset, Types, UnchangedMain
<1>7. CASE Opens
  <2>1. WorkerKeys \subseteq DOMAIN worker' /\ worker'.start \in Nat
    BY <1>7 DEF Opens, Types, WorkerKeys
  <2> QED
    BY <1>7, <2>1 DEF Opens, Types, UnchangedMain, Same
<1> QED
  BY <1>1, <1>2, <1>3, <1>4, <1>5, <1>6, <1>7 DEF Work, Ending

LEMMA NextTypes == Types /\ [Next]_vars => Types'
<1>1. CASE UNCHANGED vars
  BY <1>1 DEF vars, Types, Same
<1> QED
  BY <1>1, MainTypes, WorkTypes DEF Next

-----------------------------------------------------------------------------
(* Who opens the file system.                                              *)

Known == session.credentials # None

\* What needs somebody who has logged in, or did: the credentials stay when
\* USER or PASS take authenticated back, so that what is queued still has them.
NeedsLogin(at) ==
  at \in (thread_commands \ {"pass"}) \cup {"reset", "readfile", "sending", "listing", "accepted"}

Login ==
  /\ opened \subseteq Accepted
  /\ session.credentials \in Credentials
  /\ session.authenticated => Known
  /\ NeedsLogin(worker.at) => Known
  /\ \A i \in 1..Len(channel.tasks) : channel.tasks[i].method # "pass" => Known

LEMMA LoginNext == Types /\ Login /\ [Next]_vars => Login'
<1> SUFFICES ASSUME Types, Login, [Next]_vars PROVE Login'
  OBVIOUS
<1> USE DEF Known, NeedsLogin
<1>1. ~NeedsLogin("idle") /\ ~NeedsLogin("out") /\ ~NeedsLogin("authenticate") /\ ~NeedsLogin("pass")
  BY DEF thread_commands
<1>2. CASE UNCHANGED <<channel, session, worker, opened>>
  BY <1>2 DEF Login
<1>3. CASE Queue
  <2>1. Permitted /\ Method \in thread_commands /\ UNCHANGED <<session, opened>>
    BY <1>3 DEF Queue
  <2>2. Method # "pass" => Known
    BY <2>1 DEF Permitted, special_commands, thread_commands, Login
  <2>3. worker'.at \in {worker.at, "idle"}
    BY <1>3 DEF Queue, Types, WorkerKeys
  <2> DEFINE task == [method |-> Method, args |-> Args, n |-> lines + 1]
  <2>4. task.method = Method
    OBVIOUS
  <2> HIDE DEF task
  <2>5. channel'.tasks = Append(channel.tasks, task)
    BY <1>3 DEF Queue, Queued, Types, Channel, task
  <2>6. channel.tasks \in Seq(Task)
    BY DEF Types, Channel
  <2>7. \A i \in 1..Len(channel'.tasks) : channel'.tasks[i].method # "pass" => Known
    BY <2>2, <2>4, <2>5, <2>6 DEF Login
  <2> QED
    BY <1>1, <2>1, <2>3, <2>7 DEF Login
<1>4. CASE RunInMain
  <2>1. UNCHANGED worker /\ Method \in main_commands
    BY <1>4 DEF RunInMain
  <2>2. PICK o \in Run(Method, Args, session) : Ends("main", lines + 1, o)
    BY <1>4 DEF RunInMain
  <2>3. Sound(o, session) /\ ~o.opens
    BY <2>1, MainSound DEF Types
  <2>4. /\ session'.credentials = session.credentials
        /\ session'.authenticated \in {FALSE, session.authenticated}
        /\ opened' = opened
    BY <2>2, <2>3 DEF Ends, Sound
  <2>5. channel'.tasks = channel.tasks
    BY <2>2, <2>3, EndsTypes DEF Types
  <2> QED
    BY <2>1, <2>4, <2>5 DEF Login
<1>5. CASE Close
  <2>1. channel'.tasks = channel.tasks /\ UNCHANGED <<session, worker, opened>>
    BY <1>5 DEF Close, Types, Channel
  <2> QED
    BY <2>1 DEF Login
<1>6. CASE PopTask
  <2>1. channel.tasks \in Seq(Task) /\ channel.tasks # <<>> /\ UNCHANGED <<session, opened>>
    BY <1>6 DEF PopTask, Types, Channel
  <2>2. channel'.tasks = Tail(channel.tasks)
    BY <1>6 DEF PopTask, Types, Channel
  <2>3. \A i \in 1..Len(channel'.tasks) : channel'.tasks[i].method # "pass" => Known
    BY <2>1, <2>2 DEF Login
  <2>4. Head(channel.tasks).method # "pass" => Known
    BY <2>1 DEF Login
  <2>5. worker'.at = Head(channel.tasks).method
    BY <1>6 DEF PopTask, Types, WorkerKeys
  <2> QED
    BY <1>1, <2>1, <2>3, <2>4, <2>5 DEF Login
<1>7. CASE NoMoreTasks
  <2>1. channel'.tasks = channel.tasks /\ worker'.at = "out" /\ UNCHANGED <<session, opened>>
    BY <1>7 DEF NoMoreTasks, givenBack, Out, Types, Channel
  <2> QED
    BY <1>1, <2>1 DEF Login
<1>8. CASE Pass
  <2>1. /\ session'.credentials = session.credentials /\ session'.authenticated = FALSE
        /\ worker'.at = "authenticate" /\ UNCHANGED <<channel, opened>>
    BY <1>8 DEF Pass, asked, Types, Same, Keys, WorkerKeys
  <2> QED
    BY <1>1, <2>1 DEF Login
<1>9. CASE Authenticated
  <2>1. session'.credentials \in Accepted /\ UNCHANGED <<channel, opened>>
    BY <1>9 DEF Authenticated, Types, Same, Keys
  <2> QED
    BY <2>1, LengthAssumption DEF Login, Credentials
<1>10. CASE Retr \/ Reset \/ Opens
  <2>1. NeedsLogin(worker.at) /\ UNCHANGED channel
    BY <1>10 DEF Retr, Reset, Opens, At, thread_commands
  <2>2. session'.credentials = session.credentials /\ session'.authenticated = session.authenticated
    BY <1>10 DEF Retr, Reset, Opens, positionReset, Types, Same, Keys
  <2>3. Known /\ opened' \subseteq Accepted
    BY <1>10, <2>1 DEF Retr, Reset, Opens, Login, Credentials
  <2> QED
    BY <2>1, <2>2, <2>3 DEF Login
<1>11. CASE Ending
  <2>1. PICK o, s : EndsFrom(o, s)
    BY <1>11, WorkEnds
  <2>2. worker'.at = "idle"
    BY <1>11, WorkEnds DEF Idle, Out
  <2>3. channel'.tasks = channel.tasks
    BY <2>1, EndingTypes
  <2>4. /\ session'.credentials = session.credentials
        /\ session'.authenticated => Known
    <3>1. o.session.credentials = session.credentials /\ o.session.authenticated \in {FALSE, s.authenticated}
      BY <2>1 DEF EndsFrom, Sound
    <3>2. s.authenticated => Known
      BY <2>1 DEF EndsFrom, LoggedIn, At, Login
    <3> QED
      BY <2>1, <3>1, <3>2 DEF EndsFrom, Ends
  <2>5. opened' \subseteq Accepted
    <3>1. CASE Service \/ RetrRefused \/ RetrNothing \/ Sent
      <4>1. Known
        BY <3>1 DEF Service, RetrRefused, RetrNothing, Sent, At, Login, thread_commands
      <4> QED
        BY <2>1, <4>1 DEF EndsFrom, Ends, Login, Credentials
    <3>2. CASE LoggedIn
      <4>1. Known
        BY <3>2 DEF LoggedIn, At, Login
      <4> QED
        BY <2>1, <4>1 DEF EndsFrom, Ends, Login, Credentials
    <3>3. CASE Unauthorized
      <4>1. PICK q : /\ Ends("worker", worker.n, q)
                     /\ q \in Raised(session) \/ q = Closing(Outcome(session, "LOGIN_MISMATCH"))
        BY <3>3 DEF Unauthorized
      <4>2. ~q.opens
        <5>1. CASE q \in Raised(session)
          BY <5>1, RaisedSound DEF Types
        <5>2. CASE q = Closing(Outcome(session, "LOGIN_MISMATCH"))
          BY <5>2 DEF Closing, Outcome
        <5> QED
          BY <4>1, <5>1, <5>2
      <4> QED
        BY <4>1, <4>2 DEF Ends, Login
    <3> QED
      BY <1>11, <3>1, <3>2, <3>3 DEF Ending
  <2> QED
    BY <1>1, <2>2, <2>3, <2>4, <2>5 DEF Login
<1> QED
  <2>1. CASE Next
    BY <2>1, <1>2, <1>3, <1>4, <1>5, <1>6, <1>7, <1>8, <1>9, <1>10, <1>11
    DEF Next, Main, Work, Ending, Recv, PartOfLine, Reject, Unknown
  <2>2. CASE UNCHANGED vars
    BY <2>2, <1>2 DEF vars
  <2> QED
    BY <2>1, <2>2

\* The file system is only opened with accepted credentials: _getFileSystem()
\* takes whatever the session has, and no check stands at that place.
THEOREM LoginCorrect == Spec => []OpensAccepted
<1>1. Init => Login
  <2> SUFFICES ASSUME Init PROVE Login
    OBVIOUS
  <2>1. /\ opened = {} /\ session.credentials = None /\ session.authenticated = FALSE
        /\ worker.at = "out" /\ channel.tasks = <<>>
    BY DEF Init, Out
  <2> QED
    BY <2>1 DEF Login, Credentials, NeedsLogin, thread_commands
<1>2. Login => OpensAccepted
  BY DEF Login, OpensAccepted, Known
<1> QED
  BY <1>1, <1>2, InitTypes, NextTypes, LoginNext, PTL DEF Spec

-----------------------------------------------------------------------------
(* The position of REST.                                                   *)

\* Positions have the numbers of the REST that gave them: what is used was
\* given, and neither the session nor the worker still has it.
Used == {starts[i] : i \in 1..Len(starts)}
Position ==
  /\ session.restart_position \in 0..lines
  /\ Used \subseteq 1..lines
  /\ session.restart_position \notin Used
  /\ worker.at = "reset" => worker.start \in 0..lines /\ worker.start \notin Used
  /\ RestartUsedOnce

LEMMA PositionNext == Types /\ Position /\ [Next]_vars => Position'
<1> SUFFICES ASSUME Types, Position, [Next]_vars PROVE Position'
  OBVIOUS
<1>0. lines \in Nat
  BY DEF Types
<1>1. CASE UNCHANGED <<lines, starts>> /\ session'.restart_position = session.restart_position /\ worker'.at # "reset"
  BY <1>1 DEF Position, Used, RestartUsedOnce
<1>2. CASE UNCHANGED <<lines, starts, session, worker>>
  BY <1>2 DEF Position, Used, RestartUsedOnce
<1>3. ASSUME Line, UNCHANGED starts,
             session'.restart_position \in {0, session.restart_position, lines + 1},
             worker' = worker \/ worker'.at = "idle"
      PROVE  Position'
  <2>1. lines' = lines + 1 /\ Used' = Used
    BY <1>3 DEF Line, Used
  <2>2. session'.restart_position \in 0..lines' /\ session'.restart_position \notin Used
    BY <1>0, <1>3, <2>1 DEF Position
  <2>3. Used \subseteq 1..lines'
    BY <1>0, <2>1 DEF Position
  <2>4. worker'.at = "reset" => worker'.start \in 0..lines' /\ worker'.start \notin Used
    BY <1>0, <1>3, <2>1 DEF Position
  <2> QED
    BY <1>3, <2>1, <2>2, <2>3, <2>4 DEF Position, RestartUsedOnce
<1>4. CASE Reject \/ Unknown
  BY <1>3, <1>4 DEF Reject, Unknown
<1>5. CASE Queue
  <2>1. worker' = worker \/ worker'.at = "idle"
    BY <1>5 DEF Queue, Types, WorkerKeys
  <2> QED
    BY <1>3, <1>5, <2>1 DEF Queue
<1>6. CASE RunInMain
  <2>1. Line /\ UNCHANGED <<worker, starts>> /\ Method \in main_commands
    BY <1>6 DEF RunInMain
  <2>2. PICK o \in Run(Method, Args, session) : Ends("main", lines + 1, o)
    BY <1>6 DEF RunInMain
  <2>3. Sound(o, session)
    BY <2>1, MainSound DEF Types
  <2>4. session'.restart_position \in {0, session.restart_position, lines + 1}
    BY <2>2, <2>3 DEF Ends, Sound
  <2> QED
    BY <1>3, <2>1, <2>4
<1>7. CASE PopTask
  <2>1. Head(channel.tasks) \in Task
    BY <1>7 DEF PopTask, Types, Channel
  <2>2. worker'.at = Head(channel.tasks).method
    BY <1>7 DEF PopTask, Types, WorkerKeys
  <2>3. worker'.at # "reset"
    BY <2>1, <2>2 DEF Task, thread_commands
  <2> QED
    BY <1>1, <1>7, <2>3 DEF PopTask, UnchangedMain
<1>8. CASE NoMoreTasks
  BY <1>1, <1>8 DEF NoMoreTasks, UnchangedMain, Out
<1>9. CASE Pass \/ Authenticated
  <2>1. session'.restart_position = session.restart_position /\ worker'.at # "reset"
    BY <1>9 DEF Pass, Authenticated, asked, Types, Same, Keys, WorkerKeys
  <2> QED
    BY <1>1, <1>9, <2>1 DEF Pass, Authenticated, UnchangedMain
<1>10. CASE Retr
  <2>1. /\ worker'.start = session.restart_position
        /\ UNCHANGED <<session, starts, lines>>
    BY <1>10 DEF Retr, Types, WorkerKeys, UnchangedMain
  <2> QED
    BY <2>1 DEF Position, Used, RestartUsedOnce
<1>11. CASE Ending \/ Opens
  <2>1. CASE Ending
    <3>1. PICK o, s : EndsFrom(o, s)
      BY <2>1, WorkEnds
    <3>2. worker'.at = "idle" /\ UNCHANGED <<lines, starts>>
      BY <2>1, WorkEnds DEF Idle, Out, UnchangedMain
    <3>3. session'.restart_position = session.restart_position
      BY <2>1, <3>1 DEF EndsFrom, Ends, Unmoved
    <3> QED
      BY <1>1, <3>2, <3>3
  <2>2. CASE Opens
    <3>1. worker'.at # "reset" /\ UNCHANGED <<session, lines, starts>>
      BY <2>2 DEF Opens, Types, WorkerKeys, UnchangedMain
    <3> QED
      BY <1>1, <3>1
  <2> QED
    BY <1>11, <2>1, <2>2
<1>12. CASE Reset
  <2>2. worker'.at = "readfile" /\ UNCHANGED lines /\ worker.at = "reset"
    BY <1>12 DEF Reset, At, UnchangedMain, Types, WorkerKeys
  <2>3. session'.restart_position = positionReset(session, worker.start).restart_position
    BY <1>12 DEF Reset
  <2>4. CASE worker.start = 0
    BY <1>1, <1>12, <2>2, <2>3, <2>4 DEF Reset, positionReset
  <2>5. CASE worker.start # 0
    <3>1. session'.restart_position = 0
      BY <2>3, <2>5 DEF positionReset, Types, Same, Keys
    <3>2. starts' = Append(starts, worker.start) /\ starts \in Seq(Nat)
      BY <1>12, <2>5 DEF Reset, Types
    <3>3. Used' = Used \cup {worker.start}
      BY <3>2 DEF Used
    <3>4. worker.start \in 1..lines /\ worker.start \notin Used
      BY <1>0, <2>2, <2>5 DEF Position
    <3>5. RestartUsedOnce'
      <4>1. \A i, j \in 1..Len(starts) : starts[i] = starts[j] => i = j
        BY <3>2 DEF Position, RestartUsedOnce, IsInjective
      <4>2. \A i \in 1..Len(starts) : starts[i] # worker.start
        BY <3>4 DEF Used
      <4>3. \A i, j \in 1..Len(starts') : starts'[i] = starts'[j] => i = j
        BY <3>2, <4>1, <4>2
      <4>4. DOMAIN starts' = 1..Len(starts')
        BY <3>2
      <4> QED
        BY <4>3, <4>4 DEF RestartUsedOnce, IsInjective
    <3>6. session'.restart_position \in 0..lines' /\ session'.restart_position \notin Used'
      <4>1. Used \subseteq 1..lines
        BY DEF Position
      <4> QED
        BY <1>0, <2>2, <3>1, <3>3, <3>4, <4>1
    <3>7. Used' \subseteq 1..lines'
      BY <2>2, <3>3, <3>4 DEF Position
    <3>8. worker'.at # "reset"
      BY <2>2
    <3> QED
      BY <3>5, <3>6, <3>7, <3>8 DEF Position
  <2> QED
    BY <2>4, <2>5
<1> QED
  <2>1. CASE Recv \/ PartOfLine \/ Close
    BY <1>2, <2>1 DEF Recv, PartOfLine, Close
  <2>2. CASE UNCHANGED vars
    BY <1>2, <2>2 DEF vars
  <2> QED
    BY <1>4, <1>5, <1>6, <1>7, <1>8, <1>9, <1>10, <1>11, <1>12, <2>1, <2>2
    DEF Next, Main, Work, Ending

\* The position of a REST is used once, whatever the main loop does to
\* restart_position between the two places at which cmd_retr() reads it.
THEOREM RestartCorrect == Spec => []RestartUsedOnce
<1>1. Init => Position
  <2> SUFFICES ASSUME Init PROVE Position
    OBVIOUS
  <2>1. lines = 0 /\ session.restart_position = 0 /\ starts = <<>> /\ worker.at = "out"
    BY DEF Init, Out
  <2>2. Used = {}
    BY <2>1 DEF Used
  <2> QED
    BY <2>1, <2>2 DEF Position, RestartUsedOnce, IsInjective
<1>2. Position => RestartUsedOnce
  BY DEF Position
<1> QED
  BY <1>1, <1>2, InitTypes, NextTypes, PositionNext, PTL DEF Spec

-----------------------------------------------------------------------------
(* The order of the replies.                                               *)

\* An outcome has one reply, or none when the socket fails or a transfer has
\* been opened; a RETR without a name has two.
Once(codes) == codes = <<>> \/ \E c : codes = <<c>>
Twice(codes) == \E c \in {"ERR_IS_NOT_FILE", "INTERNAL_ERROR"} : codes = <<"CMD_UNKNOWN", c>>
Terse(o) == {"codes", "closes", "opens"} \subseteq DOMAIN o /\ Once(o.codes)

\* Only the codes matter here: the outcomes of exceptions and of replies.
LEMMA OutcomeTerse == ASSUME NEW s, NEW c PROVE Terse(Outcome(s, c)) /\ Outcome(s, c).codes = <<c>>
  BY DEF Terse, Once, Outcome

LEMMA ClosingTerse == ASSUME NEW o, Terse(o) PROVE Terse(Closing(o)) /\ Closing(o).codes = o.codes
  BY DEF Terse, Closing

LEMMA RaisedTerse == ASSUME NEW s, NEW o \in Raised(s)
                     PROVE  Terse(o) /\ o.codes \in {<<>>, <<"INTERNAL_ERROR">>}
<1>1. Terse(Exception(s)) /\ Exception(s).codes = <<"INTERNAL_ERROR">>
  BY OutcomeTerse, ClosingTerse DEF Exception
<1>2. Terse(SocketError(s)) /\ SocketError(s).codes = <<>>
  BY <1>1 DEF SocketError, Terse, Once
<1> QED
  BY <1>1, <1>2 DEF Raised

LEMMA OpeningTerse == ASSUME NEW O, \A o \in O : Terse(o), NEW p \in Opening(O)
                      PROVE  Terse(p) /\ \E o \in O : p.codes = o.codes
<1>1. PICK o \in O : p = [o EXCEPT !.opens = TRUE]
  BY DEF Opening
<1>2. DOMAIN p = DOMAIN o /\ p.codes = o.codes
  BY <1>1 DEF Terse
<1> QED
  BY <1>2 DEF Terse

LEMMA WhetherTerse == ASSUME NEW s, NEW t, NEW done, NEW not, NEW o \in Whether(s, t, done, not)
                      PROVE  Terse(o)
<1>1. \A p \in {Outcome(t, done), Outcome(s, not)} \cup Raised(s) : Terse(p)
  BY OutcomeTerse, RaisedTerse
<1> QED
  BY <1>1, OpeningTerse DEF Whether

LEMMA ChangeTerse == ASSUME NEW s, NEW args, NEW done, NEW error, NEW o \in Change(args, s, done, error)
                     PROVE  Terse(o)
<1>1. \A p \in {Outcome(s, done), Outcome(s, error), Exception(s), Outcome(s, "ERR_ARGS")} : Terse(p)
  BY OutcomeTerse, RaisedTerse DEF Raised
<1>2. CASE args = <<>>
  BY <1>1, <1>2 DEF Change
<1>3. CASE args # <<>>
  BY <1>1, <1>3, OpeningTerse DEF Change
<1> QED
  BY <1>2, <1>3

\* What the commands say: in the worker, and in the main loop.
LEMMA ServiceTerse ==
  ASSUME NEW s, NEW args, NEW method \in thread_commands \ {"pass", "retr"},
         NEW o \in Run(method, args, s)
  PROVE  Terse(o)
<1>1. CASE method \in {"cdup", "cwd", "size", "rnfr"}
  BY <1>1, WhetherTerse DEF Run, cmd_cdup, cmd_cwd, cmd_size, cmd_rnfr
<1>2. CASE method = "mdtm"
  <2>1. o \in cmd_mdtm(args, s)
    BY <1>2 DEF Run
  <2>2. Terse(Outcome(s, "ERR_ARGS"))
    BY OutcomeTerse
  <2> QED
    BY <2>1, <2>2, OpeningTerse, WhetherTerse DEF cmd_mdtm
<1>3. CASE method \in {"dele", "mkd", "rmd"}
  BY <1>3, ChangeTerse DEF Run, cmd_dele, cmd_mkd, cmd_rmd
<1>4. CASE method \in {"list", "nlst"}
  <2>1. o \in cmd_list(args, s)
    BY <1>4 DEF Run
  <2>2. \A p \in {Outcome(s, "ERR_NO_DIR_FILE"), Outcome(s, "ERR_NO_LIST")}
              \cup Raised(s) \cup {Outcome(s, "ERR_ARGS")} : Terse(p)
    BY OutcomeTerse, RaisedTerse
  <2> QED
    BY <2>1, <2>2, OpeningTerse DEF cmd_list
<1>5. CASE method = "rnto"
  <2> DEFINE over == [s EXCEPT !._rnfr = None]
  <2>1. o \in cmd_rnto(args, s)
    BY <1>5 DEF Run
  <2>2. \A p \in {Outcome(over, "SUCCESS_250"), Outcome(over, "ERR_RENAME"), Exception(s),
                  Outcome(s, "ERR_RENAME")} : Terse(p)
    BY OutcomeTerse, RaisedTerse DEF Raised
  <2> QED
    BY <2>1, <2>2, OpeningTerse DEF cmd_rnto
<1>6. CASE method \in {"stor", "appe"}
  <2>1. o \in cmd_stor(args, s)
    BY <1>6 DEF Run
  <2> QED
    BY <2>1, OutcomeTerse, WhetherTerse DEF cmd_stor
<1>7. CASE method = "stru"
  BY <1>7, OutcomeTerse DEF Run, cmd_stru
<1> QED
  BY <1>1, <1>2, <1>3, <1>4, <1>5, <1>6, <1>7 DEF thread_commands

LEMMA MainTerse ==
  ASSUME NEW s, NEW args, NEW method \in main_commands, NEW o \in Run(method, args, s)
  PROVE  Terse(o)
<1>1. \/ o \in Raised(s) \/ \E t, c : o = Outcome(t, c)
      \/ \E t, c : o = Closing(Outcome(t, c))
  <2>1. CASE method \in {"abor", "help", "mode", "noop", "pasv", "port"}
    BY <2>1 DEF Run, cmd_abor, cmd_help, cmd_mode, cmd_noop, cmd_pasv, cmd_port, Raised
  <2>2. CASE method \in {"pwd", "quit", "syst", "rest"}
    BY <2>2 DEF Run, cmd_pwd, cmd_quit, cmd_syst, cmd_rest
  <2>3. CASE method = "type"
    BY <2>3 DEF Run, cmd_type, Raised
  <2>4. CASE method = "user"
    BY <2>4 DEF Run, cmd_user
  <2> QED
    BY <2>1, <2>2, <2>3, <2>4 DEF main_commands
<1> QED
  BY <1>1, OutcomeTerse, ClosingTerse, RaisedTerse

\* The commands that wait, and the one in progress, have increasing numbers,
\* and whatever a worker has replied to is not behind any of them.
Said == {replies[i] : i \in 1..Len(replies)}
Busy == worker.at \notin {"out", "idle"}
Reached(n) == /\ Busy => n <= worker.n
              /\ \A i \in 1..Len(channel.tasks) : n < channel.tasks[i].n
Numbers ==
  /\ replies \in Seq(Said)
  /\ \A i \in 1..Len(replies) : replies[i].n \in 0..lines /\ replies[i].by \in {"main", "worker"}
  /\ \A i \in 1..Len(replies) : replies[i].by = "worker" => Reached(replies[i].n)
  /\ \A i \in 1..Len(channel.tasks) : channel.tasks[i].n \in 1..lines
  /\ \A i, j \in 1..Len(channel.tasks) : i < j => channel.tasks[i].n < channel.tasks[j].n
  /\ Busy => worker.n \in 1..lines /\ \A i \in 1..Len(channel.tasks) : worker.n < channel.tasks[i].n
  /\ RepliesInOrder

\* What replies to command n add, one by one.
Reply(by, n, c) == [n |-> n, code |-> c, by |-> by]
LEMMA RepliesAdded ==
  ASSUME NEW by, NEW n, NEW codes, Once(codes) \/ Twice(codes), replies \in Seq(Said),
         replies' = Replied(by, n, codes)
  PROVE  \/ replies' = replies
         \/ \E c : replies' = Append(replies, Reply(by, n, c))
         \/ \E b, c : replies' = Append(Append(replies, Reply(by, n, b)), Reply(by, n, c))
<1> DEFINE new == [i \in DOMAIN codes |-> Reply(by, n, codes[i])]
<1>1. CASE ~channel.connected
  BY <1>1 DEF Replied
<1>2. CASE channel.connected
  <2>0. replies' = replies \o new
    BY <1>2 DEF Replied, Reply
  <2>1. CASE codes = <<>>
    <3>1. new = <<>>
      BY <2>1
    <3> QED
      BY <2>0, <3>1
  <2>2. ASSUME NEW c, codes = <<c>>
        PROVE  replies' = Append(replies, Reply(by, n, c))
    <3>1. new = <<Reply(by, n, c)>>
      BY <2>2
    <3> QED
      BY <2>0, <3>1
  <2>3. ASSUME NEW c, codes = <<"CMD_UNKNOWN", c>>
        PROVE  replies' = Append(Append(replies, Reply(by, n, "CMD_UNKNOWN")), Reply(by, n, c))
    <3>1. new = <<Reply(by, n, "CMD_UNKNOWN"), Reply(by, n, c)>>
      BY <2>3
    <3> QED
      BY <2>0, <3>1
  <2> QED
    BY <2>1, <2>2, <2>3 DEF Once, Twice
<1> QED
  BY <1>1, <1>2

\* A sequence with one more element is one of its elements.
LEMMA ElementsOfAppend ==
  ASSUME NEW S, NEW s \in Seq(S), S = {s[i] : i \in 1..Len(s)}, NEW r
  PROVE  /\ Append(s, r) \in Seq({Append(s, r)[i] : i \in 1..Len(Append(s, r))})
         /\ Len(Append(s, r)) = Len(s) + 1 /\ Append(s, r)[Len(s) + 1] = r
         /\ \A i \in 1..Len(s) : Append(s, r)[i] = s[i]
<1> DEFINE u == Append(s, r)
<1>1. Len(u) = Len(s) + 1 /\ u[Len(s) + 1] = r /\ \A i \in 1..Len(s) : u[i] = s[i]
  OBVIOUS
<1>2. u \in Seq(S \cup {r})
  OBVIOUS
<1> HIDE DEF u
<1>3. {u[i] : i \in 1..Len(u)} = S \cup {r}
  <2>1. Len(s) \in Nat /\ \A i : i \in 1..Len(u) <=> i \in 1..Len(s) \/ i = Len(s) + 1
    BY <1>1
  <2>2. \A x : x \in S <=> \E i \in 1..Len(s) : x = s[i]
    OBVIOUS
  <2>3. \A i \in 1..Len(u) : u[i] \in S \cup {r}
    BY <1>1, <2>1, <2>2
  <2>4. \A x \in S \cup {r} : \E i \in 1..Len(u) : x = u[i]
    BY <1>1, <2>1, <2>2
  <2> QED
    BY <2>3, <2>4
<1> QED
  BY <1>1, <1>2, <1>3 DEF u

\* The replies of a sequence are in order, from commands that there are, and
\* the worker's from commands no later than m.
Ordered(rs, l, m) ==
  /\ rs \in Seq({rs[i] : i \in 1..Len(rs)})
  /\ \A i \in 1..Len(rs) : /\ rs[i].n \in 0..l /\ rs[i].by \in {"main", "worker"}
                           /\ rs[i].by = "worker" => rs[i].n <= m
  /\ \A i, j \in 1..Len(rs) :
       i < j /\ rs[j].n < rs[i].n => rs[i].by = "main" /\ rs[j].by = "worker"

LEMMA OrderedDomain == ASSUME NEW rs, NEW l, NEW m, Ordered(rs, l, m) PROVE DOMAIN rs = 1..Len(rs)
<1> DEFINE S == {rs[i] : i \in 1..Len(rs)}
<1>1. rs \in Seq(S)
  BY DEF Ordered
<1> HIDE DEF S
<1> QED
  BY <1>1

\* One more reply: of the last command so far in the main loop, or of one no
\* earlier than those the worker has replied to.
LEMMA OneReply ==
  ASSUME NEW rs, NEW l \in Nat, NEW m \in Nat, Ordered(rs, l, m), NEW n \in 0..l, NEW c,
         NEW by \in {"main", "worker"}, by = "main" => n = l, by = "worker" => n = m
  PROVE  Ordered(Append(rs, Reply(by, n, c)), l, m)
<1> DEFINE r == Reply(by, n, c)
           t == Append(rs, r)
<1>1. r.n = n /\ r.by = by
  BY DEF Reply
<1> HIDE DEF r
<1>2. /\ t \in Seq({t[i] : i \in 1..Len(t)}) /\ Len(t) = Len(rs) + 1
      /\ t[Len(rs) + 1] = r /\ \A i \in 1..Len(rs) : t[i] = rs[i]
  BY ElementsOfAppend DEF Ordered
<1> HIDE DEF t
<1>3. Len(rs) \in Nat
  BY DEF Ordered
<1>4. ASSUME NEW i \in 1..Len(t)
      PROVE  t[i].n \in 0..l /\ t[i].by \in {"main", "worker"} /\ (t[i].by = "worker" => t[i].n <= m)
  <2>1. CASE i \in 1..Len(rs)
    BY <1>2, <2>1 DEF Ordered
  <2>2. CASE i = Len(rs) + 1
    BY <1>1, <1>2, <2>2
  <2> QED
    BY <1>2, <1>3, <2>1, <2>2
<1>5. ASSUME NEW i \in 1..Len(t), NEW j \in 1..Len(t), i < j, t[j].n < t[i].n
      PROVE  t[i].by = "main" /\ t[j].by = "worker"
  <2>1. i \in 1..Len(rs) /\ t[i] = rs[i]
    BY <1>2, <1>3, <1>5
  <2>2. CASE j \in 1..Len(rs)
    BY <1>2, <1>5, <2>1, <2>2 DEF Ordered
  <2>3. CASE j = Len(rs) + 1
    <3>1. t[j] = r /\ t[i].n \in 0..l /\ t[i].by \in {"main", "worker"} /\ (t[i].by = "worker" => t[i].n <= m)
      BY <1>2, <1>4, <2>3
    <3>2. n < t[i].n
      BY <1>1, <1>5, <3>1
    <3> QED
      BY <1>1, <3>1, <3>2
  <2> QED
    BY <1>2, <1>3, <2>2, <2>3
<1> QED
  BY <1>2, <1>4, <1>5 DEF Ordered, t, r

LEMMA Replying ==
  ASSUME NEW l \in Nat, NEW m \in Nat, Ordered(replies, l, m), NEW n \in 0..l,
         NEW by \in {"main", "worker"}, by = "main" => n = l, by = "worker" => n = m,
         NEW codes, Once(codes) \/ Twice(codes), replies' = Replied(by, n, codes)
  PROVE  Ordered(replies', l, m)
<1>1. replies \in Seq(Said)
  BY DEF Ordered, Said
<1>2. CASE replies' = replies
  BY <1>2
<1>3. ASSUME NEW c, replies' = Append(replies, Reply(by, n, c))
      PROVE  Ordered(replies', l, m)
  <2>1. Ordered(Append(replies, Reply(by, n, c)), l, m)
    BY OneReply
  <2> QED
    BY <1>3, <2>1
<1>4. ASSUME NEW b, NEW c, replies' = Append(Append(replies, Reply(by, n, b)), Reply(by, n, c))
      PROVE  Ordered(replies', l, m)
  <2> DEFINE mid == Append(replies, Reply(by, n, b))
  <2>1. Ordered(mid, l, m)
    BY OneReply
  <2> HIDE DEF mid
  <2>2. Ordered(Append(mid, Reply(by, n, c)), l, m)
    BY <2>1, OneReply
  <2> QED
    BY <1>4, <2>2 DEF mid
<1> QED
  BY <1>1, <1>2, <1>3, <1>4, RepliesAdded

\* The two elements of a concatenation.
LEMMA ConcatOfTwo ==
  ASSUME NEW S, NEW s \in Seq(S), NEW t \in Seq(S), Len(s) = 1, Len(t) = 1
  PROVE  s \o t \in Seq(S) /\ Len(s \o t) = 2 /\ (s \o t)[1] = s[1] /\ (s \o t)[2] = t[1]
<1>1. /\ s \o t \in Seq(S) /\ Len(s \o t) = Len(s) + Len(t)
      /\ \A i \in 1..Len(s) + Len(t) : (s \o t)[i] = IF i <= Len(s) THEN s[i] ELSE t[i - Len(s)]
  BY ConcatProperties
<1>2. /\ 1 \in 1..Len(s) + Len(t) /\ 2 \in 1..Len(s) + Len(t)
      /\ 1 <= Len(s) /\ ~(2 <= Len(s)) /\ 2 - Len(s) = 1
  OBVIOUS
<1>3. (s \o t)[1] = s[1]
  BY <1>1, <1>2
<1>4. (s \o t)[2] = t[2 - Len(s)]
  BY <1>1, <1>2
<1> QED
  BY <1>1, <1>2, <1>3, <1>4

\* Two sequences of two with the same elements.
LEMMA SeqOfTwo ==
  ASSUME NEW S, NEW s \in Seq(S), NEW t \in Seq(S), Len(s) = 2, Len(t) = 2, s[1] = t[1], s[2] = t[2]
  PROVE  s = t
<1>1. \A i \in 1..Len(s) : s[i] = t[i]
  OBVIOUS
<1> QED
  BY <1>1, SeqEqual

\* One reply before another, as cmd_retr() without a name gives them.
LEMMA TwoOfThem == ASSUME NEW b, NEW c PROVE <<b>> \o <<c>> = <<b, c>>
<1> DEFINE S == {b, c}
           s == <<b>>
           t == <<c>>
<1>1. s \in Seq(S) /\ t \in Seq(S) /\ Len(s) = 1 /\ Len(t) = 1 /\ s[1] = b /\ t[1] = c
  OBVIOUS
<1> HIDE DEF s, t, S
<1>2. /\ s \o t \in Seq(S) /\ Len(s \o t) = 2
      /\ (s \o t)[1] = b /\ (s \o t)[2] = c
  BY <1>1, ConcatOfTwo
<1>3. <<b, c>> \in Seq(S) /\ Len(<<b, c>>) = 2 /\ <<b, c>>[1] = b /\ <<b, c>>[2] = c
  BY DEF S
<1>4. s \o t = <<b, c>>
  BY <1>2, <1>3, SeqOfTwo
<1> QED
  BY <1>4 DEF s, t

\* The codes with which a command ends.
LEMMA EndCodes ==
  ASSUME Types, Ending
  PROVE  \E codes : (Once(codes) \/ Twice(codes)) /\ replies' = Replied("worker", worker.n, codes)
<1>1. CASE Service
  BY <1>1, ServiceTerse DEF Service, Ends, Terse
<1>2. CASE LoggedIn
  BY <1>2, OutcomeTerse DEF LoggedIn, Ends, Terse
<1>3. CASE Unauthorized
  <2>1. PICK o : /\ Ends("worker", worker.n, o)
                 /\ o \in Raised(session) \/ o = Closing(Outcome(session, "LOGIN_MISMATCH"))
    BY <1>3 DEF Unauthorized
  <2>2. Terse(o)
    BY <2>1, RaisedTerse, OutcomeTerse, ClosingTerse
  <2> QED
    BY <2>1, <2>2 DEF Ends, Terse
<1>4. CASE RetrRefused
  <2> DEFINE before == IF worker.args = <<>> THEN <<"CMD_UNKNOWN">> ELSE <<>>
             refused == {Outcome(session, "ERR_IS_NOT_FILE")} \cup Raised(session)
  <2>1. PICK o \in Opening(refused) : Ends("worker", worker.n, [o EXCEPT !.codes = before \o @])
    BY <1>4 DEF RetrRefused
  <2>2. \A p \in refused : Terse(p) /\ p.codes \in {<<>>, <<"ERR_IS_NOT_FILE">>, <<"INTERNAL_ERROR">>}
    BY OutcomeTerse, RaisedTerse
  <2> HIDE DEF refused
  <2>3. Terse(o) /\ o.codes \in {<<>>, <<"ERR_IS_NOT_FILE">>, <<"INTERNAL_ERROR">>}
    BY <2>1, <2>2, OpeningTerse
  <2>4. replies' = Replied("worker", worker.n, before \o o.codes)
    BY <2>1, <2>3 DEF Ends, Terse
  <2>5. Once(before \o o.codes) \/ Twice(before \o o.codes)
    <3>1. CASE worker.args = <<>>
      <4>1. <<"CMD_UNKNOWN">> \o <<>> = <<"CMD_UNKNOWN">>
        OBVIOUS
      <4>2. ASSUME NEW c PROVE <<"CMD_UNKNOWN">> \o <<c>> = <<"CMD_UNKNOWN", c>>
        BY TwoOfThem
      <4> QED
        BY <2>3, <3>1, <4>1, <4>2 DEF Once, Twice
    <3>2. CASE worker.args # <<>>
      <4>1. /\ <<>> \o <<>> = <<>>
            /\ <<>> \o <<"ERR_IS_NOT_FILE">> = <<"ERR_IS_NOT_FILE">>
            /\ <<>> \o <<"INTERNAL_ERROR">> = <<"INTERNAL_ERROR">>
        OBVIOUS
      <4> QED
        BY <2>3, <3>2, <4>1 DEF Once
    <3> QED
      BY <3>1, <3>2
  <2> QED
    BY <2>4, <2>5
<1>5. CASE RetrNothing \/ Sent
  <2>1. PICK error, o :
          /\ o \in Nothing(session, error) \cup {Closing(Outcome(session, error))}
          /\ Ends("worker", worker.n, o)
    BY <1>5 DEF RetrNothing, Sent
  <2>2. Terse(o)
    <3> DEFINE e == Outcome(session, error)
    <3>1. Terse(e) /\ Terse(Closing(e)) /\ Terse(Exception(session))
      BY OutcomeTerse, ClosingTerse, RaisedTerse DEF Raised
    <3> HIDE DEF e
    <3>2. Terse([e EXCEPT !.codes = <<>>])
      BY <3>1 DEF Terse, Once
    <3> QED
      BY <2>1, <3>1, <3>2 DEF Nothing, e
  <2> QED
    BY <2>1, <2>2 DEF Ends, Terse
<1> QED
  BY <1>1, <1>2, <1>3, <1>4, <1>5 DEF Ending

\* What the worker has replied to is behind what it will, and the main loop
\* replies to the last command there is.
LEMMA AreOrdered ==
  ASSUME Numbers, lines \in Nat
  PROVE  Ordered(replies, lines, IF Busy THEN worker.n ELSE lines) /\ Ordered(replies, lines + 1, lines)
<1>1. /\ replies \in Seq({replies[i] : i \in 1..Len(replies)})
      /\ DOMAIN replies = 1..Len(replies)
  BY DEF Numbers, Said
<1>2. \A i \in 1..Len(replies) : replies[i].n \in 0..lines /\ replies[i].by \in {"main", "worker"}
  BY DEF Numbers
<1>3. \A i \in 1..Len(replies) : replies[i].by = "worker" /\ Busy => replies[i].n <= worker.n
  BY DEF Numbers, Reached
<1>4. \A i, j \in 1..Len(replies) :
        i < j /\ replies[j].n < replies[i].n => replies[i].by = "main" /\ replies[j].by = "worker"
  BY <1>1 DEF Numbers, RepliesInOrder
<1> QED
  BY <1>1, <1>2, <1>3, <1>4 DEF Ordered

\* The main loop answers the new command.
LEMMA MainAnswers ==
  ASSUME Types, Numbers, Line, NEW codes, Once(codes) \/ Twice(codes),
         replies' = Replied("main", lines + 1, codes), UNCHANGED worker, channel'.tasks = channel.tasks
  PROVE  Numbers'
<1>1. lines \in Nat /\ lines' = lines + 1
  BY DEF Types, Line
<1>2. Ordered(replies, lines + 1, lines)
  BY <1>1, AreOrdered
<1>3. Ordered(replies', lines + 1, lines)
  BY <1>1, <1>2, Replying
<1>4. \A i \in 1..Len(replies') : replies'[i].by = "worker" =>
         \E j \in 1..Len(replies) : replies'[i] = replies[j]
  <2>1. replies \in Seq(Said)
    BY DEF Numbers
  <2>2. ASSUME NEW S, NEW t \in Seq(S), NEW c
        PROVE  \A i \in 1..Len(Append(t, Reply("main", lines + 1, c))) :
                 \/ Append(t, Reply("main", lines + 1, c))[i].by = "main"
                 \/ \E j \in 1..Len(t) : Append(t, Reply("main", lines + 1, c))[i] = t[j]
    <3> DEFINE q == Reply("main", lines + 1, c)
    <3>1. q.by = "main"
      BY DEF Reply
    <3> HIDE DEF q
    <3>2. /\ Len(Append(t, q)) = Len(t) + 1 /\ Append(t, q)[Len(t) + 1] = q
          /\ \A i \in 1..Len(t) : Append(t, q)[i] = t[i]
      BY ElementsOfAppend
    <3>3. Len(t) \in Nat
      OBVIOUS
    <3> HIDE DEF q
    <3>4. \A i \in 1..Len(Append(t, q)) : i \in 1..Len(t) \/ i = Len(t) + 1
      BY <3>2, <3>3
    <3>5. \A i \in 1..Len(Append(t, q)) :
            Append(t, q)[i].by = "main" \/ \E j \in 1..Len(t) : Append(t, q)[i] = t[j]
      BY <3>1, <3>2, <3>4
    <3> QED
      BY <3>5 DEF q
  <2>3. ASSUME NEW c, replies' = Append(replies, Reply("main", lines + 1, c))
        PROVE  \A i \in 1..Len(replies') :
                 replies'[i].by = "main" \/ \E j \in 1..Len(replies) : replies'[i] = replies[j]
    BY <2>1, <2>2, <2>3 DEF Said
  <2>4. ASSUME NEW b, NEW c,
               replies' = Append(Append(replies, Reply("main", lines + 1, b)), Reply("main", lines + 1, c))
        PROVE  \A i \in 1..Len(replies') :
                 replies'[i].by = "main" \/ \E j \in 1..Len(replies) : replies'[i] = replies[j]
    <3> DEFINE mid == Append(replies, Reply("main", lines + 1, b))
    <3>1. mid \in Seq(Said \cup {Reply("main", lines + 1, b)})
      BY <2>1
    <3>2. \A i \in 1..Len(mid) : mid[i].by = "main" \/ \E j \in 1..Len(replies) : mid[i] = replies[j]
      BY <2>1, <2>2 DEF Said
    <3>3. replies' = Append(mid, Reply("main", lines + 1, c))
      BY <2>4
    <3> HIDE DEF mid
    <3>4. \A i \in 1..Len(Append(mid, Reply("main", lines + 1, c))) :
            \/ Append(mid, Reply("main", lines + 1, c))[i].by = "main"
            \/ \E j \in 1..Len(mid) : Append(mid, Reply("main", lines + 1, c))[i] = mid[j]
      BY <2>2, <3>1
    <3>5. \A i \in 1..Len(replies') : replies'[i].by = "main" \/ \E j \in 1..Len(mid) : replies'[i] = mid[j]
      BY <3>3, <3>4
    <3> QED
      BY <3>2, <3>5
  <2> QED
    BY <2>1, <2>3, <2>4, RepliesAdded
<1>5. \A i \in 1..Len(replies) : replies[i].by = "worker" => Reached(replies[i].n)
  BY DEF Numbers
<1>6. \A i \in 1..Len(replies') : replies'[i].by = "worker" => Reached(replies[i].n)'
  BY <1>4, <1>5 DEF Reached, Busy
<1>7. RepliesInOrder'
  <2>1. DOMAIN replies' = 1..Len(replies')
    BY <1>3, OrderedDomain
  <2> QED
    BY <1>3, <2>1 DEF RepliesInOrder, Ordered
<1>8. /\ replies' \in Seq(Said')
      /\ \A i \in 1..Len(replies') : replies'[i].n \in 0..lines' /\ replies'[i].by \in {"main", "worker"}
  BY <1>1, <1>3 DEF Ordered, Said
<1> QED
  BY <1>1, <1>6, <1>7, <1>8 DEF Numbers, Busy

\* The worker answers the command it runs, and goes on with it or is done.
LEMMA WorkerAnswers ==
  ASSUME Types, Numbers, Busy, UNCHANGED lines, NEW codes, Once(codes) \/ Twice(codes),
         replies' = Replied("worker", worker.n, codes), channel'.tasks = channel.tasks,
         Busy' => worker'.n = worker.n
  PROVE  Numbers'
<1>1. /\ lines \in Nat /\ worker.n \in 1..lines
      /\ \A i \in 1..Len(channel.tasks) : channel.tasks[i].n \in 1..lines /\ worker.n < channel.tasks[i].n
  BY DEF Types, Numbers
<1>2. Ordered(replies, lines, worker.n)
  BY <1>1, AreOrdered
<1>3. Ordered(replies', lines, worker.n)
  BY <1>1, <1>2, Replying
<1>4. ASSUME NEW i \in 1..Len(replies'), replies'[i].by = "worker"
      PROVE  Reached(replies[i].n)'
  <2>1. replies'[i].n \in 0..lines /\ replies'[i].n <= worker.n
    BY <1>3, <1>4 DEF Ordered
  <2> QED
    BY <1>1, <2>1 DEF Reached
<1>5. RepliesInOrder'
  <2>1. DOMAIN replies' = 1..Len(replies')
    BY <1>3, OrderedDomain
  <2> QED
    BY <1>3, <2>1 DEF RepliesInOrder, Ordered
<1>6. /\ replies' \in Seq(Said')
      /\ \A i \in 1..Len(replies') : replies'[i].n \in 0..lines' /\ replies'[i].by \in {"main", "worker"}
  BY <1>3 DEF Ordered, Said
<1> QED
  BY <1>1, <1>4, <1>5, <1>6 DEF Numbers

\* A command that is queued is behind all others.
LEMMA QueueNumbers == ASSUME Types, Numbers, Queue PROVE Numbers'
<1> DEFINE task == [method |-> Method, args |-> Args, n |-> lines + 1]
<1>0. lines \in Nat /\ channel.tasks \in Seq(Task)
  BY DEF Types, Channel
<1>1. task.n = lines + 1
  OBVIOUS
<1>2. channel'.tasks = Append(channel.tasks, task)
  BY DEF Queue, Queued, Types, Channel
<1> HIDE DEF task
<1>3. /\ lines' = lines + 1 /\ UNCHANGED replies
      /\ worker' = worker \/ worker'.at = "idle"
  BY DEF Queue, Line, Types, WorkerKeys
<1>4. /\ Len(channel'.tasks) = Len(channel.tasks) + 1 /\ channel'.tasks[Len(channel.tasks) + 1] = task
      /\ \A i \in 1..Len(channel.tasks) : channel'.tasks[i] = channel.tasks[i]
  BY <1>0, <1>2
<1>5. \A i \in 1..Len(channel'.tasks) : i \in 1..Len(channel.tasks) \/ i = Len(channel.tasks) + 1
  BY <1>0, <1>4
<1>6. \A i \in 1..Len(channel'.tasks) : channel'.tasks[i].n \in 1..lines'
  <2>1. \A i \in 1..Len(channel.tasks) : channel.tasks[i].n \in 1..lines
    BY DEF Numbers
  <2> QED
    BY <1>0, <1>1, <1>3, <1>4, <1>5, <2>1
\* What is behind all that was queued is behind all that is.
<1>7. ASSUME NEW n \in 0..lines, \A i \in 1..Len(channel.tasks) : n < channel.tasks[i].n
      PROVE  \A i \in 1..Len(channel'.tasks) : n < channel'.tasks[i].n
  <2> SUFFICES ASSUME NEW i \in 1..Len(channel'.tasks) PROVE n < channel'.tasks[i].n
    OBVIOUS
  <2>1. CASE i \in 1..Len(channel.tasks)
    BY <1>4, <1>7, <2>1
  <2>2. CASE i = Len(channel.tasks) + 1
    <3>1. channel'.tasks[i].n = lines + 1
      BY <1>1, <1>4, <2>2
    <3>2. n < lines + 1
      BY <1>0
    <3> QED
      BY <3>1, <3>2
  <2> QED
    BY <1>5, <2>1, <2>2
<1>8. ASSUME NEW i \in 1..Len(channel'.tasks), NEW j \in 1..Len(channel'.tasks), i < j
      PROVE  channel'.tasks[i].n < channel'.tasks[j].n
  <2>1. i \in 1..Len(channel.tasks) /\ channel'.tasks[i] = channel.tasks[i]
    BY <1>0, <1>4, <1>8
  <2>2. channel.tasks[i].n \in 1..lines
    BY <2>1 DEF Numbers
  <2>3. CASE j \in 1..Len(channel.tasks)
    <3>1. channel'.tasks[j] = channel.tasks[j]
      BY <1>4, <2>3
    <3> QED
      BY <1>8, <2>1, <2>3, <3>1 DEF Numbers
  <2>4. CASE j = Len(channel.tasks) + 1
    BY <1>0, <1>1, <1>4, <2>1, <2>2, <2>4
  <2> QED
    BY <1>5, <2>3, <2>4
<1>9. ASSUME Busy'
      PROVE  worker'.n \in 1..lines' /\ \A i \in 1..Len(channel'.tasks) : worker'.n < channel'.tasks[i].n
  <2>1. worker' = worker /\ worker.n \in 1..lines
        /\ \A i \in 1..Len(channel.tasks) : worker.n < channel.tasks[i].n
    BY <1>3, <1>9 DEF Numbers, Busy
  <2> QED
    BY <1>0, <1>3, <1>7, <2>1
<1>10. ASSUME NEW i \in 1..Len(replies'), replies'[i].by = "worker"
       PROVE  Reached(replies[i].n)'
  <2>1. replies[i].n \in 0..lines /\ Reached(replies[i].n)
    BY <1>3, <1>10 DEF Numbers
  <2>2. \A k \in 1..Len(channel'.tasks) : replies[i].n < channel'.tasks[k].n
    BY <1>7, <2>1 DEF Reached
  <2>3. Busy' => replies[i].n <= worker'.n
    BY <1>3, <2>1 DEF Reached, Busy
  <2> QED
    BY <1>3, <2>2, <2>3 DEF Reached
<1>11. /\ replies' \in Seq(Said') /\ RepliesInOrder'
       /\ \A i \in 1..Len(replies') : replies'[i].n \in 0..lines' /\ replies'[i].by \in {"main", "worker"}
  BY <1>0, <1>3 DEF Numbers, Said, RepliesInOrder
<1> QED
  BY <1>6, <1>8, <1>9, <1>10, <1>11 DEF Numbers

\* The oldest task becomes the one in progress.
LEMMA PopNumbers == ASSUME Types, Numbers, PopTask PROVE Numbers'
<1>0. lines \in Nat /\ channel.tasks \in Seq(Task)
  BY DEF Types, Channel
<1>1. channel.tasks # <<>> /\ UNCHANGED <<lines, replies>>
  BY DEF PopTask, UnchangedMain
<1>2. channel'.tasks = Tail(channel.tasks)
  BY DEF PopTask, Types, Channel
<1>3. worker'.n = channel.tasks[1].n
  BY <1>0 DEF PopTask, Types, WorkerKeys
<1>4. /\ Len(channel'.tasks) = Len(channel.tasks) - 1 /\ Len(channel.tasks) > 0
      /\ \A i \in 1..Len(channel'.tasks) : channel'.tasks[i] = channel.tasks[i + 1]
  BY <1>0, <1>1, <1>2
<1>5. /\ replies' \in Seq(Said') /\ RepliesInOrder'
      /\ \A i \in 1..Len(replies') : replies'[i].n \in 0..lines' /\ replies'[i].by \in {"main", "worker"}
  BY <1>1 DEF Numbers, Said, RepliesInOrder
<1>6. 1 \in 1..Len(channel.tasks)
  BY <1>0, <1>4
<1>7. ASSUME NEW i \in 1..Len(channel'.tasks)
      PROVE  /\ i + 1 \in 1..Len(channel.tasks) /\ 1 < i + 1
             /\ channel'.tasks[i] = channel.tasks[i + 1]
  BY <1>0, <1>4
<1>8. ASSUME NEW i \in 1..Len(channel'.tasks)
      PROVE  channel'.tasks[i].n \in 1..lines' /\ worker'.n < channel'.tasks[i].n
  BY <1>1, <1>3, <1>6, <1>7 DEF Numbers
<1>9. ASSUME NEW i \in 1..Len(channel'.tasks), NEW j \in 1..Len(channel'.tasks), i < j
      PROVE  channel'.tasks[i].n < channel'.tasks[j].n
  <2>1. /\ i + 1 \in 1..Len(channel.tasks) /\ j + 1 \in 1..Len(channel.tasks) /\ i + 1 < j + 1
        /\ channel'.tasks[i] = channel.tasks[i + 1] /\ channel'.tasks[j] = channel.tasks[j + 1]
    BY <1>0, <1>4, <1>9, SMTT(30)
  <2> QED
    BY <2>1 DEF Numbers
<1>10. worker'.n \in 1..lines'
  BY <1>1, <1>3, <1>6 DEF Numbers
<1>11. ASSUME NEW i \in 1..Len(replies'), replies'[i].by = "worker"
       PROVE  Reached(replies[i].n)'
  <2>1. replies[i].n \in 0..lines /\ \A k \in 1..Len(channel.tasks) : replies[i].n < channel.tasks[k].n
    BY <1>1, <1>11 DEF Numbers, Reached
  <2>2. replies[i].n <= worker'.n
    <3>1. replies[i].n < channel.tasks[1].n /\ channel.tasks[1].n \in 1..lines
      BY <1>6, <2>1 DEF Numbers
    <3> QED
      BY <1>0, <1>3, <2>1, <3>1
  <2>3. \A k \in 1..Len(channel'.tasks) : replies[i].n < channel'.tasks[k].n
    BY <1>7, <2>1
  <2> QED
    BY <1>1, <2>2, <2>3 DEF Reached
<1> QED
  BY <1>5, <1>8, <1>9, <1>10, <1>11 DEF Numbers

LEMMA NumbersNext == Types /\ Numbers /\ [Next]_vars => Numbers'
<1> SUFFICES ASSUME Types, Numbers, [Next]_vars PROVE Numbers'
  OBVIOUS
\* Steps that answer nothing and leave the tasks and their numbers.
<1>1. ASSUME UNCHANGED <<lines, replies>>, channel'.tasks = channel.tasks,
             Busy' => Busy /\ worker'.n = worker.n
      PROVE  Numbers'
  BY <1>1 DEF Numbers, Said, RepliesInOrder, Reached
<1>2. CASE Ending
  <2>1. PICK codes : (Once(codes) \/ Twice(codes)) /\ replies' = Replied("worker", worker.n, codes)
    BY <1>2, EndCodes
  <2>2. Busy
    BY <1>2 DEF Ending, Service, LoggedIn, Unauthorized, RetrRefused, RetrNothing, Sent, At, Busy,
                thread_commands
  <2>3. worker' = Idle /\ lines' = lines /\ channel'.tasks = channel.tasks
    BY <1>2, WorkEnds, EndingTypes DEF UnchangedMain
  <2>4. ~Busy'
    BY <2>3 DEF Busy, Idle, Out
  <2> QED
    BY <2>1, <2>2, <2>3, <2>4, WorkerAnswers
<1>3. CASE Opens
  <2> DEFINE code == IF At("readfile") THEN "OPEN_CONN" ELSE "OPEN_DATA_CONN"
  <2>1. replies' = Replied("worker", worker.n, <<code>>)
    BY <1>3 DEF Opens
  <2>2. Once(<<code>>)
    BY DEF Once
  <2>3. Busy /\ UNCHANGED <<lines, channel>> /\ worker'.n = worker.n
    BY <1>3 DEF Opens, Busy, At, UnchangedMain, Types, WorkerKeys
  <2> HIDE DEF code
  <2> QED
    BY <2>1, <2>2, <2>3, WorkerAnswers
<1>4. CASE Reject \/ Unknown
  <2>1. Once(<<"LOGIN_REQUIRED">>) /\ Once(<<"CMD_UNKNOWN">>)
    BY DEF Once
  <2> QED
    BY <1>4, <2>1, MainAnswers DEF Reject, Unknown
<1>5. CASE RunInMain
  <2>1. Line /\ UNCHANGED worker /\ Method \in main_commands
    BY <1>5 DEF RunInMain
  <2>2. PICK o \in Run(Method, Args, session) : Ends("main", lines + 1, o)
    BY <1>5 DEF RunInMain
  <2>3. Once(o.codes)
    BY <2>1, MainTerse DEF Terse
  <2>4. replies' = Replied("main", lines + 1, o.codes)
    BY <2>2 DEF Ends
  <2>5. channel'.tasks = channel.tasks
    BY <2>1, <2>2, MainSound, EndsTypes DEF Types
  <2> QED
    BY <2>1, <2>3, <2>4, <2>5, MainAnswers
<1>6. CASE Close
  <2>1. channel'.tasks = channel.tasks
    BY <1>6 DEF Close, Types, Channel
  <2> QED
    BY <1>1, <1>6, <2>1 DEF Close, Busy
<1>7. CASE NoMoreTasks
  <2>1. channel'.tasks = channel.tasks
    BY <1>7 DEF NoMoreTasks, givenBack, Types, Channel
  <2> QED
    BY <1>1, <1>7, <2>1 DEF NoMoreTasks, UnchangedMain, Busy, Out
<1>8. CASE Pass \/ Authenticated \/ Retr \/ Reset
  <2>1. UNCHANGED <<lines, channel, replies>> /\ Busy
    BY <1>8 DEF Pass, Authenticated, Retr, Reset, UnchangedMain, At, Busy
  <2>2. worker'.n = worker.n
    BY <1>8 DEF Pass, Authenticated, Retr, Reset, Types, WorkerKeys
  <2> QED
    BY <1>1, <2>1, <2>2
<1>9. CASE Recv \/ PartOfLine \/ UNCHANGED vars
  BY <1>1, <1>9 DEF Recv, PartOfLine, vars, Busy
<1> QED
  BY <1>2, <1>3, <1>4, <1>5, <1>6, <1>7, <1>8, <1>9, QueueNumbers, PopNumbers DEF Next, Main, Work, Ending

LEMMA NumbersHold == Spec => [](Types /\ Numbers)
<1>1. Init => Numbers
  <2> SUFFICES ASSUME Init PROVE Numbers
    OBVIOUS
  <2>1. /\ replies = <<[n |-> 0, code |-> "SERVER_READY", by |-> "main"]>> /\ lines = 0
        /\ channel.tasks = <<>> /\ worker.at = "out"
    BY DEF Init, Out
  <2>2. Len(replies) = 1 /\ replies[1].n = 0 /\ replies[1].by = "main"
    BY <2>1
  <2>3. replies \in Seq(Said)
    BY <2>1 DEF Said
  <2>4. RepliesInOrder
    BY <2>1 DEF RepliesInOrder
  <2> QED
    BY <2>1, <2>2, <2>3, <2>4 DEF Numbers, Busy
<1> QED
  BY <1>1, InitTypes, NextTypes, NumbersNext, PTL DEF Spec

\* The replies that the commands give come in the order of the commands, but
\* that those of the main loop overtake what is queued or running: also when a
\* transfer replies twice, and another task raises.
THEOREM AnsweredInOrder == Spec => []RepliesInOrder
<1>1. Numbers => RepliesInOrder
  BY DEF Numbers
<1> QED
  BY <1>1, NumbersHold, PTL

-----------------------------------------------------------------------------
(* Induction.                                                              *)

\* The library states induction for operators; for sets it follows from their
\* having a least element.
Below == {ss \in Nat \X Nat : ss[1] < ss[2]}

LEMMA Least ==
  ASSUME NEW S, S \subseteq Nat, S # {}
  PROVE  \E x \in S : \A y \in S : x <= y
<1>1. IsWellFoundedOn(Below, Nat)
  BY NatLessThanWellFounded DEF OpToRel, Below
<1>2. PICK x \in S : \A y \in S : ~(<<y, x>> \in Below)
  BY <1>1, WFMin
<1>3. \A y \in S : ~(y < x)
  BY <1>2 DEF Below
<1> QED
  BY <1>3

LEMMA Induction ==
  ASSUME NEW S, 0 \in S, \A n \in Nat : n \in S => n + 1 \in S
  PROVE  Nat \subseteq S
<1> SUFFICES ASSUME Nat \ S # {} PROVE FALSE
  OBVIOUS
<1>1. PICK x \in Nat \ S : \A y \in Nat \ S : x <= y
  BY Least
<1>2. x # 0 /\ x - 1 \in Nat /\ ~(x <= x - 1) /\ (x - 1) + 1 = x
  BY <1>1
<1>3. x - 1 \in S
  BY <1>1, <1>2
<1> QED
  BY <1>1, <1>2, <1>3

LEMMA Greatest ==
  ASSUME NEW n \in Nat, NEW s, s \subseteq 1..n, s # {}
  PROVE  Max(s) \in s /\ \A y \in s : y <= Max(s)
<1> DEFINE B == {k \in Nat : \A y \in s : y <= k}
<1>1. n \in B
  OBVIOUS
<1>2. PICK k \in B : \A j \in B : k <= j
  BY <1>1, Least
<1>3. k \in s
  <2> SUFFICES ASSUME k \notin s PROVE FALSE
    OBVIOUS
  <2>1. PICK y \in s : TRUE
    OBVIOUS
  <2>2. y \in Nat \ {0} /\ y <= k /\ k \in Nat
    BY <1>2
  <2>3. k - 1 \in Nat /\ ~(k <= k - 1)
    BY <2>2
  <2>4. \A z \in s : z <= k - 1
    BY <1>2, <2>2
  <2> QED
    BY <1>2, <2>3, <2>4
<1>4. \E x \in s : \A y \in s : x >= y
  BY <1>2, <1>3
<1>5. Max(s) \in s /\ \A y \in s : Max(s) >= y
  BY <1>4 DEF Max
<1> QED
  BY <1>5

-----------------------------------------------------------------------------
(* The directories: _generatePath() yields normalized ones.                *)

\* The strings: the provers do not know a literal for one of them.
Words == STRING \cup {"", ".."}
Names == Words \ {".."}
\* The step of normpath().
Stepped(path, name) == IF name # ".." THEN Append(path, name)
                       ELSE IF path = <<>> THEN <<>> ELSE Front(path)

LEMMA Steps == ASSUME NEW p \in Seq(Names), NEW x \in Words PROVE Stepped(p, x) \in Seq(Names)
<1>1. CASE x # ".."
  BY <1>1 DEF Stepped, Names
<1>2. CASE x = ".." /\ p # <<>>
  <2>1. SubSeq(p, 1, Len(p) - 1) \in Seq(Names)
    BY <1>2
  <2> QED
  BY <1>2, <2>1 DEF Stepped, Front
<1>3. CASE x = ".." /\ p = <<>>
  BY <1>3 DEF Stepped
<1> QED
  BY <1>1, <1>2, <1>3

\* The function that FoldLeft takes the value of.
Walking(p, args, S, f) ==
  f = [s \in SUBSET S |-> IF s = {} THEN p ELSE Stepped(f[s \ {Max(s)}], args[Max(s)])]

\* Its values on the first n names, when the names are walked one by one.
Walked(p, args, n, g) ==
  /\ g \in [SUBSET (1..n) -> Seq(Names)]
  /\ \A s \in SUBSET (1..n) :
       g[s] = IF s = {} THEN p ELSE Stepped(g[s \ {Max(s)}], args[Max(s)])

LEMMA WalkOn ==
  ASSUME NEW args \in Seq(Words), NEW p \in Seq(Names), NEW n \in Nat, n + 1 <= Len(args),
         NEW g, Walked(p, args, n, g)
  PROVE  \E h : Walked(p, args, n + 1, h)
<1> DEFINE N == n + 1
           h == [s \in SUBSET (1..N) |-> IF N \in s THEN Stepped(g[s \ {N}], args[N]) ELSE g[s]]
<1>1. N \in Nat /\ args[N] \in Words
  OBVIOUS
<1>2. \A s \in SUBSET (1..N) : s \ {N} \in SUBSET (1..n) /\ (N \notin s => s \in SUBSET (1..n))
  OBVIOUS
<1>3. \A s \in SUBSET (1..n) : g[s] \in Seq(Names)
  BY DEF Walked
<1>4. h \in [SUBSET (1..N) -> Seq(Names)]
  <2> SUFFICES ASSUME NEW s \in SUBSET (1..N)
               PROVE  (IF N \in s THEN Stepped(g[s \ {N}], args[N]) ELSE g[s]) \in Seq(Names)
    OBVIOUS
  <2>1. g[s \ {N}] \in Seq(Names) /\ (N \notin s => g[s] \in Seq(Names))
    BY <1>2, <1>3
  <2> QED
    BY <1>1, <2>1, Steps
<1>5. ASSUME NEW s \in SUBSET (1..N)
      PROVE  h[s] = IF s = {} THEN p ELSE Stepped(h[s \ {Max(s)}], args[Max(s)])
  <2>1. CASE N \in s
    <3> HIDE DEF N
    <3>1. Max(s) \in s /\ \A y \in s : y <= Max(s)
      BY <1>1, <2>1, Greatest
    <3>2. Max(s) = N
      <4>1. Max(s) \in 1..N /\ N <= Max(s)
        BY <2>1, <3>1
      <4> QED
        BY <1>1, <4>1
    <3>3. h[s \ {N}] = g[s \ {N}] /\ h[s] = Stepped(g[s \ {N}], args[N])
      BY <1>2, <2>1
    <3> QED
      BY <2>1, <3>2, <3>3
  <2>2. CASE N \notin s /\ s # {}
    <3>1. s \in SUBSET (1..n) /\ s \ {Max(s)} \in SUBSET (1..n)
      BY <1>2, <2>2
    <3>2. g[s] = Stepped(g[s \ {Max(s)}], args[Max(s)])
      BY <2>2, <3>1 DEF Walked
    <3>3. h[s] = g[s] /\ h[s \ {Max(s)}] = g[s \ {Max(s)}]
      BY <2>2, <3>1
    <3> QED
      BY <2>2, <3>2, <3>3
  <2>3. CASE s = {}
    <3>1. N \notin s /\ s \in SUBSET (1..n)
      BY <2>3
    <3>2. h[s] = g[s] /\ g[s] = p
      BY <2>3, <3>1 DEF Walked
    <3> QED
      BY <2>3, <3>2
  <2> QED
    BY <2>1, <2>2, <2>3
<1> HIDE DEF h
<1> QED
  BY <1>4, <1>5 DEF Walked

\* The function chosen is the one that walks.
LEMMA Walk ==
  ASSUME NEW args \in Seq(Words), NEW p \in Seq(Names), NEW m \in Nat, m <= Len(args)
  PROVE  (CHOOSE f : Walking(p, args, 1..m, f))[1..m] \in Seq(Names)
<1> DEFINE Good == {n \in Nat : n <= Len(args) => \E g : Walked(p, args, n, g)}
<1>1. 0 \in Good
  <2> DEFINE g == [s \in SUBSET (1..0) |-> p]
  <2>1. \A s \in SUBSET (1..0) : s = {}
    OBVIOUS
  <2>2. Walked(p, args, 0, g)
    BY <2>1 DEF Walked
  <2> QED
    BY <2>2
<1>2. ASSUME NEW n \in Nat, n \in Good
      PROVE  n + 1 \in Good
  <2>1. n + 1 <= Len(args) => n <= Len(args)
    OBVIOUS
  <2> QED
    BY <1>2, <2>1, WalkOn
<1>3. m \in Good
  <2> HIDE DEF Good
  <2> QED
    BY <1>1, <1>2, Induction
<1>4. PICK g : Walked(p, args, m, g)
  BY <1>3
<1>5. Walking(p, args, 1..m, g)
  BY <1>4 DEF Walking, Walked
<1> DEFINE f == CHOOSE f : Walking(p, args, 1..m, f)
<1>6. Walking(p, args, 1..m, f)
  BY <1>5
<1> HIDE DEF f
<1> DEFINE Alike == {k \in Nat : k <= m => \A s \in SUBSET (1..k) : f[s] = g[s]}
<1>7. f[{}] = p /\ g[{}] = p
  <2>1. {} \in SUBSET (1..m)
    OBVIOUS
  <2> QED
    BY <1>4, <1>6, <2>1 DEF Walking, Walked
<1>8. 0 \in Alike
  <2>1. \A s \in SUBSET (1..0) : s = {}
    OBVIOUS
  <2> QED
    BY <1>7, <2>1
<1>9. ASSUME NEW k \in Nat, k \in Alike
      PROVE  k + 1 \in Alike
  <2> SUFFICES ASSUME k + 1 <= m, NEW s \in SUBSET (1..k + 1)
               PROVE  f[s] = g[s]
    OBVIOUS
  <2>0. CASE s = {}
    BY <1>7, <2>0
  <2> SUFFICES ASSUME s # {} PROVE f[s] = g[s]
    BY <2>0
  <2>1. k + 1 \in Nat /\ s \subseteq 1..k + 1
    OBVIOUS
  <2>2. Max(s) \in s /\ \A y \in s : y <= Max(s)
    BY <2>1, Greatest
  <2>3. \A y \in s \ {Max(s)} : y \in 1..k
    <3>1. ASSUME NEW y \in s, y # Max(s)
          PROVE  y \in 1..k
      <4>1. y \in 1..k + 1 /\ Max(s) \in 1..k + 1 /\ y <= Max(s)
        BY <2>1, <2>2
      <4> QED
        BY <3>1, <4>1
    <3> QED
      BY <3>1
  <2>4. s \ {Max(s)} \in SUBSET (1..k) /\ s \in SUBSET (1..m) /\ k <= m
    <3>1. 1..k + 1 \subseteq 1..m /\ k <= m
      OBVIOUS
    <3> QED
      BY <2>1, <2>3, <3>1
  <2>5. f[s] = Stepped(f[s \ {Max(s)}], args[Max(s)])
    BY <1>6, <2>4 DEF Walking
  <2>6. g[s] = Stepped(g[s \ {Max(s)}], args[Max(s)])
    BY <1>4, <2>4 DEF Walked
  <2>7. f[s \ {Max(s)}] = g[s \ {Max(s)}]
    BY <1>9, <2>4
  <2> QED
    BY <2>5, <2>6, <2>7
<1>10. m \in Alike
  <2> HIDE DEF Alike
  <2> QED
    BY <1>8, <1>9, Induction
<1>11. f[1..m] = g[1..m] /\ g[1..m] \in Seq(Names)
  BY <1>4, <1>10 DEF Walked
<1> QED
  BY <1>11 DEF f

LEMMA Normalized ==
  ASSUME NEW args \in Seq(Words), NEW p \in Seq(Names)
  PROVE  FoldLeft(Stepped, p, args) \in Seq(Names)
<1>1. FoldLeft(Stepped, p, args) = (CHOOSE f : Walking(p, args, DOMAIN args, f))[DOMAIN args]
  BY DEF FoldLeft, MapThenFoldSet, Walking
<1>2. DOMAIN args = 1..Len(args) /\ Len(args) \in Nat /\ Len(args) <= Len(args)
  OBVIOUS
<1> QED
  BY <1>1, <1>2, Walk

LEMMA GeneratesNormal ==
  ASSUME NEW s, NEW args \in Seq(Words), s.cwd \in Seq(Names)
  PROVE  _generatePath(s, args) \in Seq(Names)
<1> DEFINE absolute == args # <<>> /\ Head(args) = "/"
           p == IF absolute THEN <<>> ELSE s.cwd
           as == IF absolute THEN Tail(args) ELSE args
<1>1. p \in Seq(Names) /\ as \in Seq(Words)
  <2>1. <<>> \in Seq(Names) /\ (args # <<>> => Tail(args) \in Seq(Words))
    OBVIOUS
  <2> QED
    BY <2>1
<1>2. FoldLeft(Stepped, p, as) \in Seq(Names)
  <2> HIDE DEF p, as
  <2> QED
    BY <1>1, Normalized
<1> QED
  BY <1>2 DEF _generatePath, Stepped, FoldLeft, MapThenFoldSet

-----------------------------------------------------------------------------
(* The types of the session.                                               *)

Credential == {None} \cup (Words \X Seq(Words))
\* The session, whose working directory is normalized.
Session == [username : Words, credentials : Credential, authenticated : BOOLEAN,
            cwd : Seq(Names), restart_position : Nat, _rnfr : {None} \cup Seq(Names),
            transfer_mode : {"a", "i", "l"}]

\* An outcome that leaves such a session.
Fits(o) == {"session", "codes", "closes", "opens"} \subseteq DOMAIN o /\ o.session \in Session

LEMMA OutcomeFits == ASSUME NEW t \in Session, NEW c PROVE Fits(Outcome(t, c))
  BY DEF Fits, Outcome

LEMMA ClosingFits == ASSUME NEW o, Fits(o) PROVE Fits(Closing(o))
  BY DEF Fits, Closing

LEMMA CodesFit == ASSUME NEW o, Fits(o), NEW codes PROVE Fits([o EXCEPT !.codes = codes])
  BY DEF Fits

LEMMA RaisedFits == ASSUME NEW s \in Session PROVE \A o \in Raised(s) : Fits(o)
<1>1. Fits(Exception(s))
  BY OutcomeFits, ClosingFits DEF Exception
<1>2. Fits(SocketError(s))
  BY <1>1, CodesFit DEF SocketError
<1> QED
  BY <1>1, <1>2 DEF Raised

LEMMA OpeningFits == ASSUME NEW O, \A o \in O : Fits(o) PROVE \A p \in Opening(O) : Fits(p)
<1> SUFFICES ASSUME NEW p \in Opening(O) PROVE Fits(p)
  OBVIOUS
<1>1. PICK o \in O : p = [o EXCEPT !.opens = TRUE]
  BY DEF Opening
<1> QED
  BY <1>1 DEF Fits

LEMMA WhetherFits ==
  ASSUME NEW s \in Session, NEW t \in Session, NEW done, NEW not
  PROVE  \A o \in Whether(s, t, done, not) : Fits(o)
<1>1. \A p \in {Outcome(t, done), Outcome(s, not)} \cup Raised(s) : Fits(p)
  BY OutcomeFits, RaisedFits
<1> QED
  BY <1>1, OpeningFits DEF Whether

LEMMA ChangeFits ==
  ASSUME NEW s \in Session, NEW args, NEW done, NEW error
  PROVE  \A o \in Change(args, s, done, error) : Fits(o)
<1>1. \A p \in {Outcome(s, done), Outcome(s, error), Exception(s), Outcome(s, "ERR_ARGS")} : Fits(p)
  BY OutcomeFits, RaisedFits DEF Raised
<1>2. CASE args = <<>>
  BY <1>1, <1>2 DEF Change
<1>3. CASE args # <<>>
  BY <1>1, <1>3, OpeningFits DEF Change
<1> QED
  BY <1>2, <1>3

\* The commands that change the session.
LEMMA PathsFit ==
  ASSUME NEW s \in Session, NEW args \in Seq(Words), NEW method \in {"cdup", "cwd", "rnfr", "rnto"},
         NEW o \in Run(method, args, s)
  PROVE  Fits(o)
<1>1. ASSUME NEW as \in Seq(Words)
      PROVE  [s EXCEPT !.cwd = _generatePath(s, as)] \in Session /\ [s EXCEPT !._rnfr = _generatePath(s, as)] \in Session
  <2>1. s.cwd \in Seq(Names)
    BY DEF Session
  <2>2. _generatePath(s, as) \in Seq(Names)
    BY <1>1, <2>1, GeneratesNormal
  <2> QED
    BY <2>2 DEF Session
<1>2. CASE method = "cdup"
  <2>1. o \in cmd_cdup(args, s)
    BY <1>2 DEF Run
  <2>2. <<"..">> \in Seq(Words)
    <3>1. \A x \in Words : <<x>> \in Seq(Words)
      OBVIOUS
    <3>2. ".." \in Words
      BY DEF Words
    <3> QED
      BY <3>1, <3>2
  <2> QED
    BY <2>1, <2>2, <1>1, WhetherFits DEF cmd_cdup
<1>3. CASE method = "cwd"
  <2>1. o \in cmd_cwd(args, s)
    BY <1>3 DEF Run
  <2> QED
    BY <2>1, <1>1, WhetherFits DEF cmd_cwd
<1>4. CASE method = "rnfr"
  <2>1. o \in cmd_rnfr(args, s)
    BY <1>4 DEF Run
  <2> QED
    BY <2>1, <1>1, WhetherFits DEF cmd_rnfr
<1>5. CASE method = "rnto"
  <2> DEFINE over == [s EXCEPT !._rnfr = None]
  <2>1. o \in cmd_rnto(args, s)
    BY <1>5 DEF Run
  <2>2. over \in Session
    BY DEF Session
  <2>3. CASE s._rnfr = None
    BY <2>1, <2>3, OutcomeFits DEF cmd_rnto
  <2>4. CASE s._rnfr # None
    <3>1. o \in Opening({Outcome(over, "SUCCESS_250"), Outcome(over, "ERR_RENAME"), Exception(s)})
      BY <2>1, <2>4 DEF cmd_rnto
    <3> HIDE DEF over
    <3>2. \A p \in {Outcome(over, "SUCCESS_250"), Outcome(over, "ERR_RENAME"), Exception(s)} : Fits(p)
      BY <2>2, OutcomeFits, RaisedFits DEF Raised
    <3> QED
      BY <3>1, <3>2, OpeningFits
  <2> QED
    BY <2>3, <2>4
<1> QED
  BY <1>2, <1>3, <1>4, <1>5

\* The others that the worker runs.
LEMMA FilesFit ==
  ASSUME NEW s \in Session, NEW args \in Seq(Words),
         NEW method \in thread_commands \ {"pass", "retr", "cdup", "cwd", "rnfr", "rnto"},
         NEW o \in Run(method, args, s)
  PROVE  Fits(o)
<1>1. CASE method = "size"
  BY <1>1, WhetherFits DEF Run, cmd_size
<1>2. CASE method = "mdtm"
  <2>1. o \in cmd_mdtm(args, s)
    BY <1>2 DEF Run
  <2>2. Fits(Outcome(s, "ERR_ARGS"))
    BY OutcomeFits
  <2> QED
    BY <2>1, <2>2, OpeningFits, WhetherFits DEF cmd_mdtm
<1>3. CASE method \in {"dele", "mkd", "rmd"}
  BY <1>3, ChangeFits DEF Run, cmd_dele, cmd_mkd, cmd_rmd
<1>4. CASE method \in {"list", "nlst"}
  <2>1. o \in cmd_list(args, s)
    BY <1>4 DEF Run
  <2>2. \A p \in {Outcome(s, "ERR_NO_DIR_FILE"), Outcome(s, "ERR_NO_LIST")}
              \cup Raised(s) \cup {Outcome(s, "ERR_ARGS")} : Fits(p)
    BY OutcomeFits, RaisedFits
  <2> QED
    BY <2>1, <2>2, OpeningFits DEF cmd_list
<1>5. CASE method \in {"stor", "appe"}
  <2>1. o \in cmd_stor(args, s)
    BY <1>5 DEF Run
  <2> QED
    BY <2>1, OutcomeFits, WhetherFits DEF cmd_stor
<1>6. CASE method = "stru"
  <2>1. o \in cmd_stru(args, s)
    BY <1>6 DEF Run
  <2> QED
    BY <2>1, OutcomeFits DEF cmd_stru
<1> QED
  BY <1>1, <1>2, <1>3, <1>4, <1>5, <1>6 DEF thread_commands

LEMMA MainFits ==
  ASSUME NEW s \in Session, NEW args \in Seq(Words), lines \in Nat,
         NEW method \in main_commands, NEW o \in Run(method, args, s)
  PROVE  Fits(o)
<1>1. CASE method \in {"abor", "help", "mode", "noop", "pasv", "port", "pwd", "syst"}
  <2>1. o \in Raised(s) \/ \E c : o = Outcome(s, c)
    BY <1>1 DEF Run, cmd_abor, cmd_help, cmd_mode, cmd_noop, cmd_pasv, cmd_port, cmd_pwd, cmd_syst, Raised
  <2> QED
    BY <2>1, OutcomeFits, RaisedFits
<1>2. CASE method = "quit"
  <2>1. o = Closing(Outcome(s, "GOODBYE"))
    BY <1>2 DEF Run, cmd_quit
  <2> QED
    BY <2>1, OutcomeFits, ClosingFits
<1>3. CASE method = "user"
  <2> DEFINE out == [s EXCEPT !.authenticated = FALSE]
  <2>1. out \in Session
    BY DEF Session
  <2>3. ASSUME args # <<>>
        PROVE  [out EXCEPT !.username = Head(args)] \in Session
    <3> HIDE DEF out
    <3>1. Head(args) \in Words
      BY <2>3
    <3> QED
      BY <2>1, <3>1 DEF Session
  <2>2. \/ o = Outcome(out, "ERR_ARGS")
        \/ args # <<>> /\ o = Outcome([out EXCEPT !.username = Head(args)], "PASS_REQUIRED")
    BY <1>3 DEF Run, cmd_user
  <2> HIDE DEF out
  <2> QED
    BY <2>1, <2>2, <2>3, OutcomeFits
<1>4. CASE method = "type"
  <2> DEFINE t == [s EXCEPT !.transfer_mode = Head(args)]
  <2>1. /\ o \in cmd_type(args, s)
        /\ Head(args) \in {"a", "i", "l"} => t \in Session
    BY <1>4 DEF Run, Session
  <2>2. \/ o \in Raised(s) \/ \E c : o = Outcome(s, c)
        \/ Head(args) \in {"a", "i", "l"} /\ o = Outcome(t, "TYPE_SET_OK")
    BY <2>1 DEF cmd_type, Raised
  <2> HIDE DEF t
  <2> QED
    BY <2>1, <2>2, OutcomeFits, RaisedFits
<1>5. CASE method = "rest"
  <2>1. PICK t, c : /\ o = Outcome(t, c)
                    /\ t \in {s, [s EXCEPT !.restart_position = 0], [s EXCEPT !.restart_position = lines + 1]}
    BY <1>5 DEF Run, cmd_rest
  <2>2. t \in Session
    BY <2>1 DEF Session
  <2> QED
    BY <2>1, <2>2, OutcomeFits
<1> QED
  BY <1>1, <1>2, <1>3, <1>4, <1>5 DEF main_commands

\* The invariant: the arguments and credentials in the hands of the worker are
\* strings, and no position is that of a command to come.
Properly ==
  /\ session \in Session /\ session.restart_position <= lines
  /\ inbuf \in 0..MaxLineLength
  /\ worker.args \in Seq(Words) /\ worker.credentials \in Credential

LEMMA SeqOfAll ==
  ASSUME NEW S, NEW T, S \subseteq T
  PROVE  Seq(S) \subseteq Seq(T)
  OBVIOUS

LEMMA SeqOfThese ==
  ASSUME NEW S, NEW T, NEW s \in Seq(S), \A i \in 1..Len(s) : s[i] \in T
  PROVE  s \in Seq(T)
  OBVIOUS

LEMMA Strings == STRING \subseteq Words /\ Seq(STRING) \subseteq Seq(Words) /\ "" \in Words
<1>1. STRING \subseteq Words /\ "" \in Words
  BY DEF Words
<1> QED
  BY <1>1, SeqOfAll

LEMMA InitProperly == Init => Properly
<1> SUFFICES ASSUME Init PROVE Properly
  OBVIOUS
<1>1. session = [username |-> "", credentials |-> None, authenticated |-> FALSE, cwd |-> <<>>,
                 restart_position |-> 0, _rnfr |-> None, transfer_mode |-> "a"]
  BY DEF Init
<1>2. <<>> \in Seq(Names) /\ <<>> \in Seq(Words)
  OBVIOUS
<1>7. "" \in Words /\ None \in Credential
  BY Strings DEF Credential
<1>3. session \in Session
  BY <1>1, <1>2, <1>7 DEF Session
<1>6. session.restart_position = 0
  BY <1>1
<1>8. MaxLineLength \in Nat
  BY LengthAssumption
<1>9. inbuf = 0 /\ lines = 0
  BY DEF Init
<1>4. inbuf \in 0..MaxLineLength
  BY <1>8, <1>9
<1>5. worker.args = <<>> /\ worker.credentials = None
  BY DEF Init, Out
<1>10. worker.args \in Seq(Words) /\ worker.credentials \in Credential
  BY <1>2, <1>5, <1>7
<1>11. session.restart_position <= lines
  BY <1>6, <1>9
<1> QED
  BY <1>3, <1>4, <1>10, <1>11 DEF Properly

LEMMA MainProperly == ASSUME Types, Properly, Main \/ Close PROVE Properly'
<1>1. CASE Recv \/ PartOfLine \/ Close
  <2>1. UNCHANGED <<lines, session, worker>>
    BY <1>1 DEF Recv, PartOfLine, Close
  <2>2. inbuf' \in 0..MaxLineLength
    BY <1>1, LengthAssumption DEF Recv, PartOfLine, Close, TooLong, Properly
  <2> QED
    BY <2>1, <2>2 DEF Properly
<1>2. CASE Reject \/ Unknown \/ Queue
  <2>1. Line /\ UNCHANGED session
    BY <1>2 DEF Reject, Unknown, Queue
  <2>2. inbuf' \in 0..MaxLineLength /\ session'.restart_position <= lines'
    BY <2>1, LengthAssumption, LineTypes DEF Line, Properly, Session, Types
  <2>3. worker'.args = worker.args /\ worker'.credentials = worker.credentials
    BY <1>2 DEF Reject, Unknown, Queue, Types, WorkerKeys
  <2> QED
    BY <2>1, <2>2, <2>3 DEF Properly
<1>3. CASE RunInMain
  <2>1. Line /\ UNCHANGED worker /\ Method \in main_commands
    BY <1>3 DEF RunInMain
  <2>2. PICK o \in Run(Method, Args, session) : Ends("main", lines + 1, o)
    BY <1>3 DEF RunInMain
  <2>3. Sound(o, session) /\ session' = o.session
    BY <2>1, <2>2, MainSound DEF Types, Ends
  <2>4. Args \in Seq(Words) /\ lines \in Nat /\ lines' = lines + 1
    BY <2>1, LineTypes, Strings DEF Types
  <2>5. session' \in Session
    BY <2>1, <2>2, <2>3, <2>4, MainFits DEF Properly, Fits
  <2>6. session'.restart_position <= lines'
    BY <2>3, <2>4 DEF Sound, Properly, Session
  <2>7. inbuf' \in 0..MaxLineLength
    BY <2>1, LengthAssumption DEF Line
  <2> QED
    BY <2>1, <2>5, <2>6, <2>7 DEF Properly
<1> QED
  BY <1>1, <1>2, <1>3 DEF Main

LEMMA EndingProperly == ASSUME Types, Properly, Ending PROVE session' \in Session
<1>1. CASE Service
  <2>1. PICK o \in Run(worker.at, worker.args, session) : Ends("worker", worker.n, o)
    BY <1>1 DEF Service
  <2>2. worker.at \in thread_commands \ {"pass", "retr"} /\ worker.args \in Seq(Words) /\ session \in Session
    BY <1>1 DEF Service, Properly
  <2>3. Fits(o)
    BY <2>1, <2>2, PathsFit, FilesFit
  <2> QED
    BY <2>1, <2>3 DEF Ends, Fits
<1>2. CASE LoggedIn
  <2>1. [session EXCEPT !.authenticated = TRUE] \in Session
    BY DEF Properly, Session
  <2> QED
    BY <1>2, <2>1, OutcomeFits DEF LoggedIn, Ends, Fits
<1>3. CASE Unauthorized
  <2>1. PICK o : Ends("worker", worker.n, o) /\ (o \in Raised(session) \/ o = Closing(Outcome(session, "LOGIN_MISMATCH")))
    BY <1>3 DEF Unauthorized
  <2>2. Fits(o)
    BY <2>1, RaisedFits, OutcomeFits, ClosingFits DEF Properly
  <2> QED
    BY <2>1, <2>2 DEF Ends, Fits
<1>4. CASE RetrRefused
  <2>1. \A p \in {Outcome(session, "ERR_IS_NOT_FILE")} \cup Raised(session) : Fits(p)
    BY OutcomeFits, RaisedFits DEF Properly
  <2>2. PICK o \in Opening({Outcome(session, "ERR_IS_NOT_FILE")} \cup Raised(session)) :
          \E codes : Ends("worker", worker.n, [o EXCEPT !.codes = codes])
    BY <1>4 DEF RetrRefused
  <2>3. \A codes : Fits([o EXCEPT !.codes = codes])
    BY <2>1, OpeningFits, CodesFit
  <2> QED
    BY <2>2, <2>3 DEF Ends, Fits
<1>5. CASE RetrNothing \/ Sent
  <2>1. PICK error, o :
          /\ o \in Nothing(session, error) \cup {Closing(Outcome(session, error))}
          /\ Ends("worker", worker.n, o)
    BY <1>5 DEF RetrNothing, Sent
  <2>2. o.session = session
    BY <2>1 DEF Nothing, Exception, Closing, Outcome
  <2> QED
    BY <2>1, <2>2 DEF Ends, Properly
<1> QED
  BY <1>1, <1>2, <1>3, <1>4, <1>5 DEF Ending

LEMMA WorkProperly == ASSUME Types, Properly, Work PROVE Properly'
<1>1. inbuf' = inbuf /\ lines' = lines
  BY DEF Work, PopTask, NoMoreTasks, Service, Pass, Authenticated, LoggedIn, Unauthorized, RetrRefused,
         Retr, Reset, RetrNothing, Opens, Sent, UnchangedMain
<1>2. CASE Ending
  <2>1. worker' = Idle
    BY <1>2, WorkEnds
  <2>2. PICK o, s : EndsFrom(o, s)
    BY <1>2, WorkEnds
  <2>3. session'.restart_position <= lines
    <3>1. session'.restart_position = s.restart_position
      BY <2>2 DEF EndsFrom, Unmoved, Ends
    <3>2. s.restart_position = session.restart_position
      BY <2>2 DEF EndsFrom
    <3> QED
      BY <3>1, <3>2 DEF Properly, Types
  <2>4. worker'.args \in Seq(Words) /\ worker'.credentials \in Credential
    BY <2>1 DEF Idle, Out, Credential
  <2> QED
    BY <1>1, <1>2, <2>3, <2>4, EndingProperly DEF Properly
<1>3. CASE PopTask
  <2>1. Head(channel.tasks) \in Task
    BY <1>3 DEF PopTask, Types, Channel
  <2>2. worker'.args \in Seq(STRING) /\ worker'.credentials = worker.credentials
    BY <1>3, <2>1 DEF PopTask, Types, WorkerKeys, Task
  <2> QED
    BY <1>1, <1>3, <2>2, Strings DEF PopTask, Properly
<1>4. CASE NoMoreTasks
  <2>1. worker'.args \in Seq(Words) /\ worker'.credentials \in Credential
    BY <1>4 DEF NoMoreTasks, Out, Credential
  <2> QED
    BY <1>1, <1>4, <2>1 DEF NoMoreTasks, Properly
<1>5. CASE Pass
  <2> DEFINE c == <<session.username, worker.args>>
  <2>1. c \in Credential
    BY DEF Credential, Properly, Session
  <2>2. session' \in Session /\ session'.restart_position = session.restart_position
    BY <1>5 DEF Pass, asked, Properly, Session
  <2>3. worker'.args = worker.args /\ worker'.credentials = c
    BY <1>5 DEF Pass, Types, WorkerKeys
  <2> QED
    BY <1>1, <2>1, <2>2, <2>3 DEF Properly
<1>6. CASE Authenticated
  <2>1. session' \in Session /\ session'.restart_position = session.restart_position
    BY <1>6 DEF Authenticated, Properly, Session, Credential
  <2>2. worker'.args = worker.args /\ worker'.credentials = worker.credentials
    BY <1>6 DEF Authenticated, Types, WorkerKeys
  <2> QED
    BY <1>1, <2>1, <2>2 DEF Properly
<1>7. CASE Retr
  <2>1. worker'.args = worker.args /\ worker'.credentials = worker.credentials
    BY <1>7 DEF Retr, Types, WorkerKeys
  <2> QED
    BY <1>1, <1>7, <2>1 DEF Retr, Properly
<1>8. CASE Reset \/ Opens
  <2>1. worker'.args = worker.args /\ worker'.credentials = worker.credentials
    BY <1>8 DEF Reset, Opens, Types, WorkerKeys
  <2>2. session' = session \/ session' = [session EXCEPT !.restart_position = 0]
    BY <1>8 DEF Reset, Opens, positionReset
  <2>3. session \in Session /\ session.restart_position <= lines /\ lines \in Nat
    BY DEF Properly, Types
  <2>4. session' \in Session /\ session'.restart_position <= lines
    BY <2>2, <2>3 DEF Session
  <2> QED
    BY <1>1, <2>1, <2>4 DEF Properly
<1> QED
  BY <1>2, <1>3, <1>4, <1>5, <1>6, <1>7, <1>8 DEF Work, Ending

\* Every variable has its type, and the working directory is normalized
\* whatever directories the client names.
THEOREM TypeCorrect == Spec => []TypeOK
<1>1. Types /\ Properly /\ [Next]_vars => Properly'
  <2>1. CASE UNCHANGED vars
    BY <2>1 DEF vars, Properly
  <2> QED
    BY <2>1, MainProperly, WorkProperly DEF Next
<1>2. Types /\ Numbers /\ Properly => TypeOK
  <2> SUFFICES ASSUME Types, Numbers, Properly PROVE TypeOK
    OBVIOUS
  <2>1. channel.tasks \in Seq([method : thread_commands, args : Seq(STRING), n : 1..lines])
    <3> DEFINE S == [method : thread_commands, args : Seq(STRING), n : 1..lines]
               ts == channel.tasks
    <3>1. channel.tasks \in Seq(Task) /\ Len(channel.tasks) \in Nat
      BY DEF Types, Channel
    <3>2. ASSUME NEW i \in 1..Len(channel.tasks)
          PROVE  channel.tasks[i] \in S
      <4>1. channel.tasks[i] \in Task /\ channel.tasks[i].n \in 1..lines
        BY <3>1 DEF Numbers
      <4> QED
        BY <4>1 DEF Task
    <3>3. ts \in Seq(Task)
      BY <3>1
    <3>4. \A i \in 1..Len(ts) : ts[i] \in S
      BY <3>2
    <3> HIDE DEF S, ts
    <3>5. ts \in Seq(S)
      BY <3>3, <3>4, SeqOfThese
    <3> QED
      BY <3>5 DEF S, ts
  <2>2. {channel.async_mode, channel.will_close, channel.connected, channel.running_tasks,
         session.authenticated} \subseteq BOOLEAN
    BY DEF Types, Channel
  <2>3. session.restart_position \in 0..lines /\ session.transfer_mode \in {"a", "i", "l"}
    BY DEF Types, Properly, Session
  <2>4. ".." \notin Range(session.cwd)
    BY DEF Properly, Session, Range, Names
  <2> QED
    BY <2>1, <2>2, <2>3, <2>4 DEF TypeOK, Types, Properly
<1> QED
  BY <1>1, <1>2, InitTypes, NextTypes, InitProperly, NumbersHold, PTL DEF Spec
=============================================================================
