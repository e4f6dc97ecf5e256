-------------------------- MODULE FTPServerChannel --------------------------
(* The control channel of an FTP session: a line receiver that handles some *)
(* commands in the main loop, at once, and queues the others for a worker,  *)
(* which runs them one after the other meanwhile.  Both read and change the *)
(* attributes of the session.                                               *)
(*                                                                          *)
(* queue_task(), set_sync() and set_async() are single steps here, and so   *)
(* is a reply; ServerChannel has their parts.  What a data channel reports  *)
(* of itself is not here: FTPTransfer and RETRChannel have data connections.*)
EXTENDS Naturals, Sequences, SequencesExt, FiniteSets

CONSTANTS
  Scripts,       \* what the client may send: sequences of batches of pieces
  Accepted,      \* the credentials that authenticate() accepts
  MaxLines,      \* lines of a script, at most
  MaxLineLength, \* pieces without a line end that the parser takes at most
  None

ASSUME LengthAssumption == {MaxLines, MaxLineLength} \subseteq Nat /\ None \notin Accepted

\* A piece of the stream: a line, parsed into a command, or a part of one.
Piece == [kind : {"line", "part"}, method : STRING, args : Seq(STRING)]
ASSUME ScriptsAssumption == \A s \in Scripts : s \in Seq(Seq(Piece))

VARIABLES
  script,    \* the batches the client has still to send
  input,     \* what received() has still to handle of the last batch
  inbuf,     \* the parser's: pieces of the current line
  lines,     \* commands so far
  channel,   \* the channel: [async_mode, will_close, connected, running_tasks, tasks]
  session,   \* its session, see Init
  worker,    \* what the worker is about to do: [at, n, args, start, credentials]
  opened,    \* history: the credentials with which the file system was opened
  starts,    \* history: the positions, other than zero, at which RETR started
  replies,   \* history: [n, code, by], n being the number of the command
  silent     \* history: the downloads that ended without having written anything

vars == <<script, input, inbuf, lines, channel, session, worker, opened, starts, replies, silent>>

special_commands == {"quit", "type", "noop", "user", "pass"}
thread_commands == {"appe", "cdup", "cwd", "dele", "list", "nlst", "mdtm", "mkd", "pass", "retr",
                    "rmd", "rnfr", "rnto", "size", "stor", "stru"}
\* The other methods, which run in the main loop.
main_commands == {"abor", "help", "mode", "noop", "pasv", "port", "pwd", "quit", "rest", "syst",
                  "type", "user"}

Out == [at |-> "out", n |-> 0, args |-> <<>>, start |-> 0, credentials |-> None]

\* restart_position is named by the number of the REST that gave it.
Init ==
  /\ script \in Scripts /\ input = <<>> /\ inbuf = 0 /\ lines = 0
  /\ channel = [async_mode |-> TRUE, will_close |-> FALSE, connected |-> TRUE,
                running_tasks |-> FALSE, tasks |-> <<>>]
  /\ session = [username |-> "", credentials |-> None, authenticated |-> FALSE, cwd |-> <<>>,
                restart_position |-> 0, _rnfr |-> None, transfer_mode |-> "a"]
  /\ worker = Out
  /\ opened = {} /\ starts = <<>>
  /\ replies = <<[n |-> 0, code |-> "SERVER_READY", by |-> "main"]>> /\ silent = {}

-----------------------------------------------------------------------------
(* Commands: of their arguments and the session they make the session, the  *)
(* replies, whether they close the channel, and whether they have opened    *)
(* the file system.  What the file system says is one of a set of outcomes. *)

Outcome(s, code) == [session |-> s, codes |-> <<code>>, closes |-> FALSE, opens |-> FALSE]
Closing(o) == [o EXCEPT !.closes = TRUE]
Opening(outcomes) == {[o EXCEPT !.opens = TRUE] : o \in outcomes}

\* exception()
Exception(s) == Closing(Outcome(s, "INTERNAL_ERROR"))
\* An OSError nobody handles: service() closes the channel without a word.
SocketError(s) == [Exception(s) EXCEPT !.codes = <<>>]
Raised(s) == {Exception(s), SocketError(s)}

\* posixpath.normpath(posixpath.join(cwd, args)): names, the first may be "/".
joinedOnly(s, args) == s.cwd \o args
_generatePath(s, args) ==
  LET absolute == args # <<>> /\ Head(args) = "/"
      Step(path, name) == IF name # ".." THEN Append(path, name)
                          ELSE IF path = <<>> THEN <<>> ELSE Front(path)
  IN  FoldLeft(Step, IF absolute THEN <<>> ELSE s.cwd, IF absolute THEN Tail(args) ELSE args)

\* The file system has what is asked for, and the command is done, or not.
Whether(s, t, done, not) ==
  Opening({Outcome(t, done), Outcome(s, not)} \cup Raised(s))

cmd_cdup(args, s) ==
  Whether(s, [s EXCEPT !.cwd = _generatePath(s, <<"..">>)], "SUCCESS_250", "ERR_NO_FILE")
cmd_cwd(args, s) ==
  Whether(s, [s EXCEPT !.cwd = _generatePath(s, args)], "SUCCESS_250", "ERR_NO_DIR")
cmd_size(args, s) == Whether(s, s, "FILE_SIZE", "ERR_NO_FILE")
cmd_mdtm(args, s) ==
  IF Len(args) > 1 THEN Opening({Outcome(s, "ERR_ARGS")})
  ELSE Whether(s, s, "FILE_DATE", "ERR_IS_NOT_FILE")

\* A change of the file system, whose OSError is answered.
Change(args, s, done, error) ==
  IF args = <<>> THEN {Outcome(s, "ERR_ARGS")}
  ELSE Opening({Outcome(s, done), Outcome(s, error), Exception(s)})

cmd_dele(args, s) == Change(args, s, "SUCCESS_250", "ERR_DELETE_FILE")
cmd_mkd(args, s) == Change(args, s, "SUCCESS_257", "ERR_CREATE_DIR")
cmd_rmd(args, s) == Change(args, s, "SUCCESS_250", "ERR_DELETE_DIR")

\* LIST and NLST as far as they end before there is anything to send.
Help(args) == args # <<>> /\ Head(args) = "-?"
cmd_list(args, s) ==
  IF Help(args) THEN {Outcome(s, "ERR_ARGS")}
  ELSE Opening({Outcome(s, "ERR_NO_DIR_FILE"), Outcome(s, "ERR_NO_LIST")} \cup Raised(s))

cmd_rnfr(args, s) ==
  Whether(s, [s EXCEPT !._rnfr = _generatePath(s, args)], "READY_FOR_DEST", "ERR_NO_FILE")
cmd_rnto(args, s) ==
  IF s._rnfr = None THEN {Outcome(s, "ERR_RENAME")}
  ELSE LET over == [s EXCEPT !._rnfr = None]
       IN  Opening({Outcome(over, "SUCCESS_250"), Outcome(over, "ERR_RENAME"), Exception(s)})

\* STOR and APPE leave restart_position where it is.
cmd_stor(args, s) ==
  IF args = <<>> THEN {Outcome(s, "ERR_ARGS")} ELSE Whether(s, s, "OPEN_CONN", "ERR_OPEN_WRITE")

cmd_stru(args, s) == {Outcome(s, IF args = <<"F">> THEN "STRU_OK" ELSE "STRU_UNKNOWN")}
cmd_mode(args, s) == {Outcome(s, IF args = <<"S">> THEN "MODE_OK" ELSE "MODE_UNKNOWN")}
cmd_help(args, s) == {Outcome(s, "HELP_END")}
cmd_noop(args, s) == {Outcome(s, "SUCCESS_200")}
cmd_pwd(args, s) == {Outcome(s, "ALREADY_CURRENT")}
cmd_syst(args, s) == {Outcome(s, "SERVER_TYPE")}
cmd_quit(args, s) == {Closing(Outcome(s, "GOODBYE"))}
cmd_port(args, s) == {IF args = <<"address">> THEN Outcome(s, "SUCCESS_200") ELSE Exception(s)}
cmd_user(args, s) ==
  LET out == [s EXCEPT !.authenticated = FALSE]
  IN  {IF args = <<>> THEN Outcome(out, "ERR_ARGS")
       ELSE Outcome([out EXCEPT !.username = Head(args)], "PASS_REQUIRED")}
cmd_type(args, s) ==
  {CASE args = <<>> -> Exception(s)
     [] args # <<>> /\ Head(args) \notin {"a", "i", "l"} -> Outcome(s, "ERR_ARGS")
     [] Len(args) > 2 /\ Head(args) = "l" /\ args[3] # "8" -> Outcome(s, "WRONG_BYTE_SIZE")
     [] OTHER -> Outcome([s EXCEPT !.transfer_mode = Head(args)], "TYPE_SET_OK")}
cmd_rest(args, s) ==
  {CASE args = <<"position">> -> Outcome([s EXCEPT !.restart_position = lines + 1], "RESTART_TRANSFER")
     [] args = <<"0">> -> Outcome([s EXCEPT !.restart_position = 0], "RESTART_TRANSFER")
     [] OTHER -> Outcome(s, "ERR_ARGS")}

\* ABOR and PASV assert async_mode, and PASV may find no port.
cmd_abor(args, s) == {IF channel.async_mode THEN Outcome(s, "TRANSFER_ABORTED") ELSE Exception(s)}
cmd_pasv(args, s) ==
  {Exception(s)} \cup IF channel.async_mode THEN {Outcome(s, "PASV_MODE_MSG")} ELSE {}

\* getattr(channel, "cmd_" + ...)(args), but for PASS and RETR
Run(method, args, s) ==
  CASE method = "abor" -> cmd_abor(args, s)
    [] method = "cdup" -> cmd_cdup(args, s)
    [] method = "cwd" -> cmd_cwd(args, s)
    [] method = "dele" -> cmd_dele(args, s)
    [] method = "help" -> cmd_help(args, s)
    [] method \in {"list", "nlst"} -> cmd_list(args, s)
    [] method = "mdtm" -> cmd_mdtm(args, s)
    [] method = "mkd" -> cmd_mkd(args, s)
    [] method = "mode" -> cmd_mode(args, s)
    [] method = "noop" -> cmd_noop(args, s)
    [] method = "pasv" -> cmd_pasv(args, s)
    [] method = "port" -> cmd_port(args, s)
    [] method = "pwd" -> cmd_pwd(args, s)
    [] method = "quit" -> cmd_quit(args, s)
    [] method = "rest" -> cmd_rest(args, s)
    [] method = "rmd" -> cmd_rmd(args, s)
    [] method = "rnfr" -> cmd_rnfr(args, s)
    [] method = "rnto" -> cmd_rnto(args, s)
    [] method = "size" -> cmd_size(args, s)
    [] method \in {"stor", "appe"} -> cmd_stor(args, s)
    [] method = "stru" -> cmd_stru(args, s)
    [] method = "syst" -> cmd_syst(args, s)
    [] method = "type" -> cmd_type(args, s)
    [] method = "user" -> cmd_user(args, s)

\* reply() for each code, as long as somebody listens, and close_when_done().
Replied(by, n, codes) ==
  IF channel.connected
  THEN replies \o [i \in DOMAIN codes |-> [n |-> n, code |-> codes[i], by |-> by]]
  ELSE replies
CloseWhenDone(c) == [c EXCEPT !.will_close = TRUE, !.async_mode = TRUE]

\* A command of number n ends with outcome o in the thread by.
Ends(by, n, o) ==
  /\ session' = o.session
  /\ replies' = Replied(by, n, o.codes)
  /\ channel' = IF o.closes THEN CloseWhenDone(channel) ELSE channel
  /\ opened' = IF o.opens THEN opened \cup {session.credentials} ELSE opened

-----------------------------------------------------------------------------
(* The main loop.                                                           *)

Recv ==
  /\ channel.connected /\ channel.async_mode /\ ~channel.will_close
  /\ input = <<>> /\ script # <<>>
  /\ input' = Head(script) /\ script' = Tail(script)
  /\ UNCHANGED <<inbuf, lines, channel, session, worker, opened, starts, replies, silent>>

\* LineCommandParser.received(): a piece without a line end makes the line
\* longer, or too long, which ends it as a line without a command.
Part(piece) == piece.kind = "part"
TooLong == inbuf + 1 > MaxLineLength
PartOfLine ==
  /\ input # <<>> /\ Part(Head(input)) /\ ~TooLong
  /\ input' = Tail(input) /\ inbuf' = inbuf + 1
  /\ UNCHANGED <<script, lines, channel, session, worker, opened, starts, replies, silent>>

\* handle_request() for each line.
Method == IF Part(Head(input)) THEN "" ELSE Head(input).method
Args == IF Part(Head(input)) THEN <<>> ELSE Head(input).args
Permitted == session.authenticated \/ Method \in special_commands
Line ==
  /\ input # <<>> /\ (Part(Head(input)) => TooLong)
  /\ input' = Tail(input) /\ inbuf' = 0 /\ lines' = lines + 1

Reject ==
  /\ Line /\ ~Permitted
  /\ replies' = Replied("main", lines + 1, <<"LOGIN_REQUIRED">>)
  /\ UNCHANGED <<script, channel, session, worker, opened, starts, silent>>

\* queue_task()
\* Mutant: the task that came last is the first to run.
QueuedFirst(c, task) ==
  [c EXCEPT !.tasks = <<task>> \o @, !.running_tasks = TRUE, !.async_mode = @ /\ c.running_tasks]
Queued(c, task) ==
  [c EXCEPT !.tasks = Append(@, task), !.running_tasks = TRUE, !.async_mode = @ /\ c.running_tasks]
Queue ==
  /\ Line /\ Permitted /\ Method \in thread_commands
  /\ channel' = Queued(channel, [method |-> Method, args |-> Args, n |-> lines + 1])
  /\ worker' = IF channel.running_tasks THEN worker ELSE [worker EXCEPT !.at = "idle"]
  /\ UNCHANGED <<script, session, opened, starts, replies, silent>>

RunInMain ==
  /\ Line /\ Permitted /\ Method \in main_commands
  /\ \E o \in Run(Method, Args, session) : Ends("main", lines + 1, o)
  /\ UNCHANGED <<script, worker, starts, silent>>

Unknown ==
  /\ Line /\ Permitted /\ Method \notin thread_commands \cup main_commands
  /\ replies' = Replied("main", lines + 1, <<"CMD_UNKNOWN">>)
  /\ UNCHANGED <<script, channel, session, worker, opened, starts, silent>>

\* close(): all output has gone, or the client has.
Close ==
  /\ input = <<>> /\ channel.connected /\ channel.async_mode
  /\ channel' = [channel EXCEPT !.connected = FALSE]
  /\ UNCHANGED <<script, input, inbuf, lines, session, worker, opened, starts, replies, silent>>

-----------------------------------------------------------------------------
(* The worker: service() of the channel, of its LineTasks, the commands.    *)

UnchangedMain == UNCHANGED <<script, input, inbuf, lines>>
At(at) == worker.at = at

PopTask ==
  /\ At("idle") /\ channel.tasks # <<>>
  /\ LET task == Head(channel.tasks)
     IN  worker' = [worker EXCEPT !.at = task.method, !.n = task.n, !.args = task.args]
  /\ channel' = [channel EXCEPT !.tasks = Tail(@)]
  /\ UnchangedMain /\ UNCHANGED <<session, opened, starts, replies, silent>>

\* Mutant: running_tasks stays.
runningOn(c) == [c EXCEPT !.async_mode = TRUE]
givenBack(c) == [c EXCEPT !.running_tasks = FALSE, !.async_mode = TRUE]
NoMoreTasks ==
  /\ At("idle") /\ channel.tasks = <<>>
  /\ channel' = givenBack(channel) /\ worker' = Out
  /\ UnchangedMain /\ UNCHANGED <<session, opened, starts, replies, silent>>

Idle == [Out EXCEPT !.at = "idle"]

Service ==
  /\ worker.at \in thread_commands \ {"pass", "retr"}
  /\ \E o \in Run(worker.at, worker.args, session) : Ends("worker", worker.n, o)
  /\ worker' = Idle
  /\ UnchangedMain /\ UNCHANGED <<starts, silent>>

\* cmd_pass(): the main loop may run a USER before and after authenticate().
\* Mutant: the credentials are kept before they are accepted.
believed(s, credentials) == [s EXCEPT !.authenticated = FALSE, !.credentials = credentials]
asked(s, credentials) == [s EXCEPT !.authenticated = FALSE]
Pass ==
  /\ At("pass")
  /\ LET credentials == <<session.username, worker.args>>
     IN  /\ session' = asked(session, credentials)
         /\ worker' = [worker EXCEPT !.at = "authenticate", !.credentials = credentials]
  /\ UnchangedMain /\ UNCHANGED <<channel, opened, starts, replies, silent>>

Authenticated ==
  /\ At("authenticate") /\ worker.credentials \in Accepted
  /\ session' = [session EXCEPT !.credentials = worker.credentials]
  /\ worker' = [worker EXCEPT !.at = "accepted"]
  /\ UnchangedMain /\ UNCHANGED <<channel, opened, starts, replies, silent>>

LoggedIn ==
  /\ At("accepted") /\ worker' = Idle
  /\ Ends("worker", worker.n, Outcome([session EXCEPT !.authenticated = TRUE], "LOGIN_SUCCESS"))
  /\ UnchangedMain /\ UNCHANGED <<starts, silent>>

Unauthorized ==
  /\ At("authenticate") /\ worker' = Idle
  /\ \E o \in Raised(session) \cup
              IF worker.credentials \in Accepted THEN {}
              ELSE {Closing(Outcome(session, "LOGIN_MISMATCH"))} : Ends("worker", worker.n, o)
  /\ UnchangedMain /\ UNCHANGED <<starts, silent>>

\* cmd_retr(): what is not a file is refused, RETR without a name first as a
\* command that is not understood.
RetrRefused ==
  /\ At("retr") /\ worker' = Idle
  /\ \E o \in Opening({Outcome(session, "ERR_IS_NOT_FILE")} \cup Raised(session)) :
       Ends("worker", worker.n, [o EXCEPT !.codes = (IF worker.args = <<>> THEN <<"CMD_UNKNOWN">> ELSE <<>>) \o @])
  /\ UnchangedMain /\ UNCHANGED <<starts, silent>>

\* A file, which no empty name is, is read from restart_position on, which is
\* then reset; the main loop may run a REST in between.
Retr ==
  /\ At("retr") /\ worker.args # <<>>
  /\ worker' = [worker EXCEPT !.at = "reset", !.start = session.restart_position]
  /\ opened' = opened \cup {session.credentials}
  /\ UnchangedMain /\ UNCHANGED <<channel, session, starts, replies, silent>>

\* Mutant: the position stays.
positionKept(s, start) == s
positionReset(s, start) == IF start = 0 THEN s ELSE [s EXCEPT !.restart_position = 0]
Reset ==
  /\ At("reset") /\ worker' = [worker EXCEPT !.at = "readfile"]
  /\ session' = positionReset(session, worker.start)
  /\ starts' = IF worker.start = 0 THEN starts ELSE Append(starts, worker.start)
  /\ UnchangedMain /\ UNCHANGED <<channel, opened, replies, silent>>

\* readfile() ends, or raises, before it has written anything: then there is no
\* reply, or that of the error.
Nothing(s, error) == {[Outcome(s, error) EXCEPT !.codes = <<>>], Outcome(s, error), Exception(s)}
RetrNothing ==
  /\ At("readfile") /\ worker' = Idle
  /\ \E o \in Nothing(session, "ERR_OPEN_READ") :
       /\ Ends("worker", worker.n, o)
       /\ silent' = IF o.codes = <<>> THEN silent \cup {worker.n} ELSE silent
  /\ UnchangedMain /\ UNCHANGED starts

\* The first write() opens the data channel.
Opens ==
  /\ \/ At("readfile")
     \/ worker.at \in {"list", "nlst"} /\ ~Help(worker.args)
  /\ worker' = [worker EXCEPT !.at = IF At("readfile") THEN "sending" ELSE "listing"]
  /\ opened' = opened \cup {session.credentials}
  /\ replies' = Replied("worker", worker.n,
                         <<IF At("readfile") THEN "OPEN_CONN" ELSE "OPEN_DATA_CONN">>)
  /\ UnchangedMain /\ UNCHANGED <<channel, session, starts, silent>>

\* What was opened can still fail, with another reply, and close_when_done()
\* behind that reply once more, as a socket error nobody handles.
Sent ==
  /\ worker.at \in {"sending", "listing"} /\ worker' = Idle
  /\ LET error == IF At("sending") THEN "ERR_OPEN_READ" ELSE "ERR_NO_LIST"
     IN  \E o \in Nothing(session, error) \cup {Closing(Outcome(session, error))} :
           Ends("worker", worker.n, o)
  /\ UnchangedMain /\ UNCHANGED <<starts, silent>>

-----------------------------------------------------------------------------
Main == Recv \/ PartOfLine \/ Reject \/ Queue \/ RunInMain \/ Unknown
Work == \/ PopTask \/ NoMoreTasks \/ Service \/ Pass \/ Authenticated \/ LoggedIn
        \/ Unauthorized \/ RetrRefused \/ Retr \/ Reset \/ RetrNothing \/ Opens \/ Sent
Next == Main \/ Work \/ Close

Spec == Init /\ [][Next]_vars
\* Both threads go on; the client sends all of its script.
FairSpec == Spec /\ WF_vars(Main) /\ WF_vars(Work)

-----------------------------------------------------------------------------
(* Properties *)

Methods == thread_commands \cup main_commands \cup {""}
Credentials == Accepted \cup {None}

\* Every variable has its type; the working directory is normalized.
TypeOK ==
  /\ inbuf \in 0..MaxLineLength /\ lines \in Nat
  /\ channel.tasks \in Seq([method : thread_commands, args : Seq(STRING), n : 1..lines])
  /\ {channel.async_mode, channel.will_close, channel.connected, channel.running_tasks,
      session.authenticated} \subseteq BOOLEAN
  /\ session.restart_position \in 0..lines
  /\ session.transfer_mode \in {"a", "i", "l"}
  /\ ".." \notin Range(session.cwd)

\* The file system is only ever opened with credentials that authenticate()
\* has accepted, whatever USER and PASS come in between, and who is logged in
\* has such credentials. (handle_request, cmd_user, cmd_pass, _getFileSystem)
OpensAccepted ==
  /\ opened \subseteq Accepted
  /\ session.credentials \in Credentials
  /\ session.authenticated => session.credentials # None

\* The replies that the commands give come in the order of the commands, in
\* each thread and across the two, but that a command of the main loop overtakes
\* those still queued or running: a worker's reply never comes before that of
\* an earlier command. (handle_request, queue_task, service, reply)
RepliesInOrder ==
  \A i, j \in DOMAIN replies :
    i < j /\ replies[j].n < replies[i].n => replies[i].by = "main" /\ replies[j].by = "worker"

\* No two transfers start at the position of the same REST, also when the main
\* loop takes another REST while RETR runs. (cmd_rest, cmd_retr)
RestartUsedOnce == IsInjective(starts)

\* Every command is answered, or the channel is to be closed or has been; but a
\* download of nothing never is. (handle_request, service, cmd_retr)
EveryCommandAnswered ==
  \A n \in 1..MaxLines :
    lines >= n ~> \/ channel.will_close \/ ~channel.connected \/ n \in silent
                  \/ \E i \in DOMAIN replies : replies[i].n = n
=============================================================================
