------------------------------ MODULE HTTPTask ------------------------------
(* The responses on one connection: HTTPTask with the servers that drive   *)
(* it, a WSGI server whose application calls start_response(), or a        *)
(* subclass of HTTPServer that uses the task's methods itself.  One task   *)
(* after the other, as ServerChannel has it.                               *)
(*                                                                         *)
(* A header field is kept if it bears on where a response ends, a mapping  *)
(* and a list of fields are sets; the wire holds headers and the symbols   *)
(* of bodies: units, and an end for the last chunk of a chunked one.       *)
EXTENDS Naturals, Sequences, SequencesExt, FiniteSetsExt

CONSTANTS
  Requests,         \* what clients ask: sequences of [version, connection]
  MaxBody,          \* units of a body, at most
  None

ASSUME BodyAssumption == MaxBody \in Nat \ {0} /\ None \notin Nat
ASSUME RequestsAssumption == Requests \subseteq Seq([version : STRING, connection : STRING])

\* What a mapping or a list of header fields may say.
Lengths == {[name |-> "content-length", value |-> n] : n \in 0..MaxBody}
Chunked == [name |-> "transfer-encoding", value |-> "chunked"]
Gzip    == [name |-> "transfer-encoding", value |-> "gzip"]
Close   == [name |-> "connection", value |-> "close"]
KeepAlive == [name |-> "connection", value |-> "keep-alive"]
Unit    == [kind |-> "unit"]
End     == [kind |-> "end"]
Fields  == Lengths \cup {Chunked, Gzip, Close, KeepAlive}
ASSUME NoneAssumption == \A fields \in SUBSET Fields : None # fields

VARIABLES
  wsgi,         \* the server is a WSGIHTTPServer
  requests,     \* the requests of this connection
  n,            \* the number of tasks begun
  serving,      \* a task is in service()
  task,         \* the attributes of the current HTTPTask
  will_close,   \* close_when_done() was called
  wire,         \* history: everything written to the channel
  closedAt,     \* history: how long wire was when close_when_done() was called
  said,         \* history: what the application means its response to be
  responses,    \* history: the responses the applications completed
  cut           \* history: an exception cut a response off and the connection stays

taskVars == <<wsgi, requests, n, serving>>
vars == <<wsgi, requests, n, serving, task, will_close, wire, closedAt, said, responses, cut>>

NewTask(version) ==
  [version |-> IF version \in {"1.0", "1.1"} THEN version ELSE "1.0",
   status |-> "200", response_headers |-> {}, accumulated_headers |-> None,
   close_on_finish |-> TRUE, wrote_header |-> FALSE]
\* What an application that has said nothing yet means to send.
Silent == [status |-> "200", fields |-> {}, body |-> <<>>]

Init == /\ wsgi \in BOOLEAN /\ requests \in Requests
        /\ n = 0 /\ serving = FALSE /\ task = NewTask("1.0") /\ will_close = FALSE
        /\ wire = <<>> /\ closedAt = None
        /\ said = Silent /\ responses = <<>> /\ cut = FALSE

-----------------------------------------------------------------------------
(* prepareResponseHeaders() and write().                                   *)

Names(fields) == {f.name : f \in fields}
Accumulated(t) == IF t.accumulated_headers = None THEN {} ELSE t.accumulated_headers
\* response_headers[name] = value
\* Mutant: it is added to what is there.
Add(fields, f) == fields \cup {f}
Set(fields, f) == {g \in fields : g.name # f.name} \cup {f}

\* HTTP/1.0: only a client that asked for it keeps the connection, and only a
\* mapping is looked at for the length.
\* Mutant: being asked is enough.
CloseIt10Asked(t, connection) == connection # "keep-alive"
CloseIt10(t, connection) ==
  connection # "keep-alive" \/ "content-length" \notin Names(t.response_headers)

\* HTTP/1.1: keeps it unless somebody asks, or the end cannot be found.
Coded(t) == "transfer-encoding" \in Names(t.response_headers)
Delimited(t) == IF Coded(t) THEN Chunked \in t.response_headers
                ELSE \/ t.status = "304"
                     \/ "content-length" \in Names(t.response_headers \cup Accumulated(t))
\* Mutant: only the application is asked.
CloseIt11Unasked(t, connection) == Close \in Accumulated(t) \/ ~Delimited(t)
CloseIt11(t, connection) == Close \in Accumulated(t) \/ connection = "close" \/ ~Delimited(t)

CloseIt(t, connection) == IF t.version = "1.0" THEN CloseIt10(t, connection)
                          ELSE CloseIt11(t, connection)

prepareResponseHeaders(t, connection) ==
  [t EXCEPT !.wrote_header = TRUE,
            !.close_on_finish = CloseIt(t, connection),
            !.response_headers = CASE CloseIt(t, connection) -> Set(@, Close)
                                   [] ~CloseIt(t, connection) /\ t.version = "1.0" -> Set(@, KeepAlive)
                                   [] OTHER -> @]

\* buildResponseHeader()
Header(t) == [kind |-> "header", status |-> t.status, version |-> t.version,
              fields |-> t.response_headers \cup Accumulated(t)]

\* HTTPTask.write() of t: the task and the wire behind it.
Written(t, data) ==
  IF t.wrote_header THEN [task |-> t, wire |-> wire \o data]
  ELSE LET prepared == prepareResponseHeaders(t, requests[n].connection)
       IN  [task |-> prepared, wire |-> Append(wire, Header(prepared)) \o data]

-----------------------------------------------------------------------------
(* The application.  What it promises about its body, it keeps, unless it  *)
(* raises; it sends no body with a 304.                                    *)

LengthOf(fields) == {f.value : f \in {g \in fields : g.name = "content-length"}}
MayWrite(unit) ==
  CASE said.status = "304" -> FALSE
    [] said.status # "304" /\ Chunked \in said.fields -> ~Contains(said.body, End)
    [] OTHER -> unit = Unit /\ \A k \in LengthOf(said.fields) : Len(said.body) < k
BodyComplete ==
  \/ said.status = "304"
  \/ Chunked \in said.fields /\ Contains(said.body, End)
  \/ Chunked \notin said.fields /\ \A k \in LengthOf(said.fields) : Len(said.body) = k

\* ServerChannelBase.service() takes the next task, whatever came before.
Start ==
  /\ ~serving /\ n < Len(requests)
  /\ n' = n + 1 /\ serving' = TRUE
  /\ task' = NewTask(requests[n + 1].version)
  /\ said' = Silent
  /\ UNCHANGED <<wsgi, requests, will_close, wire, closedAt, responses, cut>>

\* A WSGI application may say this about its response.
AppFields == {{}, {Close}} \cup {{l} : l \in Lengths} \cup {{l, Close} : l \in Lengths}
\* appendResponseHeaders(fields)
Extended(t, fields) == [t EXCEPT !.accumulated_headers = Accumulated(t) \cup fields]

\* start_response(), for the first time ...
StartResponse(status, fields) ==
  /\ serving /\ wsgi /\ task.accumulated_headers = None /\ ~task.wrote_header
  /\ task' = [Extended(task, fields) EXCEPT !.status = status]
  /\ said' = [said EXCEPT !.status = status, !.fields = fields]
  /\ UNCHANGED <<taskVars, will_close, wire, closedAt, responses, cut>>

\* ... or again, with exc_info: what was said before is forgotten.
Cleared(t) == [t EXCEPT !.accumulated_headers = None, !.response_headers = {}]
StartResponseAgain(status, fields) ==
  /\ serving /\ wsgi /\ task.accumulated_headers # None /\ ~task.wrote_header
  /\ task' = [Extended(Cleared(task), fields) EXCEPT !.status = status]
  /\ said' = [said EXCEPT !.status = status, !.fields = fields]
  /\ UNCHANGED <<taskVars, will_close, wire, closedAt, responses, cut>>

\* A server of its own: setResponseStatus() and setResponseHeaders().  It
\* codes its responses for clients of version 1.1 only.
SetResponse(status, f) ==
  /\ serving /\ ~wsgi /\ ~task.wrote_header /\ (f \in Lengths \/ task.version = "1.1")
  /\ task' = [task EXCEPT !.status = status, !.response_headers = Set(@, f)]
  /\ said' = [said EXCEPT !.status = status, !.fields = Set(@, f)]
  /\ UNCHANGED <<taskVars, will_close, wire, closedAt, responses, cut>>

\* write() of one unit, or of nothing, which sends the header all the same.
Write(data) ==
  /\ serving
  /\ \A i \in DOMAIN data : MayWrite(data[i])
  /\ Len(said.body) + Len(data) <= MaxBody + 1
  /\ \E w \in {Written(task, data)} : task' = w.task /\ wire' = w.wire
  /\ said' = [said EXCEPT !.body = @ \o data]
  /\ UNCHANGED <<taskVars, will_close, closedAt, responses, cut>>

\* The end of AbstractTask.service(): cancel() if the connection is to be closed.
Leave(t, sent) ==
  /\ serving' = FALSE
  /\ task' = t /\ wire' = sent
  /\ will_close' = (will_close \/ t.close_on_finish)
  /\ closedAt' = IF t.close_on_finish /\ closedAt = None THEN Len(sent) ELSE closedAt
  /\ UNCHANGED <<wsgi, requests, n, said>>

Body(r) == [status |-> r.status, body |-> r.body]

\* The application returns, and finish() sees to it that there is a header.
Finish ==
  /\ serving /\ BodyComplete
  /\ \E w \in {Written(task, <<>>)} : Leave(w.task, w.wire)
  /\ responses' = IF closedAt = None THEN Append(responses, Body(said)) ELSE responses
  /\ UNCHANGED cut

\* The client left, or the application had trouble with a file.
RaiseOSError ==
  /\ serving
  /\ Leave([task EXCEPT !.close_on_finish = TRUE], wire)
  /\ UNCHANGED <<responses, cut>>

\* Any other exception, one that start_response() raises once the header has
\* gone among them: no exception() on this channel, and service() goes on.
RaiseOther ==
  /\ serving
  /\ Leave(task, wire)
  /\ cut' = (cut \/ ~task.close_on_finish)
  /\ UNCHANGED responses

Statuses == {"200", "304"}
Next ==
  \/ Start \/ Finish \/ RaiseOSError \/ RaiseOther
  \/ \E status \in Statuses, fields \in AppFields :
       StartResponse(status, fields) \/ StartResponseAgain(status, fields)
  \/ \E status \in Statuses, f \in Lengths \cup {Chunked, Gzip} : SetResponse(status, f)
  \/ \E data \in {<<>>, <<Unit>>, <<End>>} : Write(data)

Spec == Init /\ [][Next]_vars

-----------------------------------------------------------------------------
(* A client that reads by the rules of HTTP.                               *)

SaysClose(h) == Close \in h.fields \/ (h.version = "1.0" /\ KeepAlive \notin h.fields)

\* Where the body that begins at i ends, None if it ends with the connection,
\* has not come in full, or has two lengths.
EndOfBody(s, i, h) ==
  LET ends    == {j \in i..Len(s) : s[j] = End}
      lengths == LengthOf(h.fields)
  IN CASE h.status = "304" -> i - 1
       [] h.status # "304" /\ Chunked \in h.fields -> IF ends = {} THEN None ELSE Min(ends)
       [] h.status # "304" /\ {Chunked, Gzip} \cap h.fields = {} /\ Cardinality(lengths) = 1 ->
            IF i + Min(lengths) - 1 > Len(s) THEN None ELSE i + Min(lengths) - 1
       [] OTHER -> None

\* The responses in s, and whether the client takes the connection for open
\* behind them and waits for nothing more.
Client(s) ==
  LET at[i \in 1..Len(s) + 1] ==
        LET h     == s[i]
            end   == EndOfBody(s, i + 1, h)
            until == IF end = None THEN Len(s) ELSE end
            this  == <<[status |-> h.status, body |-> SubSeq(s, i + 1, until)]>>
            rest  == at[until + 1]
        IN IF i > Len(s) THEN [read |-> <<>>, open |-> TRUE]
           ELSE IF h.kind # "header" THEN [read |-> <<h>>, open |-> FALSE]
           ELSE IF end = None \/ SaysClose(h) THEN [read |-> this, open |-> FALSE]
           ELSE [rest EXCEPT !.read = this \o @]
  IN  at[1]

-----------------------------------------------------------------------------
(* Properties.                                                             *)

\* The attributes have their types, and a mapping has one value for a name.
TypeOK ==
  /\ n \in 0..Len(requests) /\ serving \in BOOLEAN /\ will_close \in BOOLEAN
  /\ task \in [version : {"1.0", "1.1"}, status : Statuses, response_headers : SUBSET Fields,
               accumulated_headers : {None} \cup SUBSET Fields,
               close_on_finish : BOOLEAN, wrote_header : BOOLEAN]
  /\ Cardinality(Names(task.response_headers)) = Cardinality(task.response_headers)
  /\ (closedAt = None) <=> ~will_close
  /\ IF wsgi THEN task.response_headers \subseteq {Close, KeepAlive} ELSE task.accumulated_headers = None

\* A client that reads the connection by the headers it finds there reads what
\* the applications meant, response by response: as long as the connection is
\* kept, each request so far has its response and the end of each can be found;
\* and up to where the server decided to close, no more than the last response
\* is cut off.  Not so behind an exception that is no OSError and comes when the
\* header has promised to keep the connection (cut).
ClientReads ==
  ~serving /\ ~cut =>
    IF closedAt = None
    THEN Client(wire) = [read |-> responses, open |-> TRUE] /\ Len(responses) = n
    ELSE \E c \in {Client(SubSeq(wire, 1, closedAt))} :
           IsPrefix(responses, c.read) /\ Len(c.read) <= Len(responses) + 1

\* A client that wants the connection closed behind the response has its way,
\* however the task ends.
WantsClose(r) == IF r.version = "1.1" THEN r.connection = "close" ELSE r.connection # "keep-alive"
ClosedOnDemand == ~serving /\ n > 0 /\ WantsClose(requests[n]) => will_close
=============================================================================
