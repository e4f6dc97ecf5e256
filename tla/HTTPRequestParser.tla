------------------------- MODULE HTTPRequestParser -------------------------
(* Requests out of a stream: the loop of ServerChannelBase.received() over *)
(* HTTPRequestParser.received() and the two receivers of bodies.  The      *)
(* stream is cut into recv() calls anywhere.                               *)
(*                                                                         *)
(* A symbol of the stream is a byte, or a run of bytes no cut of which     *)
(* matters: "n" is a newline, "r" a carriage return, " " a blank, ";" and  *)
(* the digits are themselves, and the words are a first line or a header   *)
(* field (Words, below).                                                   *)
EXTENDS Naturals, Sequences, SequencesExt, FiniteSetsExt

CONSTANTS Streams    \* what clients may send

White  == {"n", "r", " "}
Digit  == [d \in {"0", "1", "2"} |-> CASE d = "0" -> 0 [] d = "1" -> 1 [] d = "2" -> 2]
Length == [w \in {"CL0", "CL1", "CL3"} |-> CASE w = "CL0" -> 0 [] w = "CL1" -> 1 [] w = "CL3" -> 3]
\* First lines: of version 1.1, 1.0, none, and with a URI urlsplit() rejects.
FirstLines == {"GET1.1", "GET1.0", "GET", "GET["}
\* Header fields: a length, one that is no number, "Transfer-Encoding:
\* chunked", and another field.
Words == FirstLines \cup DOMAIN Length \cup {"CLx", "TE", "X"}
Symbols == White \cup DOMAIN Digit \cup Words \cup {";", "b"}

ASSUME StreamsAssumption == \A s \in Streams : s \in Seq(Symbols)

VARIABLES
  stream,      \* what the client sends
  received,    \* symbols of it that recv() has returned
  data,        \* what received() has not consumed yet
  preq,        \* the pending request's parser, or NewParser
  requests,    \* history: what handle_request() was given
  failed       \* the parser raised and the channel was closed

vars == <<stream, received, data, preq, requests, failed>>

NewParser == [header_plus |-> <<>>,        \* the header, as far as it came
              header |-> <<>>,             \* the header, once it is complete
              body_rcv |-> "none",
              remain |-> 0,                \* FixedStreamReceiver.remain
              chunk_remainder |-> 0, control_line |-> <<>>,
              all_chunks_received |-> FALSE, trailer |-> <<>>,
              buf |-> <<>>]

Init == /\ stream \in Streams
        /\ received = 0 /\ data = <<>> /\ preq = NewParser
        /\ requests = <<>> /\ failed = FALSE

-----------------------------------------------------------------------------
(* Helpers on strings.                                                     *)

From(s, i) == SubSeq(s, i, Len(s))
Suffix(s, n) == From(s, Len(s) - n + 1)
Black(c) == c \notin White
lstrip(s) == IF \E i \in DOMAIN s : Black(s[i]) THEN From(s, SelectInSeq(s, Black)) ELSE <<>>
strip(s) == SubSeq(lstrip(s), 1, SelectLastInSeq(lstrip(s), Black))
find(s, c) == SelectInSeq(s, LAMBDA x : x = c)

DoubleNewline(s, i) == \/ i > 2 /\ SubSeq(s, i - 2, i) = <<"n", "r", "n">>
                       \/ i > 1 /\ SubSeq(s, i - 1, i) = <<"n", "n">>
\* The position just after the first of either kind, 0 if there is none.
find_double_newline(s) ==
  IF \E i \in DOMAIN s : DoubleNewline(s, i)
  THEN CHOOSE i \in DOMAIN s : DoubleNewline(s, i) /\ \A j \in 1..i - 1 : ~DoubleNewline(s, j)
  ELSE 0

\* Header lines by the index of their first symbol.  A line that begins with
\* a blank continues the one before.
Lines(h) == {i \in 2..Len(h) : h[i - 1] = "n"}
Continued(h, i) ==
  \E j \in i + 1..Len(h) : Black(h[j]) /\ \A k \in Lines(h) : i < k /\ k <= j => h[k] = " "
\* headers[name]: a field given twice is joined with a comma, and one that is
\* continued by more than blanks has more to it: neither is a number or
\* "chunked" any more.
Field(h, names) ==
  LET lines == {i \in Lines(h) : h[i] \in names}
  IN  IF \E i \in lines : lines = {i} /\ ~Continued(h, i) THEN h[CHOOSE i \in lines : TRUE]
      ELSE "none"

Chunked(h) == h[1] = "GET1.1" /\ Field(h, {"TE"}) = "TE"
ContentLength(h) == LET f == Field(h, DOMAIN Length \cup {"CLx"})
                    IN  IF f \in DOMAIN Length THEN Length[f] ELSE 0
\* urlsplit() rejects the URI, or get_header_lines() finds no line to continue.
Raises(h) == \/ h[1] = "GET["
             \/ \E i \in Lines(h) : i = Min(Lines(h)) /\ h[i] = " "

\* A control line without its extension, and int(_, 16), which may raise.
Size(line) == LET semi == find(line, ";")
              IN  strip(IF semi > 0 THEN SubSeq(line, 1, semi - 1) ELSE line)
IsHex(digits) == digits # <<>> /\ Range(digits) \subseteq DOMAIN Digit
Hex(digits) == FoldLeft(LAMBDA n, d : 16 * n + Digit[d], 0, digits)

-----------------------------------------------------------------------------
(* The loop of ServerChannelBase.received().  One action is one turn of    *)
(* the innermost loop.                                                     *)

\* handle_read(): recv() returns the next n symbols.
Recv(n) ==
  /\ data = <<>> /\ ~failed
  /\ received + n <= Len(stream)
  /\ data' = SubSeq(stream, received + 1, received + n)
  /\ received' = received + n
  /\ UNCHANGED <<stream, preq, requests, failed>>

\* parser.received() consumed all of the data and the request is not complete.
Pending(parser) == preq' = parser /\ data' = <<>> /\ UNCHANGED <<stream, received, requests, failed>>
\* It left rest: the request goes on there, ...
GoOn(parser, rest) == preq' = parser /\ data' = rest /\ UNCHANGED <<stream, received, requests, failed>>
\* ... or it is complete and goes to handle_request(), ...
Completed(header, body, rest) ==
  /\ requests' = Append(requests, [header |-> header, body |-> body])
  /\ preq' = NewParser /\ data' = rest
  /\ UNCHANGED <<stream, received, failed>>
\* ... or it raised, and handle_error() closes the channel.
Raised == failed' = TRUE /\ data' = <<>> /\ UNCHANGED <<stream, received, preq, requests>>

\* received() of HTTPRequestParser in the header: s is all that came, end the
\* end of the header in it, header the header without the blank lines before.
InHeader == data # <<>> /\ preq.body_rcv = "none"
\* Mutant: blank lines do not count as consumed.
BehindNothing(s, end) == data
Behind(s, end) == From(data, Len(data) - (Len(s) - end) + 1)

HeaderUnfinished(s, end) ==
  /\ InHeader /\ end = 0
  /\ Pending([preq EXCEPT !.header_plus = s])

BlankLines(s, end, header) ==
  /\ InHeader /\ end > 0 /\ header = <<>>
  /\ GoOn(NewParser, Behind(s, end))

BadHeader(end, header) ==
  /\ InHeader /\ end > 0 /\ header # <<>> /\ Raises(header)
  /\ Raised

HeaderFinished(s, end, header) ==
  /\ InHeader /\ end > 0 /\ header # <<>> /\ ~Raises(header)
  /\ LET parser == [NewParser EXCEPT !.header = header]
         length == ContentLength(header)
     IN  CASE Chunked(header) -> GoOn([parser EXCEPT !.body_rcv = "chunked"], Behind(s, end))
           [] ~Chunked(header) /\ length > 0 ->
                GoOn([parser EXCEPT !.body_rcv = "fixed", !.remain = length], Behind(s, end))
           [] OTHER -> Completed(header, <<>>, Behind(s, end))

ReceivedHeader == \E s \in {preq.header_plus \o data} : \E end \in {find_double_newline(s)} :
                  \E header \in {lstrip(SubSeq(s, 1, end))} :
                    \/ HeaderUnfinished(s, end) \/ BlankLines(s, end, header)
                    \/ BadHeader(end, header) \/ HeaderFinished(s, end, header)

\* FixedStreamReceiver.received().
Enough(n) == preq.remain <= n

FixedBody ==
  /\ data # <<>> /\ preq.body_rcv = "fixed"
  /\ IF Enough(Len(data))
     THEN Completed(preq.header, preq.buf \o SubSeq(data, 1, preq.remain), From(data, preq.remain + 1))
     ELSE Pending([preq EXCEPT !.buf = @ \o data, !.remain = @ - Len(data)])

\* ChunkedReceiver.received(): the rest of a chunk, ...
InChunks == data # <<>> /\ preq.body_rcv = "chunked"

\* Mutant: whatever comes belongs to the chunk.
WrittenAll == Len(data)
Written == Min({preq.chunk_remainder, Len(data)})

ChunkData ==
  /\ InChunks /\ preq.chunk_remainder > 0
  /\ GoOn([preq EXCEPT !.buf = @ \o SubSeq(data, 1, Written), !.chunk_remainder = @ - Written],
          From(data, Written + 1))

\* ... a control line, ...
InControl == InChunks /\ preq.chunk_remainder = 0 /\ ~preq.all_chunks_received
ControlUnfinished(s) ==
  /\ InControl /\ find(s, "n") = 0
  /\ Pending([preq EXCEPT !.control_line = s])

\* The blank line behind a chunk, the size of the next chunk, or the last one.
ControlLine(s, pos, line) ==
  /\ InControl /\ pos > 0 /\ (line = <<>> \/ IsHex(Size(line)))
  /\ LET size == IF line = <<>> THEN 0 ELSE Hex(Size(line))
     IN  GoOn([preq EXCEPT !.control_line = <<>>, !.chunk_remainder = size,
                           !.all_chunks_received = line # <<>> /\ size = 0],
              From(s, pos + 1))

BadControlLine(pos, line) ==
  /\ InControl /\ pos > 0 /\ line # <<>> /\ ~IsHex(Size(line))
  /\ Raised

ReceivedControl == \E s \in {preq.control_line \o data} : \E pos \in {find(s, "n")} :
                   \E line \in {strip(SubSeq(s, 1, pos - 1))} :
                     \/ ControlUnfinished(s) \/ ControlLine(s, pos, line)
                     \/ BadControlLine(pos, line)

\* ... or the trailer, which may be no more than the blank line.
InTrailer == InChunks /\ preq.chunk_remainder = 0 /\ preq.all_chunks_received
\* Mutant: a trailer ends like a header, so that there must be one.
TrailerEndsLikeHeader(trailer) == find_double_newline(trailer)
TrailerEnd(trailer) == CASE IsPrefix(<<"r", "n">>, trailer) -> 2
                         [] IsPrefix(<<"n">>, trailer)      -> 1
                         [] OTHER                           -> find_double_newline(trailer)

Trailer ==
  /\ InTrailer
  /\ \E trailer \in {preq.trailer \o data} : \E end \in {TrailerEnd(trailer)} :
        IF end = 0 THEN Pending([preq EXCEPT !.trailer = trailer])
        ELSE Completed(preq.header, preq.buf, Suffix(data, Len(trailer) - end))

Receive == ReceivedHeader \/ FixedBody \/ ChunkData \/ ReceivedControl \/ Trailer
Next == Receive \/ \E n \in 1..Len(stream) : Recv(n)

\* The main loop goes on while there is data; nobody makes clients send.
Spec == Init /\ [][Next]_vars /\ WF_vars(Receive)

-----------------------------------------------------------------------------
(* Reference: what the whole stream means, read from its beginning.        *)

EndsAt(s, i) == s[i] = "n" /\ \/ i > 1 /\ s[i - 1] = "n"
                              \/ i > 2 /\ s[i - 1] = "r" /\ s[i - 2] = "n"
HeaderEnds(s) == {i \in DOMAIN s : EndsAt(s, i)}
TrailerEnds(s) == HeaderEnds(s) \cup {i \in DOMAIN s : SubSeq(s, 1, i) \in {<<"n">>, <<"r", "n">>}}
LineEnds(s) == {i \in DOMAIN s : s[i] = "n"}

\* A body at the beginning of a stream: its data, and what is behind it, if all
\* of it is there.
Partial == [state |-> "partial", body |-> <<>>, rest |-> <<>>]
Bad     == [state |-> "bad", body |-> <<>>, rest |-> <<>>]
Whole(body, rest) == [state |-> "whole", body |-> body, rest |-> rest]
\* The body that begins with some data.
With(begin, b) == [b EXCEPT !.body = begin \o @]

FixedBodyOf(s, n) == IF Len(s) < n THEN Partial ELSE Whole(SubSeq(s, 1, n), From(s, n + 1))

\* Behind the last chunk.
LastOf(s) == IF TrailerEnds(s) = {} THEN Partial ELSE Whole(<<>>, From(s, Min(TrailerEnds(s)) + 1))

\* A control line, and what is behind it.
LineOf(s)    == strip(SubSeq(s, 1, Min(LineEnds(s)) - 1))
AfterLine(s) == From(s, Min(LineEnds(s)) + 1)

ChunkedBodyOf[s \in Seq(Symbols)] ==
  LET size == Hex(Size(LineOf(s)))
  IN  IF LineEnds(s) = {} THEN Partial
      ELSE IF LineOf(s) = <<>> THEN ChunkedBodyOf[AfterLine(s)]
      ELSE IF ~IsHex(Size(LineOf(s))) THEN Bad
      ELSE IF size = 0 THEN LastOf(AfterLine(s))
      ELSE IF Len(AfterLine(s)) < size THEN Partial
      ELSE With(SubSeq(AfterLine(s), 1, size), ChunkedBodyOf[From(AfterLine(s), size + 1)])

BodyOf(header, s) == IF Chunked(header) THEN ChunkedBodyOf[s]
                     ELSE FixedBodyOf(s, ContentLength(header))

\* The requests in a stream, and whether one cannot be parsed.
Nothing == [requests |-> <<>>, failed |-> FALSE]
Failure == [requests |-> <<>>, failed |-> TRUE]
Then(reqs, more) == [requests |-> reqs \o more.requests, failed |-> more.failed]

HeaderOf(s)    == lstrip(SubSeq(s, 1, Min(HeaderEnds(s))))
AfterHeader(s) == From(s, Min(HeaderEnds(s)) + 1)

Requests[s \in Seq(Symbols)] ==
  LET body == BodyOf(HeaderOf(s), AfterHeader(s))
  IN  IF HeaderEnds(s) = {} THEN Nothing
      ELSE IF HeaderOf(s) = <<>> THEN Requests[AfterHeader(s)]
      ELSE IF Raises(HeaderOf(s)) \/ body.state = "bad" THEN Failure
      ELSE IF body.state = "partial" THEN Nothing
      ELSE Then(<<[header |-> HeaderOf(s), body |-> body.body]>>, Requests[body.rest])

-----------------------------------------------------------------------------
(* Properties.                                                             *)

\* The parser's attributes have their types; in a body, a header was parsed.
TypeOK ==
  /\ stream \in Streams /\ received \in 0..Len(stream)
  /\ data \in Seq(Symbols) /\ Len(data) <= received
  /\ preq \in [header_plus : Seq(Symbols), header : Seq(Symbols),
               body_rcv : {"none", "fixed", "chunked"},
               remain : Nat, chunk_remainder : Nat, control_line : Seq(Symbols),
               all_chunks_received : BOOLEAN, trailer : Seq(Symbols), buf : Seq(Symbols)]
  /\ (preq.header = <<>>) <=> (preq.body_rcv = "none")
  /\ failed \in BOOLEAN
  /\ requests \in Seq([header : Seq(Symbols), body : Seq(Symbols)])

\* However the stream is cut into recv() calls, the requests that were handled
\* are those the stream holds as far as it came: none is lost, made up, given a
\* byte of its neighbour, or kept waiting for bytes of the next one; and the
\* channel is closed for a stream that cannot be parsed, and for no other.
SplitIndependent ==
  data = <<>> => LET whole == Requests[SubSeq(stream, 1, received)]
                 IN  requests = whole.requests /\ failed = whole.failed

\* received() ends: no parser refuses data without being complete, which would
\* make the main loop spin ("Avoid any chance of spinning", fixedstreamreceiver.py).
Drains == data # <<>> ~> data = <<>>
=============================================================================
