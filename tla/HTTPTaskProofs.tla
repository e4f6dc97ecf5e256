---------------------------- MODULE HTTPTaskProofs ----------------------------
EXTENDS HTTPTask, FiniteSetTheorems, SequenceTheorems, NaturalsInduction, WellFoundedInduction, TLAPS

-----------------------------------------------------------------------------
(* Header fields.                                                          *)

\* One value for a name.
OneValue(fields) == \A f, g \in fields : f.name = g.name => f = g

LEMMA SomeFields ==
  /\ Lengths \subseteq Fields /\ {Chunked, Gzip, Close, KeepAlive} \subseteq Fields
  /\ Close.name = "connection" /\ KeepAlive.name = "connection"
  BY DEF Fields, Close, KeepAlive

LEMMA FieldsFinite == IsFiniteSet(Fields)
<1> DEFINE f == [k \in 0..MaxBody |-> [name |-> "content-length", value |-> k]]
<1>1. IsFiniteSet(0..MaxBody)
  BY BodyAssumption, FS_Interval
<1>2. f \in Surjection(0..MaxBody, Lengths)
  BY DEF Surjection, Lengths
<1>3. IsFiniteSet(Lengths)
  BY <1>1, <1>2, FS_Surjection
<1>4. IsFiniteSet(Lengths \cup {Chunked})
  BY <1>3, FS_AddElement
<1>5. IsFiniteSet((Lengths \cup {Chunked}) \cup {Gzip})
  BY <1>4, FS_AddElement
<1>6. IsFiniteSet(((Lengths \cup {Chunked}) \cup {Gzip}) \cup {Close})
  BY <1>5, FS_AddElement
<1>7. IsFiniteSet((((Lengths \cup {Chunked}) \cup {Gzip}) \cup {Close}) \cup {KeepAlive})
  BY <1>6, FS_AddElement
<1>8. Fields = (((Lengths \cup {Chunked}) \cup {Gzip}) \cup {Close}) \cup {KeepAlive}
  BY DEF Fields
<1> QED
  BY <1>7, <1>8

\* As many names as fields, if there is one value for a name.
LEMMA AsManyNames ==
  ASSUME NEW F \in SUBSET Fields, OneValue(F)
  PROVE  Cardinality(Names(F)) = Cardinality(F)
<1> DEFINE f == [g \in F |-> g.name]
<1>1. IsFiniteSet(F)
  BY FieldsFinite, FS_Subset
<1>2. f \in Bijection(F, Names(F))
  <2>1. f \in [F -> Names(F)]
    BY DEF Names
  <2>2. \A g, h \in DOMAIN f : f[g] = f[h] => g = h
    BY DEF OneValue
  <2>3. \A name \in Names(F) : \E g \in F : f[g] = name
    BY DEF Names
  <2> HIDE DEF f
  <2> QED
    BY <2>1, <2>2, <2>3 DEF Bijection, Injection, Surjection, IsInjective
<1>3. ExistsBijection(F, Names(F))
  BY <1>2 DEF ExistsBijection
<1> QED
  BY <1>1, <1>3, FS_Bijection

\* response_headers[name] = value
LEMMA Setting ==
  ASSUME NEW F \in SUBSET Fields, OneValue(F), NEW f \in Fields
  PROVE  Set(F, f) \in SUBSET Fields /\ OneValue(Set(F, f)) /\ Set(F, f) \subseteq F \cup {f}
  BY DEF Set, OneValue

-----------------------------------------------------------------------------
(* The inductive invariant.                                                *)

Task == [version : {"1.0", "1.1"}, status : Statuses, response_headers : SUBSET Fields,
         accumulated_headers : {None} \cup SUBSET Fields,
         close_on_finish : BOOLEAN, wrote_header : BOOLEAN]
Symbols == {Unit, End} \cup [kind : {"header"}, status : Statuses, version : {"1.0", "1.1"}, fields : SUBSET Fields]

\* What the server writes: a WSGI server leaves response_headers to
\* prepareResponseHeaders(), another one leaves accumulated_headers alone.
Mapping(t) ==
  /\ OneValue(t.response_headers)
  /\ IF wsgi THEN t.response_headers \subseteq {Close, KeepAlive} ELSE t.accumulated_headers = None

Types ==
  /\ requests \in Requests /\ n \in 0..Len(requests)
  /\ serving \in BOOLEAN /\ will_close \in BOOLEAN
  /\ task \in Task /\ Mapping(task)
  /\ wire \in Seq(Symbols)
  /\ closedAt = None <=> ~will_close

\* Until the header is written the task closes the connection, so that whatever
\* ends it before leaves no client waiting; behind it, if the client wants it.
Demand ==
  IF serving
  THEN /\ n > 0 /\ task.version = NewTask(requests[n].version).version
       /\ ~task.wrote_header \/ WantsClose(requests[n]) => task.close_on_finish
  ELSE ClosedOnDemand

IInv == Types /\ Demand

-----------------------------------------------------------------------------
(* The methods of the task.                                                *)

LEMMA Starting ==
  ASSUME NEW v
  PROVE  /\ NewTask(v) \in Task /\ Mapping(NewTask(v))
         /\ NewTask(v).close_on_finish = TRUE /\ NewTask(v).wrote_header = FALSE
         /\ NewTask(v).version = "1.1" => v = "1.1"
  BY DEF NewTask, Task, Mapping, OneValue, Statuses

LEMMA ClosesIt ==
  ASSUME NEW t \in Task, NEW r, t.version = NewTask(r.version).version, WantsClose(r)
  PROVE  CloseIt(t, r.connection) = TRUE
<1>1. CASE t.version = "1.0"
  <2>1. r.version # "1.1"
    BY <1>1 DEF NewTask
  <2> QED
    BY <1>1, <2>1 DEF CloseIt, CloseIt10, WantsClose
<1>2. CASE t.version = "1.1"
  <2>1. r.version = "1.1"
    BY <1>2, Starting
  <2> QED
    BY <1>2, <2>1 DEF CloseIt, CloseIt11, WantsClose
<1> QED
  BY <1>1, <1>2 DEF Task

LEMMA Preparing ==
  ASSUME NEW t \in Task, Mapping(t), NEW connection
  PROVE  LET prepared == prepareResponseHeaders(t, connection)
         IN  /\ prepared \in Task /\ Mapping(prepared) /\ prepared.version = t.version
             /\ prepared.wrote_header = TRUE
             /\ prepared.close_on_finish = CloseIt(t, connection)
<1> DEFINE close == CloseIt(t, connection)
           headers == CASE close -> Set(t.response_headers, Close)
                        [] ~close /\ t.version = "1.0" -> Set(t.response_headers, KeepAlive)
                        [] OTHER -> t.response_headers
<1>1. close \in BOOLEAN
  BY DEF CloseIt, CloseIt10, CloseIt11
<1>2. prepareResponseHeaders(t, connection) =
        [t EXCEPT !.wrote_header = TRUE, !.close_on_finish = close, !.response_headers = headers]
  BY DEF prepareResponseHeaders, Task
<1>3. t.response_headers \in SUBSET Fields /\ OneValue(t.response_headers)
  BY DEF Task, Mapping
<1> HIDE DEF close
<1>4. /\ headers \in SUBSET Fields /\ OneValue(headers)
      /\ headers \subseteq t.response_headers \cup {Close, KeepAlive}
  <2>1. /\ Set(t.response_headers, Close) \in SUBSET Fields
        /\ OneValue(Set(t.response_headers, Close))
        /\ Set(t.response_headers, Close) \subseteq t.response_headers \cup {Close}
    BY <1>3, Setting, SomeFields
  <2>2. /\ Set(t.response_headers, KeepAlive) \in SUBSET Fields
        /\ OneValue(Set(t.response_headers, KeepAlive))
        /\ Set(t.response_headers, KeepAlive) \subseteq t.response_headers \cup {KeepAlive}
    BY <1>3, Setting, SomeFields
  <2>3. headers \in {Set(t.response_headers, Close), Set(t.response_headers, KeepAlive), t.response_headers}
    BY <1>1
  <2> HIDE DEF headers
  <2> QED
    BY <1>3, <2>1, <2>2, <2>3
<1> HIDE DEF headers
<1>5. wsgi => headers \subseteq {Close, KeepAlive}
  BY <1>4 DEF Mapping
<1> QED
  BY <1>1, <1>2, <1>4, <1>5 DEF Task, Mapping, close

LEMMA WritingIt ==
  ASSUME IInv, serving, NEW data \in Seq(Symbols)
  PROVE  LET w == Written(task, data)
         IN  /\ w.task \in Task /\ Mapping(w.task) /\ w.wire \in Seq(Symbols)
             /\ w.task.version = task.version /\ w.task.wrote_header = TRUE
             /\ WantsClose(requests[n]) => w.task.close_on_finish
<1>1. task \in Task /\ Mapping(task) /\ wire \in Seq(Symbols)
  BY DEF IInv, Types
<1>2. /\ task.version = NewTask(requests[n].version).version
      /\ WantsClose(requests[n]) => task.close_on_finish
  BY DEF IInv, Demand
<1>3. CASE task.wrote_header
  <2>1. Written(task, data) = [task |-> task, wire |-> wire \o data]
    BY <1>3 DEF Written
  <2> QED
    BY <1>1, <1>2, <1>3, <2>1 DEF Task
<1>4. CASE ~task.wrote_header
  <2> DEFINE p == prepareResponseHeaders(task, requests[n].connection)
  <2>1. Written(task, data) = [task |-> p, wire |-> Append(wire, Header(p)) \o data]
    BY <1>4 DEF Written
  <2>2. /\ p \in Task /\ Mapping(p) /\ p.version = task.version /\ p.wrote_header = TRUE
        /\ p.close_on_finish = CloseIt(task, requests[n].connection)
    BY <1>1, Preparing
  <2> HIDE DEF p
  <2>3. Header(p) \in Symbols
    BY <2>2 DEF Header, Symbols, Task, Accumulated
  <2>4. Append(wire, Header(p)) \o data \in Seq(Symbols)
    BY <1>1, <2>3
  <2>5. WantsClose(requests[n]) => p.close_on_finish
    BY <1>1, <1>2, <2>2, ClosesIt
  <2> QED
    BY <2>1, <2>2, <2>4, <2>5
<1> QED
  BY <1>3, <1>4

\* start_response() and a server's own methods, before the header is written.
LEMMA SettingUp ==
  ASSUME IInv, serving, ~task.wrote_header, NEW t \in Task, Mapping(t),
         t.version = task.version, t.close_on_finish = task.close_on_finish,
         task' = t, UNCHANGED <<taskVars, will_close, wire, closedAt>>
  PROVE  IInv'
  BY DEF IInv, Types, Mapping, Demand, taskVars

\* The end of service().
LEMMA LeavingIt ==
  ASSUME IInv, serving, NEW t \in Task, Mapping(t), NEW sent \in Seq(Symbols), Leave(t, sent),
         WantsClose(requests[n]) => t.close_on_finish
  PROVE  IInv'
<1>1. Len(sent) \in Nat
  OBVIOUS
<1>2. Types'
  BY <1>1, BodyAssumption DEF IInv, Types, Leave, Mapping, Task
<1>3. Demand'
  BY DEF IInv, Types, Leave, Demand, ClosedOnDemand
<1> QED
  BY <1>2, <1>3 DEF IInv

-----------------------------------------------------------------------------
(* Every step preserves the invariant.                                     *)

LEMMA AllFields == \A fields \in AppFields : fields \in SUBSET Fields
  BY SomeFields DEF AppFields

LEMMA IInvInit == Init => IInv
<1> SUFFICES ASSUME Init PROVE IInv
  OBVIOUS
<1>1. <<>> \in Seq(Symbols) /\ requests \in Requests /\ 0 \in 0..Len(requests)
  BY RequestsAssumption DEF Init
<1>2. task \in Task /\ Mapping(task)
  BY Starting DEF Init
<1>3. Types
  BY <1>1, <1>2 DEF Init, Types
<1>4. Demand
  BY DEF Init, Demand, ClosedOnDemand
<1> QED
  BY <1>3, <1>4 DEF IInv

LEMMA IInvNext == ASSUME IInv, [Next]_vars PROVE IInv'
<1>1. /\ task \in Task /\ Mapping(task) /\ wire \in Seq(Symbols) /\ n \in Nat /\ Len(requests) \in Nat
      /\ n \in 0..Len(requests)
  BY RequestsAssumption DEF IInv, Types
<1>2. ASSUME UNCHANGED <<taskVars, task, will_close, wire, closedAt>>
      PROVE  IInv'
  BY <1>2 DEF IInv, Types, Mapping, Demand, ClosedOnDemand, taskVars
<1>3. CASE Start
  <2>1. /\ n' = n + 1 /\ serving' = TRUE /\ task' = NewTask(requests[n + 1].version) /\ n < Len(requests)
        /\ UNCHANGED <<wsgi, requests, will_close, wire, closedAt>>
    BY <1>3 DEF Start
  <2>2. task' \in Task /\ Mapping(task') /\ task'.close_on_finish = TRUE
    BY <2>1, Starting
  <2>3. n' \in 0..Len(requests) /\ n' > 0
    BY <1>1, <2>1
  <2>4. Mapping(task)'
    BY <2>1, <2>2 DEF Mapping
  <2> QED
    BY <2>1, <2>2, <2>3, <2>4 DEF IInv, Types, Demand
<1>4. ASSUME NEW status \in Statuses, NEW fields \in AppFields, StartResponse(status, fields)
      PROVE  IInv'
  <2> DEFINE t == [Extended(task, fields) EXCEPT !.status = status]
  <2>1. fields \in SUBSET Fields
    BY AllFields
  <2>2. t \in Task
    BY <1>1, <2>1 DEF Extended, Task, Accumulated
  <2>3. t.version = task.version /\ t.close_on_finish = task.close_on_finish /\ t.response_headers = task.response_headers
    BY <1>1 DEF Extended, Task
  <2>4. task' = t /\ serving /\ wsgi /\ ~task.wrote_header /\ UNCHANGED <<taskVars, will_close, wire, closedAt>>
    BY <1>4 DEF StartResponse
  <2> HIDE DEF t
  <2>5. Mapping(t)
    BY <1>1, <2>3, <2>4 DEF Mapping
  <2> QED
    BY <2>2, <2>3, <2>4, <2>5, SettingUp
<1>5. ASSUME NEW status \in Statuses, NEW fields \in AppFields, StartResponseAgain(status, fields)
      PROVE  IInv'
  <2> DEFINE t == [Extended(Cleared(task), fields) EXCEPT !.status = status]
  <2>1. fields \in SUBSET Fields
    BY AllFields
  <2>2. t \in Task
    BY <1>1, <2>1 DEF Extended, Cleared, Task, Accumulated
  <2>3. t.version = task.version /\ t.close_on_finish = task.close_on_finish /\ t.response_headers = {}
    BY <1>1 DEF Extended, Cleared, Task
  <2>4. task' = t /\ serving /\ wsgi /\ ~task.wrote_header /\ UNCHANGED <<taskVars, will_close, wire, closedAt>>
    BY <1>5 DEF StartResponseAgain
  <2> HIDE DEF t
  <2>5. Mapping(t)
    BY <1>1, <2>3, <2>4 DEF Mapping, OneValue
  <2> QED
    BY <2>2, <2>3, <2>4, <2>5, SettingUp
<1>6. ASSUME NEW status \in Statuses, NEW f \in Lengths \cup {Chunked, Gzip}, SetResponse(status, f)
      PROVE  IInv'
  <2> DEFINE t == [task EXCEPT !.status = status, !.response_headers = Set(task.response_headers, f)]
  <2>1. f \in Fields
    BY SomeFields
  <2>2. Set(task.response_headers, f) \in SUBSET Fields /\ OneValue(Set(task.response_headers, f))
    BY <1>1, <2>1, Setting DEF Task, Mapping
  <2>3. t \in Task
    BY <1>1, <2>2 DEF Task
  <2>4. /\ t.version = task.version /\ t.close_on_finish = task.close_on_finish
        /\ t.response_headers = Set(task.response_headers, f)
        /\ t.accumulated_headers = task.accumulated_headers
    BY <1>1 DEF Task
  <2>5. task' = t /\ serving /\ ~wsgi /\ ~task.wrote_header /\ UNCHANGED <<taskVars, will_close, wire, closedAt>>
    BY <1>6 DEF SetResponse
  <2> HIDE DEF t
  <2>6. Mapping(t)
    BY <1>1, <2>2, <2>4, <2>5 DEF Mapping
  <2> QED
    BY <2>3, <2>4, <2>5, <2>6, SettingUp
<1>7. ASSUME NEW data \in {<<>>, <<Unit>>, <<End>>}, Write(data)
      PROVE  IInv'
  <2>1. data \in Seq(Symbols)
    <3>1. Unit \in Symbols /\ End \in Symbols
      BY DEF Symbols
    <3>2. <<>> \in Seq(Symbols) /\ \A s \in Symbols : <<s>> \in Seq(Symbols)
      OBVIOUS
    <3> QED
      BY <3>1, <3>2
  <2>2. serving /\ task' = Written(task, data).task /\ wire' = Written(task, data).wire
        /\ UNCHANGED <<taskVars, will_close, closedAt>>
    BY <1>7 DEF Write
  <2>3. /\ task' \in Task /\ Mapping(task') /\ wire' \in Seq(Symbols)
        /\ task'.version = task.version /\ task'.wrote_header = TRUE
        /\ WantsClose(requests[n]) => task'.close_on_finish
    BY <2>1, <2>2, WritingIt
  <2>4. Mapping(task)'
    BY <2>2, <2>3 DEF Mapping, taskVars
  <2> QED
    BY <2>2, <2>3, <2>4 DEF IInv, Types, Demand, taskVars
<1>8. CASE Finish
  <2>1. serving /\ <<>> \in Seq(Symbols)
    BY <1>8 DEF Finish
  <2>2. Leave(Written(task, <<>>).task, Written(task, <<>>).wire)
    BY <1>8 DEF Finish
  <2> QED
    BY <2>1, <2>2, WritingIt, LeavingIt
<1>9. CASE RaiseOSError
  <2> DEFINE t == [task EXCEPT !.close_on_finish = TRUE]
  <2>1. t \in Task /\ t.close_on_finish = TRUE /\ t.response_headers = task.response_headers
        /\ t.accumulated_headers = task.accumulated_headers
    BY <1>1 DEF Task
  <2>2. serving /\ Leave(t, wire)
    BY <1>9 DEF RaiseOSError
  <2> HIDE DEF t
  <2>3. Mapping(t)
    BY <1>1, <2>1 DEF Mapping
  <2> QED
    BY <1>1, <2>1, <2>2, <2>3, LeavingIt
<1>10. CASE RaiseOther
  <2>1. serving /\ Leave(task, wire) /\ (WantsClose(requests[n]) => task.close_on_finish)
    BY <1>10 DEF RaiseOther, IInv, Demand
  <2> QED
    BY <1>1, <2>1, LeavingIt
<1>11. CASE UNCHANGED vars
  BY <1>2, <1>11 DEF vars, taskVars
<1> QED
  BY <1>3, <1>4, <1>5, <1>6, <1>7, <1>8, <1>9, <1>10, <1>11 DEF Next

THEOREM Invariance == Spec => []IInv
  BY IInvInit, IInvNext, PTL DEF Spec

-----------------------------------------------------------------------------
(* What the invariant says.                                                *)

\* The attributes of the tasks have their types, a mapping of header fields has
\* one value for a name, whatever start_response(), setResponseHeaders() and
\* prepareResponseHeaders() put there.
THEOREM TypeCorrect == Spec => []TypeOK
<1>1. IInv => TypeOK
  <2> SUFFICES ASSUME IInv PROVE TypeOK
    OBVIOUS
  <2>1. task.response_headers \in SUBSET Fields /\ OneValue(task.response_headers)
    BY DEF IInv, Types, Task, Mapping
  <2>2. Cardinality(Names(task.response_headers)) = Cardinality(task.response_headers)
    BY <2>1, AsManyNames
  <2> QED
    BY <2>2 DEF IInv, Types, Task, Mapping, TypeOK
<1> QED
  BY <1>1, Invariance, PTL

\* A client that wants the connection closed behind the response has its way,
\* however the task ends: at its end, or by an exception before the header, or
\* behind it.
THEOREM ClosedAsAsked == Spec => []ClosedOnDemand
<1>1. IInv => ClosedOnDemand
  BY DEF IInv, Demand, ClosedOnDemand
<1> QED
  BY <1>1, Invariance, PTL

-----------------------------------------------------------------------------
(* Induction.                                                              *)

\* The library states induction for operators; for sets it follows from their
\* having a least element.
Below == {ss \in Nat \X Nat : ss[1] < ss[2]}

LEMMA Least ==
  ASSUME NEW S, S \subseteq Nat, S # {}
  PROVE  Min(S) \in S /\ \A y \in S : Min(S) <= y
<1>1. IsWellFoundedOn(Below, Nat)
  BY NatLessThanWellFounded DEF OpToRel, Below
<1>2. PICK x \in S : \A y \in S : ~(<<y, x>> \in Below)
  BY <1>1, WFMin
<1>3. \A y \in S : ~(y < x)
  BY <1>2 DEF Below
<1>4. \E x1 \in S : \A y \in S : x1 <= y
  BY <1>3
<1> QED
  BY <1>4 DEF Min

\* Induction from the end of a sequence to its beginning.
LEMMA Backwards ==
  ASSUME NEW N \in Nat, NEW S,
         \A i \in 1..N + 1 : (\A j \in i + 1..N + 1 : j \in S) => i \in S
  PROVE  1..N + 1 \subseteq S
<1> SUFFICES ASSUME NEW k \in 1..N + 1, k \notin S PROVE FALSE
  OBVIOUS
<1> DEFINE T == {d \in 0..N : N + 1 - d \notin S}
<1>1. N + 1 - k \in T /\ T \subseteq Nat
  OBVIOUS
<1>2. Min(T) \in T /\ \A d \in T : Min(T) <= d
  BY <1>1, Least
<1>3. PICK m \in T : \A d \in T : m <= d
  BY <1>2
<1>4. N + 1 - m \in 1..N + 1 /\ m \in 0..N /\ N + 1 - m \notin S
  BY <1>3
<1>5. ASSUME NEW j \in (N + 1 - m) + 1..N + 1
      PROVE  j \in S
  <2>1. N + 1 - j \in 0..N /\ N + 1 - (N + 1 - j) = j /\ ~(m <= N + 1 - j)
    BY <1>4
  <2> QED
    BY <1>3, <2>1
<1> QED
  BY <1>4, <1>5

-----------------------------------------------------------------------------
(* Where a body ends.                                                      *)

Headers == [kind : {"header"}, status : Statuses, version : {"1.0", "1.1"}, fields : SUBSET Fields]

LEMMA HeaderSymbols == \A x \in Symbols : x.kind = "header" => x \in Headers
  BY DEF Symbols, Headers, Unit, End

\* Where a body ends, if it does: between its header and the end of what there is.
LEMMA EndsBehind ==
  ASSUME NEW s \in Seq(Symbols), NEW i \in 1..Len(s), NEW h \in Headers
  PROVE  EndOfBody(s, i + 1, h) \in {None} \cup (i..Len(s))
<1> DEFINE ends == {j \in i + 1..Len(s) : s[j] = End}
           lengths == LengthOf(h.fields)
           e == EndOfBody(s, i + 1, h)
<1>0. Len(s) \in Nat /\ i \in Nat
  OBVIOUS
<1>1. CASE h.status = "304"
  <2>1. e = i + 1 - 1
    BY <1>1 DEF EndOfBody
  <2> QED
    BY <2>1
<1>2. CASE h.status # "304" /\ Chunked \in h.fields
  <2>1. e = IF ends = {} THEN None ELSE Min(ends)
    BY <1>2 DEF EndOfBody
  <2>2. ends \subseteq Nat /\ ends \subseteq i..Len(s)
    BY <1>0
  <2> HIDE DEF ends
  <2>3. ends # {} => Min(ends) \in ends
    BY <2>2, Least
  <2> QED
    BY <2>1, <2>2, <2>3
<1>3. CASE h.status # "304" /\ Chunked \notin h.fields /\ {Chunked, Gzip} \cap h.fields = {} /\ Cardinality(lengths) = 1
  <2>1. e = IF i + 1 + Min(lengths) - 1 > Len(s) THEN None ELSE i + 1 + Min(lengths) - 1
    BY <1>3 DEF EndOfBody
  <2>2. lengths \subseteq Nat
    BY DEF Headers, LengthOf, Fields, Lengths, Chunked, Gzip, Close, KeepAlive
  <2>3. lengths # {}
    BY <1>3, FS_EmptySet
  <2>4. Min(lengths) \in Nat
    BY <2>2, <2>3, Least
  <2> QED
    BY <1>0, <2>1, <2>4
<1>4. CASE h.status # "304" /\ Chunked \notin h.fields /\ ~({Chunked, Gzip} \cap h.fields = {} /\ Cardinality(lengths) = 1)
  <2>1. e = None
    BY <1>4 DEF EndOfBody
  <2> QED
    BY <2>1
<1> QED
  BY <1>1, <1>2, <1>3, <1>4

-----------------------------------------------------------------------------
(* What the client reads.                                                  *)

\* Client, in parts: what it makes of the response at i, given what it reads
\* behind that.
Until(s, i) == LET end == EndOfBody(s, i + 1, s[i]) IN IF end = None THEN Len(s) ELSE end
This(s, i) == <<[status |-> s[i].status, body |-> SubSeq(s, i + 1, Until(s, i))]>>
Stops(s, i) == EndOfBody(s, i + 1, s[i]) = None \/ SaysClose(s[i])
ReadAt(s, i, rest) ==
  IF i > Len(s) THEN [read |-> <<>>, open |-> TRUE]
  ELSE IF s[i].kind # "header" THEN [read |-> <<s[i]>>, open |-> FALSE]
  ELSE IF Stops(s, i) THEN [read |-> This(s, i), open |-> FALSE]
  ELSE [rest EXCEPT !.read = This(s, i) \o @]
Reads(s, at) == at = [i \in 1..Len(s) + 1 |-> ReadAt(s, i, at[Until(s, i) + 1])]

Responses == Symbols \cup [status : Statuses, body : Seq(Symbols)]
Result == [read : Seq(Responses), open : BOOLEAN]

LEMMA ClientChooses == \A s : Client(s) = (CHOOSE at : Reads(s, at))[1]
  BY DEF Client, Reads, ReadAt, Stops, This, Until

\* What it reads of one response, and where it goes on.
LEMMA Forward ==
  ASSUME NEW s \in Seq(Symbols), NEW i \in 1..Len(s), s[i].kind = "header"
  PROVE  Until(s, i) \in i..Len(s) /\ This(s, i) \in Seq(Responses)
<1>1. s[i] \in Headers
  BY HeaderSymbols
<1>2. EndOfBody(s, i + 1, s[i]) \in {None} \cup (i..Len(s))
  BY <1>1, EndsBehind
<1>3. Until(s, i) \in i..Len(s)
  BY <1>2 DEF Until
<1>4. SubSeq(s, i + 1, Until(s, i)) \in Seq(Symbols)
  BY <1>3
<1>5. s[i].status \in Statuses
  BY <1>1 DEF Headers
<1> DEFINE r == [status |-> s[i].status, body |-> SubSeq(s, i + 1, Until(s, i))]
<1>6. r \in Responses
  BY <1>4, <1>5 DEF Responses
<1>7. This(s, i) = <<r>>
  BY DEF This
<1> HIDE DEF r
<1>8. <<r>> \in Seq(Responses)
  BY <1>6
<1> QED
  BY <1>3, <1>7, <1>8

LEMMA ReadAtTypes ==
  ASSUME NEW s \in Seq(Symbols), NEW i \in 1..Len(s) + 1, NEW rest,
         (i <= Len(s) /\ s[i].kind = "header") => rest \in Result
  PROVE  ReadAt(s, i, rest) \in Result
<1>1. CASE i > Len(s)
  <2>1. <<>> \in Seq(Responses)
    OBVIOUS
  <2> QED
    BY <1>1, <2>1 DEF ReadAt, Result
<1>2. CASE i <= Len(s) /\ s[i].kind # "header"
  <2>1. s[i] \in Responses
    BY <1>2 DEF Responses
  <2>2. <<s[i]>> \in Seq(Responses)
    BY <2>1
  <2>3. ReadAt(s, i, rest) = [read |-> <<s[i]>>, open |-> FALSE]
    BY <1>2 DEF ReadAt
  <2> QED
    BY <2>2, <2>3 DEF Result
<1>3. CASE i <= Len(s) /\ s[i].kind = "header"
  <2>1. This(s, i) \in Seq(Responses)
    BY <1>3, Forward
  <2>2. rest \in Result /\ rest.read \in Seq(Responses) /\ This(s, i) \o rest.read \in Seq(Responses)
    BY <1>3, <2>1 DEF Result
  <2>3. \/ ReadAt(s, i, rest) = [read |-> This(s, i), open |-> FALSE]
        \/ ReadAt(s, i, rest) = [rest EXCEPT !.read = This(s, i) \o rest.read]
    BY <1>3, <2>2 DEF ReadAt, Result
  <2>4. \A x \in Seq(Responses) :
          [rest EXCEPT !.read = x] \in Result /\ [read |-> x, open |-> FALSE] \in Result
    BY <2>2 DEF Result
  <2> QED
    BY <2>1, <2>2, <2>3, <2>4
<1> QED
  BY <1>1, <1>2, <1>3

\* The function that Client takes the value of exists.
Partly(s, i, g) ==
  /\ g \in [i..Len(s) + 1 -> Result]
  /\ \A j \in i..Len(s) + 1 : g[j] = ReadAt(s, j, g[Until(s, j) + 1])

LEMMA ReadBack ==
  ASSUME NEW s \in Seq(Symbols), NEW i \in 1..Len(s) + 1, NEW g,
         g \in [i + 1..Len(s) + 1 -> Result],
         \A j \in i + 1..Len(s) + 1 : g[j] = ReadAt(s, j, g[Until(s, j) + 1])
  PROVE  \E h : Partly(s, i, h)
<1> DEFINE first == ReadAt(s, i, g[Until(s, i) + 1])
           h == [j \in i..Len(s) + 1 |-> IF j = i THEN first ELSE g[j]]
<1>0. Len(s) \in Nat /\ i \in Nat
  OBVIOUS
<1>1. ASSUME NEW j \in 1..Len(s), s[j].kind = "header"
      PROVE  Until(s, j) + 1 \in j + 1..Len(s) + 1
  BY <1>0, <1>1, Forward
<1>2. first \in Result
  <2>1. i <= Len(s) /\ s[i].kind = "header" => g[Until(s, i) + 1] \in Result
    BY <1>0, <1>1
  <2> QED
    BY <2>1, ReadAtTypes
<1>3. h \in [i..Len(s) + 1 -> Result]
  <2> HIDE DEF first
  <2>1. \A j \in i..Len(s) + 1 : j # i => j \in i + 1..Len(s) + 1
    BY <1>0
  <2> QED
    BY <1>2, <2>1
<1>4. ASSUME NEW j \in i..Len(s) + 1
      PROVE  h[j] = ReadAt(s, j, h[Until(s, j) + 1])
  <2> DEFINE u == Until(s, j) + 1
  <2>1. h[j] = ReadAt(s, j, g[u])
    BY <1>0
  <2>2. CASE j <= Len(s) /\ s[j].kind = "header"
    <3>1. u \in j + 1..Len(s) + 1
      BY <1>0, <1>1, <2>2
    <3>2. u # i /\ u \in i..Len(s) + 1
      BY <1>0, <3>1
    <3>3. h[u] = g[u]
      BY <3>2
    <3> QED
      BY <2>1, <3>3
  <2>3. CASE ~(j <= Len(s) /\ s[j].kind = "header")
    <3>1. \A a, b : ReadAt(s, j, a) = ReadAt(s, j, b)
      BY <1>0, <2>3 DEF ReadAt
    <3> QED
      BY <2>1, <3>1
  <2> QED
    BY <2>2, <2>3
<1> HIDE DEF h
<1> QED
  BY <1>3, <1>4 DEF Partly

LEMMA ClientReader ==
  ASSUME NEW s \in Seq(Symbols)
  PROVE  \E at : Partly(s, 1, at) /\ Client(s) = at[1]
<1>0. Len(s) \in Nat
  OBVIOUS
<1> DEFINE S == {i \in 1..Len(s) + 1 : \E g : Partly(s, i, g)}
<1>1. ASSUME NEW i \in 1..Len(s) + 1, \A j \in i + 1..Len(s) + 1 : j \in S
      PROVE  i \in S
  <2>1. \E g : /\ g \in [i + 1..Len(s) + 1 -> Result]
               /\ \A j \in i + 1..Len(s) + 1 : g[j] = ReadAt(s, j, g[Until(s, j) + 1])
    <3>1. CASE i = Len(s) + 1
      <4> DEFINE g == [j \in i + 1..Len(s) + 1 |-> [read |-> <<>>, open |-> TRUE]]
      <4>1. \A j : j \notin i + 1..Len(s) + 1
        BY <1>0, <3>1
      <4>2. g \in [i + 1..Len(s) + 1 -> Result]
        BY <4>1
      <4> QED
        BY <4>1, <4>2
    <3>2. CASE i # Len(s) + 1
      <4>1. i + 1 \in i + 1..Len(s) + 1
        BY <1>0, <3>2
      <4>2. i + 1 \in S
        BY <1>1, <4>1
      <4> QED
        BY <4>2 DEF Partly
    <3> QED
      BY <3>1, <3>2
  <2>2. \E h : Partly(s, i, h)
    BY <2>1, ReadBack
  <2> QED
    BY <2>2
<1>2. 1 \in S
  <2> HIDE DEF S
  <2>1. 1..Len(s) + 1 \subseteq S
    BY <1>0, <1>1, Backwards
  <2> QED
    BY <1>0, <2>1
<1>3. PICK g : Partly(s, 1, g)
  BY <1>2
<1>4. Reads(s, g)
  BY <1>3 DEF Partly, Reads
<1> DEFINE f == CHOOSE at : Reads(s, at)
<1>5. Reads(s, f)
  BY <1>4
<1>6. Client(s) = f[1]
  BY ClientChooses
<1> HIDE DEF f
<1>7. \A j \in 1..Len(s) + 1 : f[j] = ReadAt(s, j, f[Until(s, j) + 1])
  BY <1>5 DEF Reads
<1>8. \A j \in 1..Len(s) + 1 : g[j] = ReadAt(s, j, g[Until(s, j) + 1])
  BY <1>3 DEF Partly
<1> DEFINE E == {j \in 1..Len(s) + 1 : f[j] = g[j]}
<1>9. ASSUME NEW i \in 1..Len(s) + 1, \A j \in i + 1..Len(s) + 1 : j \in E
      PROVE  i \in E
  <2>1. CASE i <= Len(s) /\ s[i].kind = "header"
    <3>1. Until(s, i) + 1 \in i + 1..Len(s) + 1
      BY <1>0, <2>1, Forward
    <3> QED
      BY <1>7, <1>8, <1>9, <3>1
  <2>2. CASE ~(i <= Len(s) /\ s[i].kind = "header")
    <3>1. \A a, b : ReadAt(s, i, a) = ReadAt(s, i, b)
      BY <1>0, <2>2 DEF ReadAt
    <3> QED
      BY <1>7, <1>8, <3>1
  <2> QED
    BY <2>1, <2>2
<1>10. \A j \in 1..Len(s) + 1 : f[j] = g[j]
  <2>1. 1..Len(s) + 1 \subseteq E
    <3> HIDE DEF E
    <3> QED
      BY <1>0, <1>9, Backwards
  <2> QED
    BY <2>1
<1>11. Client(s) = g[1]
  BY <1>0, <1>6, <1>10
<1> QED
  BY <1>3, <1>11

-----------------------------------------------------------------------------
(* What the client reads of two streams, one behind the other.             *)

LEMMA Concat ==
  ASSUME NEW s \in Seq(Symbols), NEW r \in Seq(Symbols)
  PROVE  /\ s \o r \in Seq(Symbols) /\ Len(s \o r) = Len(s) + Len(r)
         /\ \A i \in 1..Len(s) : (s \o r)[i] = s[i]
         /\ \A i \in 1..Len(r) : (s \o r)[Len(s) + i] = r[i]
  OBVIOUS

\* What EndOfBody comes to, with the sets it takes the least elements of named.
LEMMA EndOfBodyIs ==
  ASSUME NEW s, NEW i, NEW h \in Headers
  PROVE  LET ends    == {j \in i..Len(s) : s[j] = End}
             lengths == LengthOf(h.fields)
         IN  EndOfBody(s, i, h) =
               IF h.status = "304" THEN i - 1
               ELSE IF Chunked \in h.fields THEN IF ends = {} THEN None ELSE Min(ends)
               ELSE IF Gzip \notin h.fields /\ Cardinality(lengths) = 1
                    THEN IF i + Min(lengths) - 1 > Len(s) THEN None ELSE i + Min(lengths) - 1
               ELSE None
  BY DEF EndOfBody

LEMMA LengthsAre ==
  ASSUME NEW h \in Headers
  PROVE  /\ LengthOf(h.fields) \subseteq Nat
         /\ Cardinality(LengthOf(h.fields)) = 1 => Min(LengthOf(h.fields)) \in Nat
<1>1. LengthOf(h.fields) \subseteq Nat
  BY DEF Headers, LengthOf, Fields, Lengths, Chunked, Gzip, Close, KeepAlive
<1>2. Cardinality(LengthOf(h.fields)) = 1 => LengthOf(h.fields) # {}
  BY FS_EmptySet
<1> QED
  BY <1>1, <1>2, Least

\* An end that is found is found with more behind it.
LEMMA EndStays ==
  ASSUME NEW s \in Seq(Symbols), NEW r \in Seq(Symbols), NEW i \in 1..Len(s), NEW h \in Headers,
         EndOfBody(s, i + 1, h) # None
  PROVE  EndOfBody(s \o r, i + 1, h) = EndOfBody(s, i + 1, h)
<1> DEFINE t == s \o r
           ends(q) == {j \in i + 1..Len(q) : q[j] = End}
           lengths == LengthOf(h.fields)
<1>0. /\ Len(s) \in Nat /\ Len(r) \in Nat /\ Len(t) = Len(s) + Len(r) /\ i \in Nat
      /\ \A j \in 1..Len(s) : t[j] = s[j]
  BY Concat
<1> HIDE DEF t
<1>1. CASE h.status = "304"
  BY <1>1, EndOfBodyIs DEF t
<1>2. CASE h.status # "304" /\ Chunked \in h.fields
  <2>1. /\ EndOfBody(s, i + 1, h) = Min(ends(s)) /\ ends(s) # {}
        /\ EndOfBody(t, i + 1, h) = IF ends(t) = {} THEN None ELSE Min(ends(t))
    BY <1>2, EndOfBodyIs
  <2>2. /\ ends(s) \subseteq Nat /\ ends(t) \subseteq Nat /\ ends(s) \subseteq ends(t)
        /\ \A j \in ends(t) : j <= Len(s) => j \in ends(s)
        /\ \A j \in ends(s) : j <= Len(s)
    BY <1>0
  <2> HIDE DEF ends
  <2>3. /\ Min(ends(s)) \in ends(s) /\ \A j \in ends(s) : Min(ends(s)) <= j
        /\ Min(ends(t)) \in ends(t) /\ \A j \in ends(t) : Min(ends(t)) <= j
    BY <2>1, <2>2, Least
  <2>4. Min(ends(t)) <= Min(ends(s)) /\ Min(ends(s)) <= Len(s) /\ Min(ends(t)) \in Nat /\ Min(ends(s)) \in Nat
    BY <2>2, <2>3
  <2>5. Min(ends(t)) \in ends(s)
    BY <1>0, <2>2, <2>3, <2>4
  <2>6. Min(ends(s)) = Min(ends(t))
    BY <2>3, <2>4, <2>5
  <2> QED
    BY <2>1, <2>2, <2>6 DEF t
<1>3. CASE h.status # "304" /\ Chunked \notin h.fields
  <2>1. /\ Gzip \notin h.fields /\ Cardinality(lengths) = 1 /\ Min(lengths) \in Nat
        /\ EndOfBody(s, i + 1, h) = i + 1 + Min(lengths) - 1 /\ ~(i + 1 + Min(lengths) - 1 > Len(s))
    BY <1>3, EndOfBodyIs, LengthsAre
  <2>2. ~(i + 1 + Min(lengths) - 1 > Len(t))
    BY <1>0, <2>1
  <2> QED
    BY <1>3, <2>1, <2>2, EndOfBodyIs DEF t
<1> QED
  BY <1>1, <1>2, <1>3

\* Where a body ends does not depend on what comes before it.
LEMMA EndMoves ==
  ASSUME NEW s \in Seq(Symbols), NEW r \in Seq(Symbols), NEW i \in 1..Len(r), NEW h \in Headers
  PROVE  LET e == EndOfBody(r, i + 1, h)
         IN  EndOfBody(s \o r, Len(s) + i + 1, h) = IF e = None THEN None ELSE Len(s) + e
<1> DEFINE t == s \o r
           n0 == Len(s)
           ends == {j \in i + 1..Len(r) : r[j] = End}
           moved == {j \in n0 + i + 1..Len(t) : t[j] = End}
           lengths == LengthOf(h.fields)
<1>0. /\ n0 \in Nat /\ Len(r) \in Nat /\ Len(t) = n0 + Len(r) /\ i \in Nat
      /\ \A j \in 1..Len(r) : t[n0 + j] = r[j]
  BY Concat
<1>n. None \notin Nat
  BY BodyAssumption
<1> HIDE DEF t, n0
<1>1. CASE h.status = "304"
  <2>1. \A q : \A k \in Nat : EndOfBody(q, k, h) = k - 1
    BY <1>1, EndOfBodyIs
  <2>2. i + 1 - 1 # None /\ n0 + (i + 1 - 1) = n0 + i + 1 - 1
    BY <1>0, <1>n
  <2>3. EndOfBody(r, i + 1, h) = i + 1 - 1 /\ EndOfBody(t, n0 + i + 1, h) = n0 + i + 1 - 1
    BY <1>0, <2>1
  <2> QED
    BY <2>2, <2>3 DEF t, n0
<1>2. CASE h.status # "304" /\ Chunked \in h.fields
  <2>1. /\ EndOfBody(r, i + 1, h) = IF ends = {} THEN None ELSE Min(ends)
        /\ EndOfBody(t, n0 + i + 1, h) = IF moved = {} THEN None ELSE Min(moved)
    BY <1>2, EndOfBodyIs
  <2>2. /\ ends \subseteq Nat /\ moved \subseteq Nat
        /\ \A j \in ends : n0 + j \in moved
        /\ \A j \in moved : j - n0 \in ends /\ n0 + (j - n0) = j
    BY <1>0, SMTT(30)
  <2> HIDE DEF ends, moved
  <2>3. CASE ends = {}
    <3>1. moved = {}
      BY <2>2, <2>3
    <3> QED
      BY <2>1, <2>3, <3>1 DEF t, n0
  <2>4. CASE ends # {}
    <3>1. moved # {}
      BY <2>2, <2>4
    <3>2. /\ Min(ends) \in ends /\ \A j \in ends : Min(ends) <= j
          /\ Min(moved) \in moved /\ \A j \in moved : Min(moved) <= j
      BY <2>2, <2>4, <3>1, Least
    <3>3. Min(moved) <= n0 + Min(ends) /\ Min(ends) <= Min(moved) - n0
      BY <2>2, <3>2
    <3>5. Min(moved) \in Nat /\ Min(ends) \in Nat
      BY <2>2, <3>2
    <3>6. \A a, b \in Nat : a <= n0 + b /\ b <= a - n0 => a = n0 + b
      BY <1>0
    <3>4. Min(moved) = n0 + Min(ends) /\ Min(ends) \in Nat
      BY <3>3, <3>5, <3>6
    <3> QED
      BY <1>n, <2>1, <2>4, <3>1, <3>4 DEF t, n0
  <2> QED
    BY <2>3, <2>4
<1>3. CASE h.status # "304" /\ Chunked \notin h.fields /\ Gzip \notin h.fields /\ Cardinality(lengths) = 1
  <2>1. /\ Min(lengths) \in Nat
        /\ EndOfBody(r, i + 1, h) = IF i + 1 + Min(lengths) - 1 > Len(r) THEN None ELSE i + 1 + Min(lengths) - 1
        /\ EndOfBody(t, n0 + i + 1, h) =
             IF n0 + i + 1 + Min(lengths) - 1 > Len(t) THEN None ELSE n0 + i + 1 + Min(lengths) - 1
    BY <1>3, EndOfBodyIs, LengthsAre
  <2>2. /\ (n0 + i + 1 + Min(lengths) - 1 > Len(t)) <=> (i + 1 + Min(lengths) - 1 > Len(r))
        /\ n0 + i + 1 + Min(lengths) - 1 = n0 + (i + 1 + Min(lengths) - 1)
        /\ i + 1 + Min(lengths) - 1 \in Nat
    BY <1>0, <2>1
  <2> QED
    BY <1>n, <2>1, <2>2 DEF t, n0
<1>4. CASE h.status # "304" /\ Chunked \notin h.fields /\ ~(Gzip \notin h.fields /\ Cardinality(lengths) = 1)
  BY <1>4, EndOfBodyIs DEF t, n0
<1> QED
  BY <1>1, <1>2, <1>3, <1>4

LEMMA SamePart ==
  ASSUME NEW t \in Seq(Symbols), NEW r \in Seq(Symbols), NEW k \in Nat, NEW a \in Nat \ {0},
         NEW u \in Nat, u <= Len(r), k + u <= Len(t), \A j \in a..u : t[k + j] = r[j]
  PROVE  SubSeq(t, k + a, k + u) = SubSeq(r, a, u)
<1>1. /\ SubSeq(t, k + a, k + u) = [i \in 1..(k + u) - (k + a) + 1 |-> t[i + (k + a) - 1]]
      /\ SubSeq(r, a, u) = [i \in 1..u - a + 1 |-> r[i + a - 1]]
  OBVIOUS
<1>2. (k + u) - (k + a) + 1 = u - a + 1
  OBVIOUS
<1>3. ASSUME NEW i \in 1..u - a + 1
      PROVE  t[i + (k + a) - 1] = r[i + a - 1]
  <2>1. i + a - 1 \in a..u /\ i + (k + a) - 1 = k + (i + a - 1)
    OBVIOUS
  <2> QED
    BY <2>1
<1> QED
  BY <1>1, <1>2, <1>3

\* Behind s, which ends where a response ends, the client reads r as it would
\* read r alone.
LEMMA ReadShift ==
  ASSUME NEW s \in Seq(Symbols), NEW r \in Seq(Symbols), NEW at, Partly(r, 1, at),
         NEW all, Partly(s \o r, 1, all)
  PROVE  \A i \in 1..Len(r) + 1 : all[Len(s) + i] = at[i]
<1> DEFINE t == s \o r
           n0 == Len(s)
           E == {i \in 1..Len(r) + 1 : all[n0 + i] = at[i]}
<1>0. /\ n0 \in Nat /\ Len(r) \in Nat /\ Len(t) = n0 + Len(r) /\ t \in Seq(Symbols)
      /\ \A j \in 1..Len(r) : t[n0 + j] = r[j]
  BY Concat
<1>1. /\ \A j \in 1..Len(r) + 1 : at[j] = ReadAt(r, j, at[Until(r, j) + 1])
      /\ \A j \in 1..Len(t) + 1 : all[j] = ReadAt(t, j, all[Until(t, j) + 1])
  BY DEF Partly
<1> HIDE DEF t, n0
<1>2. ASSUME NEW i \in 1..Len(r) + 1, \A j \in i + 1..Len(r) + 1 : j \in E
      PROVE  i \in E
  <2>0. n0 + i \in 1..Len(t) + 1 /\ i \in Nat /\ (n0 + i > Len(t) <=> i > Len(r))
    BY <1>0
  <2>1. /\ all[n0 + i] = ReadAt(t, n0 + i, all[Until(t, n0 + i) + 1])
        /\ at[i] = ReadAt(r, i, at[Until(r, i) + 1])
    BY <1>1, <2>0
  <2>2. CASE i > Len(r)
    BY <2>0, <2>1, <2>2 DEF ReadAt
  <2>3. CASE ~(i > Len(r)) /\ r[i].kind # "header"
    <3>1. t[n0 + i] = r[i]
      BY <1>0, <2>0, <2>3
    <3> QED
      BY <2>0, <2>1, <2>3, <3>1 DEF ReadAt
  <2>4. CASE ~(i > Len(r)) /\ r[i].kind = "header"
    <3>1. t[n0 + i] = r[i] /\ i \in 1..Len(r)
      BY <1>0, <2>0, <2>4
    <3>2. r[i] \in Headers
      BY <2>4, <3>1, HeaderSymbols
    <3> DEFINE e == EndOfBody(r, i + 1, r[i])
    <3>3. EndOfBody(t, n0 + i + 1, t[n0 + i]) = IF e = None THEN None ELSE n0 + e
      BY <3>1, <3>2, EndMoves DEF t, n0
    <3>4. e \in {None} \cup (i..Len(r)) /\ None \notin Nat
      BY <3>1, <3>2, EndsBehind, BodyAssumption
    <3> HIDE DEF e
    <3>5. e # None => e \in Nat /\ n0 + e # None
      BY <1>0, <2>0, <3>4
    <3>6. (EndOfBody(t, n0 + i + 1, t[n0 + i]) = None) <=> (e = None)
      BY <3>3, <3>5
    <3>7. Until(t, n0 + i) = n0 + Until(r, i) /\ Until(r, i) \in i..Len(r)
      BY <1>0, <3>3, <3>4, <3>5, <3>6, Forward, <2>4, <3>1 DEF Until, e
    <3>8. Stops(t, n0 + i) <=> Stops(r, i)
      BY <3>1, <3>6 DEF Stops, e
    <3>9. SubSeq(t, n0 + i + 1, Until(t, n0 + i)) = SubSeq(r, i + 1, Until(r, i))
      <4>1. Until(r, i) \in Nat /\ Until(r, i) <= Len(r)
        BY <1>0, <2>0, <3>7
      <4> DEFINE u == Until(r, i)
      <4>2. SubSeq(t, n0 + i + 1, n0 + u) = SubSeq(r, i + 1, u)
        <5> HIDE DEF u
        <5>1. \A j \in i + 1..u : t[n0 + j] = r[j]
          BY <1>0, <2>0, <4>1, SMTT(30) DEF u
        <5>2. u \in Nat /\ u <= Len(r)
          BY <4>1 DEF u
        <5>3. SubSeq(t, n0 + (i + 1), n0 + u) = SubSeq(r, i + 1, u)
          BY <1>0, <2>0, <5>1, <5>2, SamePart
        <5>4. n0 + (i + 1) = n0 + i + 1
          BY <1>0, <2>0
        <5> QED
          BY <5>3, <5>4
      <4> QED
        BY <3>7, <4>2
    <3>10. This(t, n0 + i) = This(r, i)
      BY <3>1, <3>9 DEF This
    <3>11. all[Until(t, n0 + i) + 1] = at[Until(r, i) + 1]
      <4>1. Until(r, i) + 1 \in i + 1..Len(r) + 1 /\ Until(t, n0 + i) + 1 = n0 + (Until(r, i) + 1)
        BY <1>0, <2>0, <3>7
      <4>2. Until(r, i) + 1 \in E
        BY <1>2, <4>1
      <4> QED
        BY <4>1, <4>2
    <3> QED
      BY <2>0, <2>1, <2>4, <3>1, <3>8, <3>10, <3>11 DEF ReadAt
  <2> QED
    BY <2>2, <2>3, <2>4
<1>3. 1..Len(r) + 1 \subseteq E
  <2> HIDE DEF E
  <2> QED
    BY <1>0, <1>2, Backwards
<1> QED
  BY <1>3 DEF n0

LEMMA ReadOn ==
  ASSUME NEW s \in Seq(Symbols), NEW r \in Seq(Symbols), NEW at, Partly(s, 1, at),
         NEW all, Partly(s \o r, 1, all)
  PROVE  at[1].open => /\ all[1].read = at[1].read \o all[Len(s) + 1].read
                       /\ all[1].open = all[Len(s) + 1].open
<1> DEFINE t == s \o r
           last == all[Len(s) + 1]
           E == {i \in 1..Len(s) + 1 : at[i].open => /\ all[i].read = at[i].read \o last.read
                                                   /\ all[i].open = last.open}
<1>0. /\ Len(s) \in Nat /\ Len(r) \in Nat /\ Len(t) = Len(s) + Len(r) /\ t \in Seq(Symbols)
      /\ \A j \in 1..Len(s) : t[j] = s[j]
  BY Concat
<1>1. /\ \A j \in 1..Len(s) + 1 : at[j] = ReadAt(s, j, at[Until(s, j) + 1]) /\ at[j] \in Result
      /\ \A j \in 1..Len(t) + 1 : all[j] = ReadAt(t, j, all[Until(t, j) + 1]) /\ all[j] \in Result
  BY DEF Partly
<1>2. last \in Result /\ last.read \in Seq(Responses)
  BY <1>0, <1>1 DEF Result
<1> HIDE DEF t, last
<1>3. ASSUME NEW i \in 1..Len(s) + 1, \A j \in i + 1..Len(s) + 1 : j \in E
      PROVE  i \in E
  <2> SUFFICES ASSUME at[i].open
               PROVE  all[i].read = at[i].read \o last.read /\ all[i].open = last.open
    OBVIOUS
  <2>0. i \in Nat /\ i \in 1..Len(t) + 1
    BY <1>0
  <2>1. at[i] = ReadAt(s, i, at[Until(s, i) + 1]) /\ all[i] = ReadAt(t, i, all[Until(t, i) + 1])
    BY <1>1, <2>0
  <2>2. CASE i > Len(s)
    <3>1. i = Len(s) + 1 /\ at[i].read = <<>>
      BY <1>0, <2>0, <2>1, <2>2 DEF ReadAt
    <3>2. <<>> \o last.read = last.read
      BY <1>2
    <3> QED
      BY <3>1, <3>2 DEF last
  <2>3. CASE ~(i > Len(s))
    <3>1. s[i].kind = "header" /\ ~Stops(s, i)
      BY <2>1, <2>3 DEF ReadAt
    <3>2. i \in 1..Len(s) /\ t[i] = s[i] /\ ~(i > Len(t))
      BY <1>0, <2>0, <2>3
    <3>3. s[i] \in Headers
      BY <3>1, <3>2, HeaderSymbols
    <3> DEFINE e == EndOfBody(s, i + 1, s[i])
    <3>4. e # None /\ EndOfBody(t, i + 1, t[i]) = e
      BY <3>1, <3>2, <3>3, EndStays DEF Stops, t
    <3>5. Until(s, i) = e /\ Until(t, i) = e /\ ~Stops(t, i)
      BY <3>1, <3>2, <3>4 DEF Until, Stops
    <3> HIDE DEF e
    <3>6. e \in i..Len(s)
      BY <3>1, <3>2, <3>5, Forward
    <3>7. This(t, i) = This(s, i) /\ This(s, i) \in Seq(Responses)
      <4>1. \A j \in i + 1..e : t[0 + j] = s[j]
        BY <1>0, <2>0, <3>6
      <4>2. SubSeq(t, 0 + (i + 1), 0 + e) = SubSeq(s, i + 1, e)
        BY <1>0, <2>0, <3>6, <4>1, SamePart
      <4>3. 0 + (i + 1) = i + 1 /\ 0 + e = e
        BY <2>0, <3>6
      <4> QED
        BY <3>1, <3>2, <3>5, <4>2, <4>3, Forward DEF This
    <3> DEFINE u == e + 1
    <3>8. at[i] = [at[u] EXCEPT !.read = This(s, i) \o @] /\ all[i] = [all[u] EXCEPT !.read = This(s, i) \o @]
      BY <2>1, <2>3, <3>1, <3>2, <3>5, <3>7 DEF ReadAt
    <3>9. u \in i + 1..Len(s) + 1 /\ u \in E
      <4>1. u \in i + 1..Len(s) + 1
        BY <1>0, <2>0, <3>6
      <4> HIDE DEF E, u
      <4> QED
        BY <1>3, <4>1
    <3>10. at[u] \in Result /\ all[u] \in Result
      BY <1>0, <1>1, <3>9
    <3> HIDE DEF u
    <3>11. /\ at[i].read = This(s, i) \o at[u].read /\ at[i].open = at[u].open
           /\ all[i].read = This(s, i) \o all[u].read /\ all[i].open = all[u].open
      BY <3>8, <3>10 DEF Result
    <3>12. all[u].read = at[u].read \o last.read /\ all[u].open = last.open
      <4>1. at[u].open
        BY <3>11
      <4> QED
        BY <3>9, <4>1
    <3>13. at[u].read \in Seq(Responses)
      BY <3>10 DEF Result
    <3>14. This(s, i) \o (at[u].read \o last.read) = (This(s, i) \o at[u].read) \o last.read
      <4>1. \A x, y, z \in Seq(Responses) : x \o (y \o z) = (x \o y) \o z
        BY SMTT(30)
      <4> QED
        BY <1>2, <3>7, <3>13, <4>1
    <3> QED
      BY <3>11, <3>12, <3>14
  <2> QED
    BY <2>2, <2>3
<1>4. 1..Len(s) + 1 \subseteq E
  <2> HIDE DEF E
  <2> QED
    BY <1>0, <1>3, Backwards
<1>5. 1 \in E
  <2> HIDE DEF E
  <2> QED
    BY <1>0, <1>4
<1> QED
  BY <1>5 DEF last

LEMMA ReadTogether ==
  ASSUME NEW s \in Seq(Symbols), NEW r \in Seq(Symbols), Client(s).open
  PROVE  Client(s \o r) = [read |-> Client(s).read \o Client(r).read, open |-> Client(r).open]
<1>1. PICK at : Partly(s, 1, at) /\ Client(s) = at[1]
  BY ClientReader
<1>2. PICK behind : Partly(r, 1, behind) /\ Client(r) = behind[1]
  BY ClientReader
<1>3. s \o r \in Seq(Symbols) /\ Len(s) \in Nat /\ Len(r) \in Nat
  BY Concat
<1>4. PICK all : Partly(s \o r, 1, all) /\ Client(s \o r) = all[1]
  BY <1>3, ClientReader
<1>5. all[Len(s) + 1] = behind[1]
  BY <1>2, <1>3, <1>4, ReadShift
<1>6. all[1].read = at[1].read \o behind[1].read /\ all[1].open = behind[1].open
  <2>1. at[1].open => /\ all[1].read = at[1].read \o all[Len(s) + 1].read
                      /\ all[1].open = all[Len(s) + 1].open
    BY <1>1, <1>4, ReadOn, ZenonT(30)
  <2>2. at[1].open
    BY <1>1
  <2> QED
    BY <1>5, <2>1, <2>2
<1>7. all[1] \in Result
  BY <1>3, <1>4 DEF Partly
<1> QED
  BY <1>1, <1>2, <1>4, <1>6, <1>7 DEF Result

-----------------------------------------------------------------------------
(* What a response promises, and what the client finds.                    *)

Ends == {Close, KeepAlive}
Codings == {Chunked, Gzip}

\* One length at most, one coding at most, and none for HTTP/1.0 or by a WSGI
\* application.
Single(fields, version) ==
  /\ ~(Codings \subseteq fields)
  /\ \A k, l \in LengthOf(fields) : k = l
  /\ version = "1.0" \/ wsgi => Codings \cap fields = {}

\* The header says where the body ends, and that the connection stays.
Keeps(h) ==
  /\ ~SaysClose(h)
  /\ \/ h.status = "304" \/ Chunked \in h.fields
     \/ Codings \cap h.fields = {} /\ LengthOf(h.fields) # {}

\* A body goes no further than what was said about it.
Fitting(status, fields, body) ==
  /\ status = "304" => body = <<>>
  /\ status # "304" /\ Chunked \in fields => \A i \in 1..Len(body) : body[i] = End => i = Len(body)
  /\ status # "304" /\ Chunked \notin fields =>
        /\ \A i \in 1..Len(body) : body[i] = Unit
        /\ \A k \in LengthOf(fields) : Len(body) <= k
\* BodyComplete, of any response.
Complete(status, fields, body) ==
  \/ status = "304"
  \/ Chunked \in fields /\ Contains(body, End)
  \/ Chunked \notin fields /\ \A k \in LengthOf(fields) : Len(body) = k

Said == [status : Statuses, fields : SUBSET Fields, body : Seq({Unit, End})]

LEMMA HeaderTypes ==
  ASSUME NEW h \in Headers
  PROVE  /\ h \in Symbols /\ h.kind = "header" /\ h.status \in Statuses
         /\ h.fields \in SUBSET Fields
         /\ \A b \in Seq({Unit, End}) : /\ b \in Seq(Symbols) /\ <<h>> \o b \in Seq(Symbols)
                                        /\ Len(<<h>> \o b) = 1 + Len(b) /\ (<<h>> \o b)[1] = h
                                        /\ \A j \in 1..Len(b) : (<<h>> \o b)[1 + j] = b[j]
<1>1. h \in Symbols /\ h.kind = "header" /\ h.status \in Statuses /\ h.fields \in SUBSET Fields
  BY DEF Headers, Symbols
<1>2. \A b \in Seq({Unit, End}) : b \in Seq(Symbols)
  BY DEF Symbols
<1>3. \A b \in Seq(Symbols) : /\ <<h>> \o b \in Seq(Symbols)
                              /\ Len(<<h>> \o b) = 1 + Len(b) /\ (<<h>> \o b)[1] = h
                              /\ \A j \in 1..Len(b) : (<<h>> \o b)[1 + j] = b[j]
  BY <1>1
<1> QED
  BY <1>1, <1>2, <1>3

LEMMA OneLength ==
  ASSUME NEW F \in SUBSET Fields, \A k, l \in LengthOf(F) : k = l, LengthOf(F) # {}
  PROVE  Cardinality(LengthOf(F)) = 1
<1>1. PICK k \in LengthOf(F) : LengthOf(F) = {k}
  OBVIOUS
<1> QED
  BY <1>1, FS_Singleton

\* The body of a response by itself ends where the response ends, or not at all,
\* and it does end if it is complete.
LEMMA EndOfOne ==
  ASSUME NEW h \in Headers, NEW b \in Seq({Unit, End}), Fitting(h.status, h.fields, b),
         \A k, l \in LengthOf(h.fields) : k = l
  PROVE  /\ EndOfBody(<<h>> \o b, 2, h) \in {None, Len(<<h>> \o b)}
         /\ Complete(h.status, h.fields, b) /\ Keeps(h) => EndOfBody(<<h>> \o b, 2, h) = Len(<<h>> \o b)
<1> DEFINE r == <<h>> \o b
           ends == {j \in 2..Len(r) : r[j] = End}
           lengths == LengthOf(h.fields)
           e == EndOfBody(r, 2, h)
<1>0. /\ Len(r) = 1 + Len(b) /\ Len(b) \in Nat
      /\ \A j \in 1..Len(b) : r[1 + j] = b[j]
  BY HeaderTypes
<1> HIDE DEF r
<1>1. CASE h.status = "304"
  <2>1. b = <<>> /\ Len(r) = 1
    BY <1>0, <1>1 DEF Fitting
  <2>2. e = 2 - 1
    BY <1>1, EndOfBodyIs
  <2> QED
    BY <2>1, <2>2 DEF r
<1>2. CASE h.status # "304" /\ Chunked \in h.fields
  <2>1. e = IF ends = {} THEN None ELSE Min(ends)
    BY <1>2, EndOfBodyIs
  <2>2. \A j \in ends : j = Len(r)
    <3>1. \A i \in 1..Len(b) : b[i] = End => i = Len(b)
      BY <1>2 DEF Fitting
    <3> SUFFICES ASSUME NEW j \in 2..Len(r), r[j] = End PROVE j = Len(r)
      OBVIOUS
    <3>2. j - 1 \in 1..Len(b) /\ 1 + (j - 1) = j
      BY <1>0
    <3>3. b[j - 1] = End
      BY <1>0, <3>2
    <3> QED
      BY <1>0, <3>1, <3>2, <3>3
  <2>3. Contains(b, End) => ends # {}
    <3> SUFFICES ASSUME NEW i \in 1..Len(b), b[i] = End PROVE ends # {}
      BY DEF Contains
    <3>1. 1 + i \in 2..Len(r) /\ r[1 + i] = End
      BY <1>0
    <3> QED
      BY <3>1
  <2>4. ends \subseteq Nat
    BY <1>0
  <2> HIDE DEF ends, e
  <2>5. ends # {} => Min(ends) = Len(r)
    BY <2>2, <2>4, Least
  <2>6. Complete(h.status, h.fields, b) => Contains(b, End)
    BY <1>2 DEF Complete
  <2> QED
    BY <2>1, <2>3, <2>5, <2>6 DEF e, r
<1>3. CASE h.status # "304" /\ Chunked \notin h.fields
  <2>1. e = IF Gzip \notin h.fields /\ Cardinality(lengths) = 1
            THEN IF 2 + Min(lengths) - 1 > Len(r) THEN None ELSE 2 + Min(lengths) - 1
            ELSE None
    BY <1>3, EndOfBodyIs
  <2>2. lengths \subseteq Nat /\ (Cardinality(lengths) = 1 => lengths # {} /\ Min(lengths) \in Nat)
    <3>1. lengths \subseteq Nat /\ (Cardinality(lengths) = 1 => Min(lengths) \in Nat)
      BY LengthsAre
    <3>2. Cardinality(lengths) = 1 => lengths # {}
      <4>1. Cardinality({}) # 1
        BY FS_EmptySet
      <4> QED
        BY <4>1
    <3> QED
      BY <3>1, <3>2
  <2>3. lengths # {} => Min(lengths) \in lengths
    BY <2>2, Least
  <2>4. \A k \in lengths : Len(b) <= k
    BY <1>3 DEF Fitting
  <2>5. Complete(h.status, h.fields, b) => \A k \in lengths : Len(b) = k
    BY <1>3 DEF Complete
  <2>6. Keeps(h) => Gzip \notin h.fields /\ Cardinality(lengths) = 1
    <3>1. Keeps(h) => Gzip \notin h.fields /\ lengths # {}
      BY <1>3 DEF Keeps, Codings
    <3> QED
      BY <3>1, HeaderTypes, OneLength
  <2> HIDE DEF lengths, e
  <2>7. CASE ~(Gzip \notin h.fields /\ Cardinality(lengths) = 1)
    BY <2>1, <2>6, <2>7 DEF e, r
  <2>8. CASE Gzip \notin h.fields /\ Cardinality(lengths) = 1
    <3> DEFINE k == Min(lengths)
    <3>1. k \in Nat /\ Len(b) <= k /\ (Complete(h.status, h.fields, b) => Len(b) = k)
      BY <2>2, <2>3, <2>4, <2>5, <2>8
    <3>2. e = IF 2 + k - 1 > Len(r) THEN None ELSE 2 + k - 1
      BY <2>1, <2>8
    <3> HIDE DEF k
    <3> QED
      BY <1>0, <3>1, <3>2 DEF e, r
  <2> QED
    BY <2>7, <2>8
<1> QED
  BY <1>1, <1>2, <1>3

\* One response by itself: the client reads it, and waits for the next one if the
\* header keeps the connection and the body is complete.
LEMMA OneResponse ==
  ASSUME NEW h \in Headers, NEW b \in Seq({Unit, End}), Fitting(h.status, h.fields, b),
         \A k, l \in LengthOf(h.fields) : k = l
  PROVE  /\ Client(<<h>> \o b).read = <<[status |-> h.status, body |-> b]>>
         /\ Complete(h.status, h.fields, b) /\ Keeps(h) => Client(<<h>> \o b).open = TRUE
<1> DEFINE r == <<h>> \o b
           one == <<[status |-> h.status, body |-> b]>>
<1>0. /\ r \in Seq(Symbols) /\ Len(r) = 1 + Len(b) /\ Len(b) \in Nat /\ r[1] = h
      /\ \A j \in 1..Len(b) : r[1 + j] = b[j]
      /\ h.kind = "header" /\ b \in Seq(Symbols) /\ h.status \in Statuses
  BY HeaderTypes
<1>e. /\ EndOfBody(r, 2, h) \in {None, Len(r)}
      /\ Complete(h.status, h.fields, b) /\ Keeps(h) => EndOfBody(r, 2, h) = Len(r)
  BY EndOfOne
<1> HIDE DEF r
<1>1. PICK at : Partly(r, 1, at) /\ Client(r) = at[1]
  BY <1>0, ClientReader
<1>2. 1 \in 1..Len(r) + 1 /\ Len(r) + 1 \in 1..Len(r) + 1 /\ ~(1 > Len(r)) /\ Len(r) + 1 > Len(r) /\ 1 + 1 = 2
  BY <1>0
<1>3. at[1] = ReadAt(r, 1, at[Until(r, 1) + 1]) /\ at[Len(r) + 1] = ReadAt(r, Len(r) + 1, at[Until(r, Len(r) + 1) + 1])
  BY <1>1, <1>2 DEF Partly
<1>4. at[Len(r) + 1] = [read |-> <<>>, open |-> TRUE]
  BY <1>2, <1>3 DEF ReadAt
<1>5. Until(r, 1) = Len(r)
  BY <1>0, <1>2, <1>e DEF Until
<1>6. This(r, 1) = one
  <2>1. SubSeq(r, 1 + 1, 1 + Len(b)) = SubSeq(b, 1, Len(b))
    BY <1>0, SamePart
  <2>2. SubSeq(b, 1, Len(b)) = b
    BY <1>0
  <2> QED
    BY <1>0, <1>5, <2>1, <2>2 DEF This
<1>7. one \o <<>> = one
  <2> DEFINE x == [status |-> h.status, body |-> b]
  <2>1. <<x>> \in Seq({x})
    OBVIOUS
  <2> HIDE DEF x
  <2>2. <<x>> \o <<>> = <<x>>
    BY <2>1
  <2> QED
    BY <2>2 DEF x
<1> HIDE DEF one
<1>8. at[1].read = one /\ (~Stops(r, 1) => at[1].open = TRUE)
  <2> DEFINE rest == at[Len(r) + 1]
  <2>1. at[1] = IF Stops(r, 1) THEN [read |-> one, open |-> FALSE]
                ELSE [rest EXCEPT !.read = one \o @]
    BY <1>0, <1>2, <1>3, <1>5, <1>6 DEF ReadAt
  <2>2. rest.read = <<>> /\ rest.open = TRUE
    BY <1>4
  <2>3. rest \in Result
    BY <1>1, <1>2 DEF Partly
  <2> HIDE DEF rest
  <2>4. ~Stops(r, 1) => at[1].read = one \o rest.read /\ at[1].open = rest.open
    BY <2>1, <2>3 DEF Result
  <2>5. Stops(r, 1) => at[1].read = one
    BY <2>1
  <2> QED
    BY <1>7, <2>2, <2>4, <2>5
<1>9. Len(r) # None
  BY <1>0, BodyAssumption
<1>10. Complete(h.status, h.fields, b) /\ Keeps(h) => ~Stops(r, 1)
  BY <1>0, <1>2, <1>e, <1>9 DEF Stops, Keeps
<1> QED
  BY <1>1, <1>8, <1>10 DEF r, one

\* What the current task has promised, and what the application has sent of it.
Pledged(t, s) ==
  /\ s.status = t.status
  /\ Single(s.fields, t.version)
  /\ Fitting(s.status, s.fields, s.body)
  /\ IF t.wrote_header
     THEN /\ s.fields \ Ends = Header(t).fields \ Ends
          /\ t.close_on_finish \/ Keeps(Header(t))
     ELSE /\ s.fields = Header(t).fields
          /\ t.response_headers \cap Ends = {}
          /\ s.body = <<>>
Promised == said \in Said /\ (serving => Pledged(task, said))

\* What the client has read when the server decides to close.
ReadTo(w, k, read) ==
  /\ k \in 0..Len(w)
  /\ IsPrefix(read, Client(SubSeq(w, 1, k)).read)
  /\ Len(Client(SubSeq(w, 1, k)).read) <= Len(read) + 1
\* What the current task has written, behind what was there before it.
Behind(base, t, body) == IF t.wrote_header THEN base \o (<<Header(t)>> \o body) ELSE base
\* The client has read all responses, and waits for the one that is being written.
Reading ==
  ~cut =>
    IF closedAt # None THEN ReadTo(wire, closedAt, responses)
    ELSE \E base \in Seq(Symbols) :
           /\ Client(base) = [read |-> responses, open |-> TRUE]
           /\ Len(responses) = IF serving THEN n - 1 ELSE n
           /\ wire = IF serving THEN Behind(base, task, said.body) ELSE base

-----------------------------------------------------------------------------
(* prepareResponseHeaders() keeps only what the client can find the end of. *)

LEMMA TheFields ==
  /\ Ends \subseteq Fields /\ Codings \subseteq Fields /\ Ends \cap Codings = {} /\ Chunked # Gzip
  /\ \A f \in Ends : f.name = "connection"
  /\ \A f \in Codings : f.name = "transfer-encoding"
  /\ \A f \in Fields : /\ f.name = "connection" => f \in Ends
                       /\ f.name = "transfer-encoding" => f \in Codings
                       /\ f.name = "content-length" => f \in Lengths
  /\ \A f \in Lengths : f.name = "content-length" /\ f \notin Ends /\ f \notin Codings
  BY DEF Fields, Lengths, Ends, Codings, Chunked, Gzip, Close, KeepAlive

\* Fields that are the same but for whether the connection ends.
LEMMA SameButEnds ==
  ASSUME NEW F \in SUBSET Fields, NEW G \in SUBSET Fields, F \ Ends = G \ Ends
  PROVE  /\ LengthOf(F) = LengthOf(G)
         /\ \A f \in Codings : f \in F <=> f \in G
         /\ Codings \cap F = Codings \cap G /\ (Chunked \in F <=> Chunked \in G)
<1>1. \A f \in Fields : f \notin Ends => (f \in F <=> f \in G)
  OBVIOUS
<1>2. {g \in F : g.name = "content-length"} = {g \in G : g.name = "content-length"}
  BY <1>1, TheFields
<1>3. \A f \in Codings : f \in F <=> f \in G
  BY <1>1, TheFields
<1> QED
  BY <1>2, <1>3 DEF LengthOf, Codings

LEMMA SameMeaning ==
  ASSUME NEW F \in SUBSET Fields, NEW G \in SUBSET Fields, F \ Ends = G \ Ends, NEW status, NEW body, NEW v
  PROVE  /\ Single(F, v) => Single(G, v)
         /\ Fitting(status, F, body) => Fitting(status, G, body)
         /\ Complete(status, F, body) => Complete(status, G, body)
<1>1. /\ LengthOf(F) = LengthOf(G) /\ \A f \in Codings : f \in F <=> f \in G
      /\ Codings \cap F = Codings \cap G /\ (Chunked \in F <=> Chunked \in G)
  BY SameButEnds
<1>2. Single(F, v) => Single(G, v)
  BY <1>1 DEF Single
<1>3. Fitting(status, F, body) => Fitting(status, G, body)
  BY <1>1 DEF Fitting
<1>4. Complete(status, F, body) => Complete(status, G, body)
  BY <1>1 DEF Complete
<1> QED
  BY <1>2, <1>3, <1>4

LEMMA HeaderIs ==
  ASSUME NEW t \in Task
  PROVE  /\ Header(t) \in Headers /\ Header(t).status = t.status /\ Header(t).version = t.version
         /\ Header(t).fields = t.response_headers \cup Accumulated(t)
         /\ t.response_headers \in SUBSET Fields /\ Accumulated(t) \in SUBSET Fields
  BY DEF Task, Header, Headers, Accumulated

LEMMA SettingEnds ==
  ASSUME NEW F \in SUBSET Fields, F \cap Ends = {}, NEW f \in Ends
  PROVE  Set(F, f) = F \cup {f}
<1>1. f.name = "connection" /\ \A g \in F : g.name # "connection"
  BY TheFields
<1> QED
  BY <1>1 DEF Set

\* prepareResponseHeaders() promises to keep the connection only if the header
\* says where the body ends.
LEMMA PreparedKeeps ==
  ASSUME NEW t \in Task, Mapping(t), t.response_headers \cap Ends = {},
         Single(Header(t).fields, t.version), NEW connection
  PROVE  LET p == prepareResponseHeaders(t, connection)
         IN  /\ p.status = t.status
             /\ Header(t).fields \ Ends = Header(p).fields \ Ends
             /\ p.close_on_finish \/ Keeps(Header(p))
<1> DEFINE close == CloseIt(t, connection)
           headers == CASE close -> Set(t.response_headers, Close)
                        [] ~close /\ t.version = "1.0" -> Set(t.response_headers, KeepAlive)
                        [] OTHER -> t.response_headers
           p == prepareResponseHeaders(t, connection)
<1>1. p = [t EXCEPT !.wrote_header = TRUE, !.close_on_finish = close, !.response_headers = headers]
  BY DEF prepareResponseHeaders, Task
<1>2. p \in Task
  BY Preparing
<1>3. /\ p.status = t.status /\ p.version = t.version /\ p.close_on_finish = close
      /\ p.response_headers = headers /\ p.accumulated_headers = t.accumulated_headers
  BY <1>1 DEF Task
<1>4. Accumulated(p) = Accumulated(t)
  BY <1>3 DEF Accumulated
<1>5. Close \in Ends /\ KeepAlive \in Ends /\ Close # KeepAlive
  BY DEF Ends, Close, KeepAlive
<1>6. headers = CASE close -> t.response_headers \cup {Close}
                  [] ~close /\ t.version = "1.0" -> t.response_headers \cup {KeepAlive}
                  [] OTHER -> t.response_headers
  BY <1>5, HeaderIs, SettingEnds
<1> HIDE DEF close, headers, p
<1>7. headers \ Ends = t.response_headers \ Ends
  BY <1>5, <1>6
<1>8. Header(t).fields \ Ends = Header(p).fields \ Ends
  BY <1>2, <1>3, <1>4, <1>7, HeaderIs
<1>9. ASSUME ~close PROVE Keeps(Header(p))
  <2> DEFINE h == Header(p)
  <2>1. /\ h.status = t.status /\ h.version = t.version
        /\ h.fields = headers \cup Accumulated(t)
        /\ Header(t).fields = t.response_headers \cup Accumulated(t)
        /\ t.response_headers \in SUBSET Fields /\ Accumulated(t) \in SUBSET Fields
    BY <1>2, <1>3, <1>4, HeaderIs
  <2>2. /\ Codings \cap Header(t).fields = Codings \cap h.fields
        /\ LengthOf(Header(t).fields) = LengthOf(h.fields)
    BY <1>2, <1>8, HeaderIs, SameButEnds DEF Headers
  <2> HIDE DEF h
  <2>3. ASSUME "content-length" \in Names(Header(t).fields)
        PROVE  LengthOf(h.fields) # {}
    <3>1. PICK f \in Header(t).fields : f.name = "content-length"
      BY <2>3 DEF Names
    <3>2. f.value \in LengthOf(Header(t).fields)
      BY <3>1 DEF LengthOf
    <3> QED
      BY <2>2, <3>2
  <2>4. CASE t.version = "1.0"
    <3>1. connection = "keep-alive" /\ "content-length" \in Names(t.response_headers)
      BY <1>9, <2>4 DEF close, CloseIt, CloseIt10
    <3>2. "content-length" \in Names(Header(t).fields)
      BY <2>1, <3>1 DEF Names
    <3>3. ~wsgi
      BY <3>1 DEF Mapping, Names, Close, KeepAlive
    <3>4. Accumulated(t) = {}
      BY <3>3 DEF Mapping, Accumulated
    <3>5. h.fields = t.response_headers \cup {KeepAlive}
      BY <1>6, <1>9, <2>1, <2>4, <3>4
    <3>6. Close \notin h.fields /\ KeepAlive \in h.fields
      BY <1>5, <3>5
    <3>7. Codings \cap h.fields = {}
      BY <2>2, <2>4 DEF Single
    <3> QED
      BY <2>3, <3>2, <3>6, <3>7 DEF Keeps, SaysClose, h
  <2>5. CASE t.version = "1.1"
    <3>1. Close \notin Accumulated(t) /\ Delimited(t)
      BY <1>9, <2>5 DEF close, CloseIt, CloseIt11
    <3>2. h.fields = t.response_headers \cup Accumulated(t)
      BY <1>6, <1>9, <2>1, <2>5
    <3>3. Close \notin h.fields /\ h.version # "1.0"
      BY <1>5, <2>1, <2>5, <3>1, <3>2
    <3>4. CASE Coded(t)
      <4>1. Chunked \in h.fields
        BY <3>1, <3>2, <3>4 DEF Delimited
      <4> QED
        BY <3>3, <4>1 DEF Keeps, SaysClose, h
    <3>5. CASE ~Coded(t)
      <4>1. t.status = "304" \/ "content-length" \in Names(Header(t).fields)
        BY <2>1, <3>1, <3>5 DEF Delimited
      <4>2. Codings \cap t.response_headers = {}
        BY <3>5, TheFields DEF Coded, Names
      <4>3. Codings \cap h.fields = {}
        <5>1. wsgi => Codings \cap h.fields = {}
          BY <2>2 DEF Single
        <5>2. ~wsgi => Accumulated(t) = {}
          BY DEF Mapping, Accumulated
        <5> QED
          BY <3>2, <4>2, <5>1, <5>2
      <4> QED
        BY <2>1, <2>3, <3>3, <4>1, <4>3 DEF Keeps, SaysClose, h
    <3> QED
      BY <3>4, <3>5
  <2> QED
    BY <2>4, <2>5 DEF Task
<1>10. close \in BOOLEAN
  BY DEF close, CloseIt, CloseIt10, CloseIt11
<1> QED
  BY <1>3, <1>8, <1>9, <1>10 DEF p

-----------------------------------------------------------------------------
(* The wire: what is written goes behind what was.                         *)

\* write(), and finish(): what is promised about the body is still promised.
LEMMA Sending ==
  ASSUME IInv, Promised, serving, NEW data \in Seq({Unit, End}),
         Fitting(said.status, said.fields, said.body \o data)
  PROVE  LET w == Written(task, data)
         IN  /\ Pledged(w.task, [said EXCEPT !.body = said.body \o data])
             /\ \A base \in Seq(Symbols) :
                  wire = Behind(base, task, said.body) => w.wire = Behind(base, w.task, said.body \o data)
             /\ \E more \in Seq(Symbols) : w.wire = wire \o more
<1>1. /\ task \in Task /\ Mapping(task) /\ wire \in Seq(Symbols)
  BY DEF IInv, Types
<1>2. /\ said \in Said /\ Pledged(task, said)
      /\ said.body \in Seq({Unit, End}) /\ said.fields \in SUBSET Fields
  BY DEF Promised, Said
<1> DEFINE w == Written(task, data)
           s == [said EXCEPT !.body = said.body \o data]
<1>3. /\ s.status = said.status /\ s.fields = said.fields /\ s.body = said.body \o data
  BY <1>2 DEF Said
<1>4. data \in Seq(Symbols) /\ said.body \in Seq(Symbols)
  BY <1>2, HeaderTypes DEF Symbols
<1>5. /\ w.task \in Task /\ w.task.version = task.version /\ w.task.wrote_header = TRUE
  BY <1>4, WritingIt
<1> HIDE DEF s
<1>6. Single(s.fields, w.task.version) /\ Fitting(s.status, s.fields, s.body)
  BY <1>2, <1>3, <1>5 DEF Pledged
<1>7. \A x, y, z \in Seq(Symbols) : x \o y \in Seq(Symbols) /\ x \o (y \o z) = (x \o y) \o z
  OBVIOUS
<1>8. \A h \in Headers : <<h>> \in Seq(Symbols)
  <2> SUFFICES ASSUME NEW h \in Headers PROVE <<h>> \in Seq(Symbols)
    OBVIOUS
  <2>1. h \in Symbols
    BY HeaderTypes
  <2> QED
    BY <2>1
<1>9. CASE task.wrote_header
  <2>1. w = [task |-> task, wire |-> wire \o data]
    BY <1>9 DEF Written
  <2>4. w.wire = wire \o data /\ w.task = task
    BY <2>1
  <2> HIDE DEF w
  <2>2. Pledged(w.task, s)
    BY <1>2, <1>3, <1>6, <1>9, <2>4 DEF Pledged
  <2>3. ASSUME NEW base \in Seq(Symbols), wire = Behind(base, task, said.body)
        PROVE  w.wire = Behind(base, w.task, said.body \o data)
    <3> DEFINE h == <<Header(task)>>
    <3>1. h \in Seq(Symbols)
      BY <1>1, <1>8, HeaderIs
    <3>2. wire = base \o (h \o said.body)
      BY <1>9, <2>3 DEF Behind
    <3>3. Behind(base, w.task, said.body \o data) = base \o (h \o (said.body \o data))
      BY <1>9, <2>4 DEF Behind
    <3> HIDE DEF h
    <3>4. h \o (said.body \o data) = (h \o said.body) \o data /\ h \o said.body \in Seq(Symbols)
      BY <1>4, <1>7, <3>1
    <3>5. base \o ((h \o said.body) \o data) = (base \o (h \o said.body)) \o data
      BY <1>4, <1>7, <3>4, ZenonT(30)
    <3> QED
      BY <2>4, <3>2, <3>3, <3>4, <3>5
  <2> QED
    BY <1>4, <2>2, <2>3, <2>4 DEF w, s
<1>10. CASE ~task.wrote_header
  <2> DEFINE p == prepareResponseHeaders(task, requests[n].connection)
  <2>1. w = [task |-> p, wire |-> Append(wire, Header(p)) \o data]
    BY <1>10 DEF Written
  <2>2. /\ said.body = <<>> /\ said.fields = Header(task).fields /\ task.response_headers \cap Ends = {}
        /\ Single(Header(task).fields, task.version) /\ said.status = task.status
    BY <1>2, <1>10 DEF Pledged
  <2>3. /\ p.status = task.status
        /\ Header(task).fields \ Ends = Header(p).fields \ Ends
        /\ p.close_on_finish \/ Keeps(Header(p))
    BY <1>1, <2>2, PreparedKeeps
  <2>4. w.task = p
    BY <2>1
  <2> HIDE DEF p
  <2>5. Pledged(w.task, s)
    BY <1>3, <1>5, <1>6, <2>2, <2>3, <2>4 DEF Pledged
  <2> DEFINE h == <<Header(p)>>
  <2>6. h \in Seq(Symbols) /\ Header(p) \in Symbols
    BY <1>5, <1>8, <2>4, HeaderIs, HeaderTypes
  <2>7. Append(wire, Header(p)) = wire \o h
    BY <1>1, <2>6
  <2>8. said.body \o data = data
    BY <1>4, <2>2
  <2> HIDE DEF h
  <2>9. w.wire = wire \o (h \o data) /\ h \o data \in Seq(Symbols)
    BY <1>1, <1>4, <1>7, <2>1, <2>6, <2>7
  <2>10. ASSUME NEW base \in Seq(Symbols), wire = Behind(base, task, said.body)
         PROVE  w.wire = Behind(base, w.task, said.body \o data)
    <3>1. wire = base
      BY <1>10, <2>10 DEF Behind
    <3>2. Behind(base, w.task, said.body \o data) = base \o (h \o data)
      BY <1>5, <2>4, <2>8 DEF Behind, h
    <3> QED
      BY <2>9, <3>1, <3>2
  <2> HIDE DEF w
  <2> QED
    BY <2>5, <2>9, <2>10 DEF w, s
<1> QED
  BY <1>9, <1>10

\* What is written later is not read by a client that stops before it.
LEMMA ReadBefore ==
  ASSUME NEW w \in Seq(Symbols), NEW more \in Seq(Symbols), NEW k, NEW read, ReadTo(w, k, read)
  PROVE  ReadTo(w \o more, k, read)
<1>1. k \in 0..Len(w) /\ Len(w) \in Nat /\ Len(w \o more) = Len(w) + Len(more) /\ Len(more) \in Nat
  BY DEF ReadTo
<1>2. SubSeq(w \o more, 1, k) = SubSeq(w, 1, k)
  <2>1. w \o more \in Seq(Symbols) /\ \A j \in 1..k : (w \o more)[0 + j] = w[j]
    BY <1>1
  <2>2. SubSeq(w \o more, 0 + 1, 0 + k) = SubSeq(w, 1, k)
    BY <1>1, <2>1, SamePart
  <2>3. 0 + 1 = 1 /\ 0 + k = k
    BY <1>1
  <2> QED
    BY <2>2, <2>3
<1>3. k \in 0..Len(w \o more)
  BY <1>1
<1> QED
  BY <1>2, <1>3 DEF ReadTo

\* Read so far: the responses, and one more at most.
LEMMA PrefixRead ==
  ASSUME NEW w \in Seq(Symbols), NEW read \in Seq(Responses), NEW tail \in Seq(Responses),
         Len(tail) <= 1, Client(w).read = read \o tail
  PROVE  ReadTo(w, Len(w), read)
<1>1. SubSeq(w, 1, Len(w)) = w /\ Len(w) \in 0..Len(w)
  OBVIOUS
<1>2. IsPrefix(read, read \o tail)
  <2>1. Len(read) <= Len(read \o tail)
    OBVIOUS
  <2>2. SubSeq(read \o tail, 1, Len(read)) = SubSeq(read, 1, Len(read))
    OBVIOUS
  <2> QED
    BY <2>1, <2>2 DEF IsPrefix
<1>3. Len(read \o tail) <= Len(read) + 1
  OBVIOUS
<1> QED
  BY <1>1, <1>2, <1>3 DEF ReadTo

LEMMA ResponsesRead ==
  ASSUME NEW base \in Seq(Symbols), NEW read, NEW open, Client(base) = [read |-> read, open |-> open]
  PROVE  read \in Seq(Responses)
<1>1. PICK at : Partly(base, 1, at) /\ Client(base) = at[1]
  BY ClientReader
<1>2. 1 \in 1..Len(base) + 1
  OBVIOUS
<1>3. at[1] \in Result
  BY <1>1, <1>2 DEF Partly
<1> QED
  BY <1>1, <1>3 DEF Result

\* The response of the current task, behind the earlier ones.
LEMMA OneMore ==
  ASSUME NEW base \in Seq(Symbols), NEW read, Client(base) = [read |-> read, open |-> TRUE],
         NEW t \in Task, NEW s \in Said, Pledged(t, s), t.wrote_header = TRUE
  PROVE  LET w == Behind(base, t, s.body)
         IN  /\ w \in Seq(Symbols) /\ read \in Seq(Responses) /\ <<Body(s)>> \in Seq(Responses)
             /\ Client(w).read = Append(read, Body(s)) /\ Client(w).read = read \o <<Body(s)>>
             /\ Complete(s.status, s.fields, s.body) /\ ~t.close_on_finish =>
                  Client(w) = [read |-> Append(read, Body(s)), open |-> TRUE]
<1> DEFINE h == Header(t)
           r == <<h>> \o s.body
<1>1. h \in Headers /\ h.status = t.status /\ s.status = t.status
  BY HeaderIs DEF Pledged
<1>2. s.body \in Seq({Unit, End}) /\ s.fields \in SUBSET Fields /\ h.fields \in SUBSET Fields
  BY <1>1, HeaderTypes DEF Said
<1>3. s.fields \ Ends = h.fields \ Ends /\ (t.close_on_finish \/ Keeps(h))
  BY DEF Pledged
<1> HIDE DEF h
<1>4. /\ Single(h.fields, t.version) /\ Fitting(h.status, h.fields, s.body)
      /\ Complete(s.status, s.fields, s.body) => Complete(h.status, h.fields, s.body)
  BY <1>1, <1>2, <1>3, SameMeaning DEF Pledged
<1>5. \A k, l \in LengthOf(h.fields) : k = l
  BY <1>4 DEF Single
<1>6. /\ Client(r).read = <<[status |-> h.status, body |-> s.body]>>
      /\ Complete(h.status, h.fields, s.body) /\ Keeps(h) => Client(r).open = TRUE
  BY <1>1, <1>2, <1>4, <1>5, OneResponse
<1>7. r \in Seq(Symbols)
  BY <1>1, <1>2, HeaderTypes
<1>8. [status |-> h.status, body |-> s.body] = Body(s)
  BY <1>1 DEF Body
<1> DEFINE w == Behind(base, t, s.body)
<1>9. w = base \o r
  BY DEF Behind, h
<1> HIDE DEF r
<1>10. w \in Seq(Symbols)
  BY <1>7, <1>9
<1>11. /\ Client(w) = [read |-> read \o Client(r).read, open |-> Client(r).open]
       /\ Client(w).read = read \o Client(r).read
  <2>1. Client(base).open /\ Client(base).read = read
    OBVIOUS
  <2>2. Client(base \o r) = [read |-> Client(base).read \o Client(r).read, open |-> Client(r).open]
    BY <1>7, <2>1, ReadTogether
  <2> HIDE DEF w
  <2> QED
    BY <1>9, <2>1, <2>2
<1>12. Body(s) \in Responses
  BY <1>1, <1>2, HeaderTypes DEF Body, Responses, Said
<1>13. read \in Seq(Responses)
  BY ResponsesRead
<1>14. read \o <<Body(s)>> = Append(read, Body(s)) /\ <<Body(s)>> \in Seq(Responses)
  BY <1>12, <1>13
<1>15. Client(r).read = <<Body(s)>>
  BY <1>6, <1>8
<1> HIDE DEF w
<1>16. Client(w) = [read |-> Append(read, Body(s)), open |-> Client(r).open]
  BY <1>11, <1>14, <1>15
<1>17. Client(w).read = Append(read, Body(s)) /\ Client(w).read = read \o <<Body(s)>>
  BY <1>11, <1>14, <1>15
<1>18. Complete(s.status, s.fields, s.body) /\ ~t.close_on_finish => Client(r).open = TRUE
  BY <1>3, <1>4, <1>6
<1> QED
  BY <1>10, <1>13, <1>14, <1>16, <1>17, <1>18 DEF w

-----------------------------------------------------------------------------
(* Every step keeps what is promised, and what can be read.                *)

\* start_response() and a server's own methods say anew what the response will be.
LEMMA SayingIt ==
  ASSUME IInv, Promised, Reading, serving, ~task.wrote_header,
         NEW t \in Task, NEW status \in Statuses, NEW fields \in SUBSET Fields,
         ~t.wrote_header, t.status = status, t.version = task.version, t.response_headers \cap Ends = {},
         Header(t).fields = fields, Single(fields, task.version),
         task' = t, said' = [said EXCEPT !.status = status, !.fields = fields],
         UNCHANGED <<taskVars, wire, closedAt, responses, cut>>
  PROVE  Promised' /\ Reading'
<1>1. said \in Said /\ said.body = <<>>
  BY DEF Promised, Pledged
<1>2. said' \in Said /\ said'.status = status /\ said'.fields = fields /\ said'.body = <<>>
  BY <1>1 DEF Said
<1>3. Fitting(status, fields, <<>>)
  <2>1. Len(<<>>) = 0 /\ LengthOf(fields) \subseteq Nat
    BY DEF LengthOf, Fields, Lengths, Chunked, Gzip, Close, KeepAlive
  <2> QED
    BY <2>1 DEF Fitting
<1>4. Single(said.fields, task.version)'
  BY <1>2 DEF Single, taskVars
<1>5. Pledged(task, said)'
  BY <1>2, <1>3, <1>4 DEF Pledged
<1>6. Promised'
  BY <1>2, <1>5 DEF Promised
<1>7. Reading'
  BY <1>1, <1>2 DEF Reading, Behind, taskVars
<1> QED
  BY <1>6, <1>7

\* A response that an exception breaks off is the last one.
LEMMA BreakingOff ==
  ASSUME IInv, Promised, Reading, serving, NEW t \in Task, t.close_on_finish = TRUE,
         Leave(t, wire), responses' = responses, ~cut' => ~cut
  PROVE  Reading'
<1> SUFFICES ASSUME ~cut PROVE closedAt' # None /\ ReadTo(wire', closedAt', responses')
  BY DEF Reading
<1>1. wire \in Seq(Symbols) /\ task \in Task
  BY DEF IInv, Types
<1>2. wire' = wire /\ closedAt' = IF closedAt = None THEN Len(wire) ELSE closedAt
  BY DEF Leave
<1>3. CASE closedAt # None
  BY <1>2, <1>3 DEF Reading
<1>4. CASE closedAt = None
  <2>1. Len(wire) # None
    BY <1>1, BodyAssumption
  <2>2. PICK base \in Seq(Symbols) : /\ Client(base) = [read |-> responses, open |-> TRUE]
                                     /\ wire = Behind(base, task, said.body)
    BY <1>4 DEF Reading
  <2>3. responses \in Seq(Responses)
    BY <2>2, ResponsesRead
  <2>4. ReadTo(wire, Len(wire), responses)
    <3>1. CASE task.wrote_header
      <4> DEFINE one == <<Body(said)>>
      <4>1. said \in Said /\ Pledged(task, said) /\ task.wrote_header = TRUE
        BY <1>1, <3>1 DEF Promised, Task
      <4>2. one \in Seq(Responses) /\ Client(wire).read = responses \o one
        BY <1>1, <2>2, <4>1, OneMore
      <4>3. Len(one) <= 1
        OBVIOUS
      <4> HIDE DEF one
      <4> QED
        BY <1>1, <2>3, <4>2, <4>3, PrefixRead
    <3>2. CASE ~task.wrote_header
      <4>1. wire = base /\ responses \o <<>> = responses /\ <<>> \in Seq(Responses) /\ Len(<<>>) <= 1
        BY <2>2, <2>3, <3>2 DEF Behind
      <4>2. Client(wire).read = responses \o <<>>
        BY <2>2, <4>1
      <4> QED
        BY <1>1, <2>3, <4>1, <4>2, PrefixRead
    <3> QED
      BY <3>1, <3>2
  <2> QED
    BY <1>2, <1>4, <2>1, <2>4
<1> QED
  BY <1>3, <1>4

LEMMA LeavePromised ==
  ASSUME Promised, NEW t, NEW sent, Leave(t, sent)
  PROVE  Promised'
  BY DEF Promised, Leave

LEMMA Completed == BodyComplete => Complete(said.status, said.fields, said.body)
  BY DEF BodyComplete, Complete

\* The response of an application that returns is read in full.
LEMMA Finishing ==
  ASSUME IInv, Promised, Reading, Finish
  PROVE  Promised' /\ Reading'
<1> DEFINE w == Written(task, <<>>)
<1>1. /\ serving /\ BodyComplete /\ Leave(w.task, w.wire)
      /\ responses' = (IF closedAt = None THEN Append(responses, Body(said)) ELSE responses) /\ cut' = cut
  BY DEF Finish
<1>2. Promised'
  BY <1>1, LeavePromised
<1>3. said \in Said /\ Pledged(task, said) /\ said.body \in Seq({Unit, End})
  BY <1>1 DEF Promised, Said
<1>4. said.body \o <<>> = said.body /\ [said EXCEPT !.body = said.body] = said /\ <<>> \in Seq({Unit, End})
  BY <1>3 DEF Said
<1>5. Fitting(said.status, said.fields, said.body)
  BY <1>3 DEF Pledged
<1>6. <<>> \in Seq(Symbols) /\ wire \in Seq(Symbols) /\ n \in Nat
  BY RequestsAssumption DEF IInv, Types
<1>7. w.task \in Task /\ w.wire \in Seq(Symbols) /\ w.task.wrote_header = TRUE
  BY <1>1, <1>6, WritingIt
<1>8. /\ Pledged(w.task, said)
      /\ \A base \in Seq(Symbols) :
           wire = Behind(base, task, said.body) => w.wire = Behind(base, w.task, said.body)
      /\ \E more \in Seq(Symbols) : w.wire = wire \o more
  <2>1. LET v == Written(task, <<>>)
        IN  /\ Pledged(v.task, [said EXCEPT !.body = said.body \o <<>>])
            /\ \A base \in Seq(Symbols) :
                 wire = Behind(base, task, said.body) => v.wire = Behind(base, v.task, said.body \o <<>>)
            /\ \E more \in Seq(Symbols) : v.wire = wire \o more
    BY <1>1, <1>4, <1>5, Sending
  <2> QED
    BY <1>4, <2>1
<1>9. /\ serving' = FALSE /\ wire' = w.wire /\ UNCHANGED <<n, said>>
      /\ closedAt' = IF w.task.close_on_finish /\ closedAt = None THEN Len(w.wire) ELSE closedAt
  BY <1>1 DEF Leave
<1> HIDE DEF w
<1>10. Reading'
  <2> SUFFICES ASSUME ~cut
               PROVE  IF closedAt' # None THEN ReadTo(wire', closedAt', responses')
                      ELSE /\ wire' \in Seq(Symbols)
                           /\ Client(wire') = [read |-> responses', open |-> TRUE]
                           /\ Len(responses') = n
    BY <1>1, <1>9 DEF Reading
  <2>1. CASE closedAt # None
    <3>1. PICK more \in Seq(Symbols) : w.wire = wire \o more
      BY <1>8
    <3>2. ReadTo(wire, closedAt, responses)
      BY <2>1 DEF Reading
    <3>3. ReadTo(w.wire, closedAt, responses)
      BY <1>6, <3>1, <3>2, ReadBefore
    <3> QED
      BY <1>1, <1>9, <2>1, <3>3
  <2>2. CASE closedAt = None
    <3>1. PICK base \in Seq(Symbols) : /\ Client(base) = [read |-> responses, open |-> TRUE]
                                       /\ Len(responses) = n - 1
                                       /\ wire = Behind(base, task, said.body)
      BY <1>1, <2>2 DEF Reading
    <3>2. w.wire = Behind(base, w.task, said.body)
      BY <1>8, <3>1
    <3>3. /\ responses \in Seq(Responses) /\ <<Body(said)>> \in Seq(Responses)
          /\ Client(w.wire).read = Append(responses, Body(said))
          /\ Complete(said.status, said.fields, said.body) /\ ~w.task.close_on_finish =>
               Client(w.wire) = [read |-> Append(responses, Body(said)), open |-> TRUE]
      <4> DEFINE t == w.task
                 v == Behind(base, t, said.body)
      <4>1. t \in Task /\ Pledged(t, said) /\ t.wrote_header = TRUE
        BY <1>7, <1>8
      <4> HIDE DEF t
      <4>2. /\ responses \in Seq(Responses) /\ <<Body(said)>> \in Seq(Responses)
            /\ Client(v).read = Append(responses, Body(said))
            /\ Complete(said.status, said.fields, said.body) /\ ~t.close_on_finish =>
                 Client(v) = [read |-> Append(responses, Body(said)), open |-> TRUE]
        BY <1>3, <3>1, <4>1, OneMore
      <4> QED
        BY <3>2, <4>2 DEF t
    <3>4. responses' = Append(responses, Body(said))
      BY <1>1, <2>2
    <3>5. CASE w.task.close_on_finish
      <4>1. closedAt' = Len(w.wire) /\ Len(w.wire) # None
        BY <1>7, <1>9, <2>2, <3>5, BodyAssumption
      <4>2. responses' \in Seq(Responses) /\ responses' \o <<>> = responses' /\ <<>> \in Seq(Responses) /\ Len(<<>>) <= 1
        <5>1. Append(responses, Body(said)) = responses \o <<Body(said)>>
          BY <3>3
        <5>2. responses' \in Seq(Responses)
          BY <3>3, <3>4, <5>1
        <5> QED
          BY <5>2
      <4>3. ReadTo(w.wire, Len(w.wire), responses')
        BY <1>7, <3>3, <3>4, <4>2, PrefixRead
      <4> QED
        BY <1>9, <4>1, <4>3
    <3>6. CASE ~w.task.close_on_finish
      <4>1. closedAt' = None
        BY <1>9, <2>2, <3>6
      <4>2. Client(w.wire) = [read |-> responses', open |-> TRUE]
        BY <1>1, <3>3, <3>4, <3>6, Completed
      <4>3. Len(responses') = n
        <5>1. Len(Append(responses, Body(said))) = Len(responses) + 1
          BY <3>3
        <5> QED
          BY <1>6, <3>1, <3>4, <5>1
      <4> QED
        BY <1>7, <1>9, <4>1, <4>2, <4>3
    <3> QED
      BY <3>5, <3>6
  <2> QED
    BY <2>1, <2>2
<1> QED
  BY <1>2, <1>10

LEMMA ReadingInit == Init => Promised /\ Reading
<1> SUFFICES ASSUME Init PROVE Promised /\ Reading
  OBVIOUS
<1>1. said \in Said /\ ~serving
  BY DEF Init, Silent, Said, Statuses
<1>2. Client(<<>>) = [read |-> <<>>, open |-> TRUE]
  <2>1. <<>> \in Seq(Symbols) /\ Len(<<>>) = 0
    OBVIOUS
  <2>2. PICK at : Partly(<<>>, 1, at) /\ Client(<<>>) = at[1]
    BY <2>1, ClientReader
  <2>3. at[1] = ReadAt(<<>>, 1, at[Until(<<>>, 1) + 1])
    BY <2>1, <2>2 DEF Partly
  <2> QED
    BY <2>1, <2>2, <2>3 DEF ReadAt
<1>3. <<>> \in Seq(Symbols) /\ Len(<<>>) = 0
  OBVIOUS
<1>4. Reading
  <2>1. closedAt = None /\ wire = <<>> /\ responses = <<>> /\ n = 0
    BY DEF Init
  <2>2. Client(wire) = [read |-> responses, open |-> TRUE] /\ wire \in Seq(Symbols) /\ Len(responses) = n
    BY <1>2, <1>3, <2>1
  <2> QED
    BY <1>1, <2>1, <2>2 DEF Reading
<1> QED
  BY <1>1, <1>4 DEF Promised

\* What may be written fits.
LEMMA WritingFits ==
  ASSUME Promised, serving, NEW data \in {<<>>, <<Unit>>, <<End>>},
         \A i \in DOMAIN data : MayWrite(data[i])
  PROVE  Fitting(said.status, said.fields, said.body \o data)
<1> DEFINE b == said.body
<1>1. said \in Said /\ Pledged(task, said) /\ Fitting(said.status, said.fields, b)
  BY DEF Promised, Pledged
<1>2. b \in Seq({Unit, End}) /\ Len(b) \in Nat /\ said.fields \in SUBSET Fields
  BY <1>1 DEF Said
<1>3. LengthOf(said.fields) \subseteq Nat
  BY <1>2 DEF LengthOf, Fields, Lengths, Chunked, Gzip, Close, KeepAlive
<1> HIDE DEF b
<1>4. CASE data = <<>>
  BY <1>1, <1>2, <1>4 DEF b
<1>5. ASSUME NEW unit \in {Unit, End}, data = <<unit>>
      PROVE  Fitting(said.status, said.fields, b \o data)
  <2>1. MayWrite(unit)
    BY <1>5
  <2>2. /\ Len(b \o data) = Len(b) + 1 /\ (b \o data)[Len(b) + 1] = unit
        /\ \A i \in 1..Len(b) : (b \o data)[i] = b[i]
    BY <1>2, <1>5
  <2>3. said.status # "304"
    BY <2>1 DEF MayWrite
  <2> DEFINE c == b \o data
  <2> HIDE DEF c
  <2>4. CASE Chunked \in said.fields
    <3>1. ~Contains(b, End)
      BY <2>1, <2>3, <2>4 DEF MayWrite, b
    <3>2. ASSUME NEW i \in 1..Len(c), c[i] = End PROVE i = Len(c)
      <4>1. i \in 1..Len(b) => b[i] = End
        BY <2>2, <3>2 DEF c
      <4>2. i \notin 1..Len(b)
        BY <3>1, <4>1 DEF Contains
      <4> QED
        BY <1>2, <2>2, <4>2 DEF c
    <3> QED
      BY <2>3, <2>4, <3>2 DEF Fitting, c
  <2>5. CASE Chunked \notin said.fields
    <3>1. unit = Unit /\ \A k \in LengthOf(said.fields) : Len(b) < k
      BY <2>1, <2>3, <2>5 DEF MayWrite, b
    <3>2. \A i \in 1..Len(b) : b[i] = Unit
      BY <1>1, <2>3, <2>5 DEF Fitting
    <3>3. \A i \in 1..Len(c) : c[i] = Unit
      BY <1>2, <2>2, <3>1, <3>2 DEF c
    <3>4. \A k \in LengthOf(said.fields) : Len(c) <= k
      BY <1>2, <1>3, <2>2, <3>1 DEF c
    <3> QED
      BY <2>3, <2>5, <3>3, <3>4 DEF Fitting, c
  <2> QED
    BY <2>4, <2>5
<1> QED
  BY <1>4, <1>5 DEF b

LEMMA ReadingWrite ==
  ASSUME IInv, Promised, Reading, NEW data \in {<<>>, <<Unit>>, <<End>>}, Write(data)
  PROVE  Promised' /\ Reading'
<1> DEFINE w == Written(task, data)
           s == [said EXCEPT !.body = said.body \o data]
<1>1. /\ serving /\ task' = w.task /\ wire' = w.wire /\ \A i \in DOMAIN data : MayWrite(data[i])
      /\ UNCHANGED <<taskVars, closedAt, responses, cut>>
  BY DEF Write
<1>2. said \in Said
  BY DEF Promised
<1>3. said' = s /\ s.body = said.body \o data /\ said'.body = said.body \o data
  BY <1>2 DEF Write, Said
<1>4. data \in Seq({Unit, End})
  <2>1. <<>> \in Seq({Unit, End}) /\ \A u \in {Unit, End} : <<u>> \in Seq({Unit, End})
    OBVIOUS
  <2> QED
    BY <2>1
<1>5. s \in Said
  <2>1. said.body \in Seq({Unit, End})
    BY <1>2 DEF Said
  <2>2. said.body \o data \in Seq({Unit, End})
    BY <1>4, <2>1
  <2> QED
    BY <1>2, <2>2 DEF Said
<1>6. /\ Pledged(w.task, s)
      /\ \A base \in Seq(Symbols) :
           wire = Behind(base, task, said.body) => w.wire = Behind(base, w.task, said.body \o data)
      /\ \E more \in Seq(Symbols) : w.wire = wire \o more
  <2>1. Fitting(said.status, said.fields, said.body \o data)
    BY <1>1, WritingFits
  <2> QED
    BY <1>1, <1>4, <2>1, Sending
<1> HIDE DEF w, s
<1>7. Promised'
  <2>1. Pledged(task, said)'
    BY <1>1, <1>3, <1>6 DEF Pledged, Single, taskVars
  <2> QED
    BY <1>3, <1>5, <2>1 DEF Promised
<1>8. Reading'
  <2> SUFFICES ASSUME ~cut
               PROVE  IF closedAt # None THEN ReadTo(wire', closedAt, responses)
                      ELSE \E base \in Seq(Symbols) :
                             /\ Client(base) = [read |-> responses, open |-> TRUE]
                             /\ Len(responses) = n - 1
                             /\ wire' = Behind(base, task', said'.body)
    BY <1>1 DEF Reading, taskVars
  <2>1. CASE closedAt # None
    <3>1. PICK more \in Seq(Symbols) : w.wire = wire \o more
      BY <1>6
    <3>2. ReadTo(wire, closedAt, responses) /\ wire \in Seq(Symbols)
      BY <2>1 DEF Reading, IInv, Types
    <3>3. ReadTo(w.wire, closedAt, responses)
      BY <3>1, <3>2, ReadBefore
    <3> QED
      BY <1>1, <2>1, <3>3
  <2>2. CASE closedAt = None
    <3>1. PICK base \in Seq(Symbols) : /\ Client(base) = [read |-> responses, open |-> TRUE]
                                       /\ Len(responses) = n - 1
                                       /\ wire = Behind(base, task, said.body)
      BY <1>1, <2>2 DEF Reading
    <3>2. wire' = Behind(base, task', said'.body)
      BY <1>1, <1>3, <1>6, <3>1
    <3> QED
      BY <2>2, <3>1, <3>2
  <2> QED
    BY <2>1, <2>2
<1> QED
  BY <1>7, <1>8

LEMMA LengthsOfApp ==
  ASSUME NEW fields \in AppFields
  PROVE  /\ fields \in SUBSET Fields /\ \A k, l \in LengthOf(fields) : k = l
         /\ Codings \cap fields = {}
<1>1. fields \in SUBSET Fields
  BY AllFields
<1>2. \E l \in Lengths : fields \subseteq {l, Close} \/ fields \subseteq {Close}
  <2>1. [name |-> "content-length", value |-> 0] \in Lengths
    BY BodyAssumption DEF Lengths
  <2> QED
    BY <2>1 DEF AppFields
<1>3. Close \in Ends
  BY DEF Ends
<1>4. Close.name # "content-length" /\ Close \notin Codings
  BY <1>3, TheFields
<1>5. Codings \cap fields = {}
  BY <1>2, <1>4, TheFields
<1>6. \A k, l \in LengthOf(fields) : k = l
  BY <1>2, <1>4 DEF LengthOf
<1> QED
  BY <1>1, <1>5, <1>6

LEMMA ReadingStart ==
  ASSUME IInv, Promised, Reading, Start
  PROVE  Promised' /\ Reading'
<1> DEFINE t == NewTask(requests[n + 1].version)
<1>1. /\ ~serving /\ n' = n + 1 /\ serving' = TRUE /\ task' = t /\ said' = Silent
      /\ UNCHANGED <<wsgi, wire, closedAt, responses, cut>>
  BY DEF Start
<1>2. /\ t.status = "200" /\ t.response_headers = {} /\ t.accumulated_headers = None
      /\ t.wrote_header = FALSE /\ t.version \in {"1.0", "1.1"}
  BY DEF NewTask
<1> HIDE DEF t
<1>3. Header(t).fields = {}
  BY <1>2 DEF Header, Accumulated
<1>4. Silent.status = "200" /\ Silent.fields = {} /\ Silent.body = <<>> /\ Silent \in Said
  <2>1. <<>> \in Seq({Unit, End})
    OBVIOUS
  <2> QED
    BY <2>1 DEF Silent, Said, Statuses
<1>5. LengthOf({}) = {} /\ Codings # {}
  BY DEF LengthOf, Codings
<1>6. Pledged(task, said)'
  <2>1. Single(said.fields, task.version)'
    BY <1>1, <1>4, <1>5 DEF Single
  <2>2. Fitting(said.status, said.fields, said.body)'
    BY <1>1, <1>4, <1>5 DEF Fitting
  <2> QED
    BY <1>1, <1>2, <1>3, <1>4, <2>1, <2>2 DEF Pledged
<1>7. Promised'
  BY <1>1, <1>4, <1>6 DEF Promised
<1>8. Reading'
  <2> SUFFICES ASSUME ~cut
               PROVE  IF closedAt # None THEN ReadTo(wire, closedAt, responses)
                      ELSE \E base \in Seq(Symbols) :
                             /\ Client(base) = [read |-> responses, open |-> TRUE]
                             /\ Len(responses) = n' - 1
                             /\ wire = Behind(base, task', said'.body)
    BY <1>1 DEF Reading
  <2>1. n' - 1 = n
    BY <1>1, RequestsAssumption DEF IInv, Types
  <2>2. \A base : Behind(base, task', said'.body) = base
    BY <1>1, <1>2 DEF Behind
  <2> QED
    BY <1>1, <2>1, <2>2 DEF Reading
<1> QED
  BY <1>7, <1>8

LEMMA ReadingResponse ==
  ASSUME IInv, Promised, Reading, NEW status \in Statuses, NEW fields \in AppFields,
         StartResponse(status, fields) \/ StartResponseAgain(status, fields)
  PROVE  Promised' /\ Reading'
<1> DEFINE t == [Extended(task, fields) EXCEPT !.status = status]
           u == [Extended(Cleared(task), fields) EXCEPT !.status = status]
<1>1. /\ task \in Task /\ Mapping(task) /\ task.response_headers \in SUBSET Fields
  BY DEF IInv, Types, Task
<1>2. /\ fields \in SUBSET Fields /\ \A k, l \in LengthOf(fields) : k = l
      /\ Codings \cap fields = {}
  BY LengthsOfApp
<1>3. Single(fields, task.version)
  BY <1>2, TheFields DEF Single, Codings
<1>4. /\ serving /\ wsgi /\ ~task.wrote_header /\ task.response_headers \cap Ends = {}
      /\ said' = [said EXCEPT !.status = status, !.fields = fields]
      /\ UNCHANGED <<taskVars, wire, closedAt, responses, cut>>
  BY DEF StartResponse, StartResponseAgain, Promised, Pledged
<1>5. task.response_headers = {}
  BY <1>1, <1>4 DEF Mapping, Ends
<1>6. CASE StartResponse(status, fields)
  <2>1. task' = t /\ task.accumulated_headers = None
    BY <1>6 DEF StartResponse
  <2>2. /\ t \in Task /\ ~t.wrote_header /\ t.status = status /\ t.version = task.version
        /\ t.response_headers = {} /\ t.accumulated_headers = fields
    BY <1>1, <1>2, <1>4, <1>5, <2>1 DEF Extended, Accumulated, Task
  <2> HIDE DEF t
  <2>3. Header(t).fields = fields
    BY <1>2, <2>2, NoneAssumption DEF Header, Accumulated
  <2> QED
    BY <1>2, <1>3, <1>4, <2>1, <2>2, <2>3, SayingIt
<1>7. CASE StartResponseAgain(status, fields)
  <2>1. task' = u
    BY <1>7 DEF StartResponseAgain
  <2>2. /\ u \in Task /\ ~u.wrote_header /\ u.status = status /\ u.version = task.version
        /\ u.response_headers = {} /\ u.accumulated_headers = fields
    BY <1>1, <1>2, <1>4 DEF Extended, Cleared, Accumulated, Task
  <2> HIDE DEF u
  <2>3. Header(u).fields = fields
    BY <1>2, <2>2, NoneAssumption DEF Header, Accumulated
  <2> QED
    BY <1>2, <1>3, <1>4, <2>1, <2>2, <2>3, SayingIt
<1> QED
  BY <1>6, <1>7

LEMMA ReadingSet ==
  ASSUME IInv, Promised, Reading, NEW status \in Statuses, NEW f \in Lengths \cup {Chunked, Gzip},
         SetResponse(status, f)
  PROVE  Promised' /\ Reading'
<1> DEFINE fields == Set(task.response_headers, f)
           t == [task EXCEPT !.status = status, !.response_headers = fields]
<1>1. /\ task \in Task /\ task.response_headers \in SUBSET Fields /\ OneValue(task.response_headers)
  BY DEF IInv, Types, Task, Mapping
<1>2. /\ serving /\ ~wsgi /\ ~task.wrote_header /\ (f \in Lengths \/ task.version = "1.1")
      /\ task' = t /\ said' = [said EXCEPT !.status = status, !.fields = Set(said.fields, f)]
      /\ UNCHANGED <<taskVars, wire, closedAt, responses, cut>>
  BY DEF SetResponse
<1>3. task.accumulated_headers = None
  BY <1>2 DEF IInv, Types, Mapping
<1>4. /\ task.response_headers \cap Ends = {} /\ said.fields = task.response_headers
      /\ Single(task.response_headers, task.version)
  BY <1>2, <1>3 DEF Promised, Pledged, Header, Accumulated
<1>5. f \in Fields /\ f \notin Ends
  <2>1. f \in Lengths \/ f \in Codings
    BY DEF Codings
  <2> QED
    BY <2>1, TheFields, SomeFields
<1>6. /\ fields \in SUBSET Fields /\ OneValue(fields)
      /\ fields \subseteq task.response_headers \cup {f}
  BY <1>1, <1>5, Setting
<1> HIDE DEF fields
<1>7. fields \cap Ends = {}
  BY <1>4, <1>5, <1>6
<1>8. Single(fields, task.version)
  <2>1. \A k, l \in LengthOf(fields) : k = l
    <3> SUFFICES ASSUME NEW g \in fields, NEW h \in fields, g.name = "content-length", h.name = "content-length"
                 PROVE  g.value = h.value
      BY DEF LengthOf
    <3> QED
      BY <1>6 DEF OneValue
  <2>2. ~(Codings \subseteq fields)
    <3>1. Chunked.name = Gzip.name /\ Chunked # Gzip
      BY DEF Chunked, Gzip
    <3> QED
      BY <1>6, <3>1 DEF OneValue, Codings
  <2>3. task.version = "1.0" => Codings \cap fields = {}
    <3> SUFFICES ASSUME task.version = "1.0" PROVE Codings \cap fields = {}
      OBVIOUS
    <3>1. f \notin Codings /\ Codings \cap task.response_headers = {}
      BY <1>2, <1>4, TheFields DEF Single
    <3> QED
      BY <1>6, <3>1
  <2> QED
    BY <1>2, <2>1, <2>2, <2>3 DEF Single
<1>9. /\ t \in Task /\ ~t.wrote_header /\ t.status = status /\ t.version = task.version
      /\ t.response_headers = fields /\ t.accumulated_headers = None
  BY <1>1, <1>2, <1>3, <1>6 DEF Task
<1>10. task' = t /\ said' = [said EXCEPT !.status = status, !.fields = fields]
  BY <1>2, <1>4 DEF fields
<1> HIDE DEF t
<1>11. Header(t).fields = fields
  BY <1>9 DEF Header, Accumulated
<1> QED
  BY <1>2, <1>6, <1>7, <1>8, <1>9, <1>10, <1>11, SayingIt

LEMMA ReadingNext ==
  ASSUME IInv, Promised, Reading, [Next]_vars
  PROVE  Promised' /\ Reading'
<1>1. CASE Start
  BY <1>1, ReadingStart
<1>2. ASSUME NEW status \in Statuses, NEW fields \in AppFields,
             StartResponse(status, fields) \/ StartResponseAgain(status, fields)
      PROVE  Promised' /\ Reading'
  BY <1>2, ReadingResponse
<1>3. ASSUME NEW status \in Statuses, NEW f \in Lengths \cup {Chunked, Gzip}, SetResponse(status, f)
      PROVE  Promised' /\ Reading'
  BY <1>3, ReadingSet
<1>4. ASSUME NEW data \in {<<>>, <<Unit>>, <<End>>}, Write(data)
      PROVE  Promised' /\ Reading'
  BY <1>4, ReadingWrite
<1>5. CASE Finish
  BY <1>5, Finishing
<1>6. CASE RaiseOSError
  <2> DEFINE t == [task EXCEPT !.close_on_finish = TRUE]
  <2>1. serving /\ Leave(t, wire) /\ responses' = responses /\ cut' = cut
    BY <1>6 DEF RaiseOSError
  <2>2. t \in Task /\ t.close_on_finish = TRUE
    BY DEF IInv, Types, Task
  <2> HIDE DEF t
  <2>3. Promised'
    BY <2>1, LeavePromised
  <2>4. Reading'
    BY <2>1, <2>2, BreakingOff
  <2> QED
    BY <2>3, <2>4
<1>7. CASE RaiseOther
  <2>1. /\ serving /\ Leave(task, wire) /\ responses' = responses
        /\ cut' = (cut \/ ~task.close_on_finish) /\ task \in Task
    BY <1>7 DEF RaiseOther, IInv, Types
  <2>2. Promised'
    BY <2>1, LeavePromised
  <2>3. CASE task.close_on_finish
    <3>1. task.close_on_finish = TRUE /\ (~cut' => ~cut)
      BY <2>1, <2>3 DEF Task
    <3>2. Reading'
      BY <2>1, <3>1, BreakingOff
    <3> QED
      BY <2>2, <3>2
  <2>4. CASE ~task.close_on_finish
    BY <2>1, <2>2, <2>4 DEF Reading
  <2> QED
    BY <2>3, <2>4
<1>8. CASE UNCHANGED vars
  <2>1. Promised'
    BY <1>8 DEF vars, taskVars, Promised, Pledged, Single
  <2>2. Reading'
    BY <1>8 DEF vars, taskVars, Reading
  <2> QED
    BY <2>1, <2>2
<1> QED
  BY <1>1, <1>2, <1>3, <1>4, <1>5, <1>6, <1>7, <1>8 DEF Next

\* A client that reads the connection by the headers it finds there reads what
\* the applications meant, response by response, whatever they say of the length
\* and the coding of their bodies, in whatever pieces they write them and however
\* a task ends: prepareResponseHeaders() keeps a connection only behind a response
\* whose end can be found, and nothing is written where a client reads another
\* thing than what was written there.
THEOREM ReadAsMeant == Spec => []ClientReads
<1>1. Promised /\ Reading => ClientReads
  <2> SUFFICES ASSUME Reading, ~serving, ~cut
               PROVE  IF closedAt = None
                      THEN Client(wire) = [read |-> responses, open |-> TRUE] /\ Len(responses) = n
                      ELSE \E c \in {Client(SubSeq(wire, 1, closedAt))} :
                             IsPrefix(responses, c.read) /\ Len(c.read) <= Len(responses) + 1
    BY DEF ClientReads
  <2> QED
    BY DEF Reading, ReadTo
<1>2. Init => Promised /\ Reading
  BY ReadingInit
<1>3. IInv /\ Promised /\ Reading /\ [Next]_vars => (Promised /\ Reading)'
  BY ReadingNext
<1> QED
  BY <1>1, <1>2, <1>3, Invariance, PTL DEF Spec
=============================================================================
