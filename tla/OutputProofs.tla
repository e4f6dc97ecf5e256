----------------------------- MODULE OutputProofs -----------------------------
(* Proofs about what the channels send: the buffer of their output,         *)
(* FileBuffer, whose remain counts the bytes that can still be read and     *)
(* which implements ByteQueue; and the data channel of a download,          *)
(* RETRChannel, which sends all of the file, in order and nothing twice,    *)
(* as long as no event of the main loop comes into a call of the worker.    *)
EXTENDS FileBuffer, RETRChannel, SequenceTheorems, TLAPS

\* What can be read is never more than remain says, also after a failed write,
\* so that get() does not make remain negative.
IInv == BufferInv /\ remain >= readable

-----------------------------------------------------------------------------
(* Lemmas about sequences of bytes.                                        *)

\* Part of a file, with its length.
LEMMA PartOfFile ==
  ASSUME NEW f \in Seq(Int), NEW i \in Nat, NEW j \in Int, j <= Len(f)
  PROVE  /\ SubSeq(f, i + 1, j) \in Seq(Int)
         /\ Len(SubSeq(f, i + 1, j)) = IF i < j THEN j - i ELSE 0
  OBVIOUS

\* The elements of a concatenation.
LEMMA Concat ==
  ASSUME NEW f \in Seq(Int), NEW s \in Seq(Int)
  PROVE  /\ f \o s \in Seq(Int) /\ Len(f \o s) = Len(f) + Len(s)
         /\ Len(f) \in Nat /\ Len(s) \in Nat
         /\ \A k \in 1..Len(f) : (f \o s)[k] = f[k]
         /\ \A k \in 1..(Len(f) + Len(s)) : k > Len(f) => (f \o s)[k] = s[k - Len(f)]
  OBVIOUS

\* The elements of the unread part of a file.
LEMMA Unread ==
  ASSUME NEW f \in Seq(Int), NEW i \in 0..Len(f)
  PROVE  LET part == SubSeq(f, i + 1, Len(f))
         IN  /\ part \in Seq(Int) /\ Len(part) = Len(f) - i
             /\ \A k \in 1..(Len(f) - i) : part[k] = f[i + k]
  OBVIOUS

\* What is appended to a file is appended to the unread part of it.
LEMMA AppendPart ==
  ASSUME NEW f \in Seq(Int), NEW s \in Seq(Int), NEW i \in 0..Len(f)
  PROVE  SubSeq(f \o s, i + 1, Len(f \o s)) = SubSeq(f, i + 1, Len(f)) \o s
<1> DEFINE left == SubSeq(f \o s, i + 1, Len(f \o s))
           part == SubSeq(f, i + 1, Len(f))
           n == Len(f)
           m == Len(s)
<1>1. n \in Nat /\ m \in Nat /\ i \in 0..n
  OBVIOUS
<1>2. /\ f \o s \in Seq(Int) /\ Len(f \o s) = n + m
      /\ \A k \in 1..n : (f \o s)[k] = f[k]
      /\ \A k \in 1..(n + m) : k > n => (f \o s)[k] = s[k - n]
  BY Concat
<1>3. /\ part \in Seq(Int) /\ Len(part) = n - i
      /\ \A k \in 1..(n - i) : part[k] = f[i + k]
  BY Unread
<1>4. i \in 0..Len(f \o s)
  BY <1>1, <1>2
<1>5. /\ left \in Seq(Int) /\ Len(left) = (n + m) - i
      /\ \A k \in 1..((n + m) - i) : left[k] = (f \o s)[i + k]
  <2> DEFINE both == f \o s
  <2>1. both \in Seq(Int) /\ i \in 0..Len(both) /\ Len(both) = n + m
    BY <1>2, <1>4
  <2> HIDE DEF both, n, m
  <2>2. LET rest == SubSeq(both, i + 1, Len(both))
        IN  /\ rest \in Seq(Int) /\ Len(rest) = Len(both) - i
            /\ \A k \in 1..(Len(both) - i) : rest[k] = both[i + k]
    BY <2>1, Unread
  <2> QED
    BY <2>1, <2>2 DEF both
<1> HIDE DEF left, part
<1>6. /\ part \o s \in Seq(Int) /\ Len(part \o s) = (n + m) - i
      /\ \A k \in 1..(n - i) : (part \o s)[k] = part[k]
      /\ \A k \in 1..((n + m) - i) : k > n - i => (part \o s)[k] = s[k - (n - i)]
  <2>1. /\ part \o s \in Seq(Int) /\ Len(part \o s) = Len(part) + m
        /\ \A k \in 1..Len(part) : (part \o s)[k] = part[k]
        /\ \A k \in 1..(Len(part) + m) : k > Len(part) => (part \o s)[k] = s[k - Len(part)]
    BY <1>3, Concat
  <2> HIDE DEF n, m
  <2>2. Len(part) = n - i /\ Len(part) + m = (n + m) - i
    BY <1>1, <1>3
  <2> QED
    BY <2>1, <2>2
<1> HIDE DEF n, m
<1>7. ASSUME NEW k \in 1..((n + m) - i) PROVE left[k] = (part \o s)[k]
  <2>1. left[k] = (f \o s)[i + k]
    BY <1>5
  <2>2. k \in Nat /\ 1 <= k /\ i + k <= n + m /\ i \in Nat
    BY <1>1
  <2>3. CASE k <= n - i
    <3>1. k \in 1..(n - i) /\ i + k \in 1..n
      BY <1>1, <2>2, <2>3
    <3>2. (f \o s)[i + k] = f[i + k]
      BY <1>2, <3>1
    <3>3. (part \o s)[k] = f[i + k]
      BY <1>3, <1>6, <3>1
    <3> QED
      BY <2>1, <3>2, <3>3
  <2>4. CASE k > n - i
    <3> DEFINE j == i + k
    <3>1. j \in 1..(n + m) /\ j > n /\ j - n = k - (n - i)
      BY <1>1, <2>2, <2>4
    <3> HIDE DEF j
    <3>2. (f \o s)[j] = s[j - n]
      BY <1>2, <3>1
    <3>3. (part \o s)[k] = s[k - (n - i)]
      BY <1>6, <2>4
    <3>4. left[k] = (f \o s)[j]
      BY <2>1 DEF j
    <3>5. s[j - n] = s[k - (n - i)]
      BY <3>1, Zenon
    <3> QED
      BY <3>2, <3>3, <3>4, <3>5, Zenon
  <2>5. k <= n - i \/ k > n - i
    BY <1>1, <2>2
  <2> QED
    BY <2>3, <2>4, <2>5, Zenon
<1>8. left = part \o s
  BY <1>5, <1>6, <1>7, SeqEqual
<1> QED
  BY <1>8 DEF left, part

\* The first bytes of the unread part are those at the file's position.
LEMMA FirstPart ==
  ASSUME NEW f \in Seq(Int), NEW i \in 0..Len(f), NEW k \in 0..(Len(f) - i)
  PROVE  SubSeq(SubSeq(f, i + 1, Len(f)), 1, k) = SubSeq(f, i + 1, i + k)
<1>1. Len(SubSeq(f, i + 1, Len(f))) = Len(f) - i
  OBVIOUS
<1> QED
  BY <1>1

\* The others are those behind.
LEMMA RestPart ==
  ASSUME NEW f \in Seq(Int), NEW i \in 0..Len(f), NEW k \in 0..(Len(f) - i)
  PROVE  SubSeq(SubSeq(f, i + 1, Len(f)), k + 1, Len(f) - i) = SubSeq(f, i + k + 1, Len(f))
<1>1. Len(SubSeq(f, i + 1, Len(f))) = Len(f) - i
  OBVIOUS
<1> QED
  BY <1>1

-----------------------------------------------------------------------------
(* The invariant.                                                          *)

\* get() returns what there is, and no more than remain says.
LEMMA ReadLength ==
  ASSUME IInv, NEW n \in Int
  PROVE  /\ Read(n) \in Seq(Int)
         /\ Len(Read(n)) \in Nat /\ Len(Read(n)) <= remain
         /\ Len(Read(n)) = IF readable <= 0 THEN 0
                           ELSE IF n < 0 \/ n > readable THEN readable ELSE n
<1> DEFINE amount == IF n < 0 \/ n > readable THEN readable ELSE n
<1>1. file \in Seq(Int) /\ pos \in Nat /\ remain \in Nat /\ remain >= readable /\ readable = Len(file) - pos
  BY DEF IInv, BufferInv, TypeOK, readable
<1>2. amount \in Int /\ pos + amount <= Len(file)
  BY <1>1
<1>3. /\ Read(n) \in Seq(Int)
      /\ Len(Read(n)) = IF pos < pos + amount THEN amount ELSE 0
  BY <1>1, <1>2, PartOfFile DEF Read
<1> QED
  BY <1>1, <1>3

LEMMA InitInv == Init => IInv
<1> SUFFICES ASSUME Init PROVE IInv
  OBVIOUS
<1>1. file \in Seq(Int) /\ Len(file) = 0 /\ out \in Seq(Int)
  BY DEF Init
<1>2. pos = 0 /\ remain = 0 /\ closed = FALSE /\ failed = FALSE /\ raised = FALSE
  BY DEF Init
<1>3. readable = 0
  BY <1>1, <1>2 DEF readable
<1>4. closed \in BOOLEAN /\ failed \in BOOLEAN /\ raised \in BOOLEAN
  BY <1>2
<1> QED
  BY <1>1, <1>2, <1>3, <1>4 DEF IInv, BufferInv, TypeOK, RemainReadable

LEMMA AppendInv == ASSUME IInv, NEW s \in Chunks, append(s) \/ appendFails(s) PROVE IInv'
<1>1. s \in Seq(Int)
  BY ChunksAssumption
<1> USE DEF IInv, BufferInv, TypeOK, RemainReadable, readable, Returns, Raises
<1>2. CASE append(s)
  <2>1. file' \in Seq(Int) /\ Len(file') = Len(file) + Len(s) /\ Len(s) \in Nat
    BY <1>1, <1>2 DEF append
  <2>2. pos' = pos /\ remain' = remain + Len(s) /\ failed' = failed
    BY <1>2 DEF append, posRestored
  <2>3. remain' \in Nat /\ readable' = readable + Len(s)
    BY <2>1, <2>2
  <2>4. closed' = FALSE /\ failed' = failed /\ raised' = FALSE /\ out' = <<>>
    BY <1>2 DEF append
  <2>5. closed' \in BOOLEAN /\ failed' \in BOOLEAN /\ raised' \in BOOLEAN
    BY <2>4
  <2>6. out' \in Seq(Int)
    BY <2>4
  <2>7. pos' \in Nat /\ (pos' <= Len(file') \/ failed') /\ remain' >= readable'
    BY <2>1, <2>2, <2>3
  <2>8. ~failed' => remain' = readable'
    BY <2>2, <2>3
  <2> QED
    BY <2>1, <2>3, <2>5, <2>6, <2>7, <2>8
<1>3. CASE appendFails(s)
  <2>1. file' \in Seq(Int) /\ Len(file') \in Nat
    BY <1>1, <1>3 DEF appendFails
  <2> QED
    BY <1>3, <2>1 DEF appendFails
<1> QED
  BY <1>2, <1>3

LEMMA GetInv == ASSUME IInv, NEW n \in Sizes, get(n) \/ getSkip(n) \/ skip(n) PROVE IInv'
<1>1. n \in Int
  BY SizesAssumption
<1>2. /\ Read(n) \in Seq(Int) /\ Len(Read(n)) \in Nat /\ Len(Read(n)) <= remain
      /\ Len(Read(n)) = IF readable <= 0 THEN 0
                        ELSE IF n < 0 \/ n > readable THEN readable ELSE n
  BY <1>1, ReadLength
<1> USE DEF IInv, BufferInv, TypeOK, RemainReadable, readable, Returns, Raises
<1>3. CASE get(n)
  BY <1>2, <1>3 DEF get
<1>4. CASE getSkip(n)
  <2>1. /\ pos' = pos + Len(Read(n)) /\ remain' = remain - Len(Read(n))
        /\ UNCHANGED <<file, closed, failed>> /\ out' = Read(n) /\ raised' = FALSE
    BY <1>4 DEF getSkip, remainLess
  <2> DEFINE taken == Len(Read(n))
  <2>2. /\ taken \in Nat /\ taken <= remain /\ (taken = 0 \/ taken <= Len(file) - pos)
        /\ Len(file) \in Nat /\ pos \in Nat /\ remain \in Nat
    BY <1>1, <1>2
  <2>3. pos' = pos + taken /\ remain' = remain - taken /\ Len(file') = Len(file) /\ failed' = failed
    BY <2>1
  <2> HIDE DEF taken
  <2>4. pos' \in Nat /\ remain' \in Nat /\ (pos' <= Len(file') \/ failed')
    BY <2>2, <2>3
  <2>5. remain' >= readable' /\ (~failed' => remain' = readable')
    BY <2>2, <2>3
  <2>6. closed' \in BOOLEAN /\ failed' \in BOOLEAN /\ raised' \in BOOLEAN
    BY <2>1
  <2>7. file' \in Seq(Int) /\ out' \in Seq(Int)
    BY <1>2, <2>1
  <2> QED
    BY <2>4, <2>5, <2>6, <2>7
<1>5. CASE skip(n)
  <2>1. UNCHANGED <<file, closed, failed>> /\ n >= 0 /\ out' = <<>> /\ raised' \in BOOLEAN
    BY <1>5 DEF skip
  <2>2. UNCHANGED <<pos, remain>> \/ (n <= remain /\ pos' = pos + n /\ remain' = remain - n)
    BY <1>1, <1>5 DEF skip, TooMany
  <2>3. out' \in Seq(Int)
    BY <2>1
  <2>4. pos' \in Nat /\ remain' \in Nat /\ remain' >= readable'
    BY <1>1, <2>1, <2>2
  <2>5. CASE failed'
    BY <2>1, <2>3, <2>4, <2>5
  <2>6. CASE ~failed'
    <3>1. remain = Len(file) - pos /\ pos \in Nat /\ Len(file) \in Nat /\ pos <= Len(file) /\ file' = file
      BY <2>1, <2>6
    <3>2. pos' <= Len(file') /\ remain' = readable'
      BY <1>1, <2>1, <2>2, <3>1
    <3> QED
      BY <2>1, <2>3, <2>4, <3>2
  <2> QED
    BY <2>5, <2>6
<1> QED
  BY <1>3, <1>4, <1>5

LEMMA NextInv == IInv /\ [Next]_vars => IInv'
<1> SUFFICES ASSUME IInv, [Next]_vars PROVE IInv'
  OBVIOUS
<1> USE DEF IInv, BufferInv, TypeOK, RemainReadable, readable
<1>1. CASE close
  BY <1>1 DEF close
<1>2. CASE afterClose
  BY <1>2 DEF afterClose, Raises
<1>3. CASE UNCHANGED vars
  BY <1>3 DEF vars
<1> QED
  BY <1>1, <1>2, <1>3, AppendInv, GetInv DEF Next

\* remain is what can still be read, after any operations at any sizes, unless
\* a write has failed. (append, get, skip)
THEOREM RemainCorrect == Spec => []BufferInv
<1>1. IInv => BufferInv
  BY DEF IInv
<1> QED
  BY <1>1, InitInv, NextInv, PTL DEF Spec

-----------------------------------------------------------------------------
(* The refinement.                                                         *)

LEMMA StepRefines == IInv /\ [Next]_vars => [Queue!Next]_(Queue!vars)
<1> SUFFICES ASSUME IInv, [Next]_vars PROVE [Queue!Next]_(Queue!vars)
  OBVIOUS
<1> DEFINE content == SubSeq(file, pos + 1, Len(file))
<1>1. CASE UNCHANGED vars
  BY <1>1 DEF vars, Queue!vars
<1>2. CASE failed'
  BY <1>2 DEF Queue!Next, Queue!Fail
<1>3. ASSUME Next, ~failed' PROVE Queue!Next
  <2>1. ~failed
    BY <1>3 DEF Next, append, appendFails, get, getSkip, skip, close, afterClose
  <2>2. /\ file \in Seq(Int) /\ pos \in 0..Len(file) /\ readable = Len(file) - pos
        /\ Len(file) - pos \in Nat /\ remain = Len(file) - pos
    BY <2>1 DEF IInv, BufferInv, TypeOK, RemainReadable, readable
  <2>3. Len(content) = Len(file) - pos
    BY <2>2
  <2>4. ASSUME NEW s \in Chunks, append(s) PROVE Queue!Put(s) /\ UNCHANGED <<closed, failed>>
    <3>1. s \in Seq(Int)
      BY ChunksAssumption
    <3>2. content' = content \o s
      BY <2>2, <2>4, <3>1, AppendPart DEF append, posRestored
    <3> QED
      BY <2>1, <2>4, <3>2 DEF append, Queue!Put, Queue!Usable, Returns
  <2>5. ASSUME NEW n \in Sizes
        PROVE  /\ Read(n) = SubSeq(content, 1, Queue!Amount(n))
               /\ Queue!Amount(n) \in 0..(Len(file) - pos)
               /\ Len(Read(n)) = Queue!Amount(n)
    <3>1. n \in Int
      BY SizesAssumption
    <3>2. Queue!Amount(n) = IF n < 0 \/ n > readable THEN readable ELSE n
      BY <2>2, <2>3 DEF Queue!Amount
    <3>3. Queue!Amount(n) \in 0..(Len(file) - pos)
      BY <2>2, <3>1, <3>2
    <3>4. Read(n) = SubSeq(file, pos + 1, pos + Queue!Amount(n))
      BY <3>2 DEF Read
    <3>5. Len(Read(n)) = Queue!Amount(n)
      <4>1. Len(Read(n)) = IF readable <= 0 THEN 0
                           ELSE IF n < 0 \/ n > readable THEN readable ELSE n
        BY <3>1, ReadLength
      <4>2. readable \in Nat
        BY <2>2
      <4> QED
        BY <3>1, <3>2, <4>1, <4>2
    <3> QED
      BY <2>2, <3>3, <3>4, <3>5, FirstPart
  <2>6. ASSUME NEW k \in 0..(Len(file) - pos), file' = file, pos' = pos + k
        PROVE  content' = SubSeq(content, k + 1, Len(content))
    BY <2>2, <2>3, <2>6, RestPart
  <2>7. ASSUME NEW n \in Sizes, get(n) PROVE Queue!Get(n) /\ UNCHANGED <<closed, failed>>
    BY <2>1, <2>5, <2>7 DEF get, Queue!Get, Queue!First, Queue!Usable, Returns
  <2>8. ASSUME NEW n \in Sizes, getSkip(n) PROVE Queue!GetSkip(n) /\ UNCHANGED <<closed, failed>>
    <3>1. content' = Queue!Rest(n)
      BY <2>5, <2>6, <2>8 DEF getSkip, Queue!Rest
    <3> QED
      BY <2>1, <2>5, <2>8, <3>1 DEF getSkip, Queue!GetSkip, Queue!First, Queue!Usable, Returns
  <2>9. ASSUME NEW n \in Sizes, skip(n) PROVE Queue!Skip(n) /\ UNCHANGED <<closed, failed>>
    <3>1. n \in Int /\ n >= 0
      BY <2>9, SizesAssumption DEF skip
    <3>2. CASE TooMany(n)
      BY <2>1, <2>2, <2>3, <2>9, <3>1, <3>2 DEF skip, TooMany, Queue!Skip, Queue!Usable, Raises
    <3>3. CASE ~TooMany(n)
      <4>1. n <= Len(content) /\ n \in 0..(Len(file) - pos)
        BY <2>2, <2>3, <3>1, <3>3 DEF TooMany
      <4>2. Queue!Amount(n) = n
        BY <2>2, <2>3, <3>1, <4>1 DEF Queue!Amount
      <4>3. content' = Queue!Rest(n)
        BY <2>6, <2>9, <3>3, <4>1, <4>2 DEF skip, Queue!Rest
      <4> QED
        BY <2>1, <2>9, <3>1, <3>3, <4>1, <4>3 DEF skip, Queue!Skip, Queue!Usable, Returns
    <3> QED
      BY <3>2, <3>3
  <2>10. CASE afterClose
    BY <2>10 DEF afterClose, Raises, Queue!Next, Queue!Operation, Queue!Refuse
  <2>11. CASE close
    BY <2>11 DEF close, Queue!Next, Queue!Close
  <2>12. ASSUME NEW s \in Chunks, appendFails(s) PROVE FALSE
    BY <1>3, <2>12 DEF appendFails
  <2> QED
    BY <1>3, <2>4, <2>7, <2>8, <2>9, <2>10, <2>11, <2>12 DEF Next, Queue!Next, Queue!Operation
<1> QED
  BY <1>1, <1>2, <1>3

\* The buffer implements ByteQueue: what comes out is what went in, oldest
\* first, whatever is appended, read and skipped. (append, get, skip, close)
THEOREM ImplementsByteQueue == Spec => IsByteQueue
<1>1. Init => Queue!Init
  <2> SUFFICES ASSUME Init PROVE Queue!Init
    OBVIOUS
  <2>1. SubSeq(file, pos + 1, Len(file)) = <<>>
    BY DEF Init
  <2> QED
    BY <2>1 DEF Init, Queue!Init
<1> QED
  BY <1>1, InitInv, NextInv, StepRefines, PTL DEF Spec, IsByteQueue, Queue!Spec

-----------------------------------------------------------------------------
(* The channel of a download.  Its inductive invariant: where the threads   *)
(* may be, what the channel makes of it, and what has been written, buffered *)
(* and sent.                                                                *)

MainAt == Places \cup {"idle", "will_close"}
WorkerAt == Places \cup Outside \cup {"open", "connect", "append", "loop", "finish"}
At == [Threads -> MainAt \cup WorkerAt]
Sockets == {"none", "waiting", "created", "connecting", "connected", "closed"}
Channels == [opened : BOOLEAN, control_channel : BOOLEAN, reported : BOOLEAN, will_close : BOOLEAN,
             socket : Sockets, outbuf : Units]

\* What is written is not more than the file.
Kept ==
  /\ DownloadTypeOK /\ at \in At
  /\ at["worker"] \in {"open", "connect", "append"} => written < MaxUnits
  /\ \A t \in Threads : Len(chunk[t]) <= SendBytes

\* A channel that is not open has no socket, and one that is closed no control
\* channel; only a channel whose client has left is closed by the worker.
Unopened == {"reading", "open", "error", "silence", "raised", "flush", "finish", "out"}
Plugged ==
  /\ dc.socket = "closed" <=> ~dc.control_channel
  /\ at["worker"] = "open" => ~dc.opened
  /\ ~dc.opened => dc.socket = "none" /\ at["main"] = "idle" /\ at["worker"] \in Unopened
  /\ dc.will_close => at["worker"] = "out"
  /\ dc.socket = "created" => at["worker"] = "connect"
  /\ peer /\ at["worker"] \in {"close", "report"} => dc.socket = "closed"

\* As long as no event has come into a call of the worker: what is in the buffer
\* follows what was sent, but for what is still to be skipped.
Sent(t) == IF at[t] = "skip" THEN num_sent[t] ELSE 0
Follow(k) ==
  /\ k <= Len(dc.outbuf) /\ written = Len(wire) + Len(dc.outbuf) - k
  /\ \A i \in 1..Len(wire) : wire[i] = i
  /\ \A j \in 1..Len(dc.outbuf) : dc.outbuf[j] = Len(wire) - k + j
Prefix(s, u) == Len(s) <= Len(u) /\ \A i \in 1..Len(s) : s[i] = u[i]
Done ==
  /\ dc.will_close /\ Len(wire) = written /\ \A i \in 1..Len(wire) : wire[i] = i
  /\ at["main"] = "shut" \/ (at["main"] = "idle" /\ dc.socket = "closed")
Apart == at["main"] # "idle" => at["worker"] \in Outside
Closing ==
  /\ peer /\ at["main"] \in {"close", "report"} => dc.socket = "closed" \/ (dc.will_close /\ dc.outbuf = <<>>)
  /\ at["main"] = "will_close" => dc.outbuf = <<>>
Ordered ==
  dc.socket # "closed" =>
    /\ Follow(Sent("main") + Sent("worker"))
    /\ \A t \in Threads : at[t] = "send" => Prefix(chunk[t], dc.outbuf)
Told == peer /\ "TRANS_SUCCESS" \in Range(answers) => Done
Alone == Apart /\ Closing /\ Ordered /\ Told

DInv == Kept /\ Plugged /\ (~shared => Alone)

-----------------------------------------------------------------------------
LEMMA Two == "main" \in Threads /\ "worker" \in Threads /\ \A t \in Threads : t = "main" \/ t = "worker"
  BY DEF Threads

\* Where a thread goes.
LEMMA Going ==
  ASSUME at \in At, NEW t \in Threads, NEW place \in MainAt \cup WorkerAt, Goto(t, place)
  PROVE  /\ at' \in At /\ at'[t] = place
         /\ \A u \in Threads : u # t => at'[u] = at[u]
         /\ shared => shared'
         /\ ~shared' /\ at'["main"] # "idle" => at'["worker"] \in Outside
  BY Two DEF Goto, At, Both

LEMMA Afterwards ==
  ASSUME NEW t \in Threads, NEW some \in BOOLEAN
  PROVE  /\ After(t, some) \in {"idle", "loop", "reading", "flush", "finish"}
         /\ After("main", some) = "idle"
         /\ After("worker", some) \in {"loop", "reading", "flush", "finish"}
         /\ After("worker", FALSE) \in {"reading", "finish"}
  BY Two DEF After

LEMMA Returning ==
  /\ After("main", FALSE) = "idle" /\ After("main", TRUE) = "idle"
  /\ After("worker", FALSE) \in {"reading", "finish"} /\ After("worker", TRUE) \in {"loop", "flush"}
  BY DEF After

\* A part of a sequence of units, and one more unit.
LEMMA PartOfUnits ==
  ASSUME NEW S, NEW s \in Seq(S), NEW n \in Nat, n <= Len(s)
  PROVE  /\ SubSeq(s, 1, n) \in Seq(S) /\ Len(SubSeq(s, 1, n)) = n
         /\ SubSeq(s, n + 1, Len(s)) \in Seq(S) /\ Len(SubSeq(s, n + 1, Len(s))) = Len(s) - n
         /\ \A i \in 1..n : SubSeq(s, 1, n)[i] = s[i]
         /\ \A i \in 1..(Len(s) - n) : SubSeq(s, n + 1, Len(s))[i] = s[n + i]
  OBVIOUS

LEMMA Joined ==
  ASSUME NEW S, NEW s \in Seq(S), NEW u \in Seq(S)
  PROVE  /\ s \o u \in Seq(S) /\ Len(s \o u) = Len(s) + Len(u) /\ Len(s) \in Nat /\ Len(u) \in Nat
         /\ \A i \in 1..Len(s) : (s \o u)[i] = s[i]
         /\ \A i \in 1..(Len(s) + Len(u)) : i > Len(s) => (s \o u)[i] = u[i - Len(s)]
  OBVIOUS

LEMMA OneUnit ==
  ASSUME NEW S, NEW s \in Seq(S), NEW x \in S
  PROVE  /\ Append(s, x) \in Seq(S) /\ Len(Append(s, x)) = Len(s) + 1 /\ Len(s) \in Nat
         /\ \A i \in 1..Len(s) : Append(s, x)[i] = s[i]
         /\ Append(s, x)[Len(s) + 1] = x
  OBVIOUS

\* What every step goes by.
LEMMA Facts ==
  ASSUME Kept
  PROVE  /\ dc \in Channels /\ dc.outbuf \in Units /\ Len(dc.outbuf) \in Nat
         /\ control \in BOOLEAN /\ peer \in BOOLEAN /\ shared \in BOOLEAN /\ at \in At
         /\ at["main"] \in MainAt /\ at["worker"] \in WorkerAt
         /\ within \in {"write", "close", "fail"} /\ written \in 0..MaxUnits /\ written \in Nat
         /\ wire \in Units /\ Len(wire) \in Nat /\ answers \in Seq(FinalCodes)
         /\ chunk \in [Threads -> Units] /\ num_sent \in [Threads -> 0..SendBytes]
         /\ \A t \in Threads : /\ chunk[t] \in Units /\ Len(chunk[t]) \in Nat /\ num_sent[t] \in Nat
                               /\ Len(chunk[t]) <= SendBytes /\ at[t] \in MainAt \cup WorkerAt
         /\ SendBytes \in Nat /\ SendBytes # 0 /\ MaxUnits \in Nat
<1>1. dc \in Channels /\ dc.outbuf \in Units
  BY DEF Kept, DownloadTypeOK, Channels, Sockets
<1>2. /\ control \in BOOLEAN /\ peer \in BOOLEAN /\ shared \in BOOLEAN /\ at \in At
      /\ at["main"] \in MainAt /\ at["worker"] \in WorkerAt
      /\ within \in {"write", "close", "fail"} /\ written \in 0..MaxUnits
      /\ wire \in Units /\ answers \in Seq(FinalCodes)
      /\ chunk \in [Threads -> Units] /\ num_sent \in [Threads -> 0..SendBytes]
      /\ \A t \in Threads : Len(chunk[t]) <= SendBytes
  BY DEF Kept, DownloadTypeOK, MainAt, WorkerAt, Units
<1>3. SendBytes \in Nat /\ SendBytes # 0 /\ MaxUnits \in Nat
  BY UnitsAssumption
<1>4. \A t \in Threads : chunk[t] \in Units /\ num_sent[t] \in 0..SendBytes /\ at[t] \in MainAt \cup WorkerAt
  BY <1>2 DEF At
<1>5. \A u \in Units : Len(u) \in Nat
  BY DEF Units
<1> QED
  BY <1>1, <1>2, <1>3, <1>4, <1>5

\* A step that leaves what was written and sent alone.
LEMMA Keeping ==
  ASSUME Kept, dc' \in Channels, control' \in BOOLEAN, peer' \in BOOLEAN, answers' \in Seq(FinalCodes),
         within' \in {"write", "close", "fail"}, shared' \in BOOLEAN, at' \in At,
         at'["main"] \in MainAt, at'["worker"] \in WorkerAt,
         at'["worker"] \in {"open", "connect", "append"} => written' < MaxUnits,
         UNCHANGED <<written, Data>>
  PROVE  Kept'
<1>1. /\ chunk' = chunk /\ num_sent' = num_sent /\ wire' = wire /\ written' = written
  BY DEF Data
<1>2. /\ chunk' \in [Threads -> Units] /\ num_sent' \in [Threads -> 0..SendBytes] /\ wire' \in Units
      /\ written' \in 0..MaxUnits
      /\ \A t \in Threads : Len(chunk'[t]) <= SendBytes
  BY <1>1, Facts
<1>3. DownloadTypeOK'
  BY <1>2 DEF DownloadTypeOK, Channels, Sockets, MainAt, WorkerAt, Units
<1> QED
  BY <1>2, <1>3 DEF Kept

\* report() and the other replies.
LEMMA Replying ==
  ASSUME Kept, NEW code \in FinalCodes
  PROVE  /\ Answer(code) => answers' \in Seq(FinalCodes)
         /\ Reported(code) => /\ answers' \in Seq(FinalCodes) /\ dc' = [dc EXCEPT !.reported = TRUE]
                              /\ answers' = answers \/ answers' = Append(answers, code)
<1>1. answers \in Seq(FinalCodes) /\ Append(answers, code) \in Seq(FinalCodes)
  BY Facts, OneUnit
<1> QED
  BY <1>1 DEF Answer, Reported

LEMMA Goes ==
  ASSUME Kept, NEW t \in Threads, NEW place, Goto(t, place), t = "main" => place \in MainAt,
         t = "worker" => place \in WorkerAt
  PROVE  /\ at' \in At /\ at'["main"] \in MainAt /\ at'["worker"] \in WorkerAt /\ shared' \in BOOLEAN
         /\ at'[t] = place /\ \A u \in Threads : u # t => at'[u] = at[u]
         /\ place \notin {"open", "connect", "append"} =>
              (at'["worker"] \in {"open", "connect", "append"} => written < MaxUnits)
<1>1. place \in MainAt \cup WorkerAt
  BY Two
<1>2. at' \in At /\ at'[t] = place /\ \A u \in Threads : u # t => at'[u] = at[u]
  BY <1>1, Facts, Going
<1>3. shared' \in BOOLEAN
  BY DEF Goto
<1>4. /\ at["main"] \in MainAt /\ at["worker"] \in WorkerAt
      /\ at["worker"] \in {"open", "connect", "append"} => written < MaxUnits
  BY Facts DEF Kept
<1>5. CASE t = "main"
  BY <1>2, <1>3, <1>4, <1>5, Two
<1>6. CASE t = "worker"
  BY <1>2, <1>3, <1>4, <1>6, Two
<1> QED
  BY <1>5, <1>6, Two

-----------------------------------------------------------------------------
LEMMA KeptNext == ASSUME Kept, [DownloadNext]_downloadVars PROVE Kept'
<1>1. /\ dc \in Channels /\ control \in BOOLEAN /\ peer \in BOOLEAN /\ shared \in BOOLEAN /\ at \in At
      /\ at["main"] \in MainAt /\ at["worker"] \in WorkerAt /\ dc.outbuf \in Units
      /\ within \in {"write", "close", "fail"} /\ answers \in Seq(FinalCodes)
      /\ at["worker"] \in {"open", "connect", "append"} => written < MaxUnits
  BY Facts DEF Kept
<1>2. /\ MainAt = {"flush", "get", "send", "skip", "close", "report", "shut", "idle", "will_close"}
      /\ WorkerAt = {"flush", "get", "send", "skip", "close", "report", "shut", "reading", "error", "silence",
                     "raised", "out", "open", "connect", "append", "loop", "finish"}
  BY DEF MainAt, WorkerAt, Places, Outside
\* Steps of a thread that write and send nothing.
<1>3. ASSUME NEW t \in Threads, NEW place, Goto(t, place), t = "main" => place \in MainAt,
             t = "worker" => place \in WorkerAt \ {"open", "connect", "append"},
             dc' \in Channels, control' \in BOOLEAN, peer' \in BOOLEAN, answers' \in Seq(FinalCodes),
             within' \in {"write", "close", "fail"}, UNCHANGED <<written, Data>>
      PROVE  Kept'
  <2>1. t = "main" => place \notin {"open", "connect", "append"}
    BY <1>2, <1>3
  <2>2. /\ at' \in At /\ at'["main"] \in MainAt /\ at'["worker"] \in WorkerAt /\ shared' \in BOOLEAN
        /\ at'["worker"] \in {"open", "connect", "append"} => written < MaxUnits
    BY <1>3, <2>1, Goes, Two
  <2>3. written' = written
    BY <1>3
  <2> QED
    BY <1>3, <2>2, <2>3, Keeping
<1>4. ASSUME UNCHANGED <<at, shared, written, Data, within>>, dc' \in Channels, control' \in BOOLEAN, peer' \in BOOLEAN,
             answers' \in Seq(FinalCodes)
      PROVE  Kept'
  BY <1>1, <1>4, Keeping
<1>5. \A code \in {"NO_DATA_CONN", "TRANS_SUCCESS", "TRANSFER_ABORTED", "ERR_OPEN_READ", "INTERNAL_ERROR"} :
        code \in FinalCodes
  BY DEF FinalCodes
<1>6. \A code \in FinalCodes : Reported(code) => dc' \in Channels /\ answers' \in Seq(FinalCodes)
  BY <1>1, Replying DEF Channels
<1>7. CASE write
  <2> DEFINE place == IF ~dc.control_channel THEN "error" ELSE IF dc.opened THEN "append" ELSE "open"
  <2>1. Goto("worker", place) /\ written < MaxUnits /\ UNCHANGED <<dc, control, peer, within, written, answers, Data>>
    BY <1>7 DEF write
  <2>2. place \in WorkerAt
    BY <1>2
  <2> HIDE DEF place
  <2>3. at' \in At /\ at'["main"] \in MainAt /\ at'["worker"] \in WorkerAt /\ shared' \in BOOLEAN
    BY <2>1, <2>2, Goes, Two
  <2> QED
    BY <1>1, <2>1, <2>3, Keeping
<1>8. CASE _open \/ Connects \/ ConnectFails
  <2>1. PICK place \in {"connect", "append", "raised"} : Goto("worker", place)
    BY <1>8 DEF _open, Connects, ConnectFails
  <2>2. at' \in At /\ at'["main"] \in MainAt /\ at'["worker"] \in WorkerAt /\ shared' \in BOOLEAN
    BY <1>2, <2>1, Goes, Two
  <2>3. dc' \in Channels
    BY <1>1, <1>8 DEF _open, Connects, ConnectFails, Channels, Sockets
  <2>4. UNCHANGED <<control, within, written, Data>> /\ peer' \in BOOLEAN /\ written < MaxUnits
    BY <1>1, <1>8 DEF _open, Connects, ConnectFails
  <2>5. answers' \in Seq(FinalCodes)
    <3>1. Append(answers, "NO_DATA_CONN") \in Seq(FinalCodes)
      BY <1>1, <1>5
    <3> QED
      BY <1>1, <1>8, <3>1 DEF _open, Connects, ConnectFails
  <2> QED
    BY <1>1, <2>2, <2>3, <2>4, <2>5, Keeping
<1>9. CASE append_data
  <2>1. CASE dc.socket = "closed"
    <3>1. Goto("worker", "raised") /\ UNCHANGED <<dc, control, peer, within, written, answers, Data>>
      BY <1>9, <2>1 DEF append_data
    <3> QED
      BY <1>1, <1>2, <1>3, <3>1, Two
  <2>2. CASE dc.socket # "closed"
    <3>1. /\ dc' = [dc EXCEPT !.outbuf = Append(dc.outbuf, written + 1)] /\ written' = written + 1
          /\ Goto("worker", "loop") /\ UNCHANGED <<control, peer, within, answers, Data>>
      BY <1>1, <1>9, <2>2 DEF append_data, Channels
    <3>2. written < MaxUnits /\ written \in Nat /\ MaxUnits \in Nat
      BY <1>1, <1>9, Facts DEF append_data
    <3>3. written + 1 \in 1..MaxUnits
      BY <3>2
    <3>4. Append(dc.outbuf, written + 1) \in Units
      BY <1>1, <3>3, OneUnit DEF Units
    <3>5. dc' \in Channels
      BY <1>1, <3>1, <3>4 DEF Channels
    <3>6. at' \in At /\ at'["main"] \in MainAt /\ at'["worker"] = "loop" /\ shared' \in BOOLEAN
      BY <1>2, <3>1, Goes, Two
    <3>7. chunk' = chunk /\ num_sent' = num_sent /\ wire' = wire
      BY <3>1 DEF Data
    <3>8. DownloadTypeOK'
      BY <1>1, <1>2, <3>1, <3>3, <3>5, <3>6, <3>7, Facts DEF DownloadTypeOK, Channels, Sockets, MainAt, WorkerAt, Units
    <3>9. \A t \in Threads : Len(chunk'[t]) <= SendBytes
      BY <3>7, Facts
    <3> QED
      BY <3>6, <3>8, <3>9 DEF Kept
  <2> QED
    BY <2>1, <2>2
<1>10. CASE Loop \/ ReadDone \/ ReadFails \/ ErrorReply \/ Silence \/ Raised \/ Finish
  <2>1. PICK place \in {"flush", "reading", "error", "raised", "silence", "out"} : Goto("worker", place)
    BY <1>10 DEF Loop, ReadDone, ReadFails, ErrorReply, Silence, Raised, Finish
  <2>2. dc' \in Channels /\ UNCHANGED <<control, peer, written, Data>> /\ within' \in {"write", "close", "fail"}
    BY <1>1, <1>10 DEF Loop, ReadDone, ReadFails, ErrorReply, Silence, Raised, Finish, Channels
  <2>3. answers' \in Seq(FinalCodes)
    BY <1>1, <1>5, <1>10, Replying DEF Loop, ReadDone, ReadFails, ErrorReply, Silence, Raised, Finish
  <2> QED
    BY <1>1, <1>2, <1>3, <2>1, <2>2, <2>3, Two
<1>11. ASSUME NEW t \in Threads, flush_some(t) \/ close_dc(t) \/ reportDefault(t) \/ Shut(t)
       PROVE  Kept'
  <2>1. PICK place \in {"get", "report", "shut", After(t, FALSE)} : Goto(t, place)
    BY <1>11 DEF flush_some, close_dc, reportDefault, Shut
  <2>2. (t = "main" => place \in MainAt) /\ (t = "worker" => place \in WorkerAt \ {"open", "connect", "append"})
    BY <1>2, <2>1, Afterwards
  <2>3. UNCHANGED <<control, peer, within, written, Data>>
    BY <1>11 DEF flush_some, close_dc, reportDefault, Shut
  <2>4. dc' \in Channels /\ answers' \in Seq(FinalCodes)
    <3>1. CASE reportDefault(t)
      BY <1>5, <1>6, <3>1 DEF reportDefault
    <3>2. CASE ~reportDefault(t)
      BY <1>1, <1>11, <3>2 DEF flush_some, close_dc, Shut, Channels, Sockets
    <3> QED
      BY <3>1, <3>2
  <2> QED
    BY <1>1, <1>3, <2>1, <2>2, <2>3, <2>4
<1>12. ASSUME NEW t \in Threads, Disconnected(t) \/ SendRaises(t) \/ skip_sent(t)
       PROVE  Kept'
  <2>1. PICK place \in {"close", "out", "error", "raised", After(t, TRUE)} :
           Goto(t, place) /\ (t = "main" => place \in {"close", After(t, TRUE)})
    BY <1>12, Two DEF Disconnected, SendRaises, skip_sent, GotoRaise
  <2>2. (t = "main" => place \in MainAt) /\ (t = "worker" => place \in WorkerAt \ {"open", "connect", "append"})
    BY <1>2, <2>1, Afterwards
  <2>3. UNCHANGED <<control, peer, within, written, Data>>
    BY <1>12 DEF Disconnected, SendRaises, skip_sent
  <2>4. dc' \in Channels /\ answers' \in Seq(FinalCodes)
    <3>1. CASE Disconnected(t)
      BY <1>1, <3>1 DEF Disconnected
    <3>2. CASE SendRaises(t)
      BY <1>1, <1>5, <1>6, <3>2 DEF SendRaises
    <3>3. CASE skip_sent(t)
      <4>1. CASE dc.socket = "closed" \/ Len(dc.outbuf) < num_sent[t]
        BY <1>1, <3>3, <4>1 DEF skip_sent
      <4>2. CASE ~(dc.socket = "closed" \/ Len(dc.outbuf) < num_sent[t])
        <5>1. num_sent[t] \in Nat /\ Len(dc.outbuf) \in Nat
          BY Facts
        <5>2. num_sent[t] <= Len(dc.outbuf)
          BY <4>2, <5>1
        <5>3. Skipped(dc.outbuf, num_sent[t]) \in Units
          BY <1>1, <5>1, <5>2, PartOfUnits DEF Skipped, Units
        <5>4. dc' = [dc EXCEPT !.outbuf = Skipped(dc.outbuf, num_sent[t])] /\ answers' = answers
          BY <1>1, <3>3, <4>2 DEF skip_sent, Channels
        <5> QED
          BY <1>1, <5>3, <5>4 DEF Channels
      <4> QED
        BY <4>1, <4>2
    <3> QED
      BY <1>12, <3>1, <3>2, <3>3
  <2> QED
    BY <1>1, <1>3, <2>1, <2>2, <2>3, <2>4
<1>13. ASSUME NEW t \in Threads, get_chunk(t)
       PROVE  Kept'
  <2>1. PICK place \in {"close", "raised", "send"} : Goto(t, place) /\ (t = "main" => place \in {"close", "send"})
    BY <1>13 DEF get_chunk, GotoRaise
  <2>2. /\ at' \in At /\ at'["main"] \in MainAt /\ at'["worker"] \in WorkerAt /\ shared' \in BOOLEAN
        /\ at'["worker"] \in {"open", "connect", "append"} => written < MaxUnits
    BY <1>2, <2>1, Goes, Two
  <2>3. UNCHANGED <<dc, control, peer, within, written, answers, wire, num_sent>>
    BY <1>13 DEF get_chunk
  <2>4. chunk' \in [Threads -> Units] /\ \A u \in Threads : Len(chunk'[u]) <= SendBytes
    <3>1. CASE UNCHANGED chunk
      BY <3>1, Facts
    <3>2. CASE ~UNCHANGED chunk
      <4> DEFINE n == IF Len(dc.outbuf) < SendBytes THEN Len(dc.outbuf) ELSE SendBytes
                 c == SubSeq(dc.outbuf, 1, n)
      <4>1. chunk' = [chunk EXCEPT ![t] = c]
        BY <1>13, <3>2 DEF get_chunk
      <4>2. n \in Nat /\ n <= Len(dc.outbuf) /\ n <= SendBytes
        BY Facts
      <4>3. c \in Units /\ Len(c) = n
        <5> HIDE DEF n
        <5> QED
          BY <1>1, <4>2, PartOfUnits, ZenonT(40) DEF Units
      <4> HIDE DEF c, n
      <4>4. \A u \in Threads : chunk'[u] = IF u = t THEN c ELSE chunk[u]
        BY <4>1, Facts
      <4> QED
        BY <4>1, <4>2, <4>3, <4>4, Facts
    <3> QED
      BY <3>1, <3>2
  <2>5. DownloadTypeOK'
    BY <1>1, <2>2, <2>3, <2>4, Facts DEF DownloadTypeOK, Channels, Sockets, MainAt, WorkerAt, Units
  <2> QED
    BY <2>2, <2>3, <2>4, <2>5 DEF Kept
<1>14. ASSUME NEW t \in Threads, NEW k \in 0..SendBytes, Takes(t, k)
       PROVE  Kept'
  <2>1. PICK place \in {After(t, FALSE), "skip"} : Goto(t, place)
    BY <1>14 DEF Takes
  <2>2. /\ at' \in At /\ at'["main"] \in MainAt /\ at'["worker"] \in WorkerAt /\ shared' \in BOOLEAN
        /\ at'["worker"] \in {"open", "connect", "append"} => written < MaxUnits
    BY <1>2, <2>1, Goes, Afterwards, Two, ZenonT(40)
  <2>3. UNCHANGED <<dc, control, peer, within, written, answers, chunk>>
        /\ wire' = wire \o SubSeq(chunk[t], 1, k) /\ num_sent' = [num_sent EXCEPT ![t] = k] /\ k \in 0..Len(chunk[t])
    BY <1>14 DEF Takes
  <2>4. wire' \in Units /\ num_sent' \in [Threads -> 0..SendBytes]
    <3>1. k \in Nat /\ k <= Len(chunk[t]) /\ chunk[t] \in Units
      BY <2>3, Facts
    <3>2. SubSeq(chunk[t], 1, k) \in Units
      BY <3>1, PartOfUnits DEF Units
    <3>3. wire' \in Units
      BY <2>3, <3>2, Facts, Joined DEF Units
    <3> QED
      BY <2>3, <3>3, Facts
  <2>5. DownloadTypeOK'
    BY <1>1, <2>2, <2>3, <2>4, Facts DEF DownloadTypeOK, Channels, Sockets, MainAt, WorkerAt, Units
  <2> QED
    BY <2>2, <2>3, <2>5, Facts DEF Kept
<1>15. CASE Accepted \/ Established \/ Abort \/ ControlCloses \/ PeerLeaves
  <2>1. UNCHANGED <<at, shared, written, Data, within>>
    BY <1>15 DEF Accepted, Established, Abort, ControlCloses, PeerLeaves, Static
  <2>2. dc' \in Channels /\ control' \in BOOLEAN /\ peer' \in BOOLEAN /\ answers' = answers
    BY <1>1, <1>15 DEF Accepted, Established, Abort, ControlCloses, PeerLeaves, Static, Aborted, Channels, Sockets
  <2> QED
    BY <1>1, <1>4, <2>1, <2>2
<1>16. CASE handle_read \/ handle_write \/ close_if_done
  <2>1. PICK place \in {"close", "flush", "will_close", "idle"} : Goto("main", place)
    BY <1>16 DEF handle_read, handle_write, close_if_done
  <2>2. UNCHANGED <<control, peer, within, written, Data>>
    BY <1>16 DEF handle_read, handle_write, close_if_done, Static
  <2>3. dc' \in Channels /\ answers' \in Seq(FinalCodes)
    BY <1>1, <1>5, <1>6, <1>16 DEF handle_read, handle_write, close_if_done
  <2> QED
    BY <1>1, <1>2, <1>3, <2>1, <2>2, <2>3, Two
<1>17. CASE UNCHANGED downloadVars
  BY <1>1, <1>4, <1>17 DEF downloadVars, Data
<1> QED
  BY <1>7, <1>8, <1>9, <1>10, <1>11, <1>12, <1>13, <1>14, <1>15, <1>16, <1>17
     DEF DownloadNext, Reading, Events, Flushing

-----------------------------------------------------------------------------
LEMMA PluggedNext == ASSUME Kept, Plugged, [DownloadNext]_downloadVars PROVE Plugged'
<1>1. /\ dc \in Channels /\ control \in BOOLEAN /\ peer \in BOOLEAN /\ at \in At
      /\ at["main"] \in MainAt /\ at["worker"] \in WorkerAt
  BY Facts
<1>2. /\ dc.socket = "closed" <=> ~dc.control_channel
      /\ at["worker"] = "open" => ~dc.opened
      /\ ~dc.opened => dc.socket = "none" /\ at["main"] = "idle" /\ at["worker"] \in Unopened
      /\ dc.will_close => at["worker"] = "out"
      /\ dc.socket = "created" => at["worker"] = "connect"
      /\ peer /\ at["worker"] \in {"close", "report"} => dc.socket = "closed"
  BY DEF Plugged
<1>3. Unopened = {"reading", "open", "error", "silence", "raised", "flush", "finish", "out"}
  BY DEF Unopened
\* The worker goes on, and the channel's socket stays.
<1>4. ASSUME NEW place \in WorkerAt, Goto("worker", place), at["worker"] # "out", at["worker"] # "connect",
             dc'.opened = dc.opened, dc'.socket = dc.socket, dc'.control_channel = dc.control_channel,
             dc'.will_close => dc.will_close \/ place = "out",
             peer' => peer, place = "open" => ~dc.opened, ~dc.opened => place \in Unopened,
             peer /\ place \in {"close", "report"} => dc.socket = "closed"
      PROVE  Plugged'
  <2>1. at'["worker"] = place /\ at'["main"] = at["main"]
    BY <1>4, Goes, Two
  <2> QED
    BY <1>2, <1>4, <2>1 DEF Plugged
\* The main loop goes on.
<1>5. ASSUME NEW place \in MainAt, Goto("main", place), dc.opened, dc'.opened,
             dc'.will_close = dc.will_close, dc'.socket \in {dc.socket, "closed"},
             dc'.socket = "closed" <=> ~dc'.control_channel, peer' => peer
      PROVE  Plugged'
  <2>1. at'["main"] = place /\ at'["worker"] = at["worker"]
    BY <1>5, Goes, Two
  <2> QED
    BY <1>2, <1>5, <2>1 DEF Plugged
<1>6. CASE write
  <2> DEFINE place == IF ~dc.control_channel THEN "error" ELSE IF dc.opened THEN "append" ELSE "open"
  <2>1. Goto("worker", place) /\ at["worker"] = "reading" /\ UNCHANGED <<dc, peer>>
    BY <1>6 DEF write
  <2>2. place \in WorkerAt
    BY DEF WorkerAt, Outside
  <2>3. /\ place = "open" => ~dc.opened
        /\ ~dc.opened => place \in Unopened
        /\ place \notin {"close", "report"}
    BY <1>3
  <2> HIDE DEF place
  <2> QED
    BY <1>4, <2>1, <2>2, <2>3
<1>7. CASE _open
  <2>1. PICK place \in {"connect", "append", "raised"} :
           /\ Goto("worker", place) /\ dc'.opened /\ dc'.will_close = dc.will_close
           /\ dc'.control_channel = dc.control_channel
           /\ dc'.socket \in {"none", "waiting", "connecting", "created"} \/ dc'.socket = dc.socket
           /\ dc'.socket = "created" => place = "connect" \/ dc.socket = "created"
    BY <1>1, <1>7 DEF _open, Channels
  <2>2. UNCHANGED peer /\ at["worker"] = "open"
    BY <1>7 DEF _open
  <2>3. place \in WorkerAt
    BY <2>1 DEF WorkerAt, Outside
  <2>4. at'["worker"] = place /\ at'["main"] = at["main"]
    BY <2>1, <2>3, Goes, Two
  <2> QED
    BY <1>2, <2>1, <2>2, <2>4 DEF Plugged
<1>8. CASE Connects \/ ConnectFails
  <2>1. Goto("worker", "append") /\ at["worker"] = "connect" /\ (peer' => peer)
    BY <1>1, <1>8 DEF Connects, ConnectFails
  <2>2. /\ dc'.opened = dc.opened /\ dc'.control_channel = dc.control_channel /\ dc'.will_close = dc.will_close
        /\ dc'.socket = IF dc.socket = "closed" THEN "closed" ELSE "connecting"
    BY <1>1, <1>8 DEF Connects, ConnectFails, Channels
  <2>3. at'["worker"] = "append" /\ at'["main"] = at["main"]
    BY <2>1, Goes, Two DEF WorkerAt
  <2> QED
    BY <1>2, <1>3, <2>1, <2>2, <2>3 DEF Plugged
<1>9. CASE append_data \/ Loop \/ ReadDone \/ ReadFails \/ ErrorReply \/ Silence \/ Raised \/ Finish
  <2>1. /\ dc'.opened = dc.opened /\ dc'.socket = dc.socket /\ dc'.control_channel = dc.control_channel
        /\ UNCHANGED peer
        /\ dc'.will_close => dc.will_close \/ Finish
    BY <1>1, <1>9 DEF append_data, Loop, ReadDone, ReadFails, ErrorReply, Silence, Raised, Finish, Channels
  <2>2. PICK place \in {"raised", "loop", "flush", "reading", "error", "silence", "out"} :
           Goto("worker", place) /\ (Finish => place = "out") /\ (place = "loop" => append_data)
    BY <1>9 DEF append_data, Loop, ReadDone, ReadFails, ErrorReply, Silence, Raised, Finish
  <2>3. /\ at["worker"] # "out" /\ at["worker"] # "connect"
        /\ append_data => at["worker"] = "append"
    BY <1>9 DEF append_data, Loop, ReadDone, ReadFails, ErrorReply, Silence, Raised, Finish
  <2>4. /\ place \in WorkerAt
        /\ ~dc.opened => place \in Unopened
    BY <1>2, <1>3, <2>2, <2>3 DEF WorkerAt, Places, Outside
  <2> QED
    BY <1>4, <2>1, <2>2, <2>3, <2>4
\* _flush_some() and close() in the worker, with an open channel.
<1>10. CASE \/ flush_some("worker") \/ get_chunk("worker") \/ (\E k \in 0..SendBytes : Takes("worker", k))
            \/ Disconnected("worker") \/ SendRaises("worker") \/ skip_sent("worker") \/ close_dc("worker")
            \/ reportDefault("worker")
  <2>1. /\ dc'.opened = dc.opened /\ dc'.socket = dc.socket /\ dc'.control_channel = dc.control_channel
        /\ dc'.will_close = dc.will_close /\ UNCHANGED peer
    BY <1>1, <1>10 DEF flush_some, get_chunk, Takes, Disconnected, SendRaises, skip_sent, close_dc, reportDefault,
       Reported, Channels
  <2>2. at["worker"] \in {"flush", "get", "send", "skip", "close", "report"}
    BY <1>10 DEF flush_some, get_chunk, Takes, Disconnected, SendRaises, skip_sent, close_dc, reportDefault
  <2>3. PICK place \in {"get", "raised", "send", "skip", "close", "out", "error", "report", "shut", After("worker", FALSE),
                        After("worker", TRUE)} :
           /\ Goto("worker", place)
           /\ at["worker"] = "flush" => place = After("worker", FALSE) \/ (place = "get" /\ dc.socket = "connected")
           /\ place \in {"close", "report"} => ~peer \/ dc.socket = "closed" \/ at["worker"] = "close"
    <3>1. ASSUME flush_some("worker") PROVE
             \E place \in {"get", After("worker", FALSE)} :
               /\ Goto("worker", place)
               /\ place = After("worker", FALSE) \/ (place = "get" /\ dc.socket = "connected")
      BY <3>1 DEF flush_some
    <3>2. CASE flush_some("worker")
      BY <3>1, <3>2, Returning
    <3>3. CASE get_chunk("worker")
      BY <3>3, Two DEF get_chunk, GotoRaise
    <3>4. CASE \E k \in 0..SendBytes : Takes("worker", k)
      BY <3>4, Returning DEF Takes
    <3>5. CASE Disconnected("worker")
      BY <3>5 DEF Disconnected
    <3>6. CASE SendRaises("worker")
      BY <3>6, Two DEF SendRaises
    <3>7. CASE skip_sent("worker")
      BY <3>7, Returning DEF skip_sent, GotoRaise
    <3>8. CASE close_dc("worker") \/ reportDefault("worker")
      BY <3>8 DEF close_dc, reportDefault
    <3> QED
      BY <1>10, <3>2, <3>3, <3>4, <3>5, <3>6, <3>7, <3>8
  <2>4. place \in WorkerAt
    BY <2>3, Returning DEF WorkerAt, Places, Outside
  <2>5. place # "open"
    BY <2>3, Returning
  <2>6. ~dc.opened => place \in Unopened
    BY <1>2, <1>3, <2>2, <2>3, Returning
  <2>7. peer /\ place \in {"close", "report"} => dc.socket = "closed"
    BY <1>2, <2>3
  <2> QED
    BY <1>4, <2>1, <2>2, <2>3, <2>4, <2>5, <2>6, <2>7
<1>11. CASE Shut("worker")
  <2>1. /\ at["worker"] = "shut" /\ Goto("worker", After("worker", FALSE)) /\ UNCHANGED peer
        /\ dc'.opened = dc.opened /\ dc'.socket = "closed" /\ ~dc'.control_channel /\ dc'.will_close = dc.will_close
    BY <1>1, <1>11 DEF Shut, Channels
  <2>2. After("worker", FALSE) \in {"reading", "finish"} /\ After("worker", FALSE) \in WorkerAt
    BY Returning DEF WorkerAt, Outside
  <2>3. at'["worker"] \in {"reading", "finish"} /\ at'["main"] = at["main"]
    BY <2>1, <2>2, Goes, Two
  <2> QED
    BY <1>2, <1>3, <2>1, <2>3 DEF Plugged
\* The same, and the events, in the main loop.
<1>12. CASE \/ flush_some("main") \/ get_chunk("main") \/ (\E k \in 0..SendBytes : Takes("main", k))
            \/ Disconnected("main") \/ SendRaises("main") \/ skip_sent("main") \/ close_dc("main")
            \/ reportDefault("main") \/ Shut("main") \/ handle_read \/ handle_write \/ close_if_done
  <2>1. /\ dc'.opened = dc.opened /\ dc'.will_close = dc.will_close /\ UNCHANGED peer
        /\ dc'.socket \in {dc.socket, "closed"} /\ (dc'.socket = "closed" <=> ~dc'.control_channel)
    BY <1>1, <1>2, <1>12 DEF flush_some, get_chunk, Takes, Disconnected, SendRaises, skip_sent, close_dc, reportDefault,
       Shut, handle_read, handle_write, close_if_done, Static, Reported, Channels
  <2>2. at["main"] # "idle" \/ dc.socket # "none"
    BY <1>12 DEF flush_some, get_chunk, Takes, Disconnected, SendRaises, skip_sent, close_dc, reportDefault,
       Shut, handle_read, handle_write, close_if_done
  <2>3. PICK place \in {"flush", "get", "send", "skip", "close", "report", "shut", "idle", "will_close",
                        After("main", FALSE), After("main", TRUE)} : Goto("main", place)
    <3>1. CASE flush_some("main") \/ get_chunk("main") \/ Disconnected("main") \/ SendRaises("main")
      BY <3>1 DEF flush_some, get_chunk, GotoRaise, Disconnected, SendRaises
    <3>2. CASE (\E k \in 0..SendBytes : Takes("main", k)) \/ skip_sent("main") \/ close_dc("main")
      BY <3>2 DEF Takes, skip_sent, GotoRaise, close_dc
    <3>3. CASE reportDefault("main") \/ Shut("main") \/ handle_read \/ handle_write \/ close_if_done
      BY <3>3 DEF reportDefault, Shut, handle_read, handle_write, close_if_done
    <3> QED
      BY <1>12, <3>1, <3>2, <3>3
  <2>4. place \in MainAt
    BY <2>3, Returning DEF MainAt, Places
  <2> QED
    BY <1>2, <1>5, <2>1, <2>2, <2>3, <2>4
<1>13. CASE Accepted \/ Established
  <2>1. /\ UNCHANGED <<at, peer>> /\ dc'.opened = dc.opened /\ dc'.will_close = dc.will_close
        /\ dc'.control_channel = dc.control_channel
        /\ dc.socket \in {"waiting", "connecting"} /\ dc'.socket \in {"connecting", "connected"}
    BY <1>1, <1>13 DEF Accepted, Established, Static, Channels
  <2> QED
    BY <1>2, <2>1 DEF Plugged
<1>14. CASE Abort
  <2>1. /\ UNCHANGED <<at, peer>> /\ dc.opened /\ dc'.opened /\ dc'.will_close = dc.will_close
        /\ ~dc'.control_channel /\ dc'.socket = "closed"
    BY <1>1, <1>14 DEF Abort, Aborted, Static, Channels
  <2> QED
    BY <1>2, <2>1 DEF Plugged
<1>15. CASE ControlCloses \/ PeerLeaves \/ UNCHANGED downloadVars
  <2>1. UNCHANGED <<at, dc>> /\ (peer' => peer)
    BY <1>15 DEF ControlCloses, PeerLeaves, downloadVars, Static
  <2> QED
    BY <1>2, <2>1 DEF Plugged
<1> QED
  BY <1>6, <1>7, <1>8, <1>9, <1>10, <1>11, <1>12, <1>13, <1>14, <1>15, Two
     DEF DownloadNext, Reading, Events, Flushing

-----------------------------------------------------------------------------
LEMMA Replied ==
  ASSUME NEW s \in Seq(FinalCodes), NEW code \in FinalCodes
  PROVE  Range(Append(s, code)) = Range(s) \cup {code}
<1>1. \A x : x \in Range(Append(s, code)) <=> x \in Range(s) \/ x = code
  BY OneUnit DEF Range
<1> QED
  BY <1>1

\* A step that leaves what was written, buffered and sent as it is.
LEMMA AloneKept ==
  ASSUME Alone, Apart', Closing', Told', UNCHANGED <<written, Data>>, dc'.outbuf = dc.outbuf,
         dc.socket = "closed" => dc'.socket = "closed",
         dc'.socket # "closed" =>
           \A t \in Threads : (at'[t] = "skip" <=> at[t] = "skip") /\ (at'[t] = "send" => at[t] = "send")
  PROVE  Alone'
<1>1. ASSUME dc'.socket # "closed"
      PROVE  /\ Follow(Sent("main") + Sent("worker"))'
             /\ \A t \in Threads : at'[t] = "send" => Prefix(chunk[t], dc.outbuf)'
  <2>1. /\ Follow(Sent("main") + Sent("worker"))
        /\ \A t \in Threads : at[t] = "send" => Prefix(chunk[t], dc.outbuf)
    BY <1>1 DEF Alone, Ordered
  <2>2. wire' = wire /\ chunk' = chunk /\ num_sent' = num_sent /\ written' = written
    BY DEF Data
  <2>3. Sent("main")' = Sent("main") /\ Sent("worker")' = Sent("worker")
    BY <1>1, <2>2, Two DEF Sent
  <2> QED
    BY <1>1, <2>1, <2>2, <2>3 DEF Follow, Prefix
<1> QED
  BY <1>1 DEF Alone, Ordered

\* No event comes into a call of the worker.
LEMMA ApartNext == ASSUME Kept, ~shared => Alone, [DownloadNext]_downloadVars, ~shared' PROVE ~shared /\ Alone /\ Apart'
<1> DEFINE Shares == shared' = (shared \/ Both')
<1>1. CASE Reading
  <2>1. Shares
    BY <1>1 DEF Reading, write, _open, Connects, ConnectFails, append_data, Loop, ReadDone, ReadFails, ErrorReply,
       Silence, Raised, Finish, Goto
  <2> QED
    BY <2>1 DEF Both, Apart
<1>2. CASE Events
  <2>1. Shares \/ UNCHANGED <<at, shared>>
    BY <1>2 DEF Events, Accepted, Established, handle_read, handle_write, close_if_done, Goto
  <2>2. CASE Shares
    BY <2>2 DEF Both, Apart
  <2>3. CASE UNCHANGED <<at, shared>>
    BY <2>3 DEF Apart, Alone
  <2> QED
    BY <2>1, <2>2, <2>3
<1>3. CASE \E t \in Threads : Flushing(t)
  <2>1. Shares
    BY <1>3 DEF Flushing, flush_some, get_chunk, Takes, Disconnected, SendRaises, skip_sent, close_dc, reportDefault,
       Shut, GotoRaise, Goto
  <2> QED
    BY <2>1 DEF Both, Apart
<1>4. CASE Abort \/ ControlCloses \/ PeerLeaves \/ UNCHANGED downloadVars
  <2>1. UNCHANGED <<at, shared>>
    BY <1>4 DEF Abort, ControlCloses, PeerLeaves, downloadVars
  <2> QED
    BY <2>1 DEF Apart, Alone
<1> QED
  BY <1>1, <1>2, <1>3, <1>4 DEF DownloadNext

LEMMA AloneNext ==
  ASSUME Kept, Plugged, ~shared => Alone, [DownloadNext]_downloadVars, ~shared'
  PROVE  Alone'
<1>1. /\ dc \in Channels /\ dc.outbuf \in Units /\ at \in At /\ at["main"] \in MainAt /\ at["worker"] \in WorkerAt
      /\ written \in Nat /\ Len(wire) \in Nat /\ Len(dc.outbuf) \in Nat /\ wire \in Units /\ answers \in Seq(FinalCodes)
  BY Facts
<1>2. Alone /\ Apart /\ Closing /\ Ordered /\ Told /\ Apart'
  BY ApartNext DEF Alone
<1>3. /\ dc.socket = "closed" => ~dc.control_channel
      /\ ~dc.opened => dc.socket = "none" /\ at["main"] = "idle"
      /\ dc.will_close => at["worker"] = "out"
      /\ dc.socket = "created" => at["worker"] = "connect"
      /\ peer /\ at["worker"] \in {"close", "report"} => dc.socket = "closed"
  BY DEF Plugged
\* Success is told in the last steps of a close only.
<1>4. peer /\ "TRANS_SUCCESS" \in Range(answers) =>
        dc.will_close /\ (at["main"] = "shut" \/ (at["main"] = "idle" /\ dc.socket = "closed"))
  BY <1>2 DEF Told, Done
<1>5. \A code \in FinalCodes : /\ Append(answers, code) \in Seq(FinalCodes)
                               /\ Range(Append(answers, code)) = Range(answers) \cup {code}
  BY <1>1, Replied
<1>6. \A code \in {"TRANSFER_ABORTED", "NO_DATA_CONN", "ERR_OPEN_READ", "INTERNAL_ERROR"} :
         Reported(code) \/ Answer(code) => ("TRANS_SUCCESS" \in Range(answers') => "TRANS_SUCCESS" \in Range(answers))
  <2> SUFFICES ASSUME NEW code \in {"TRANSFER_ABORTED", "NO_DATA_CONN", "ERR_OPEN_READ", "INTERNAL_ERROR"},
                      Reported(code) \/ Answer(code)
               PROVE  "TRANS_SUCCESS" \in Range(answers') => "TRANS_SUCCESS" \in Range(answers)
    OBVIOUS
  <2>1. code \in FinalCodes /\ code # "TRANS_SUCCESS"
    BY DEF FinalCodes
  <2>2. answers' = answers \/ answers' = Append(answers, code)
    BY DEF Reported, Answer
  <2> QED
    BY <1>5, <2>1, <2>2
\* The worker goes on and sends nothing.
<1>7. ASSUME NEW place \in WorkerAt, Goto("worker", place), place \notin {"skip", "send"},
             at["worker"] = "skip" => dc.socket = "closed",
             UNCHANGED <<written, Data>>, dc'.outbuf = dc.outbuf, dc.will_close => dc'.will_close,
             dc.socket = "closed" => dc'.socket = "closed", peer' => peer,
             peer' /\ "TRANS_SUCCESS" \in Range(answers') => "TRANS_SUCCESS" \in Range(answers)
      PROVE  Alone'
  <2>1. at'["worker"] = place /\ at'["main"] = at["main"]
    BY <1>7, Goes, Two
  <2>2. Closing'
    BY <1>2, <1>7, <2>1 DEF Closing
  <2>3. wire' = wire /\ written' = written
    BY <1>7 DEF Data
  <2>4. Told'
    BY <1>2, <1>7, <2>1, <2>3 DEF Told, Done
  <2>5. dc'.socket # "closed" =>
           \A t \in Threads : (at'[t] = "skip" <=> at[t] = "skip") /\ (at'[t] = "send" => at[t] = "send")
    BY <1>7, <2>1, Two
  <2> QED
    BY <1>2, <1>7, <2>2, <2>4, <2>5, AloneKept
\* The main loop does.
<1>8. ASSUME NEW place \in MainAt, Goto("main", place), place \notin {"skip", "send"},
             at["main"] = "skip" => dc.socket = "closed",
             UNCHANGED <<written, Data>>, dc'.outbuf = dc.outbuf, dc'.will_close = dc.will_close,
             dc.socket = "closed" => dc'.socket = "closed", peer' = peer,
             peer /\ place \in {"close", "report"} => dc'.socket = "closed" \/ (dc.will_close /\ dc.outbuf = <<>>),
             place = "will_close" => dc.outbuf = <<>>,
             Told'
      PROVE  Alone'
  <2>1. at'["main"] = place /\ at'["worker"] = at["worker"]
    BY <1>8, Goes, Two
  <2>2. Closing'
    BY <1>8, <2>1 DEF Closing
  <2>3. dc'.socket # "closed" =>
           \A t \in Threads : (at'[t] = "skip" <=> at[t] = "skip") /\ (at'[t] = "send" => at[t] = "send")
    BY <1>8, <2>1, Two
  <2> QED
    BY <1>2, <1>8, <2>2, <2>3, AloneKept
\* No thread goes on.
<1>9. ASSUME at' = at, UNCHANGED <<written, Data, answers>>, dc'.outbuf = dc.outbuf, dc'.will_close = dc.will_close,
             dc.socket = "closed" => dc'.socket = "closed", peer' => peer
      PROVE  Alone'
  <2>1. Closing'
    BY <1>2, <1>9 DEF Closing
  <2>2. wire' = wire /\ written' = written
    BY <1>9 DEF Data
  <2>3. Told'
    BY <1>2, <1>9, <2>2 DEF Told, Done
  <2> QED
    BY <1>2, <1>9, <2>1, <2>3, AloneKept
\* The steps of the worker in readfile() and the replies.
<1>10. CASE write \/ Loop \/ ReadDone \/ ReadFails \/ Finish
  <2>1. /\ dc'.outbuf = dc.outbuf /\ (dc.will_close => dc'.will_close) /\ dc'.socket = dc.socket
        /\ UNCHANGED <<peer, written, answers, Data>>
    BY <1>1, <1>10 DEF write, Loop, ReadDone, ReadFails, Finish, Channels
  <2>2. PICK place \in {"error", "append", "open", "flush", "reading", "raised", "out"} : Goto("worker", place)
    BY <1>10 DEF write, Loop, ReadDone, ReadFails, Finish
  <2>3. at["worker"] # "skip"
    BY <1>10 DEF write, Loop, ReadDone, ReadFails, Finish
  <2>4. place \in WorkerAt
    BY DEF WorkerAt, Places, Outside
  <2> QED
    BY <1>7, <2>1, <2>2, <2>3, <2>4
<1>11. CASE _open \/ Connects \/ ConnectFails \/ ErrorReply \/ Silence \/ Raised
  <2>1. /\ dc'.outbuf = dc.outbuf /\ dc'.will_close = dc.will_close /\ (dc.socket = "closed" => dc'.socket = "closed")
        /\ UNCHANGED <<written, Data>> /\ (peer' => peer)
    <3>1. CASE _open
      <4>1. dc.socket # "closed"
        BY <3>1 DEF _open, Plugged
      <4> QED
        BY <1>1, <3>1, <4>1 DEF _open, Channels
    <3>2. CASE Connects \/ Silence
      BY <1>1, <3>2 DEF Connects, Silence, Channels
    <3>3. CASE ConnectFails
      <4>1. peer' = (peer /\ dc.socket = "closed") /\ UNCHANGED <<written, Data>>
        BY <3>3 DEF ConnectFails
      <4>2. dc'.outbuf = dc.outbuf /\ dc'.will_close = dc.will_close /\ (dc.socket = "closed" => dc'.socket = "closed")
        BY <1>1, <3>3 DEF ConnectFails, Channels
      <4> QED
        BY <4>1, <4>2
    <3>4. CASE ErrorReply \/ Raised
      BY <3>4 DEF ErrorReply, Raised
    <3> QED
      BY <1>11, <3>1, <3>2, <3>3, <3>4
  <2>2. PICK place \in {"append", "connect", "raised", "silence", "flush", "out"} : Goto("worker", place)
    BY <1>11 DEF _open, Connects, ConnectFails, ErrorReply, Silence, Raised
  <2>3. at["worker"] # "skip"
    BY <1>11 DEF _open, Connects, ConnectFails, ErrorReply, Silence, Raised
  <2>4. place \in WorkerAt
    BY DEF WorkerAt, Places, Outside
  <2>5. "TRANS_SUCCESS" \in Range(answers') => "TRANS_SUCCESS" \in Range(answers)
    <3>1. \/ answers' = answers
          \/ \E code \in {"NO_DATA_CONN", "ERR_OPEN_READ", "INTERNAL_ERROR"} : answers' = Append(answers, code)
      BY <1>11 DEF _open, Connects, ConnectFails, ErrorReply, Silence, Raised, Answer
    <3>2. \A code \in {"NO_DATA_CONN", "ERR_OPEN_READ", "INTERNAL_ERROR"} : code \in FinalCodes /\ code # "TRANS_SUCCESS"
      BY DEF FinalCodes
    <3> QED
      BY <1>5, <3>1, <3>2
  <2> QED
    BY <1>7, <2>1, <2>2, <2>3, <2>4, <2>5
<1>12. CASE append_data
  <2>1. CASE dc.socket = "closed"
    <3>1. Goto("worker", "raised") /\ at["worker"] # "skip" /\ UNCHANGED <<dc, peer, written, answers, Data>>
      BY <1>12, <2>1 DEF append_data
    <3>2. "raised" \in WorkerAt
      BY DEF WorkerAt, Outside
    <3> QED
      BY <1>7, <3>1, <3>2
  <2>2. CASE dc.socket # "closed"
    <3>1. /\ at["worker"] = "append" /\ Goto("worker", "loop") /\ UNCHANGED <<peer, answers, Data>>
          /\ dc'.outbuf = Append(dc.outbuf, written + 1) /\ written' = written + 1 /\ dc'.socket # "closed"
      BY <1>1, <1>12, <2>2 DEF append_data, Channels
    <3>2. at'["worker"] = "loop" /\ at'["main"] = at["main"]
      BY <3>1, Goes, Two DEF WorkerAt
    <3>3. at["main"] = "idle"
      BY <1>2, <3>2 DEF Apart, Outside
    <3>4. ~(peer /\ "TRANS_SUCCESS" \in Range(answers))
      BY <1>3, <1>4, <3>1
    <3>5. Told' /\ Closing'
      BY <3>1, <3>2, <3>3, <3>4 DEF Told, Closing
    <3>6. Sent("main") = 0 /\ Sent("worker") = 0 /\ Sent("main")' = 0 /\ Sent("worker")' = 0
      BY <3>1, <3>2, <3>3 DEF Sent
    <3>7. Follow(0)
      BY <1>2, <2>2, <3>6 DEF Ordered
    <3>8. written + 1 \in 1..MaxUnits
      BY <3>1, Facts DEF Kept
    <3>9. /\ Len(dc'.outbuf) = Len(dc.outbuf) + 1 /\ dc'.outbuf[Len(dc.outbuf) + 1] = written + 1
          /\ \A j \in 1..Len(dc.outbuf) : dc'.outbuf[j] = dc.outbuf[j]
      BY <1>1, <3>1, <3>8, OneUnit DEF Units
    <3>10. wire' = wire
      BY <3>1 DEF Data
    <3>11. Follow(0)'
      <4>1. /\ written = Len(wire) + Len(dc.outbuf) /\ \A i \in 1..Len(wire) : wire[i] = i
            /\ \A j \in 1..Len(dc.outbuf) : dc.outbuf[j] = Len(wire) + j
        BY <1>1, <3>7 DEF Follow
      <4>2. ASSUME NEW j \in 1..(Len(dc.outbuf) + 1) PROVE dc'.outbuf[j] = Len(wire) + j
        <5>1. CASE j \in 1..Len(dc.outbuf)
          BY <3>9, <4>1, <5>1
        <5>2. CASE j = Len(dc.outbuf) + 1
          BY <1>1, <3>9, <4>1, <5>2
        <5> QED
          BY <1>1, <5>1, <5>2
      <4>3. \A j \in 1..Len(dc'.outbuf) : dc'.outbuf[j] = Len(wire') - 0 + j
        BY <1>1, <3>9, <3>10, <4>2
      <4>4. 0 <= Len(dc'.outbuf) /\ written' = Len(wire') + Len(dc'.outbuf) - 0
        BY <1>1, <3>1, <3>9, <3>10, <4>1
      <4> QED
        BY <3>10, <4>1, <4>3, <4>4 DEF Follow
    <3>12. \A t \in Threads : at'[t] # "send"
      BY <3>2, <3>3, Two
    <3>13. Ordered'
      BY <3>6, <3>11, <3>12 DEF Ordered
    <3> QED
      BY <1>2, <3>5, <3>13 DEF Alone
  <2> QED
    BY <2>1, <2>2
\* _flush_some(), in either thread.
\* Between get() and skip() of one thread the other is elsewhere.
<1>13. ASSUME NEW t \in Threads, at[t] \in {"get", "send", "skip"}, dc.socket # "closed", NEW place,
              place \in {"send", "skip", After(t, FALSE), After(t, TRUE)}, Goto(t, place), UNCHANGED <<peer, answers>>
       PROVE  /\ at'[t] = place
              /\ \A u \in Threads : u # t => at'[u] = at[u] /\ at[u] \notin {"send", "skip"}
              /\ Closing' /\ Told'
              /\ Follow(Sent(t)) /\ (at[t] = "send" => Prefix(chunk[t], dc.outbuf))
              /\ Sent(t)' \in Nat => (Sent("main") + Sent("worker"))' = Sent(t)'
  <2>1. (t = "main" => place \in MainAt) /\ (t = "worker" => place \in WorkerAt)
        /\ place \notin {"close", "report", "will_close"}
    BY <1>13, Returning, Two DEF MainAt, WorkerAt, Places, Outside
  <2>2. at'[t] = place /\ \A u \in Threads : u # t => at'[u] = at[u]
    BY <1>13, <2>1, Goes
  <2>3. /\ t = "worker" => at["main"] = "idle"
        /\ t = "main" => at["worker"] \in Outside
    BY <1>2, <1>13 DEF Apart, Outside
  <2>4. \A u \in Threads : u # t => at[u] \notin {"send", "skip"}
    BY <2>3, Two DEF Outside
  <2>5. ~(peer /\ "TRANS_SUCCESS" \in Range(answers))
    BY <1>4, <1>13, <2>3, Two
  <2>6. Closing'
    BY <2>1, <2>2, <2>3, Two DEF Closing
  <2>7. Told'
    BY <1>13, <2>5 DEF Told
  <2>8. \A u \in Threads : u # t => Sent(u) = 0 /\ Sent(u)' = 0
    BY <2>2, <2>4 DEF Sent
  <2>9. Sent(t) \in Nat
    BY Facts DEF Sent
  <2>10. Sent("main") + Sent("worker") = Sent(t)
    BY <2>8, <2>9, Two
  <2>11. Sent(t)' \in Nat => Sent("main")' + Sent("worker")' = Sent(t)'
    BY <2>8, Two
  <2>12. Follow(Sent(t)) /\ (at[t] = "send" => Prefix(chunk[t], dc.outbuf))
    BY <1>2, <1>13, <2>10 DEF Ordered
  <2> QED
    BY <2>2, <2>4, <2>6, <2>7, <2>11, <2>12
<1>14. ASSUME NEW t \in Threads, get_chunk(t), dc.socket # "closed" PROVE Alone'
  <2> DEFINE n == IF Len(dc.outbuf) < SendBytes THEN Len(dc.outbuf) ELSE SendBytes
  <2>1. /\ at[t] = "get" /\ Goto(t, "send") /\ UNCHANGED <<dc, peer, written, answers, wire, num_sent>>
        /\ chunk' = [chunk EXCEPT ![t] = SubSeq(dc.outbuf, 1, n)]
    BY <1>14 DEF get_chunk
  <2>2. n \in Nat /\ n <= Len(dc.outbuf)
    BY Facts
  <2> HIDE DEF n
  <2>3. chunk'[t] = SubSeq(dc.outbuf, 1, n)
    BY <2>1, Facts
  <2>4. Prefix(chunk'[t], dc.outbuf)
    BY <1>1, <2>2, <2>3, PartOfUnits DEF Prefix, Units
  <2>5. /\ at'[t] = "send" /\ Closing' /\ Told' /\ Follow(Sent(t))
        /\ \A u \in Threads : u # t => at'[u] = at[u] /\ at[u] \notin {"send", "skip"}
        /\ Sent(t)' \in Nat => (Sent("main") + Sent("worker"))' = Sent(t)'
    BY <1>13, <1>14, <2>1
  <2>6. Sent(t) = 0 /\ Sent(t)' = 0
    BY <2>1, <2>5 DEF Sent
  <2>7. Follow(0)'
    BY <2>1, <2>5, <2>6 DEF Follow
  <2>8. Ordered'
    BY <2>1, <2>4, <2>5, <2>6, <2>7 DEF Ordered
  <2> QED
    BY <1>2, <2>5, <2>8 DEF Alone
<1>15. ASSUME NEW t \in Threads, NEW k \in 0..SendBytes, Takes(t, k) PROVE Alone'
  <2> DEFINE place == IF k = 0 THEN After(t, FALSE) ELSE "skip"
  <2>1. /\ at[t] = "send" /\ dc.socket # "closed" /\ k \in Nat /\ k <= Len(chunk[t])
        /\ wire' = wire \o SubSeq(chunk[t], 1, k) /\ num_sent' = [num_sent EXCEPT ![t] = k]
        /\ Goto(t, place) /\ UNCHANGED <<dc, peer, written, answers, chunk>>
    <3>1. /\ at[t] = "send" /\ dc.socket # "closed" /\ k \in 0..Len(chunk[t])
          /\ wire' = wire \o SubSeq(chunk[t], 1, k) /\ num_sent' = [num_sent EXCEPT ![t] = k]
          /\ Goto(t, place) /\ UNCHANGED <<dc, peer, written, answers, chunk>>
      BY <1>15, Zenon DEF Takes
    <3>2. k \in Nat /\ k <= Len(chunk[t])
      <4>1. k \in 0..Len(chunk[t]) /\ Len(chunk[t]) \in Nat
        BY <3>1, Facts
      <4> QED
        BY <4>1
    <3> QED
      BY <3>1, <3>2
  <2>2. place \in {"skip", After(t, FALSE)} /\ (k # 0 => place = "skip") /\ (k = 0 => place # "skip")
    BY Returning, Two
  <2> HIDE DEF place
  <2>3. /\ at'[t] = place /\ Closing' /\ Told' /\ Follow(Sent(t)) /\ Prefix(chunk[t], dc.outbuf)
        /\ \A u \in Threads : u # t => at'[u] = at[u] /\ at[u] \notin {"send", "skip"}
        /\ Sent(t)' \in Nat => (Sent("main") + Sent("worker"))' = Sent(t)'
    BY <1>13, <2>1, <2>2
  <2>4. num_sent'[t] = k
    BY <2>1, Facts
  <2>5. Sent(t) = 0 /\ Sent(t)' = k
    BY <2>1, <2>2, <2>3, <2>4 DEF Sent
  <2>6. Follow(0)
    BY <2>3, <2>5
  <2> DEFINE part == SubSeq(chunk[t], 1, k)
  <2>7. part \in Units /\ Len(part) = k /\ \A i \in 1..k : part[i] = chunk[t][i]
    BY <2>1, PartOfUnits, Facts, SMTT(40) DEF Units
  <2>8. \A i \in 1..k : part[i] = Len(wire) + i
    <3>1. \A i \in 1..k : i \in 1..Len(chunk[t]) /\ i \in 1..Len(dc.outbuf)
      BY <1>1, <2>1, <2>3, Facts DEF Prefix
    <3> QED
      BY <1>1, <2>3, <2>6, <2>7, <3>1 DEF Prefix, Follow
  <2>9. wire' = wire \o part
    BY <2>1
  <2> HIDE DEF part
  <2>10. /\ Len(wire') = Len(wire) + k
         /\ \A i \in 1..Len(wire) : wire'[i] = wire[i]
         /\ \A i \in 1..(Len(wire) + k) : i > Len(wire) => wire'[i] = part[i - Len(wire)]
    BY <1>1, <2>7, <2>9, Joined, ZenonT(40) DEF Units
  <2>11. \A i \in 1..Len(wire') : wire'[i] = i
    <3> SUFFICES ASSUME NEW i \in 1..Len(wire') PROVE wire'[i] = i
      OBVIOUS
    <3>1. CASE i <= Len(wire)
      BY <1>1, <2>6, <2>10, <3>1 DEF Follow
    <3>2. CASE i > Len(wire)
      <4>1. i - Len(wire) \in 1..k
        BY <1>1, <2>1, <2>10, <3>2
      <4>2. i \in 1..(Len(wire) + k) /\ Len(wire) + (i - Len(wire)) = i
        BY <1>1, <2>1, <2>10, <3>2
      <4>3. wire'[i] = part[i - Len(wire)]
        BY <2>10, <3>2, <4>2
      <4>4. part[i - Len(wire)] = Len(wire) + (i - Len(wire))
        BY <2>8, <4>1
      <4> QED
        BY <4>2, <4>3, <4>4
    <3> QED
      BY <1>1, <3>1, <3>2
  <2>12. k <= Len(dc.outbuf) /\ written = Len(wire) + Len(dc.outbuf)
         /\ \A j \in 1..Len(dc.outbuf) : dc.outbuf[j] = Len(wire) + j
    BY <1>1, <2>1, <2>3, <2>6, Facts DEF Follow, Prefix
  <2>13. Follow(k)'
    <3>1. dc' = dc /\ written' = written
      BY <2>1
    <3>2. k \in Nat /\ Len(wire') = Len(wire) + k
      BY <2>1, <2>10
    <3> DEFINE l == Len(wire') - k
    <3>3. l = Len(wire)
      BY <1>1, <3>2
    <3>4. k <= Len(dc'.outbuf) /\ written' = Len(wire') + Len(dc'.outbuf) - k
      <4> DEFINE m == Len(dc'.outbuf)
      <4>1. k <= m /\ written' = Len(wire) + m /\ m \in Nat
        BY <1>1, <2>12, <3>1
      <4> HIDE DEF m
      <4>2. written' = Len(wire') + m - k
        BY <1>1, <3>2, <4>1
      <4> QED
        BY <4>1, <4>2 DEF m
    <3>5. \A j \in 1..Len(dc'.outbuf) : dc'.outbuf[j] = l + j
      BY <2>12, <3>1, <3>3
    <3> QED
      BY <2>11, <3>4, <3>5 DEF Follow
  <2>14. \A u \in Threads : at'[u] # "send"
    BY <2>2, <2>3, Returning, Two
  <2>15. Ordered'
    BY <2>1, <2>3, <2>5, <2>13, <2>14 DEF Ordered
  <2> QED
    BY <1>2, <2>3, <2>15 DEF Alone
<1>16. ASSUME NEW t \in Threads, skip_sent(t), dc.socket # "closed" PROVE Alone'
  <2>1. /\ at[t] = "skip" /\ UNCHANGED <<peer, answers, written, Data>>
    BY <1>16 DEF skip_sent
  <2>2. Goto(t, After(t, TRUE)) \/ GotoRaise(t)
    BY <1>16 DEF skip_sent
  <2> DEFINE n == num_sent[t]
  <2>3. n \in Nat /\ Sent(t) = n
    BY <2>1, Facts DEF Sent
  <2>4. n <= Len(dc.outbuf) /\ Follow(n)
    <3>1. \A u \in Threads : u # t => at[u] \notin {"send", "skip"}
      BY <1>2, <2>1, Two DEF Apart, Outside
    <3>2. Sent("main") + Sent("worker") = n
      BY <2>3, <3>1, Two DEF Sent
    <3> QED
      BY <1>2, <1>16, <3>2 DEF Ordered, Follow
  <2>5. dc' = [dc EXCEPT !.outbuf = SubSeq(@, n + 1, Len(@))] /\ Goto(t, After(t, TRUE))
    <3>1. ~(dc.socket = "closed" \/ Len(dc.outbuf) < num_sent[t])
      BY <1>1, <1>16, <2>3, <2>4
    <3> QED
      BY <1>16, <3>1 DEF skip_sent, Skipped
  <2>6. dc'.outbuf = SubSeq(dc.outbuf, n + 1, Len(dc.outbuf)) /\ dc'.socket = dc.socket
    BY <1>1, <2>5 DEF Channels
  <2>7. /\ at'[t] = After(t, TRUE) /\ Closing' /\ Told'
        /\ \A u \in Threads : u # t => at'[u] = at[u] /\ at[u] \notin {"send", "skip"}
        /\ Sent(t)' \in Nat => (Sent("main") + Sent("worker"))' = Sent(t)'
    BY <1>13, <1>16, <2>1, <2>5
  <2>8. After(t, TRUE) \notin {"skip", "send"}
    BY Returning, Two
  <2>9. Sent(t)' = 0
    BY <2>7, <2>8 DEF Sent
  <2> HIDE DEF n
  <2>10. /\ Len(dc'.outbuf) = Len(dc.outbuf) - n
         /\ \A j \in 1..(Len(dc.outbuf) - n) : dc'.outbuf[j] = dc.outbuf[n + j]
    BY <1>1, <2>3, <2>4, <2>6, PartOfUnits DEF Units
  <2>11. wire' = wire /\ written' = written
    BY <2>1 DEF Data
  <2>12. \A j \in 1..Len(dc'.outbuf) : dc'.outbuf[j] = Len(wire) + j
    <3> SUFFICES ASSUME NEW j \in 1..Len(dc'.outbuf) PROVE dc'.outbuf[j] = Len(wire) + j
      OBVIOUS
    <3>1. n + j \in 1..Len(dc.outbuf)
      BY <1>1, <2>3, <2>4, <2>10
    <3>2. dc.outbuf[n + j] = Len(wire) - n + (n + j)
      BY <2>4, <3>1 DEF Follow
    <3> QED
      BY <1>1, <2>3, <2>10, <3>2
  <2>13. written = Len(wire) + Len(dc.outbuf) - n /\ \A i \in 1..Len(wire) : wire[i] = i
    BY <2>4 DEF Follow
  <2>14. Follow(0)'
    BY <1>1, <2>3, <2>4, <2>10, <2>11, <2>12, <2>13 DEF Follow
  <2>15. \A u \in Threads : at'[u] # "send"
    BY <2>7, <2>8
  <2>16. Ordered'
    BY <2>7, <2>9, <2>14, <2>15 DEF Ordered
  <2> QED
    BY <1>2, <2>7, <2>16 DEF Alone
\* The worker's other steps in _flush_some() and close().
<1>17. ASSUME flush_some("worker") \/ close_dc("worker") \/ Disconnected("worker") \/ SendRaises("worker")
              \/ Shut("worker") \/ reportDefault("worker")
              \/ ((get_chunk("worker") \/ skip_sent("worker")) /\ dc.socket = "closed")
       PROVE  Alone'
  <2>1. /\ dc'.outbuf = dc.outbuf /\ dc'.will_close = dc.will_close /\ (dc.socket = "closed" => dc'.socket = "closed")
        /\ UNCHANGED <<peer, written, Data>>
    BY <1>1, <1>17 DEF flush_some, close_dc, Disconnected, SendRaises, Shut, reportDefault, Reported, get_chunk,
       skip_sent, Data, Channels
  <2>2. PICK place \in {"get", "report", "shut", "close", "out", "error", "raised", After("worker", FALSE)} :
          Goto("worker", place)
    <3>1. CASE flush_some("worker") \/ close_dc("worker") \/ Disconnected("worker")
      BY <3>1 DEF flush_some, close_dc, Disconnected
    <3>2. CASE SendRaises("worker") \/ Shut("worker") \/ reportDefault("worker")
      BY <3>2 DEF SendRaises, Shut, reportDefault
    <3>3. CASE (get_chunk("worker") \/ skip_sent("worker")) /\ dc.socket = "closed"
      BY <3>3 DEF get_chunk, skip_sent, GotoRaise
    <3> QED
      BY <1>17, <3>1, <3>2, <3>3
  <2>3. at["worker"] = "skip" => dc.socket = "closed"
    BY <1>17 DEF flush_some, close_dc, Disconnected, SendRaises, Shut, reportDefault, get_chunk
  <2>4. place \in WorkerAt /\ place \notin {"skip", "send"}
    BY Returning DEF WorkerAt, Places, Outside
  <2>5. peer /\ "TRANS_SUCCESS" \in Range(answers') => "TRANS_SUCCESS" \in Range(answers)
    <3>1. CASE reportDefault("worker")
      <4>1. peer => ~dc.control_channel
        BY <1>3, <3>1 DEF reportDefault
      <4> QED
        BY <3>1, <4>1 DEF reportDefault, Reported
    <3>2. CASE ~reportDefault("worker")
      BY <1>17, <3>2 DEF flush_some, close_dc, Disconnected, SendRaises, Shut, get_chunk, skip_sent
    <3> QED
      BY <3>1, <3>2
  <2> QED
    BY <1>7, <2>1, <2>2, <2>3, <2>4, <2>5
\* The main loop's, before reportDefault().
<1>18. ASSUME flush_some("main") \/ close_dc("main") \/ Disconnected("main") \/ SendRaises("main")
              \/ ((get_chunk("main") \/ skip_sent("main")) /\ dc.socket = "closed")
              \/ handle_read \/ handle_write \/ close_if_done
       PROVE  Alone'
  <2>1. dc'.outbuf = dc.outbuf /\ dc'.will_close = dc.will_close /\ dc'.socket = dc.socket
        /\ UNCHANGED <<peer, written, Data>>
    BY <1>1, <1>18 DEF flush_some, close_dc, Disconnected, SendRaises, Reported, get_chunk, skip_sent, handle_read,
       handle_write, close_if_done, Static, Data, Channels
  <2>2. PICK place \in {"get", "report", "shut", "close", "flush", "will_close", "idle"} :
          /\ Goto("main", place)
          /\ place \in {"close", "report"} =>
               \/ at["main"] \in {"close", "will_close"} /\ (at["main"] = "will_close" => dc.will_close)
               \/ ~peer \/ dc.socket \in {"closed", "created"}
          /\ place = "will_close" => dc.outbuf = <<>>
    <3>1. CASE flush_some("main") \/ close_dc("main") \/ Disconnected("main")
      BY <3>1, Returning DEF flush_some, close_dc, Disconnected
    <3>2. CASE SendRaises("main") \/ handle_read
      BY <3>2 DEF SendRaises, handle_read
    <3>3. CASE (get_chunk("main") \/ skip_sent("main")) /\ dc.socket = "closed"
      BY <3>3 DEF get_chunk, skip_sent, GotoRaise
    <3>4. CASE handle_write \/ close_if_done
      BY <3>4 DEF handle_write, close_if_done
    <3> QED
      BY <1>18, <3>1, <3>2, <3>3, <3>4
  <2>3. place \in MainAt /\ place \notin {"skip", "send"}
    BY DEF MainAt, Places
  <2>4. at["main"] = "skip" => dc.socket = "closed"
    BY <1>18 DEF flush_some, close_dc, Disconnected, SendRaises, get_chunk, handle_read, handle_write, close_if_done,
       MainIdle
  <2>5. at'["main"] = place /\ at'["worker"] = at["worker"]
    BY <2>2, <2>3, Goes, Two
  <2>6. place # "idle" => dc.socket # "created"
    BY <1>2, <1>3, <2>5 DEF Apart, Outside
  <2>7. peer /\ place \in {"close", "report"} => dc'.socket = "closed" \/ (dc.will_close /\ dc.outbuf = <<>>)
    BY <1>2, <2>1, <2>2, <2>6 DEF Closing
  <2>8. at["main"] # "shut" /\ (at["main"] = "idle" => dc.socket # "closed")
    <3>1. CASE \/ flush_some("main") \/ close_dc("main") \/ Disconnected("main") \/ SendRaises("main")
               \/ get_chunk("main") \/ skip_sent("main")
      BY <3>1 DEF flush_some, close_dc, Disconnected, SendRaises, get_chunk, skip_sent
    <3>2. CASE handle_read
      BY <3>2 DEF handle_read, MainIdle
    <3>3. CASE handle_write \/ close_if_done
      BY <3>3 DEF handle_write, close_if_done, MainIdle
    <3> QED
      BY <1>18, <3>1, <3>2, <3>3
  <2>9. "TRANS_SUCCESS" \in Range(answers') => "TRANS_SUCCESS" \in Range(answers)
    <3>1. \/ answers' = answers \/ Reported("TRANSFER_ABORTED") \/ Reported("NO_DATA_CONN")
      BY <1>18 DEF flush_some, close_dc, Disconnected, SendRaises, get_chunk, skip_sent, handle_read, handle_write,
         close_if_done
    <3> QED
      BY <1>6, <3>1
  <2>10. Told'
    BY <1>4, <2>1, <2>8, <2>9 DEF Told
  <2> QED
    BY <1>8, <2>1, <2>2, <2>3, <2>4, <2>7, <2>10
\* Success is told of a buffer that is empty and a file that has been written.
<1>19. ASSUME reportDefault("main") PROVE Alone'
  <2>1. /\ at["main"] = "report" /\ Goto("main", "shut") /\ UNCHANGED <<peer, written, Data>>
        /\ dc'.outbuf = dc.outbuf /\ dc'.will_close = dc.will_close /\ dc'.socket = dc.socket
    BY <1>1, <1>19 DEF reportDefault, Reported, Channels
  <2>2. at'["main"] = "shut" /\ "shut" \in MainAt
    BY <2>1, Goes, Two DEF MainAt, Places
  <2>3. ASSUME peer, "TRANS_SUCCESS" \in Range(answers') PROVE Done'
    <3>1. "TRANS_SUCCESS" \notin Range(answers)
      BY <1>4, <2>1, <2>3
    <3>2. dc.outbuf = <<>> /\ dc.control_channel
      <4>1. answers' # answers /\ ~Reported("TRANSFER_ABORTED")
        BY <1>6, <2>3, <3>1
      <4> QED
        BY <1>19, <4>1 DEF reportDefault, Reported
    <3>3. dc.socket # "closed" /\ dc.will_close
      BY <1>2, <1>3, <2>1, <2>3, <3>2 DEF Closing
    <3>4. Sent("main") + Sent("worker") = 0
      BY <1>3, <2>1, <3>3 DEF Sent
    <3>5. Follow(0)
      BY <1>2, <3>3, <3>4 DEF Ordered
    <3>6. written = Len(wire) /\ \A i \in 1..Len(wire) : wire[i] = i
      BY <1>1, <3>2, <3>5 DEF Follow
    <3>7. wire' = wire /\ written' = written
      BY <2>1 DEF Data
    <3> QED
      BY <2>1, <2>2, <3>3, <3>6, <3>7 DEF Done
  <2>4. Told'
    BY <2>1, <2>3 DEF Told
  <2> QED
    BY <1>8, <2>1, <2>2, <2>4
<1>20. ASSUME Shut("main") PROVE Alone'
  <2>1. /\ at["main"] = "shut" /\ Goto("main", "idle") /\ UNCHANGED <<peer, written, answers, Data>>
        /\ dc'.outbuf = dc.outbuf /\ dc'.will_close = dc.will_close /\ dc'.socket = "closed"
    BY <1>1, <1>20, Returning DEF Shut, Channels
  <2>2. at'["main"] = "idle" /\ "idle" \in MainAt
    BY <2>1, Goes, Two DEF MainAt
  <2>3. wire' = wire /\ written' = written
    BY <2>1 DEF Data
  <2>4. Told'
    BY <1>2, <2>1, <2>2, <2>3 DEF Told, Done
  <2> QED
    BY <1>8, <2>1, <2>2, <2>4
<1>21. ASSUME Accepted \/ Established \/ Abort \/ ControlCloses \/ PeerLeaves \/ UNCHANGED downloadVars PROVE Alone'
  <2>1. /\ UNCHANGED <<at, written, answers, Data>> /\ (peer' => peer) /\ dc'.outbuf = dc.outbuf
        /\ dc'.will_close = dc.will_close /\ (dc.socket = "closed" => dc'.socket = "closed")
    <3>1. CASE Accepted \/ Established \/ Abort
      <4>1. UNCHANGED <<at, answers, Static>>
        BY <3>1 DEF Accepted, Established, Abort
      <4>2. UNCHANGED <<at, written, answers, Data, peer>>
        BY <4>1 DEF Static
      <4>3. dc'.outbuf = dc.outbuf /\ dc'.will_close = dc.will_close /\ (dc.socket = "closed" => dc'.socket = "closed")
        BY <1>1, <3>1 DEF Accepted, Established, Abort, Aborted, Channels
      <4> QED
        BY <4>2, <4>3
    <3>2. CASE ControlCloses \/ PeerLeaves
      BY <3>2 DEF ControlCloses, PeerLeaves, Static
    <3>3. CASE UNCHANGED downloadVars
      BY <3>3 DEF downloadVars, Data
    <3> QED
      BY <1>21, <3>1, <3>2, <3>3
  <2> QED
    BY <1>9, <2>1
<1>22. ASSUME NEW t \in Threads, Flushing(t) PROVE Alone'
  <2>1. \/ flush_some(t) \/ get_chunk(t) \/ (\E k \in 0..SendBytes : Takes(t, k)) \/ Disconnected(t)
        \/ SendRaises(t) \/ skip_sent(t) \/ close_dc(t) \/ reportDefault(t) \/ Shut(t)
    BY <1>22 DEF Flushing
  <2>2. CASE dc.socket # "closed" /\ (get_chunk(t) \/ skip_sent(t))
    BY <1>14, <1>16, <2>2
  <2>3. CASE \E k \in 0..SendBytes : Takes(t, k)
    BY <1>15, <2>3
  <2>4. CASE t = "worker" /\ ~(dc.socket # "closed" /\ (get_chunk(t) \/ skip_sent(t)))
             /\ ~(\E k \in 0..SendBytes : Takes(t, k))
    BY <1>17, <2>1, <2>4
  <2>5. CASE t = "main" /\ ~(dc.socket # "closed" /\ (get_chunk(t) \/ skip_sent(t)))
             /\ ~(\E k \in 0..SendBytes : Takes(t, k))
    BY <1>18, <1>19, <1>20, <2>1, <2>5
  <2> QED
    BY <2>2, <2>3, <2>4, <2>5, Two
<1> QED
  BY <1>10, <1>11, <1>12, <1>18, <1>21, <1>22 DEF DownloadNext, Reading, Events

-----------------------------------------------------------------------------
LEMMA DInvInit == DownloadInit => DInv
<1> SUFFICES ASSUME DownloadInit PROVE DInv
  OBVIOUS
<1> USE DEF DownloadInit
<1>1. MaxUnits \in Nat /\ SendBytes \in Nat
  BY UnitsAssumption
<1>2. <<>> \in Units /\ Len(<<>>) = 0 /\ \A S : <<>> \in Seq(S)
  BY DEF Units
<1>3. Kept
  <2>1. DownloadTypeOK
    <3>1. dc \in [opened : BOOLEAN, control_channel : BOOLEAN, reported : BOOLEAN, will_close : BOOLEAN,
                  socket : {"none", "waiting", "created", "connecting", "connected", "closed"}, outbuf : Units]
      BY <1>2
    <3>2. chunk \in [Threads -> Units] /\ num_sent \in [Threads -> 0..SendBytes]
      BY <1>1, <1>2
    <3>3. /\ {control, peer, shared} \subseteq BOOLEAN /\ within \in {"write", "close", "fail"}
          /\ written \in 0..MaxUnits /\ wire \in Seq(1..MaxUnits) /\ answers \in Seq(FinalCodes)
      <4>1. control = TRUE /\ peer = TRUE /\ shared = FALSE /\ within = "write" /\ written = 0
            /\ wire = <<>> /\ answers = <<>>
        OBVIOUS
      <4>2. 0 \in 0..MaxUnits
        BY <1>1
      <4> QED
        BY <1>2, <4>1, <4>2
    <3>4. at["main"] = "idle" /\ at["worker"] = "reading" /\ "reading" \in Outside
      BY DEF Outside
    <3> QED
      BY <3>1, <3>2, <3>3, <3>4 DEF DownloadTypeOK
  <2>2. at \in At /\ at["worker"] = "reading"
    BY DEF At, Threads, MainAt, WorkerAt, Outside
  <2>3. \A t \in Threads : chunk[t] = <<>>
    OBVIOUS
  <2> QED
    BY <1>1, <1>2, <2>1, <2>2, <2>3 DEF Kept
<1>4. Plugged
  BY DEF Plugged, Unopened
<1>5. Alone
  <2>1. at["main"] = "idle" /\ at["worker"] = "reading"
    OBVIOUS
  <2>2. Sent("main") = 0 /\ Sent("worker") = 0
    BY <2>1 DEF Sent
  <2>3. Follow(0)
    BY <1>2 DEF Follow
  <2>4. Apart /\ Closing
    BY <2>1 DEF Apart, Closing
  <2>5. Ordered
    BY <2>1, <2>2, <2>3, Two DEF Ordered
  <2>6. Told
    BY DEF Told, Range
  <2> QED
    BY <2>4, <2>5, <2>6 DEF Alone
<1> QED
  BY <1>3, <1>4, <1>5 DEF DInv

LEMMA DInvNext == DInv /\ [DownloadNext]_downloadVars => DInv'
  BY KeptNext, PluggedNext, AloneNext DEF DInv

\* The inductive invariant of the download's channel holds always.
THEOREM DownloadInvariance == DownloadSpec => []DInv
  BY DInvInit, DInvNext, PTL DEF DownloadSpec

\* Every variable of the download's channel has its type, for every file and
\* every send_bytes. (RETRChannel)
THEOREM DownloadTypes == DownloadSpec => []DownloadTypeOK
<1>1. DInv => DownloadTypeOK
  BY DEF DInv, Kept
<1> QED
  BY <1>1, DownloadInvariance, PTL

\* A client that stays and is told of success has been sent all of the file, in
\* order and nothing twice, for files of every length, whatever the sends take:
\* unless an event of the main loop came into a call of the worker.
\* (write, close_when_done, handle_write, reportDefault)
THEOREM WholeWhenAlone == DownloadSpec => []SuccessIsWhole
<1>1. DInv => SuccessIsWhole
  <2> SUFFICES ASSUME DInv, peer, ~shared, "TRANS_SUCCESS" \in Range(answers)
               PROVE  dc.will_close /\ wire = Upto(written)
    BY DEF SuccessIsWhole
  <2>1. dc.will_close /\ Len(wire) = written /\ \A i \in 1..Len(wire) : wire[i] = i
    BY DEF DInv, Alone, Told, Done
  <2>2. wire \in Seq(1..MaxUnits)
    BY Facts DEF DInv, Units
  <2>3. wire = [i \in 1..Len(wire) |-> wire[i]]
    BY <2>2
  <2> QED
    BY <2>1, <2>3 DEF Upto
<1> QED
  BY <1>1, DownloadInvariance, PTL
=============================================================================
