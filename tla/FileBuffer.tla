----------------------------- MODULE FileBuffer -----------------------------
(* FileBasedBuffer, as OverflowableBuffer uses it: bytes are appended at   *)
(* the end of a (spooled temporary) file and read at the file's position,  *)
(* and remain counts the bytes not read.  The file is external; moving it  *)
(* from memory to the disk does not change what is in it.  prune() and the *)
(* copying constructor have no caller but tests and are left out.          *)
EXTENDS Integers, Sequences

CONSTANTS Chunks,    \* what may be appended: sequences of bytes
          Sizes,     \* arguments of get() and skip()
          MaxFile,   \* bound: bytes ever appended
          DiskFull   \* may writing to the file fail?

ASSUME ChunksAssumption == \A s \in Chunks : s \in Seq(Int)
ASSUME SizesAssumption  == Sizes \subseteq Int /\ MaxFile \in Nat
ASSUME DiskAssumption   == DiskFull \in BOOLEAN

VARIABLES file,     \* the bytes in the file
          pos,      \* the file's position
          remain,
          closed,   \* the file is closed
          failed,   \* history: a write failed
          out,      \* history: what the last operation returned
          raised    \* history: whether it raised

vars == <<file, pos, remain, closed, failed, out, raised>>

Init == /\ file = <<>> /\ pos = 0 /\ remain = 0 /\ closed = FALSE
        /\ failed = FALSE /\ out = <<>> /\ raised = FALSE

Returns(res) == out' = res /\ raised' = FALSE
Raises       == out' = <<>> /\ raised' = TRUE

\* file.read(n): what is there from the position on, everything if n < 0.
readable == Len(file) - pos
Read(n)  == LET amount == IF n < 0 \/ n > readable THEN readable ELSE n
            IN SubSeq(file, pos + 1, pos + amount)

\* Mutant: the position is left at the end of the file.
posAfterWrite == Len(file')
posRestored == pos

append(s) ==
  /\ Len(file) + Len(s) <= MaxFile
  /\ ~closed
  /\ file' = file \o s
  /\ pos' = posRestored
  /\ remain' = remain + Len(s)
  /\ Returns(<<>>)
  /\ UNCHANGED <<closed, failed>>

\* The write fails half way: the position stays at the end of the file.
appendFails(s) ==
  /\ DiskFull /\ Len(file) + Len(s) <= MaxFile
  /\ ~closed
  /\ \E some \in 0..Len(s) : file' = file \o SubSeq(s, 1, some)
  /\ pos' = Len(file')
  /\ failed' = TRUE
  /\ Raises
  /\ UNCHANGED <<remain, closed>>

get(n) ==
  /\ ~closed
  /\ Returns(Read(n))
  /\ UNCHANGED <<file, pos, remain, closed, failed>>

remainLess(n) == remain - Len(Read(n))

\* get(n, skip=1)
getSkip(n) ==
  /\ ~closed
  /\ Returns(Read(n))
  /\ pos' = pos + Len(Read(n))
  /\ remain' = remainLess(n)
  /\ UNCHANGED <<file, closed, failed>>

\* Mutant: the last byte cannot be skipped.
TooManyOffByOne(n) == remain <= n
TooMany(n) == remain < n

skip(n) ==
  /\ ~closed /\ n >= 0
  /\ IF TooMany(n)
     THEN Raises /\ UNCHANGED <<pos, remain>>
     ELSE /\ pos' = pos + n
          /\ remain' = remain - n
          /\ Returns(<<>>)
  /\ UNCHANGED <<file, closed, failed>>

close == /\ closed' = TRUE
         /\ UNCHANGED <<file, pos, remain, failed, out, raised>>

\* Every operation on a closed file raises, whatever remain says.
afterClose == /\ closed /\ Raises
              /\ UNCHANGED <<file, pos, remain, closed, failed>>

Next == \/ \E s \in Chunks : append(s) \/ appendFails(s)
        \/ \E n \in Sizes : get(n) \/ getSkip(n) \/ skip(n)
        \/ close \/ afterClose

Spec == Init /\ [][Next]_vars

-----------------------------------------------------------------------------
(* Properties.                                                             *)

\* Every variable keeps its type, and the position is inside the file.
TypeOK ==
  /\ file \in Seq(Int)
  /\ pos \in Nat /\ remain \in Nat
  /\ pos <= Len(file) \/ failed
  /\ closed \in BOOLEAN /\ failed \in BOOLEAN
  /\ out \in Seq(Int) /\ raised \in BOOLEAN

\* remain is the number of bytes that can still be read, unless a write
\* failed.
RemainReadable == ~failed => remain = readable

\* Both, which is inductive. (append, get, skip)
BufferInv == TypeOK /\ RemainReadable

Queue == INSTANCE ByteQueue WITH content <- SubSeq(file, pos + 1, Len(file))

\* The buffer is a queue of bytes: every get() returns the oldest ones, and
\* skip() raises exactly when there are not enough.
IsByteQueue == Queue!Spec
=============================================================================
