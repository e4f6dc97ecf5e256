------------------------------ MODULE ByteQueue ------------------------------
(* What the channels and the stream receivers expect of a buffer: a queue  *)
(* of bytes, until it is closed or an append fails.                        *)
EXTENDS Integers, Sequences

CONSTANTS Chunks,   \* what may be appended: sequences of bytes
          Sizes     \* how much may be asked for or skipped

VARIABLES content,  \* the bytes not read yet
          closed, failed,
          out,      \* what the last operation returned
          raised    \* whether it raised

vars == <<content, closed, failed, out, raised>>

Init == /\ content = <<>> /\ closed = FALSE /\ failed = FALSE
        /\ out = <<>> /\ raised = FALSE

Usable == ~closed /\ ~failed

\* A negative size asks for everything.
Amount(n) == IF n < 0 \/ n > Len(content) THEN Len(content) ELSE n
First(n)  == SubSeq(content, 1, Amount(n))
Rest(n)   == SubSeq(content, Amount(n) + 1, Len(content))

Put(s) == /\ Usable /\ content' = content \o s
          /\ out' = <<>> /\ raised' = FALSE

Get(n) == /\ Usable /\ content' = content
          /\ out' = First(n) /\ raised' = FALSE

GetSkip(n) == /\ Usable /\ content' = Rest(n)
              /\ out' = First(n) /\ raised' = FALSE

Skip(n) == /\ Usable /\ n >= 0 /\ out' = <<>>
           /\ \/ n <= Len(content) /\ content' = Rest(n) /\ raised' = FALSE
              \/ n > Len(content) /\ content' = content /\ raised' = TRUE

Refuse == closed /\ content' = content /\ out' = <<>> /\ raised' = TRUE

Operation == /\ \/ \E s \in Chunks : Put(s)
                \/ \E n \in Sizes : Get(n) \/ GetSkip(n) \/ Skip(n)
                \/ Refuse
             /\ UNCHANGED <<closed, failed>>

Close == closed' = TRUE /\ UNCHANGED <<content, failed, out, raised>>

\* Once an append has failed nothing is promised.
Fail == failed' = TRUE

Next == Operation \/ Close \/ Fail

Spec == Init /\ [][Next]_vars
=============================================================================
