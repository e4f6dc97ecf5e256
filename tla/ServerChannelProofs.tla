------------------------- MODULE ServerChannelProofs -------------------------
(* Proofs about ServerChannel, for any number of workers, any batches and  *)
(* any bounds: type correctness, the handover of the channel between the   *)
(* main loop and the workers, the order of its tasks, that it implements   *)
(* TaskSequence, and what it sends.                                        *)
EXTENDS ServerChannel, SequenceTheorems, TLAPS

-----------------------------------------------------------------------------
(* Lemmas about sequences and about program counters.                      *)

\* A part of a sequence of numbers is one.
LEMMA SubSeqType == ASSUME NEW s \in Seq(Nat), NEW i \in Nat \ {0}, NEW j \in Nat, j <= Len(s)
                    PROVE  SubSeq(s, i, j) \in Seq(Nat)
  OBVIOUS

\* So is a sequence of numbers with one more.
LEMMA AppendType == ASSUME NEW s \in Seq(Nat), NEW x \in Nat
                    PROVE  Append(s, x) \in Seq(Nat)
  OBVIOUS

\* And two of them, one after the other.
LEMMA ConcatType == ASSUME NEW s \in Seq(Nat), NEW u \in Seq(Nat)
                    PROVE  s \o u \in Seq(Nat)
  OBVIOUS

\* A thread that goes to a step of its own program keeps PcOK.
LEMMA GotoMain == ASSUME PcOK, NEW l \in MainPcs, Goto(Main, l) PROVE PcOK'
  BY ThreadsAssumption DEF PcOK, Goto, Threads

LEMMA GotoWorker == ASSUME PcOK, NEW w \in Workers, NEW l \in WorkerPcs, Goto(w, l)
                    PROVE  PcOK'
  BY ThreadsAssumption DEF PcOK, Goto, Threads

LEMMA GotoThread == ASSUME PcOK, NEW t \in Threads, NEW l, Goto(t, l),
                           t = Main => l \in MainPcs, t # Main => l \in WorkerPcs
                    PROVE  PcOK'
  BY GotoMain, GotoWorker DEF Threads

\* A step that moves no thread keeps PcOK.
LEMMA StayPut == ASSUME PcOK, UNCHANGED pc PROVE PcOK'
  BY DEF PcOK

\* The main loop flushes in handle_write() only, a worker everywhere else.
LEMMA FlushingPc == ASSUME PcOK, NEW t \in Threads, Flushing(t)
                    PROVE  IF t = Main THEN pc[t] = "handle_write" ELSE pc[t] \in WorkerFlushes
  BY DEF PcOK, Flushing, Threads, MainPcs, WorkerPcs, WorkerFlushes

-----------------------------------------------------------------------------
(* Type correctness, action by action.                                     *)

LEMMA PollType == TypeOK /\ Poll => TypeOK'
<1> SUFFICES ASSUME TypeOK, Poll PROVE TypeOK'
  OBVIOUS
<1> USE DEF MainPcs, modeVars, closeVars, taskVars, bufVars, readVars, loopVars,
            workVars, pollFrame, flushFrame, Jump, Closed, Handling
<1>1. CASE Scan
  BY <1>1, GotoMain DEF TypeOK, Scan
<1>2. CASE SelectBadDescriptor
  BY <1>2, GotoMain DEF TypeOK, SelectBadDescriptor
<1>3. CASE EndOfPoll
  BY <1>3, GotoMain DEF TypeOK, EndOfPoll
<1>4. CASE DrainTrigger
  <2>1. PcOK'
    BY <1>4, StayPut DEF TypeOK, DrainTrigger
  <2>2. ready' \subseteq {"trigger", "accept", "read", "write"} /\ trigger' \in BOOLEAN
    BY <1>4 DEF TypeOK, DrainTrigger
  <2>3. UNCHANGED <<pollFrame, closeVars, listening, inactive>>
    BY <1>4 DEF DrainTrigger
  <2> QED
    BY <2>1, <2>2, <2>3 DEF TypeOK
<1>5. CASE KillZombies
  BY <1>5, GotoMain DEF TypeOK, KillZombies
<1>6. CASE KillClose
  <2>1. PcOK'
    BY <1>6, GotoMain DEF TypeOK, KillClose
  <2>2. /\ connected' \in BOOLEAN /\ listening' \in BOOLEAN
        /\ closed_by' \in {"no", "done", "peer", "error", "reaped"}
    BY <1>6 DEF TypeOK, KillClose
  <2>3. UNCHANGED <<pollFrame, ready, inactive, trigger>>
    BY <1>6 DEF KillClose
  <2> QED
    BY <2>1, <2>2, <2>3 DEF TypeOK
<1>7. ASSUME NEW events \in SUBSET ready, Select(events) PROVE TypeOK'
  BY <1>7, GotoMain DEF TypeOK, Select
<1> QED
  BY <1>1, <1>2, <1>3, <1>4, <1>5, <1>6, <1>7 DEF Poll

LEMMA ReadType == TypeOK /\ Read => TypeOK'
<1> SUFFICES ASSUME TypeOK, Read PROVE TypeOK'
  OBVIOUS
<1> USE DEF MainPcs, modeVars, closeVars, taskVars, bufVars, readVars, loopVars,
            workVars, pollFrame, readFrame, flushFrame, Jump, Closed, Handling,
            TakePiece, preq, Threads
<1>1. CASE HandleReadIgnored
  BY <1>1, StayPut DEF TypeOK, HandleReadIgnored
<1>2. CASE HandleReadClosed
  BY <1>2, StayPut DEF TypeOK, HandleReadClosed
<1>3. ASSUME NEW batch \in Batches, HandleRead(batch) PROVE TypeOK'
  <2>1. batch \in Seq(Piece)
    BY BatchesAssumption
  <2> QED
    BY <1>3, <2>1, GotoMain DEF TypeOK, HandleRead
<1>4. CASE ReceivedNothing
  BY <1>4, StayPut DEF TypeOK, ReceivedNothing
<1>5. CASE ReceivedRequest
  <2>1. PcOK'
    BY <1>5, GotoMain DEF TypeOK, ReceivedRequest
  <2>2. preq \in Nat
    BY DEF TypeOK
  <2>3. /\ started' \in Nat /\ data' \in Seq(Piece) /\ proto_request' \in Nat
        /\ arrived' \in Seq(Nat) /\ current' \in [Threads -> Nat]
    BY <1>5, <2>2, AppendType DEF TypeOK, ReceivedRequest
  <2>4. UNCHANGED <<readFrame, modeVars, closeVars, taskVars, ready, inactive, queue>>
    BY <1>5 DEF ReceivedRequest
  <2> QED
    BY <2>1, <2>3, <2>4, SMTT(30) DEF TypeOK
<1>6. CASE ReceivedBad
  <2>1. PcOK'
    BY <1>6, GotoMain DEF TypeOK, ReceivedBad
  <2>2. started' \in Nat /\ data' = <<>>
    BY <1>6 DEF TypeOK, ReceivedBad
  <2>3. UNCHANGED closeVars \/ (connected' = FALSE /\ closed_by' \in {"error", closed_by})
    BY <1>6 DEF ReceivedBad
  <2>4. /\ connected' \in BOOLEAN
        /\ closed_by' \in {"no", "done", "peer", "error", "reaped"}
    BY <2>3 DEF TypeOK
  <2>5. UNCHANGED <<readFrame, modeVars, taskVars, proto_request, arrived, ready,
                    inactive, queue, current>>
    BY <1>6 DEF ReceivedBad
  <2> QED
    BY <2>1, <2>2, <2>4, <2>5 DEF TypeOK
<1>7. CASE ReceivedAll
  BY <1>7, GotoMain DEF TypeOK, ReceivedAll
<1>8. CASE QueueTask
  BY <1>8, GotoMain DEF TypeOK, QueueTask, Queued
<1>9. CASE SetSync
  <2>1. PcOK' /\ async_mode' \in BOOLEAN
    BY <1>9, GotoMain DEF TypeOK, SetSync
  <2>2. UNCHANGED <<readFrame, closeVars, taskVars, readVars, will_close, ready,
                    inactive, queue, current>>
    BY <1>9 DEF SetSync
  <2> QED
    BY <2>1, <2>2 DEF TypeOK
<1>10. CASE AddTask
  <2>1. PcOK' /\ queue' \in Nat
    BY <1>10, GotoMain DEF TypeOK, AddTask
  <2>2. UNCHANGED <<readFrame, modeVars, closeVars, taskVars, readVars, ready,
                    inactive, current>>
    BY <1>10 DEF AddTask
  <2> QED
    BY <2>1, <2>2 DEF TypeOK
<1> QED
  BY <1>1, <1>2, <1>3, <1>4, <1>5, <1>6, <1>7, <1>8, <1>9, <1>10 DEF Read

LEMMA HandleWriteType == TypeOK /\ HandleWrite => TypeOK'
<1> SUFFICES ASSUME TypeOK, HandleWrite PROVE TypeOK'
  OBVIOUS
<1> USE DEF closeVars, modeVars, taskVars, bufVars, readVars, workVars, pollFrame
<1>1. PcOK'
  BY StayPut, GotoMain DEF TypeOK, HandleWrite, MainPcs
<1>2. /\ connected' \in BOOLEAN /\ inactive' \in BOOLEAN
      /\ closed_by' \in {"no", "done", "peer", "error", "reaped"}
  BY DEF TypeOK, HandleWrite, Closed
<1>3. ready' \subseteq ready
  BY DEF HandleWrite, Handling
<1>4. UNCHANGED <<pollFrame, listening, trigger>>
  BY DEF HandleWrite
<1> QED
  BY <1>1, <1>2, <1>3, <1>4 DEF TypeOK

LEMMA FlushType == ASSUME TypeOK, NEW t \in Threads, FlushSome(t) PROVE TypeOK'
<1> USE DEF closeVars, modeVars, taskVars, bufVars, readVars, loopVars, flushFrame
<1>1. ASSUME NEW n \in 1..SendBytes, FlushSend(t, n) PROVE TypeOK'
  <2>1. n \in Nat \ {0} /\ n <= Len(outbuf) /\ outbuf \in Seq(Nat)
    BY <1>1, BoundsAssumption DEF TypeOK, FlushSend
  <2>2. sent' \in Seq(Nat)
    <3>1. SubSeq(outbuf, 1, n) \in Seq(Nat) /\ sent \in Seq(Nat)
      BY <2>1, SubSeqType, SMTT(40) DEF TypeOK
    <3> QED
      BY <1>1, <3>1, ConcatType DEF FlushSend
  <2>3. num_sent' \in [Threads -> Nat]
    BY <1>1, <2>1 DEF TypeOK, FlushSend
  <2>4. PcOK'
    BY <1>1, StayPut DEF TypeOK, FlushSend
  <2>5. UNCHANGED <<flushFrame, closeVars, outbuf, wrote, exc, inactive>>
    BY <1>1 DEF FlushSend
  <2> QED
    BY <2>2, <2>3, <2>4, <2>5 DEF TypeOK
<1>2. CASE FlushNothing(t)
  <2>1. PcOK'
    BY <1>2, FlushingPc, GotoThread
       DEF TypeOK, FlushNothing, SentNone, MainPcs, WorkerPcs, WorkerFlushes
  <2>2. inactive' \in BOOLEAN
    BY <1>2 DEF TypeOK, FlushNothing, Touched
  <2>3. UNCHANGED <<flushFrame, closeVars, bufVars, exc>>
    BY <1>2 DEF FlushNothing
  <2> QED
    BY <2>1, <2>2, <2>3 DEF TypeOK
<1>3. CASE FlushError(t)
  <2>1. PcOK'
    <3>1. Goto(t, SentNone(t)) \/ (t \in Workers /\ Goto(t, Raised(t)))
      BY <1>3 DEF FlushError
    <3>2. PcOK /\ IF t = Main THEN pc[t] = "handle_write" ELSE pc[t] \in WorkerFlushes
      BY <1>3, FlushingPc DEF TypeOK, FlushError
    <3> QED
      BY <3>1, <3>2, GotoThread, ThreadsAssumption
         DEF SentNone, Raised, MainPcs, WorkerPcs, WorkerFlushes
  <2>2. connected' \in BOOLEAN /\ inactive' \in BOOLEAN
    BY <1>3 DEF TypeOK, FlushError, Touched, Closed
  <2>3. closed_by' \in {"no", "done", "peer", "error", "reaped"}
    BY <1>3 DEF TypeOK, FlushError, Closed
  <2>4. exc' \in [Workers -> {"none", "os", "other"}]
    BY <1>3 DEF TypeOK, FlushError
  <2>5. UNCHANGED <<flushFrame, bufVars>>
    BY <1>3 DEF FlushError
  <2> QED
    BY <2>1, <2>2, <2>3, <2>4, <2>5 DEF TypeOK
<1>4. CASE FlushSkip(t)
  <2>1. PcOK'
    BY <1>4, FlushingPc, GotoThread
       DEF TypeOK, FlushSkip, SentSome, AfterWrite, Raised, MainPcs, WorkerPcs, WorkerFlushes
  <2>2. connected' \in BOOLEAN /\ inactive' \in BOOLEAN
    BY <1>4 DEF TypeOK, FlushSkip, Touched, Closed
  <2>3. closed_by' \in {"no", "done", "peer", "error", "reaped"}
    BY <1>4 DEF TypeOK, FlushSkip, Closed
  <2>4. exc' \in [Workers -> {"none", "os", "other"}]
    BY <1>4 DEF TypeOK, FlushSkip, Threads
  <2>5. num_sent' \in [Threads -> Nat]
    BY <1>4 DEF TypeOK, FlushSkip
  <2>6. outbuf' \in Seq(Nat)
    <3>1. UNCHANGED outbuf \/ (num_sent[t] <= Len(outbuf) /\ outbuf' = Skipped(t))
      BY <1>4 DEF FlushSkip
    <3>2. num_sent[t] \in Nat /\ outbuf \in Seq(Nat)
      BY DEF TypeOK
    <3>3. CASE num_sent[t] <= Len(outbuf) /\ outbuf' = Skipped(t)
      BY <3>2, <3>3, SubSeqType DEF Skipped
    <3> QED
      BY <3>1, <3>2, <3>3
  <2>7. UNCHANGED <<flushFrame, wrote, sent>>
    BY <1>4 DEF FlushSkip
  <2> QED
    BY <2>1, <2>2, <2>3, <2>4, <2>5, <2>6, <2>7 DEF TypeOK
<1> QED
  BY <1>1, <1>2, <1>3, <1>4 DEF FlushSome

LEMMA WriteType == ASSUME TypeOK, NEW w \in Workers, Write(w) PROVE TypeOK'
<1>1. w \in Threads /\ writes[w] \in Nat /\ current[w] \in Nat
  BY DEF TypeOK, Threads
<1>2. writes' \in [Workers -> Nat]
  BY <1>1 DEF TypeOK, Write
<1>3. outbuf' \in Seq(Nat) /\ wrote' \in Seq(Nat)
  <2>1. \/ UNCHANGED <<outbuf, wrote>>
        \/ outbuf' = Append(outbuf, current[w]) /\ wrote' = Append(wrote, current[w])
    BY DEF Write
  <2>2. outbuf \in Seq(Nat) /\ wrote \in Seq(Nat)
    BY DEF TypeOK
  <2>3. Append(outbuf, current[w]) \in Seq(Nat) /\ Append(wrote, current[w]) \in Seq(Nat)
    BY <1>1, <2>2, AppendType
  <2> QED
    BY <2>1, <2>2, <2>3
<1>4. exc' \in [Workers -> {"none", "os", "other"}]
  BY DEF TypeOK, Write
<1>5. PcOK'
  BY GotoWorker DEF TypeOK, Write, AfterWrite, WorkerPcs, WorkerFlushes
<1>6. UNCHANGED <<workFrame, modeVars, taskVars, inactive, task_lock, queue, trigger, current>>
  BY DEF Write
<1> QED
  BY <1>2, <1>3, <1>4, <1>5, <1>6, SMTT(40)
     DEF TypeOK, workFrame, modeVars, taskVars, closeVars, readVars, loopVars

LEMMA PopTaskType == ASSUME TypeOK, NEW w \in Workers, PopTask(w) PROVE TypeOK'
<1>1. PcOK'
  BY GotoWorker DEF TypeOK, PopTask, WorkerPcs
<1>2. Head(tasks) \in Nat
  BY DEF TypeOK, PopTask
<1>3. tasks' \in Seq(Nat) /\ disposed' \in Seq(Nat)
  BY <1>2, AppendType DEF TypeOK, PopTask
<1>4. current' \in [Threads -> Nat] /\ writes' \in [Workers -> Nat]
  BY <1>2, BoundsAssumption DEF TypeOK, PopTask
<1>5. late' \in BOOLEAN
  BY DEF TypeOK, PopTask
<1>6. UNCHANGED <<workFrame, modeVars, running_tasks, outbuf, wrote, exc,
                  inactive, task_lock, queue, trigger>>
  BY DEF PopTask
<1> QED
  BY <1>1, <1>3, <1>4, <1>5, <1>6, SMTT(40)
     DEF TypeOK, workFrame, modeVars, closeVars, readVars, loopVars

LEMMA ServiceType == ASSUME TypeOK, NEW w \in Workers, Service(w) PROVE TypeOK'
<1> USE DEF WorkerPcs, WorkerFlushes, modeVars, closeVars, taskVars, bufVars, readVars,
            loopVars, workVars, pollFrame, readFrame, flushFrame, workFrame, Jump
<1>1. CASE Take(w)
  <2>1. PcOK' /\ queue' \in Nat
    BY <1>1, GotoWorker DEF TypeOK, Take, Available
  <2>2. UNCHANGED <<readFrame, modeVars, closeVars, taskVars, readVars, ready,
                    inactive, current>>
    BY <1>1 DEF Take
  <2> QED
    BY <2>1, <2>2 DEF TypeOK
<1>2. CASE PopTask(w)
  BY <1>2, PopTaskType
<1>3. CASE NoMoreTasks(w)
  BY <1>3, GotoWorker, ZenonT(30) DEF TypeOK, NoMoreTasks
<1>4. CASE SetAsync(w)
  BY <1>4, GotoWorker DEF TypeOK, SetAsync
<1>5. CASE PullTrigger(w)
  BY <1>5, GotoWorker DEF TypeOK, PullTrigger, Awake
<1>6. CASE SetLastActivity(w)
  BY <1>6, GotoWorker, ZenonT(30) DEF TypeOK, SetLastActivity
<1>7. CASE Write(w)
  BY <1>7, WriteType
<1>8. CASE Flush(w)
  BY <1>8, GotoWorker DEF TypeOK, Flush
<1>9. CASE ApplicationError(w)
  BY <1>9, GotoWorker DEF TypeOK, ApplicationError
<1>10. ASSUME NEW c \in BOOLEAN, Finish(w, c) PROVE TypeOK'
  BY <1>10, GotoWorker DEF TypeOK, Finish
<1>11. ASSUME NEW c \in BOOLEAN, Fail(w, c) PROVE TypeOK'
  BY <1>11, GotoWorker DEF TypeOK, Fail
<1>12. CASE WillClose(w)
  BY <1>12, GotoWorker DEF TypeOK, WillClose, AfterTask
<1>13. CASE PullClose(w)
  BY <1>13, GotoWorker, SMTT(40) DEF TypeOK, PullClose, AfterTask, Awake
<1>14. CASE Readd(w)
  BY <1>14, GotoWorker DEF TypeOK, Readd
<1>15. CASE FlushSome(w)
  BY <1>15, FlushType DEF Threads
<1>16. CASE Flushed(w)
  BY <1>16, GotoWorker DEF TypeOK, Flushed
<1> QED
  BY <1>1, <1>2, <1>3, <1>4, <1>5, <1>6, <1>7, <1>8, <1>9, <1>10, <1>11, <1>12,
     <1>13, <1>14, <1>15, <1>16 DEF Service

LEMMA EnvironmentType == TypeOK /\ Environment => TypeOK'
<1> SUFFICES ASSUME TypeOK, Environment PROVE TypeOK'
  OBVIOUS
<1> USE DEF modeVars, closeVars, taskVars, bufVars, readVars, loopVars, workVars, flushFrame
<1>1. ASSUME NEW n \in 0..Len(outbuf), Cancel(n) PROVE TypeOK'
  <2>1. n \in Nat /\ n <= Len(outbuf) /\ outbuf \in Seq(Nat) /\ sent \in Seq(Nat)
        /\ tasks \in Seq(Nat) /\ disposed \in Seq(Nat)
    BY DEF TypeOK
  <2>2. SubSeq(outbuf, 1, n) \in Seq(Nat) /\ SubSeq(outbuf, n + 1, Len(outbuf)) \in Seq(Nat)
    BY <2>1, SubSeqType, SMTT(40)
  <2>3. /\ sent' = sent \o SubSeq(outbuf, 1, n)
        /\ outbuf' = SubSeq(outbuf, n + 1, Len(outbuf))
        /\ tasks' = <<>> /\ disposed' = disposed \o tasks
    BY <1>1 DEF Cancel
  <2>4. sent' \in Seq(Nat) /\ outbuf' \in Seq(Nat) /\ tasks' \in Seq(Nat) /\ disposed' \in Seq(Nat)
    BY <2>1, <2>2, <2>3, ConcatType
  <2>5. /\ running_tasks' \in BOOLEAN /\ async_mode' \in BOOLEAN /\ inactive' \in BOOLEAN
        /\ trigger' \in BOOLEAN
    BY <1>1 DEF Cancel, Awake
  <2>10. queue' \in Nat
    BY <1>1 DEF TypeOK, Cancel
  <2>6. connected' \in BOOLEAN /\ closed_by' \in {"no", "done", "peer", "error", "reaped"}
    BY <1>1 DEF TypeOK, Cancel, Closed
  <2>7. will_close' \in BOOLEAN
    BY <1>1 DEF TypeOK, Cancel
  <2>8. UNCHANGED <<readVars, loopVars, workVars, late, num_sent, wrote,
                    task_lock, peer, pc, current>>
    BY <1>1 DEF Cancel
  <2>9. PcOK'
    BY <2>8, StayPut DEF TypeOK
  <2> QED
    BY <2>4, <2>5, <2>6, <2>7, <2>8, <2>9, <2>10 DEF TypeOK
<1>2. CASE Timeout
  BY <1>2, StayPut DEF TypeOK, Timeout
<1>3. CASE PeerLeaves
  BY <1>3, StayPut DEF TypeOK, PeerLeaves
<1> QED
  BY <1>1, <1>2, <1>3 DEF Environment

LEMMA TypeInit == Init => TypeOK
<1> SUFFICES ASSUME Init PROVE TypeOK
  OBVIOUS
<1>1. PcOK
  BY ThreadsAssumption DEF Init, PcOK, Threads, MainPcs, WorkerPcs
<1>2. /\ num_sent \in [Threads -> Nat] /\ current \in [Threads -> Nat]
      /\ writes \in [Workers -> Nat] /\ exc \in [Workers -> {"none", "os", "other"}]
  BY DEF Init
<1>3. /\ tasks \in Seq(Nat) /\ disposed \in Seq(Nat) /\ arrived \in Seq(Nat)
      /\ outbuf \in Seq(Nat) /\ wrote \in Seq(Nat) /\ sent \in Seq(Nat)
      /\ data \in Seq(Piece)
  BY DEF Init
<1> QED
  BY <1>1, <1>2, <1>3 DEF Init, TypeOK

LEMMA TypeStep == TypeOK /\ [Next]_vars => TypeOK'
<1> SUFFICES ASSUME TypeOK, [Next]_vars PROVE TypeOK'
  OBVIOUS
<1>1. CASE MainStep
  BY <1>1, PollType, ReadType, HandleWriteType, FlushType DEF MainStep, Threads
<1>2. ASSUME NEW w \in Workers, Service(w) PROVE TypeOK'
  BY <1>2, ServiceType
<1>3. CASE Environment
  BY <1>3, EnvironmentType
<1>4. CASE UNCHANGED vars
  BY <1>4, StayPut
     DEF vars, TypeOK, modeVars, closeVars, taskVars, bufVars, readVars, loopVars, workVars
<1> QED
  BY <1>1, <1>2, <1>3, <1>4 DEF Next

\* Every variable of the channel, of its threads and of the server's shared
\* state keeps its type, whatever the threads do to the unlocked attributes.
THEOREM TypeCorrect == Spec => []TypeOK
<1>1. Init => TypeOK
  BY TypeInit
<1>2. TypeOK /\ [Next]_vars => TypeOK'
  BY TypeStep
<1> QED
  BY <1>1, <1>2, PTL DEF Spec

-----------------------------------------------------------------------------
(* The handover of the channel between the main loop and the workers.      *)

\* A worker that gives the channel back holds task_lock, and while it does
\* nobody can queue a task: set_async() finds running_tasks as it left it.
Giving == {"set_async", "pull_trigger", "last_activity"}
LockInv == /\ \A w \in Workers : pc[w] \in Giving => task_lock = w
           /\ task_lock # None => ~running_tasks

\* A channel that nobody services has nothing to do.
IdleInv == ~running_tasks => tasks = <<>>

\* will_close is set when a task ends: the channel of a task that is still in
\* progress was closing before the task began.
InTask == {"exec", "fail", "will_close"} \cup WorkerFlushes
LateInv == will_close /\ (\E w \in Workers : pc[w] \in InTask) => late

\* SingleService and Ownership are not inductive without LockInv; IdleInv and
\* LateInv are what ReapOnlyIdle and CloseOutsideSelect need beside them.
Handover == /\ SingleService /\ LockInv /\ Ownership /\ IdleInv /\ LateInv
            /\ ReapOnlyIdle /\ NoLostWakeup

LEMMA HandoverInit == Init => Handover
  BY ThreadsAssumption
     DEF Init, Handover, SingleService, LockInv, Ownership, IdleInv, LateInv, ReapOnlyIdle,
         NoLostWakeup, Threads, Active, Starting, Giving, InTask, WorkerFlushes

\* SingleService depends on nothing but who is active, what the main loop is
\* about to queue, the queue and running_tasks.
LEMMA SameService == ASSUME SingleService, UNCHANGED <<running_tasks, queue>>,
                            Starting' <=> Starting,
                            \A v \in Workers : Active(v)' <=> Active(v)
                     PROVE  SingleService'
  BY DEF SingleService

LEMMA HandoverPoll == TypeOK /\ Handover /\ Poll => Handover'
<1> SUFFICES ASSUME TypeOK, Handover, Poll PROVE Handover'
  OBVIOUS
<1> USE ThreadsAssumption
    DEF TypeOK, PcOK, Handover, SingleService, LockInv, Ownership, IdleInv, LateInv,
        ReapOnlyIdle, NoLostWakeup, Active, Starting, Giving, InTask, WorkerFlushes,
        Goto, Jump, Closed, Handling, readable, writable, Threads,
        modeVars, closeVars, taskVars, bufVars, readVars, loopVars, workVars, pollFrame, flushFrame
<1>1. CASE Scan
  BY <1>1 DEF Scan
<1>2. CASE SelectBadDescriptor
  BY <1>2 DEF SelectBadDescriptor
<1>3. CASE EndOfPoll
  BY <1>3 DEF EndOfPoll
<1>4. CASE DrainTrigger
  BY <1>4 DEF DrainTrigger
<1>5. CASE KillZombies
  <2>1. \A v \in Workers : Active(v)' <=> Active(v)
    BY <1>5 DEF KillZombies
  <2>2. Starting' <=> Starting
    BY <1>5 DEF KillZombies
  <2>3. SingleService'
    BY <1>5, <2>1, <2>2, SameService DEF KillZombies
  <2>4. LockInv' /\ Ownership' /\ IdleInv' /\ LateInv' /\ NoLostWakeup'
    BY <1>5 DEF KillZombies
  <2>5. ReapOnlyIdle'
    BY <1>5 DEF KillZombies, Zombie
  <2> QED
    BY <2>3, <2>4, <2>5
<1>6. CASE KillClose
  BY <1>6 DEF KillClose
<1>7. ASSUME NEW events \in SUBSET ready, Select(events) PROVE Handover'
  BY <1>7 DEF Select
<1> QED
  BY <1>1, <1>2, <1>3, <1>4, <1>5, <1>6, <1>7 DEF Poll

LEMMA HandoverRead == TypeOK /\ Handover /\ (Read \/ HandleWrite) => Handover'
<1> SUFFICES ASSUME TypeOK, Handover, Read \/ HandleWrite PROVE Handover'
  OBVIOUS
<1> USE ThreadsAssumption
    DEF TypeOK, PcOK, Handover, SingleService, LockInv, Ownership, IdleInv, LateInv,
        ReapOnlyIdle, NoLostWakeup, Active, Starting, Giving, InTask, WorkerFlushes,
        Goto, Jump, Closed, Handling, TakePiece, readable, writable, Threads,
        modeVars, closeVars, taskVars, bufVars, readVars, loopVars, workVars,
        pollFrame, readFrame, flushFrame
<1>1. CASE HandleReadIgnored
  BY <1>1 DEF HandleReadIgnored
<1>2. CASE HandleReadClosed
  BY <1>2 DEF HandleReadClosed
<1>3. ASSUME NEW batch \in Batches, HandleRead(batch) PROVE Handover'
  BY <1>3 DEF HandleRead
<1>4. CASE ReceivedNothing
  BY <1>4 DEF ReceivedNothing
<1>5. CASE ReceivedRequest
  BY <1>5 DEF ReceivedRequest
<1>6. CASE ReceivedBad
  <2>1. \A v \in Workers : Active(v)' <=> Active(v)
    BY <1>6 DEF ReceivedBad
  <2>2. Starting' <=> Starting
    BY <1>6 DEF ReceivedBad
  <2>3. SingleService'
    BY <1>6, <2>1, <2>2, SameService DEF ReceivedBad
  <2>4. LockInv' /\ IdleInv' /\ LateInv'
    BY <1>6, SMTT(30) DEF ReceivedBad
  <2>5. Ownership'
    BY <1>6 DEF ReceivedBad
  <2>6. ReapOnlyIdle' /\ NoLostWakeup'
    BY <1>6 DEF ReceivedBad
  <2> QED
    BY <2>3, <2>4, <2>5, <2>6
<1>7. CASE ReceivedAll
  BY <1>7 DEF ReceivedAll
<1>8. CASE QueueTask
  <2>1. running_tasks' = TRUE /\ UNCHANGED queue
    BY <1>8 DEF QueueTask
  <2>2. \A v \in Workers : Active(v)' <=> Active(v)
    BY <1>8 DEF QueueTask
  <2>3. ~Starting /\ (Starting' <=> ~running_tasks)
    BY <1>8 DEF QueueTask, Start
  <2>4. SingleService'
    <3>1. SingleService /\ queue \in Nat
      OBVIOUS
    <3> HIDE DEF TypeOK, Handover, Active, Starting
    <3> QED
      BY <2>1, <2>2, <2>3, <3>1
  <2>5. LockInv' /\ IdleInv' /\ ReapOnlyIdle'
    BY <1>8 DEF QueueTask, LockFree
  <2>6. Ownership' /\ LateInv' /\ NoLostWakeup'
    BY <1>8 DEF QueueTask, Start
  <2> QED
    BY <2>4, <2>5, <2>6
<1>9. CASE SetSync
  BY <1>9 DEF SetSync
<1>10. CASE AddTask
  BY <1>10 DEF AddTask
<1>11. CASE HandleWrite
  <2>1. \A v \in Workers : Active(v)' <=> Active(v)
    BY <1>11 DEF HandleWrite
  <2>2. Starting' <=> Starting
    BY <1>11 DEF HandleWrite
  <2>3. SingleService'
    BY <1>11, <2>1, <2>2, SameService DEF HandleWrite
  <2>4. LockInv' /\ Ownership' /\ IdleInv' /\ LateInv' /\ ReapOnlyIdle' /\ NoLostWakeup'
    BY <1>11, SMTT(30) DEF HandleWrite
  <2> QED
    BY <2>3, <2>4
<1> QED
  BY <1>1, <1>2, <1>3, <1>4, <1>5, <1>6, <1>7, <1>8, <1>9, <1>10, <1>11 DEF Read

\* Flushing moves no thread into a task, out of its service() or to select(),
\* and touches neither mode, tasks nor lock; the buffer only shrinks.
LEMMA HandoverFlush == ASSUME TypeOK, Handover, NEW t \in Threads, FlushSome(t)
                       PROVE  Handover'
<1>1. UNCHANGED <<async_mode, will_close, running_tasks, tasks, late, task_lock, queue,
                  trigger, ready>>
  BY DEF FlushSome, FlushSend, FlushNothing, FlushError, FlushSkip,
         flushFrame, modeVars, taskVars, loopVars
<1>2. (connected' => connected) /\ (outbuf' # <<>> => outbuf # <<>>)
  BY DEF TypeOK, FlushSome, FlushSend, FlushNothing, FlushError, FlushSkip, Skipped, Closed,
         bufVars, closeVars
<1>3. \A v \in Threads : v # t => pc'[v] = pc[v]
  BY DEF TypeOK, PcOK, FlushSome, FlushSend, FlushNothing, FlushError, FlushSkip, Goto
<1>4. IF t = Main THEN pc[t] = "handle_write" ELSE pc[t] \in WorkerFlushes
  BY FlushingPc DEF TypeOK, FlushSome, FlushSend, FlushNothing, FlushError, FlushSkip
<1>5. IF t = Main THEN pc'[t] \in {"handle_write", "dispatch"}
                  ELSE pc'[t] \in InTask \cup {"readd"}
  <2>1. CASE pc' = pc
    BY <1>4, <2>1 DEF InTask
  <2>2. CASE Goto(t, SentNone(t))
    BY <1>4, <2>2 DEF TypeOK, PcOK, Goto, SentNone, WorkerFlushes, InTask
  <2>3. CASE t \in Workers /\ Goto(t, Raised(t))
    BY <1>4, <2>3, ThreadsAssumption DEF TypeOK, PcOK, Goto, Raised, WorkerFlushes, InTask
  <2>4. CASE Goto(t, SentSome(t, outbuf'))
    BY <1>4, <2>4 DEF TypeOK, PcOK, Goto, SentSome, AfterWrite, WorkerFlushes, InTask
  <2>5. CASE t = Main /\ Goto(t, "dispatch")
    BY <2>5 DEF TypeOK, PcOK, Goto
  <2> QED
    BY <2>1, <2>2, <2>3, <2>4, <2>5
       DEF FlushSome, FlushSend, FlushNothing, FlushError, FlushSkip, Threads
<1>6. \A v \in Workers : /\ Active(v)' <=> Active(v)
                         /\ pc[v] \in Giving \cup {"pull_trigger", "pull_close"} => pc'[v] = pc[v]
                         /\ pc'[v] \in Giving => pc'[v] = pc[v]
                         /\ pc'[v] \in InTask => pc[v] \in InTask
  BY <1>3, <1>4, <1>5, ThreadsAssumption DEF Active, Giving, InTask, WorkerFlushes, Threads
<1>7. /\ Starting' <=> Starting
      /\ pc[Main] = "set_sync" <=> pc'[Main] = "set_sync"
      /\ pc'[Main] = "select" => pc[Main] = "select"
      /\ pc'[Main] = "kill" => pc[Main] = "kill"
  BY <1>3, <1>4, <1>5 DEF Starting, Threads
<1>8. SingleService'
  BY <1>1, <1>6, <1>7, SameService DEF Handover
<1>9. LockInv' /\ Ownership' /\ IdleInv'
  BY <1>1, <1>6, <1>7 DEF Handover, LockInv, Ownership, IdleInv, Giving
<1>10. LateInv' /\ ReapOnlyIdle'
  BY <1>1, <1>6, <1>7 DEF Handover, LateInv, ReapOnlyIdle
<1>11. NoLostWakeup'
  BY <1>1, <1>2, <1>6, <1>7 DEF Handover, NoLostWakeup, readable, writable
<1> QED
  BY <1>8, <1>9, <1>10, <1>11 DEF Handover

\* A step of a worker that stays inside service() and touches neither the
\* channel's mode nor its tasks keeps SingleService.
LEMMA SameServiceWorker ==
  ASSUME TypeOK, SingleService, NEW w \in Workers, NEW l, Active(w), Goto(w, l),
         l \notin Giving \cup {"idle"}, UNCHANGED <<running_tasks, queue>>
  PROVE  SingleService'
<1>1. \A v \in Workers : Active(v)' <=> Active(v)
  BY DEF TypeOK, PcOK, Threads, Active, Giving, Goto
<1>2. Starting' <=> Starting
  BY ThreadsAssumption DEF TypeOK, PcOK, Threads, Starting, Goto
<1> QED
  BY <1>1, <1>2, SameService

LEMMA HandoverService == ASSUME TypeOK, Handover, NEW w \in Workers, Service(w)
                         PROVE  Handover'
<1> USE ThreadsAssumption
    DEF TypeOK, PcOK, Handover, SingleService, LockInv, Ownership, IdleInv, LateInv,
        ReapOnlyIdle, NoLostWakeup, Active, Starting, Giving, InTask, WorkerFlushes,
        Goto, Jump, LockFree, AfterTask, Awake, readable, writable, Threads, modeVars,
        closeVars, taskVars, bufVars, readVars, loopVars, workVars, pollFrame, readFrame,
        flushFrame, workFrame
<1>1. CASE Take(w)
  <2>1. queue = 1 /\ queue' = 0 /\ UNCHANGED running_tasks
    BY <1>1 DEF Take, Available
  <2>2. \A v \in Workers : Active(v)' <=> v = w
    BY <1>1, <2>1 DEF Take
  <2>3. ~Starting'
    BY <1>1, <2>1 DEF Take
  <2>4. SingleService'
    <3>1. SingleService /\ running_tasks
      BY <2>1
    <3> HIDE DEF TypeOK, Handover, Active, Starting
    <3> QED
      BY <2>1, <2>2, <2>3, <3>1
  <2>5. LockInv' /\ Ownership' /\ IdleInv' /\ LateInv' /\ NoLostWakeup'
    BY <1>1 DEF Take
  <2>6. ReapOnlyIdle'
    BY <1>1, <2>1 DEF Take
  <2> QED
    BY <2>4, <2>5, <2>6
<1>2. CASE PopTask(w)
  BY <1>2 DEF PopTask
<1>3. CASE NoMoreTasks(w)
  <2>1. ~running_tasks' /\ UNCHANGED queue
    BY <1>3 DEF NoMoreTasks
  <2>2. queue = 0 /\ ~Starting /\ \A v \in Workers : Active(v) => v = w
    BY <1>3 DEF NoMoreTasks
  <2>3. ~Starting' /\ \A v \in Workers : ~Active(v)'
    BY <1>3, <2>2 DEF NoMoreTasks
  <2>4. SingleService'
    <3> HIDE DEF TypeOK, Handover, Active, Starting
    <3> QED
      BY <2>1, <2>2, <2>3
  <2>5. LockInv' /\ Ownership' /\ IdleInv'
    BY <1>3 DEF NoMoreTasks
  <2>6. LateInv' /\ ReapOnlyIdle' /\ NoLostWakeup'
    BY <1>3 DEF NoMoreTasks
  <2> QED
    BY <2>4, <2>5, <2>6
<1>4. CASE SetAsync(w)
  BY <1>4 DEF SetAsync
<1>5. CASE PullTrigger(w)
  BY <1>5 DEF PullTrigger
<1>6. CASE SetLastActivity(w)
  BY <1>6 DEF SetLastActivity
<1>7. CASE Write(w)
  <2>1. SingleService'
    BY <1>7, SameServiceWorker, ZenonT(30) DEF Write, AfterWrite
  <2>2. LockInv' /\ Ownership' /\ IdleInv' /\ LateInv'
    BY <1>7 DEF Write, AfterWrite
  <2>3. ReapOnlyIdle' /\ NoLostWakeup'
    BY <1>7 DEF Write, AfterWrite
  <2> QED
    BY <2>1, <2>2, <2>3
<1>8. CASE Flush(w)
  BY <1>8 DEF Flush
<1>9. CASE ApplicationError(w)
  BY <1>9 DEF ApplicationError
<1>10. ASSUME NEW c \in BOOLEAN, Finish(w, c) PROVE Handover'
  BY <1>10 DEF Finish
<1>11. ASSUME NEW c \in BOOLEAN, Fail(w, c) PROVE Handover'
  BY <1>11 DEF Fail
<1>12. CASE WillClose(w)
  BY <1>12, ZenonT(40) DEF WillClose
<1>13. CASE PullClose(w)
  BY <1>13 DEF PullClose
<1>14. CASE Readd(w)
  <2>1. queue' = queue + 1 /\ UNCHANGED running_tasks
    BY <1>14 DEF Readd
  <2>2. queue = 0 /\ running_tasks /\ ~Starting /\ \A v \in Workers : Active(v) => v = w
    BY <1>14 DEF Readd
  <2>3. ~Starting' /\ \A v \in Workers : ~Active(v)'
    BY <1>14, <2>2 DEF Readd
  <2>4. SingleService'
    <3> HIDE DEF TypeOK, Handover, Active, Starting
    <3> QED
      BY <2>1, <2>2, <2>3
  <2>5. LockInv' /\ Ownership' /\ IdleInv' /\ LateInv'
    BY <1>14 DEF Readd
  <2>6. ReapOnlyIdle' /\ NoLostWakeup'
    BY <1>14 DEF Readd
  <2> QED
    BY <2>4, <2>5, <2>6
<1>15. CASE FlushSome(w)
  BY <1>15, HandoverFlush
<1>16. CASE Flushed(w)
  BY <1>16 DEF Flushed
<1> QED
  BY <1>1, <1>2, <1>3, <1>4, <1>5, <1>6, <1>7, <1>8, <1>9, <1>10, <1>11, <1>12,
     <1>13, <1>14, <1>15, <1>16 DEF Service

LEMMA HandoverEnvironment == TypeOK /\ Handover /\ Environment => Handover'
<1> SUFFICES ASSUME TypeOK, Handover, Environment PROVE Handover'
  OBVIOUS
<1> USE DEF TypeOK, PcOK, Handover, SingleService, LockInv, Ownership, IdleInv, LateInv,
        ReapOnlyIdle, NoLostWakeup, Active, Starting, readable, writable, modeVars, closeVars,
        taskVars, bufVars, readVars, loopVars, workVars, flushFrame
<1>1. ASSUME NEW n \in 0..Len(outbuf), Cancel(n) PROVE Handover'
  <2>1. /\ queue > 0 /\ queue' = queue - 1 /\ pc[Main] = "scan" /\ UNCHANGED pc
        /\ ~running_tasks' /\ tasks' = <<>> /\ async_mode'
        /\ task_lock = None /\ UNCHANGED task_lock
    BY <1>1 DEF Cancel, LockFree
  <2>2. queue' = 0 /\ ~Starting /\ \A v \in Workers : ~Active(v)
    BY <2>1
  <2>3. ~Starting' /\ \A v \in Workers : ~Active(v)'
    BY <2>1, <2>2
  <2>4. SingleService'
    BY <2>1, <2>2, <2>3
  <2>5. LockInv' /\ Ownership' /\ IdleInv' /\ ReapOnlyIdle' /\ NoLostWakeup'
    BY <2>1
  <2>6. LateInv'
    BY <2>1, <2>2 DEF InTask, WorkerFlushes
  <2> QED
    BY <2>4, <2>5, <2>6
<1>2. CASE Timeout
  BY <1>2 DEF Timeout
<1>3. CASE PeerLeaves
  BY <1>3 DEF PeerLeaves
<1> QED
  BY <1>1, <1>2, <1>3 DEF Environment

LEMMA HandoverStep == TypeOK /\ Handover /\ [Next]_vars => Handover'
<1> SUFFICES ASSUME TypeOK, Handover, [Next]_vars PROVE Handover'
  OBVIOUS
<1>1. CASE MainStep
  BY <1>1, HandoverPoll, HandoverRead, HandoverFlush DEF MainStep, Threads
<1>2. ASSUME NEW w \in Workers, Service(w) PROVE Handover'
  BY <1>2, HandoverService
<1>3. CASE Environment
  BY <1>3, HandoverEnvironment
<1>4. CASE UNCHANGED vars
  BY <1>4
     DEF vars, modeVars, closeVars, taskVars, bufVars, readVars, loopVars, workVars, Handover,
         SingleService, LockInv, Ownership, IdleInv, LateInv, ReapOnlyIdle, NoLostWakeup,
         Active, Starting, readable, writable
<1> QED
  BY <1>1, <1>2, <1>3, <1>4 DEF Next

LEMMA HandoverHolds == Spec => [](TypeOK /\ Handover)
<1>1. Init => TypeOK /\ Handover
  BY TypeInit, HandoverInit
<1>2. TypeOK /\ Handover /\ [Next]_vars => (TypeOK /\ Handover)'
  BY TypeStep, HandoverStep
<1> QED
  BY <1>1, <1>2, PTL DEF Spec

\* However many workers there are and however requests arrive, the channel is
\* in one place at most, so that its tasks never run in two threads at once.
THEOREM ServicedOnce == Spec => []SingleService
<1>1. TypeOK /\ Handover => SingleService
  BY DEF Handover
<1> QED
  BY <1>1, HandoverHolds, PTL

\* The main loop stays off a channel whose tasks are running until it is to be
\* closed, and somebody will give back every channel it stays off.
THEOREM OwnedByOne == Spec => []Ownership
<1>1. TypeOK /\ Handover => Ownership
  BY DEF Handover
<1> QED
  BY <1>1, HandoverHolds, PTL

\* kill_zombies(), which takes no lock, never picks a channel with work to do.
THEOREM ReapsOnlyIdle == Spec => []ReapOnlyIdle
<1>1. TypeOK /\ Handover => ReapOnlyIdle
  BY DEF Handover
<1> QED
  BY <1>1, HandoverHolds, PTL

\* The main loop never sleeps on an outdated interest in the channel.
THEOREM WokenInTime == Spec => []NoLostWakeup
<1>1. TypeOK /\ Handover => NoLostWakeup
  BY DEF Handover
<1> QED
  BY <1>1, HandoverHolds, PTL

\* No descriptor is closed under the main loop's select(), unless a task is
\* serviced after will_close has been set.
THEOREM ClosedOutsideSelect == Spec => CloseOutsideSelect
<1> DEFINE Close == connected /\ ~connected' => pc[Main] # "select" \/ late
<1>1. TypeOK /\ Handover /\ [Next]_vars => [Close]_vars
  <2> SUFFICES ASSUME TypeOK, Handover, Next, connected, ~connected', pc[Main] = "select"
               PROVE  late
    OBVIOUS
  <2>1. Environment \/ \E w \in Workers : Service(w)
    <3>1. ~Poll
      BY DEF Poll, Scan, SelectBadDescriptor, EndOfPoll, DrainTrigger, KillZombies, KillClose,
             Select, Handling, Jump, closeVars
    <3>2. ~Read
      BY DEF Read, HandleReadIgnored, HandleReadClosed, HandleRead, ReceivedNothing,
             ReceivedRequest, ReceivedBad, ReceivedAll, QueueTask, SetSync, AddTask,
             Handling, TakePiece
    <3>3. ~HandleWrite
      BY DEF HandleWrite, Handling
    <3>4. ~FlushSome(Main)
      BY DEF FlushSome, FlushSend, FlushNothing, FlushError, FlushSkip, Flushing, WorkerFlushes
    <3> QED
      BY <3>1, <3>2, <3>3, <3>4 DEF Next, MainStep
  <2>2. ~Environment
    BY DEF Environment, Cancel, Timeout, PeerLeaves, closeVars
  <2>3. PICK w \in Workers : Service(w)
    BY <2>1, <2>2
  <2>4. FlushError(w)
    BY <2>3, ThreadsAssumption
       DEF Service, Take, PopTask, NoMoreTasks, SetAsync, PullTrigger, SetLastActivity, Write, AfterWrite,
           Flush, ApplicationError, Finish, Fail, WillClose, PullClose, Readd, FlushSome,
           FlushSend, FlushNothing, FlushSkip, Flushed, Jump, closeVars, workFrame
  <2>5. pc[w] \in WorkerFlushes /\ async_mode
    <3>1. pc[w] \in WorkerFlushes
      BY <2>4, FlushingPc, ThreadsAssumption DEF TypeOK, FlushError, Threads
    <3>2. async_mode
      BY <2>4 DEF FlushError, closeVars
    <3> QED
      BY <3>1, <3>2
  <2>6. will_close
    BY <2>5 DEF Handover, SingleService, Ownership, Active, WorkerFlushes
  <2> QED
    BY <2>5, <2>6 DEF Handover, LateInv, InTask
<1> QED
  BY <1>1, HandoverHolds, PTL DEF Spec, CloseOutsideSelect

-----------------------------------------------------------------------------
(* The order of the tasks.                                                 *)

\* Three facts about concatenation: taking the head of the second sequence
\* to the end of the first, moving the end of the third, and an empty middle.
LEMMA MoveHead == ASSUME NEW s \in Seq(Nat), NEW u \in Seq(Nat), u # <<>>
                  PROVE  Append(s, Head(u)) \o Tail(u) = s \o u
  BY SMTT(60)

LEMMA MoveEnd == ASSUME NEW s \in Seq(Nat), NEW u \in Seq(Nat), NEW x \in Nat
                 PROVE  /\ s \o Append(u, x) = (s \o u) \o <<x>>
                        /\ Append(s \o u, x) = (s \o u) \o <<x>>
  OBVIOUS

LEMMA EmptyEnd == ASSUME NEW s \in Seq(Nat) PROVE s \o <<>> = s
  OBVIOUS

\* The request between the parser and the queue.
InHand == IF pc[Main] = "queue_task" THEN <<current[Main]>> ELSE <<>>

LEMMA FIFOStep == TypeOK /\ FIFO /\ [Next]_vars => FIFO'
<1> SUFFICES ASSUME TypeOK, FIFO, [Next]_vars PROVE FIFO'
  OBVIOUS
<1>t. /\ disposed \in Seq(Nat) /\ tasks \in Seq(Nat) /\ arrived \in Seq(Nat)
      /\ current \in [Threads -> Nat]
  BY DEF TypeOK
<1>f. disposed \o tasks \o InHand = arrived
  BY DEF FIFO, InHand
<1>1. CASE ReceivedRequest
  <2>1. preq \in Nat /\ InHand = <<>> /\ InHand' = <<preq>>
    BY <1>1, <1>t DEF TypeOK, PcOK, ReceivedRequest, TakePiece, preq, InHand, Goto, Threads
  <2>2. arrived' = Append(arrived, preq) /\ UNCHANGED <<disposed, tasks>>
    BY <1>1 DEF ReceivedRequest, taskVars
  <2>3. arrived = disposed \o tasks
    BY <1>t, <1>f, <2>1, EmptyEnd, ConcatType
  <2>4. disposed' \o tasks' \o InHand' = arrived'
    BY <1>t, <2>1, <2>2, <2>3, MoveEnd
  <2> QED
    BY <2>4 DEF FIFO, InHand
<1>2. CASE QueueTask
  <2>1. InHand = <<current[Main]>> /\ InHand' = <<>>
    BY <1>2 DEF TypeOK, PcOK, QueueTask, InHand, Goto, Threads
  <2>2. tasks' = Append(tasks, current[Main]) /\ UNCHANGED <<disposed, arrived>>
    BY <1>2 DEF QueueTask, Queued, readVars
  <2>3. current[Main] \in Nat /\ tasks' \in Seq(Nat)
    BY <1>t, <2>2, AppendType DEF Threads
  <2>4. disposed' \o tasks' = arrived'
    BY <1>t, <1>f, <2>1, <2>2, <2>3, MoveEnd
  <2>5. disposed' \o tasks' \o InHand' = arrived'
    BY <1>t, <2>1, <2>2, <2>4, EmptyEnd
  <2> QED
    BY <2>5 DEF FIFO, InHand
<1>3. ASSUME NEW w \in Workers, PopTask(w) PROVE FIFO'
  <2>1. UNCHANGED <<InHand, arrived>>
    BY <1>3, ThreadsAssumption DEF TypeOK, PcOK, PopTask, InHand, Goto, Threads, workFrame, readVars
  <2>2. tasks # <<>> /\ tasks' = Tail(tasks) /\ disposed' = Append(disposed, Head(tasks))
    BY <1>3 DEF PopTask
  <2>3. disposed' \o tasks' = disposed \o tasks
    BY <1>t, <2>2, MoveHead
  <2> QED
    BY <1>f, <2>1, <2>3 DEF FIFO, InHand
<1>4. ASSUME NEW n \in 0..Len(outbuf), Cancel(n) PROVE FIFO'
  <2>1. disposed' = disposed \o tasks /\ tasks' = <<>> /\ UNCHANGED <<InHand, arrived>>
    BY <1>4 DEF Cancel, InHand, readVars
  <2>2. disposed' \o tasks' = disposed \o tasks
    BY <1>t, <2>1, EmptyEnd, ConcatType
  <2> QED
    BY <1>f, <2>1, <2>2 DEF FIFO, InHand
<1>5. ASSUME UNCHANGED <<disposed, tasks, arrived>>, UNCHANGED InHand PROVE FIFO'
  BY <1>f, <1>5 DEF FIFO, InHand
<1> USE DEF TypeOK, PcOK, InHand, Goto, Jump, Handling, TakePiece, Threads, modeVars, closeVars,
            taskVars, bufVars, readVars, loopVars, workVars, pollFrame, readFrame, flushFrame,
            workFrame
<1>6. Poll => UNCHANGED <<disposed, tasks, arrived>> /\ UNCHANGED InHand
  BY DEF Poll, Scan, SelectBadDescriptor, EndOfPoll, DrainTrigger, KillZombies, KillClose, Select
<1>7. Read => \/ ReceivedRequest \/ QueueTask
              \/ UNCHANGED <<disposed, tasks, arrived>> /\ UNCHANGED InHand
  BY DEF Read, HandleReadIgnored, HandleReadClosed, HandleRead, ReceivedNothing, ReceivedBad,
         ReceivedAll, SetSync, AddTask
<1>8. HandleWrite => UNCHANGED <<disposed, tasks, arrived>> /\ UNCHANGED InHand
  BY DEF HandleWrite
<1>9. ASSUME NEW t \in Threads, FlushSome(t)
      PROVE  UNCHANGED <<disposed, tasks, arrived>> /\ UNCHANGED InHand
  BY <1>9, FlushingPc, ThreadsAssumption
     DEF FlushSome, FlushSend, FlushNothing, FlushError, FlushSkip, SentNone, SentSome,
         AfterWrite, WorkerFlushes
<1>10. ASSUME NEW w \in Workers, Service(w)
       PROVE  \/ PopTask(w)
              \/ UNCHANGED <<disposed, tasks, arrived>> /\ UNCHANGED InHand
  BY <1>9, <1>10, ThreadsAssumption
     DEF Service, Take, NoMoreTasks, SetAsync, PullTrigger, SetLastActivity, Write, AfterWrite,
         Flush, ApplicationError, Finish, Fail, WillClose, PullClose, Readd, Flushed
<1>11. ASSUME Environment
       PROVE  \/ \E n \in 0..Len(outbuf) : Cancel(n)
              \/ UNCHANGED <<disposed, tasks, arrived>> /\ UNCHANGED InHand
  BY <1>11 DEF Environment, Timeout, PeerLeaves
<1>12. UNCHANGED vars => UNCHANGED <<disposed, tasks, arrived>> /\ UNCHANGED InHand
  BY DEF vars
<1> QED
  <2> HIDE DEF TypeOK, PcOK, InHand
  <2> QED
    BY <1>1, <1>2, <1>3, <1>4, <1>5, <1>6, <1>7, <1>8, <1>9, <1>10, <1>11, <1>12
       DEF Next, MainStep, Threads

\* Requests are serviced, or cancelled, in the order they arrived, each once.
THEOREM InOrder == Spec => []FIFO
<1>1. Init => FIFO
  BY DEF Init, FIFO, Threads
<1>2. TypeOK /\ FIFO /\ [Next]_vars => FIFO'
  BY FIFOStep
<1> QED
  BY <1>1, <1>2, TypeCorrect, PTL DEF Spec

-----------------------------------------------------------------------------
(* The channel implements TaskSequence.                                    *)

\* The tasks in progress, and the tasks queued or about to be.
InProgress == {current[w] : w \in {v \in Workers : Serving(v)}}
Waiting    == IF pc[Main] = "queue_task" THEN Append(tasks, current[Main]) ELSE tasks

\* A worker in a task's service() is active: there is one at most.
LEMMA OneServing == ASSUME Handover, NEW v \in Workers, NEW w \in Workers,
                           Active(v), Serving(w)
                    PROVE  v = w
  BY DEF Handover, SingleService, Active, Serving, WorkerFlushes

\* The head and the tail of a sequence that grows at the end.
LEMMA HeadOfAppend == ASSUME NEW u \in Seq(Nat), NEW x \in Nat, u # <<>>
                      PROVE  /\ Append(u, x) # <<>> /\ Head(Append(u, x)) = Head(u)
                             /\ Tail(Append(u, x)) = Append(Tail(u), x)
  OBVIOUS

LEMMA SequenceInit == Init => Sequence!Init
  BY ThreadsAssumption DEF Init, Sequence!Init, Serving, WorkerFlushes, Threads

\* A step of a worker other than popping a task leaves the tasks alone, and
\* begins none: it may only end one.
LEMMA WorkerEnds ==
  ASSUME TypeOK, Handover, NEW w \in Workers, Service(w), ~PopTask(w)
  PROVE  UNCHANGED Waiting /\ (UNCHANGED InProgress \/ Sequence!End)
<1>1. /\ UNCHANGED <<tasks, current>>
      /\ \A t \in Threads : t # w => pc'[t] = pc[t]
      /\ Serving(w)' => Serving(w)
  <2>1. CASE FlushSome(w)
    BY <2>1, FlushingPc, ThreadsAssumption
       DEF TypeOK, PcOK, FlushSome, FlushSend, FlushNothing, FlushError, FlushSkip, Goto,
           flushFrame, taskVars, Serving, WorkerFlushes, Threads
  <2>2. CASE ~FlushSome(w)
    BY <2>2, ThreadsAssumption
       DEF TypeOK, PcOK, Service, Take, NoMoreTasks, SetAsync, PullTrigger, SetLastActivity,
           Write, AfterWrite, Flush, ApplicationError, Finish, Fail, WillClose, PullClose, Readd, Flushed,
           AfterTask, Goto, Jump, pollFrame, readFrame, flushFrame, workFrame, taskVars,
           Serving, WorkerFlushes, Threads
  <2> QED
    BY <2>1, <2>2
<1>2. UNCHANGED Waiting
  BY <1>1, ThreadsAssumption DEF Waiting, Threads
<1>3. CASE Serving(w) <=> Serving(w)'
  <2>1. \A v \in Workers : Serving(v)' <=> Serving(v)
    BY <1>1, <1>3 DEF Serving, Threads
  <2> QED
    BY <1>1, <1>2, <2>1 DEF InProgress
<1>4. CASE Serving(w) /\ ~Serving(w)'
  <2>1. \A v \in Workers : Serving(v) => v = w
    BY <1>4, OneServing DEF Active, Serving, WorkerFlushes
  <2>2. \A v \in Workers : ~Serving(v)'
    BY <1>1, <1>4, <2>1 DEF Serving, Threads
  <2>3. InProgress # {} /\ InProgress' = {}
    BY <1>4, <2>2 DEF InProgress
  <2> QED
    BY <1>2, <2>3 DEF Sequence!End, InProgress, Waiting
<1> QED
  BY <1>1, <1>3, <1>4

LEMMA SequenceStep == TypeOK /\ Handover /\ [Next]_vars => [Sequence!Next]_(Sequence!vars)
<1> SUFFICES ASSUME TypeOK, Handover, [Next]_vars,
                    ~(UNCHANGED Waiting /\ UNCHANGED InProgress)
             PROVE  Sequence!Next
  BY DEF Sequence!vars, Waiting, InProgress
<1>t. tasks \in Seq(Nat) /\ current \in [Threads -> Nat] /\ Main \in Threads
  BY DEF TypeOK, Threads
<1>1. CASE ReceivedRequest
  <2>1. preq \in Nat /\ Waiting = tasks /\ Waiting' = Append(tasks, preq)
    BY <1>1 DEF TypeOK, PcOK, ReceivedRequest, TakePiece, preq, Waiting, Goto, Threads, taskVars
  <2>2. UNCHANGED InProgress
    BY <1>1, ThreadsAssumption
       DEF TypeOK, PcOK, ReceivedRequest, Goto, Threads, InProgress, Serving
  <2>3. Waiting' # <<>> /\ Waiting = SubSeq(Waiting', 1, Len(Waiting') - 1)
    BY <1>t, <2>1
  <2>4. Sequence!Queue
    BY <2>2, <2>3 DEF Sequence!Queue, Waiting, InProgress
  <2> QED
    BY <2>4 DEF Sequence!Next
<1>2. ASSUME NEW w \in Workers, PopTask(w) PROVE Sequence!Next
  <2>1. /\ \A v \in Workers : ~Serving(v)
        /\ \A v \in Workers : Serving(v)' <=> v = w
    <3>1. Active(w) /\ ~Serving(w)
      BY <1>2 DEF PopTask, Active, Serving, WorkerFlushes
    <3>2. \A v \in Workers : ~Serving(v)
      BY <3>1, OneServing
    <3>3. Serving(w)' /\ \A v \in Workers \ {w} : Serving(v)' <=> Serving(v)
      BY <1>2 DEF TypeOK, PcOK, PopTask, Goto, Threads, Serving
    <3> QED
      BY <3>2, <3>3
  <2>2. tasks # <<>> /\ tasks' = Tail(tasks) /\ current'[w] = Head(tasks)
        /\ UNCHANGED <<pc[Main], current[Main]>>
    BY <1>2, <1>t, ThreadsAssumption DEF TypeOK, PcOK, PopTask, Goto, Threads
  <2>3. Waiting # <<>> /\ Waiting' = Tail(Waiting) /\ Head(Waiting) = Head(tasks)
    <3>1. current[Main] \in Nat
      BY <1>t
    <3> QED
      BY <1>t, <2>2, <3>1, HeadOfAppend DEF Waiting
  <2>4. InProgress = {} /\ InProgress' = {Head(tasks)}
    BY <2>1, <2>2 DEF InProgress
  <2>5. Sequence!Begin
    BY <2>3, <2>4 DEF Sequence!Begin, Waiting, InProgress
  <2> QED
    BY <2>5 DEF Sequence!Next
<1>3. ASSUME NEW n \in 0..Len(outbuf), Cancel(n) PROVE Sequence!Next
  <2>1. UNCHANGED <<pc, current>> /\ tasks' = <<>> /\ queue > 0 /\ pc[Main] = "scan"
    BY <1>3 DEF Cancel
  <2>2. \A v \in Workers : ~Serving(v) /\ ~Serving(v)'
    BY <2>1 DEF Handover, SingleService, Active, Serving, WorkerFlushes
  <2>3. Waiting' = <<>>
    BY <2>1 DEF Waiting
  <2>4. InProgress = {} /\ InProgress' = {}
    BY <2>2 DEF InProgress
  <2>5. Sequence!Cancel
    BY <2>3, <2>4 DEF Sequence!Cancel, Waiting, InProgress
  <2> QED
    BY <2>5 DEF Sequence!Next
<1>4. ASSUME NEW w \in Workers, Service(w), ~PopTask(w) PROVE Sequence!Next
  BY <1>4, WorkerEnds DEF Sequence!Next
<1>5. CASE QueueTask
  <2>1. Waiting' = Waiting
    BY <1>5 DEF TypeOK, PcOK, QueueTask, Queued, Goto, Threads, Waiting
  <2>2. UNCHANGED InProgress
    BY <1>5, ThreadsAssumption DEF TypeOK, PcOK, QueueTask, Goto, Threads, InProgress, Serving
  <2> QED
    BY <2>1, <2>2
\* Every other step leaves both alone.
<1>6. ASSUME /\ UNCHANGED <<tasks, current>>
             /\ (pc[Main] = "queue_task") <=> (pc'[Main] = "queue_task")
             /\ \A v \in Workers : pc'[v] = pc[v]
      PROVE  FALSE
  <2>1. \A v \in Workers : Serving(v)' <=> Serving(v)
    BY <1>6 DEF Serving
  <2>2. UNCHANGED Waiting /\ UNCHANGED InProgress
    BY <1>6, <2>1 DEF Waiting, InProgress
  <2> QED
    BY <2>2
<1> USE ThreadsAssumption
    DEF TypeOK, PcOK, Goto, Jump, Handling, TakePiece, Threads, modeVars, taskVars,
        pollFrame, readFrame, flushFrame
<1>7. ~Poll
  BY <1>6 DEF Poll, Scan, SelectBadDescriptor, EndOfPoll, DrainTrigger, KillZombies, KillClose,
              Select
<1>8. CASE Read
  BY <1>1, <1>5, <1>6, <1>8
     DEF Read, HandleReadIgnored, HandleReadClosed, HandleRead, ReceivedNothing, ReceivedBad,
         ReceivedAll, SetSync, AddTask
<1>9. ~HandleWrite
  BY <1>6 DEF HandleWrite
<1>10. ~FlushSome(Main)
  BY <1>6, FlushingPc
     DEF FlushSome, FlushSend, FlushNothing, FlushError, FlushSkip, SentNone, SentSome, AfterWrite
<1>11. CASE Environment
  BY <1>3, <1>6, <1>11 DEF Environment, Timeout, PeerLeaves
<1>12. CASE UNCHANGED vars
  BY <1>6, <1>12 DEF vars
<1> QED
  <2> HIDE DEF TypeOK, PcOK
  <2> QED
    BY <1>2, <1>4, <1>7, <1>8, <1>9, <1>10, <1>11, <1>12 DEF Next, MainStep

\* A channel does what queue_task() promises: its tasks are processed in
\* sequence, oldest first and one at a time, and cancelled only all together
\* and while none is in progress.
THEOREM ImplementsTaskSequence == Spec => ProcessedInSequence
<1>1. Init => Sequence!Init
  BY SequenceInit
<1>2. TypeOK /\ Handover /\ [Next]_vars => [Sequence!Next]_(Sequence!vars)
  BY SequenceStep
<1> QED
  BY <1>1, <1>2, HandoverHolds, PTL DEF Spec, ProcessedInSequence, Sequence!Spec

-----------------------------------------------------------------------------
(* What goes over the wire.                                                *)

\* k units of b are the last ones of s, and without the repetition the two
\* make up w.
Whole(k, s, b, w) == /\ k <= Len(s) /\ k <= Len(b)
                     /\ SubSeq(s, 1, Len(s) - k) \o b = w
                     /\ s \o SubSeq(b, k + 1, Len(b)) = w

\* Who may be between send() and skip(), and on what channel: the main loop
\* flushes only while no task can touch the buffer.
FlushInv ==
  /\ \A t \in Threads : num_sent[t] > 0 => Flushing(t)
  /\ closed_by = "done" => ~connected
  /\ ~late /\ pc[Main] = "handle_write" =>
       /\ \A w \in Workers : pc[w] \notin InTask
       /\ running_tasks => will_close
  /\ ~late => \A t \in Threads : num_sent[t] > 0 => connected

\* The units sent and not yet skipped are the last ones sent and the first
\* ones buffered: WireIntegrity says it of the former only, and skip() needs
\* the latter.
WireInv == ~late => Whole(Unskipped, sent, outbuf, wrote)

Wire == TypeOK /\ Handover /\ FlushInv /\ WireInv /\ CleanClose

\* Unskipped, of any state.
UnskippedOf(ns) == LET S == {t \in Threads : ns[t] > 0}
                   IN IF S = {} THEN 0 ELSE ns[CHOOSE t \in S : TRUE]

\* No thread, or one alone, has something half sent.
LEMMA NoneUnskipped == ASSUME NEW ns, \A t \in Threads : ~(ns[t] > 0) PROVE UnskippedOf(ns) = 0
  BY DEF UnskippedOf

LEMMA OneUnskipped ==
  ASSUME NEW ns, NEW t \in Threads, ns[t] > 0, \A u \in Threads : ns[u] > 0 => u = t
  PROVE  UnskippedOf(ns) = ns[t]
<1>1. {u \in Threads : ns[u] > 0} = {t}
  OBVIOUS
<1> QED
  BY <1>1 DEF UnskippedOf

\* Between send() and skip() of one thread no other is in _flush_some().
LEMMA OneFlushing ==
  ASSUME TypeOK, Handover, FlushInv, ~late, NEW t \in Threads, NEW u \in Threads,
         Flushing(t), num_sent[u] > 0
  PROVE  t = u
<1>1. Flushing(u)
  BY DEF FlushInv
<1>2. CASE t = Main \/ u = Main
  BY <1>1, <1>2, FlushingPc, ThreadsAssumption DEF TypeOK, FlushInv, InTask, Threads
<1>3. CASE t \in Workers /\ u \in Workers
  <2>1. pc[t] \in WorkerFlushes /\ pc[u] \in WorkerFlushes
    BY <1>1, <1>3, FlushingPc, ThreadsAssumption DEF TypeOK
  <2>2. Active(t) /\ Active(u)
    BY <2>1 DEF Active, WorkerFlushes
  <2> QED
    BY <1>3, <2>2 DEF Handover, SingleService
<1> QED
  BY <1>2, <1>3 DEF Threads

\* A thread that flushes and has sent nothing, a task between two calls, a
\* main loop that has the channel, and shutdown() find nothing half sent.
LEMMA NothingHalfSent ==
  ASSUME TypeOK, Handover, FlushInv, ~late,
         \/ \E t \in Threads : Flushing(t) /\ num_sent[t] = 0
         \/ \E w \in Workers : pc[w] = "exec"
         \/ async_mode /\ pc[Main] \notin {"set_sync", "handle_write"}
         \/ queue > 0 /\ pc[Main] = "scan"
  PROVE  Unskipped = 0 /\ \A t \in Threads : ~(num_sent[t] > 0)
<1> SUFFICES ASSUME NEW u \in Threads, num_sent[u] > 0 PROVE FALSE
  BY NoneUnskipped DEF Unskipped, UnskippedOf
<1>1. IF u = Main THEN pc[u] = "handle_write" ELSE u \in Workers /\ pc[u] \in WorkerFlushes
  BY FlushingPc DEF TypeOK, FlushInv, Threads
<1>2. ~ \E t \in Threads : Flushing(t) /\ num_sent[t] = 0
  BY OneFlushing
<1>3. u \in Workers => Active(u) /\ pc[u] \in InTask
  BY <1>1, ThreadsAssumption DEF Active, WorkerFlushes, InTask
<1>4. ASSUME NEW w \in Workers, pc[w] = "exec" PROVE FALSE
  <2>1. Active(w) /\ pc[w] \in InTask
    BY <1>4 DEF Active, InTask
  <2> QED
    BY <1>1, <1>3, <1>4, <2>1 DEF Handover, SingleService, FlushInv, WorkerFlushes
<1>5. ~(async_mode /\ pc[Main] \notin {"set_sync", "handle_write"})
  BY <1>1, <1>3 DEF Handover, SingleService, Ownership, LateInv
<1>6. ~(queue > 0 /\ pc[Main] = "scan")
  BY <1>1, <1>3 DEF TypeOK, Handover, SingleService
<1> QED
  BY <1>2, <1>4, <1>5, <1>6

\* A worker enters a task only by popping it.
LEMMA EntersTask ==
  ASSUME TypeOK, NEW w \in Workers, Service(w), pc'[w] \in InTask, pc[w] \notin InTask
  PROVE  PopTask(w)
<1>1. ~FlushSome(w)
  BY FlushingPc, ThreadsAssumption
     DEF TypeOK, FlushSome, FlushSend, FlushNothing, FlushError, FlushSkip, InTask, Threads
<1> QED
  BY <1>1, ThreadsAssumption
     DEF TypeOK, PcOK, Service, Take, NoMoreTasks, SetAsync, PullTrigger, SetLastActivity,
         Write, Flush, ApplicationError, Finish, Fail, WillClose, PullClose, Readd, Flushed,
         AfterTask, Goto, Jump, pollFrame, Threads, InTask, WorkerFlushes

\* The steps that move a thread only outside _flush_some(), and send nothing.
LEMMA OtherThreads ==
  ASSUME TypeOK, NEW t \in Threads,
         \/ t = Main /\ (Poll \/ Read \/ HandleWrite)
         \/ t \in Workers /\ Service(t) /\ ~FlushSome(t)
  PROVE  /\ UNCHANGED <<num_sent, sent>>
         /\ \A u \in Threads : u # t => pc'[u] = pc[u]
         /\ pc' = pc \/ ~Flushing(t) \/ num_sent[t] = 0
<1> USE ThreadsAssumption
    DEF TypeOK, PcOK, Threads, Goto, Jump, Handling, TakePiece, Flushing, WorkerFlushes, bufVars, pollFrame,
        readFrame, flushFrame, workFrame
<1>1. CASE t = Main /\ Poll
  BY <1>1 DEF Poll, Scan, SelectBadDescriptor, EndOfPoll, DrainTrigger, KillZombies, KillClose, Select
<1>2. CASE t = Main /\ Read
  BY <1>2 DEF Read, HandleReadIgnored, HandleReadClosed, HandleRead, ReceivedNothing, ReceivedRequest,
              ReceivedBad, ReceivedAll, QueueTask, SetSync, AddTask
<1>3. CASE t = Main /\ HandleWrite
  BY <1>3 DEF HandleWrite
<1>4. CASE t \in Workers /\ Service(t) /\ ~FlushSome(t)
  BY <1>4 DEF Service, Take, PopTask, NoMoreTasks, SetAsync, PullTrigger, SetLastActivity, Write, AfterWrite,
              Flush, ApplicationError, Finish, Fail, WillClose, PullClose, Readd, Flushed
<1> QED
  BY <1>1, <1>2, <1>3, <1>4

\* late stays once it is set, and so does will_close.
LEMMA LateStays == ASSUME TypeOK, Next PROVE (late => late') /\ (will_close => will_close')
<1> DEFINE Stays == (late => late') /\ (will_close => will_close')
<1>t. late \in BOOLEAN /\ will_close \in BOOLEAN
  BY DEF TypeOK
<1> USE DEF Jump, modeVars, taskVars, pollFrame, flushFrame, readFrame, workFrame
<1>1. Poll => UNCHANGED <<late, will_close>>
  BY DEF Poll, Scan, SelectBadDescriptor, EndOfPoll, DrainTrigger, KillZombies, KillClose, Select
<1>2. Read => Stays
  BY <1>t DEF Read, HandleReadIgnored, HandleReadClosed, HandleRead, ReceivedNothing, ReceivedRequest,
         ReceivedBad, ReceivedAll, QueueTask, SetSync, AddTask
<1>3. HandleWrite => Stays
  BY <1>t DEF HandleWrite
<1>4. \A t \in Threads : FlushSome(t) => Stays
  BY <1>t DEF FlushSome, FlushSend, FlushNothing, FlushError, FlushSkip
<1>5. \A w \in Workers : Service(w) => Stays
  BY <1>4, <1>t DEF Service, Take, PopTask, NoMoreTasks, SetAsync, PullTrigger, SetLastActivity, Write,
              Flush, ApplicationError, Finish, Fail, WillClose, PullClose, Readd, Flushed, Threads
<1>6. Environment => Stays
  BY <1>t DEF Environment, Cancel, Timeout, PeerLeaves
<1> QED
  BY <1>1, <1>2, <1>3, <1>4, <1>5, <1>6 DEF Next, MainStep, Threads

\* A step that closes the connection comes where nothing is half sent.
LEMMA ClosedQuiet ==
  ASSUME TypeOK, Handover, FlushInv, Next, ~late, connected, ~connected'
  PROVE  \A t \in Threads : ~(num_sent[t] > 0) \/ FlushSkip(t)
<1>1. CASE Poll \/ Read \/ HandleWrite
  <2>1. async_mode /\ pc[Main] \in {"kill", "dispatch", "received"}
    BY <1>1 DEF Poll, Scan, SelectBadDescriptor, EndOfPoll, DrainTrigger, KillZombies, KillClose, Select,
         Read, HandleReadIgnored, HandleReadClosed, HandleRead, ReceivedNothing, ReceivedRequest,
         ReceivedBad, ReceivedAll, QueueTask, SetSync, AddTask, HandleWrite, Jump, Closed, Handling,
         TakePiece, closeVars
  <2> QED
    BY <2>1, NothingHalfSent
<1>2. ASSUME NEW t \in Threads, FlushSome(t)
      PROVE  \A u \in Threads : ~(num_sent[u] > 0) \/ FlushSkip(u)
  <2>1. FlushError(t) \/ FlushSkip(t)
    BY <1>2 DEF FlushSome, FlushSend, FlushNothing, closeVars
  <2>2. CASE FlushError(t)
    BY <2>2, NothingHalfSent DEF FlushError
  <2>3. CASE FlushSkip(t)
    BY <2>3, OneFlushing DEF FlushSkip
  <2> QED
    BY <2>1, <2>2, <2>3
<1>3. ASSUME NEW w \in Workers, Service(w), ~FlushSome(w) PROVE FALSE
  BY <1>3 DEF Service, Take, PopTask, NoMoreTasks, SetAsync, PullTrigger, SetLastActivity, Write, Flush,
       ApplicationError, Finish, Fail, WillClose, PullClose, Readd, Flushed, Jump, closeVars, workFrame
<1>4. CASE Environment
  <2>1. PICK n \in 0..Len(outbuf) : Cancel(n)
    BY <1>4 DEF Environment, Timeout, PeerLeaves, closeVars
  <2> QED
    BY <2>1, NothingHalfSent DEF Cancel
<1> QED
  BY <1>1, <1>2, <1>3, <1>4 DEF Next, MainStep, Threads

\* FlushInv is kept: the main loop enters handle_write() in asynchronous mode
\* only, when no worker is in a task, and from then on a task can be started
\* only late.
LEMMA FlushInvStep == TypeOK /\ Handover /\ FlushInv /\ Next => FlushInv'
<1> SUFFICES ASSUME TypeOK, Handover, FlushInv, Next PROVE FlushInv'
  OBVIOUS
<1>t. num_sent \in [Threads -> Nat]
  BY DEF TypeOK
<1>1. \A t \in Threads : num_sent'[t] > 0 => Flushing(t)' 
  <2>1. ASSUME NEW t \in Threads,
               \/ t = Main /\ (Poll \/ Read \/ HandleWrite)
               \/ t \in Workers /\ Service(t) /\ ~FlushSome(t),
               NEW u \in Threads, num_sent'[u] > 0
        PROVE  Flushing(u)'
    <3>1. num_sent[u] > 0 /\ pc'[u] = pc[u]
      BY <2>1, <1>t, OtherThreads DEF FlushInv
    <3> QED
      BY <3>1 DEF FlushInv, Flushing
  <2>2. ASSUME NEW t \in Threads, FlushSome(t), NEW u \in Threads, num_sent'[u] > 0
        PROVE  Flushing(u)'
    <3>1. /\ u # t => num_sent[u] > 0 /\ pc'[u] = pc[u]
          /\ Flushing(t) /\ (u = t => pc' = pc)
      BY <2>2, <1>t DEF TypeOK, PcOK, FlushSome, FlushSend, FlushNothing, FlushError, FlushSkip, Goto, bufVars
    <3> QED
      BY <3>1 DEF FlushInv, Flushing
  <2>3. CASE Environment
    BY <2>3 DEF Environment, Cancel, Timeout, PeerLeaves, FlushInv, Flushing, bufVars
  <2>4. CASE Poll \/ Read \/ HandleWrite
    BY <2>1, <2>4 DEF Threads
  <2>5. ASSUME NEW w \in Workers, Service(w) PROVE \A u \in Threads : num_sent'[u] > 0 => Flushing(u)'
    BY <2>1, <2>2, <2>5 DEF Threads
  <2>6. CASE FlushSome(Main)
    BY <2>2, <2>6 DEF Threads
  <2> QED
    BY <2>3, <2>4, <2>5, <2>6 DEF Next, MainStep
<1>2. closed_by' = "done" => ~connected'
  <2>1. connected' \in {connected, FALSE} /\ (connected' = connected => closed_by' = closed_by \/ ~connected)
    <3> USE DEF Closed, Jump, closeVars, workFrame
    <3>1. Poll => (connected' = FALSE) \/ UNCHANGED closeVars
      BY DEF Poll, Scan, SelectBadDescriptor, EndOfPoll, DrainTrigger, KillZombies, KillClose, Select
    <3>2. Read => (connected' = FALSE) \/ UNCHANGED closeVars
      BY DEF Read, HandleReadIgnored, HandleReadClosed, HandleRead, ReceivedNothing, ReceivedRequest,
             ReceivedBad, ReceivedAll, QueueTask, SetSync, AddTask
    <3>3. HandleWrite => (connected' = FALSE) \/ UNCHANGED closeVars
      BY DEF HandleWrite
    <3>4. \A t \in Threads : FlushSome(t) => (connected' = FALSE) \/ UNCHANGED closeVars
      BY DEF FlushSome, FlushSend, FlushNothing, FlushError, FlushSkip
    <3>5. \A w \in Workers : Service(w) => (connected' = FALSE) \/ UNCHANGED closeVars
      BY <3>4 DEF Service, Take, PopTask, NoMoreTasks, SetAsync, PullTrigger, SetLastActivity, Write,
                  Flush, ApplicationError, Finish, Fail, WillClose, PullClose, Readd, Flushed, Threads
    <3>6. Environment => (connected' = FALSE) \/ UNCHANGED closeVars
      BY DEF Environment, Cancel, Timeout, PeerLeaves
    <3>7. (connected' = FALSE) \/ UNCHANGED closeVars
      BY <3>1, <3>2, <3>3, <3>4, <3>5, <3>6 DEF Next, MainStep, Threads
    <3> QED
      BY <3>7 DEF TypeOK
  <2> QED
    BY <2>1 DEF FlushInv
<1>3. ASSUME ~late', pc'[Main] = "handle_write"
      PROVE  /\ \A w \in Workers : pc'[w] \notin InTask
             /\ running_tasks' => will_close'
  <2>1. ~late /\ (will_close => will_close')
    BY <1>3, LateStays
  <2>2. CASE pc[Main] # "handle_write"
    <3>1. HandleWrite
      <4>0. ASSUME NEW w \in Workers, Service(w), ~FlushSome(w) PROVE FALSE
        <5>1. pc'[Main] = pc[Main]
          BY <4>0, OtherThreads, ThreadsAssumption DEF Threads
        <5> QED
          BY <5>1, <1>3, <2>2
      <4> USE ThreadsAssumption
          DEF TypeOK, PcOK, Threads, Goto, Jump, pollFrame, readFrame, flushFrame, Handling, TakePiece
      <4>1. ~Poll
        BY <1>3, <2>2
           DEF Poll, Scan, SelectBadDescriptor, EndOfPoll, DrainTrigger, KillZombies, KillClose, Select
      <4>2. ~Read
        BY <1>3, <2>2
           DEF Read, HandleReadIgnored, HandleReadClosed, HandleRead, ReceivedNothing, ReceivedRequest,
               ReceivedBad, ReceivedAll, QueueTask, SetSync, AddTask
      <4>3. \A w \in Workers : ~Service(w)
        <5> SUFFICES ASSUME NEW w \in Workers, Service(w) PROVE FALSE
          OBVIOUS
        <5>1. CASE FlushSome(w)
          BY <1>3, <2>2, <5>1 DEF FlushSome, FlushSend, FlushNothing, FlushError, FlushSkip
        <5>2. CASE ~FlushSome(w)
          BY <4>0, <5>2
        <5> QED
          BY <5>1, <5>2
      <4>4. ~Environment
        BY <1>3, <2>2 DEF Environment, Cancel, Timeout, PeerLeaves
      <4>5. ~FlushSome(Main)
        BY <2>2, FlushingPc DEF FlushSome, FlushSend, FlushNothing, FlushError, FlushSkip
      <4> QED
        BY <4>1, <4>2, <4>3, <4>4, <4>5 DEF Next, MainStep
    <3>2. /\ async_mode /\ pc[Main] = "dispatch" /\ UNCHANGED <<running_tasks, will_close>>
          /\ \A w \in Workers : pc'[w] = pc[w]
      BY <1>3, <2>2, <3>1, ThreadsAssumption
         DEF TypeOK, PcOK, Threads, HandleWrite, Handling, Goto, pollFrame, taskVars, modeVars
    <3>3. \A w \in Workers : pc[w] \in InTask => Active(w)
      BY DEF InTask, WorkerFlushes, Active
    <3> QED
      BY <2>1, <3>2, <3>3 DEF Handover, SingleService, Ownership, LateInv
  <2>3. CASE pc[Main] = "handle_write"
    <3>1. running_tasks' => running_tasks
      <4>1. ~QueueTask
        BY <2>3 DEF QueueTask
      <4> USE DEF Jump, taskVars, pollFrame, flushFrame
      <4>2. Poll => UNCHANGED running_tasks
        BY DEF Poll, Scan, SelectBadDescriptor, EndOfPoll, DrainTrigger, KillZombies, KillClose, Select
      <4>3. Read => UNCHANGED running_tasks
        BY <4>1 DEF Read, HandleReadIgnored, HandleReadClosed, HandleRead, ReceivedNothing, ReceivedRequest,
             ReceivedBad, ReceivedAll, SetSync, AddTask
      <4>4. HandleWrite => UNCHANGED running_tasks
        BY DEF HandleWrite
      <4>5. \A t \in Threads : FlushSome(t) => UNCHANGED running_tasks
        BY DEF FlushSome, FlushSend, FlushNothing, FlushError, FlushSkip
      <4>6. \A w \in Workers : Service(w) => UNCHANGED running_tasks \/ ~running_tasks'
        BY <4>5 DEF Service, Take, PopTask, NoMoreTasks, SetAsync, PullTrigger, SetLastActivity, Write,
                  Flush, ApplicationError, Finish, Fail, WillClose, PullClose, Readd, Flushed, Threads
      <4>7. Environment => UNCHANGED running_tasks \/ ~running_tasks'
        BY DEF Environment, Cancel, Timeout, PeerLeaves
      <4> QED
        BY <4>2, <4>3, <4>4, <4>5, <4>6, <4>7 DEF Next, MainStep, Threads
    <3>2. \A w \in Workers : pc'[w] \notin InTask
      <4> SUFFICES ASSUME NEW w \in Workers, pc'[w] \in InTask PROVE FALSE
        OBVIOUS
      <4>1. pc[w] \notin InTask
        BY <2>1, <2>3 DEF FlushInv
      <4>2. Service(w)
        <5>1. ~Environment
          BY <4>1 DEF Environment, Cancel, Timeout, PeerLeaves
        <5>2. ~(Poll \/ Read \/ HandleWrite)
          BY <4>1, OtherThreads, ThreadsAssumption DEF Threads
        <5>3. \A t \in Threads : t # w => ~FlushSome(t)
          BY <4>1 DEF TypeOK, PcOK, FlushSome, FlushSend, FlushNothing, FlushError, FlushSkip, Goto, Threads
        <5>4. \A v \in Workers : v # w => ~Service(v)
          BY <4>1, <5>3, OtherThreads DEF Threads
        <5> QED
          BY <5>1, <5>2, <5>3, <5>4, ThreadsAssumption DEF Next, MainStep, Threads
      <4>3. PopTask(w)
        BY <4>1, <4>2, EntersTask
      <4>4. running_tasks
        BY <4>3 DEF PopTask, Handover, SingleService, Active
      <4>5. will_close /\ late'
        BY <2>1, <2>3, <4>3, <4>4 DEF FlushInv, PopTask
      <4> QED
        BY <1>3, <4>5
    <3> QED
      BY <2>1, <2>3, <3>1, <3>2 DEF FlushInv
  <2> QED
    BY <2>2, <2>3
<1>4. ASSUME ~late', NEW t \in Threads, num_sent'[t] > 0 PROVE connected'
  <2>1. ~late
    BY <1>4, LateStays
  <2>2. num_sent[t] > 0 \/ \E n \in 1..SendBytes : FlushSend(t, n)
    <3>1. \A u \in Threads : FlushSome(u) => \/ num_sent'[t] \in {0, num_sent[t]}
                                            \/ \E n \in 1..SendBytes : FlushSend(t, n)
      BY <1>t DEF FlushSome, FlushSend, FlushNothing, FlushError, FlushSkip, bufVars
    <3>2. Poll \/ Read \/ HandleWrite => UNCHANGED num_sent
      BY OtherThreads DEF Threads
    <3>3. \A w \in Workers : Service(w) => UNCHANGED num_sent \/ FlushSome(w)
      BY OtherThreads DEF Threads
    <3>4. Environment => UNCHANGED num_sent
      BY DEF Environment, Cancel, Timeout, PeerLeaves, bufVars
    <3> QED
      BY <1>4, <3>1, <3>2, <3>3, <3>4 DEF Next, MainStep, Threads
  <2>3. CASE num_sent[t] > 0
    <3>1. connected
      BY <2>1, <2>3 DEF FlushInv
    <3>2. ~FlushSkip(t)
      BY <1>4, <1>t DEF FlushSkip
    <3> QED
      BY <2>1, <2>3, <3>1, <3>2, ClosedQuiet DEF TypeOK
  <2>4. CASE \E n \in 1..SendBytes : FlushSend(t, n)
    BY <2>4 DEF FlushSend, closeVars
  <2> QED
    BY <2>2, <2>3, <2>4
<1> QED
  BY <1>1, <1>2, <1>3, <1>4 DEF FlushInv

\* A sequence is all of itself; cut in two it has the lengths one expects, ...
LEMMA FullSubSeq == ASSUME NEW s \in Seq(Nat) PROVE SubSeq(s, 1, Len(s)) = s
  OBVIOUS

LEMMA Cut == ASSUME NEW b \in Seq(Nat), NEW n \in 0..Len(b)
             PROVE  /\ SubSeq(b, 1, n) \in Seq(Nat) /\ Len(SubSeq(b, 1, n)) = n
                    /\ SubSeq(b, n + 1, Len(b)) \in Seq(Nat)
                    /\ Len(SubSeq(b, n + 1, Len(b))) = Len(b) - n
  OBVIOUS

\* ... and the parts glued together are the whole.
LEMMA Glue ==
  ASSUME NEW b \in Seq(Nat), NEW f \in Seq(Nat), NEW g \in Seq(Nat), Len(f) + Len(g) = Len(b),
         \A i \in 1..Len(f) : f[i] = b[i], \A i \in 1..Len(g) : g[i] = b[i + Len(f)]
  PROVE  f \o g = b
<1>1. ASSUME NEW i \in 1..Len(b) PROVE (f \o g)[i] = b[i]
  <2>1. CASE i \in 1..Len(f)
    BY <2>1
  <2>2. CASE i - Len(f) \in 1..Len(g)
    <3>1. (f \o g)[i] = g[i - Len(f)] /\ (i - Len(f)) + Len(f) = i
      BY <2>2
    <3> QED
      BY <2>2, <3>1
  <2>3. i \in 1..Len(f) \/ i - Len(f) \in 1..Len(g)
    OBVIOUS
  <2> QED
    BY <2>1, <2>2, <2>3
<1>2. f \o g \in Seq(Nat) /\ Len(f \o g) = Len(b)
  OBVIOUS
<1> QED
  BY <1>1, <1>2, SeqEqual

LEMMA CutAndGlue == ASSUME NEW b \in Seq(Nat), NEW n \in 0..Len(b)
                    PROVE  SubSeq(b, 1, n) \o SubSeq(b, n + 1, Len(b)) = b
<1> DEFINE f == SubSeq(b, 1, n)
           g == SubSeq(b, n + 1, Len(b))
<1>1. f \in Seq(Nat) /\ g \in Seq(Nat) /\ Len(f) = n /\ Len(g) = Len(b) - n
  BY Cut
<1>2. \A i \in 1..n : f[i] = b[i]
  OBVIOUS
<1>3. \A i \in 1..Len(b) - n : g[i] = b[i + n]
  OBVIOUS
<1> HIDE DEF f, g
<1>4. Len(f) + Len(g) = Len(b) /\ \A i \in 1..Len(f) : f[i] = b[i]
  BY <1>1, <1>2
<1>5. \A i \in 1..Len(g) : g[i] = b[i + Len(f)]
  BY <1>1, <1>3
<1>6. f \o g = b
  BY <1>1, <1>4, <1>5, Glue
<1> QED
  BY <1>6 DEF f, g

\* The first part of two sequences, and three of them, however grouped.
LEMMA FrontOfConcat == ASSUME NEW s \in Seq(Nat), NEW f \in Seq(Nat)
                       PROVE  SubSeq(s \o f, 1, Len(s)) = s /\ Len(s \o f) = Len(s) + Len(f)
  OBVIOUS

LEMMA Regroup == ASSUME NEW s \in Seq(Nat), NEW f \in Seq(Nat), NEW g \in Seq(Nat)
                 PROVE  (s \o f) \o g = s \o (f \o g)
  OBVIOUS

\* Nothing is half sent: Whole says that the two sequences make up the third.
LEMMA WholeQuiet == ASSUME NEW s \in Seq(Nat), NEW b \in Seq(Nat), NEW w
                    PROVE  Whole(0, s, b, w) <=> s \o b = w
<1>1. 0 <= Len(s) /\ 0 <= Len(b) /\ Len(s) - 0 = Len(s) /\ 0 + 1 = 1
  OBVIOUS
<1>2. SubSeq(s, 1, Len(s)) = s /\ SubSeq(b, 1, Len(b)) = b
  BY FullSubSeq
<1> QED
  BY <1>1, <1>2, Zenon DEF Whole

\* A send() of n units, before and after their skip().
LEMMA SendParts ==
  ASSUME NEW s \in Seq(Nat), NEW b \in Seq(Nat), NEW n \in 0..Len(b)
  PROVE  /\ Whole(n, s \o SubSeq(b, 1, n), b, s \o b)
         /\ (s \o SubSeq(b, 1, n)) \o SubSeq(b, n + 1, Len(b)) = s \o b
<1> DEFINE f == SubSeq(b, 1, n)
           g == SubSeq(b, n + 1, Len(b))
<1>1. f \in Seq(Nat) /\ g \in Seq(Nat) /\ Len(f) = n
  BY Cut
<1>2. (s \o f) \o g = s \o b
  <2>1. f \o g = b
    BY CutAndGlue
  <2> HIDE DEF f, g
  <2> QED
    BY <1>1, <2>1, Regroup
<1>3. Len(s \o f) - n = Len(s) /\ n <= Len(s \o f) /\ n <= Len(b) /\ SubSeq(s \o f, 1, Len(s)) = s
  <2> HIDE DEF f, g
  <2>1. Len(s \o f) = Len(s) + n /\ SubSeq(s \o f, 1, Len(s)) = s
    BY <1>1, FrontOfConcat
  <2>2. Len(s) \in Nat /\ n \in Nat /\ n <= Len(b)
    OBVIOUS
  <2> QED
    BY <2>1, <2>2
<1>4. Whole(n, s \o f, b, s \o b)
  <2>1. SubSeq(s \o f, 1, Len(s \o f) - n) \o b = s \o b
    BY <1>3, Zenon
  <2>2. (s \o f) \o SubSeq(b, n + 1, Len(b)) = s \o b
    BY <1>2
  <2> HIDE DEF f, g
  <2> QED
    BY <1>3, <2>1, <2>2, Zenon DEF Whole
<1> QED
  BY <1>2, <1>4, Zenon

\* send(), skip(), write() and cancel() keep the wire whole, the first and the
\* last two because nothing is half sent when they come.
LEMMA WireInvStep == TypeOK /\ TypeOK' /\ Handover /\ FlushInv /\ WireInv /\ Next => WireInv'
<1> SUFFICES ASSUME TypeOK, TypeOK', Handover, FlushInv, WireInv, Next, ~late' PROVE WireInv'
  BY DEF WireInv
<1>1. ~late /\ Whole(Unskipped, sent, outbuf, wrote)
  BY LateStays DEF WireInv
<1>w. WireInv' <=> (~late' => Whole(Unskipped', sent', outbuf', wrote'))
  BY DEF WireInv, Whole
<1>t. /\ outbuf \in Seq(Nat) /\ wrote \in Seq(Nat) /\ sent \in Seq(Nat) /\ num_sent \in [Threads -> Nat]
      /\ outbuf' \in Seq(Nat) /\ wrote' \in Seq(Nat) /\ sent' \in Seq(Nat)
  BY DEF TypeOK
<1>u. Unskipped = UnskippedOf(num_sent) /\ Unskipped' = UnskippedOf(num_sent')
  BY DEF Unskipped, UnskippedOf
\* Where nothing is half sent, the two parts make up the whole.
<1>q. ASSUME Unskipped = 0 PROVE sent \o outbuf = wrote
  BY <1>q, <1>1, <1>t, WholeQuiet
<1>r. ASSUME \A t \in Threads : ~(num_sent'[t] > 0), sent' \o outbuf' = wrote' PROVE WireInv'
  <2>1. Unskipped' = 0
    BY <1>r, <1>u, NoneUnskipped
  <2>2. Whole(0, sent', outbuf', wrote')
    BY <1>r, <1>t, WholeQuiet
  <2> QED
    BY <1>w, <2>1, <2>2
<1>s. ASSUME UNCHANGED <<outbuf, num_sent, wrote, sent>> PROVE WireInv'
  BY <1>s, <1>1, <1>u DEF WireInv
<1>2. ASSUME NEW t \in Threads, NEW n \in 1..SendBytes, FlushSend(t, n) PROVE WireInv'
  <2>1. Flushing(t) /\ num_sent[t] = 0 /\ n \in 0..Len(outbuf)
    BY <1>2, <1>t, BoundsAssumption DEF FlushSend
  <2>2. Unskipped = 0 /\ \A u \in Threads : ~(num_sent[u] > 0)
    BY <1>1, <2>1, NothingHalfSent
  <2>3. num_sent'[t] = n /\ \A u \in Threads : num_sent'[u] > 0 => u = t
    BY <1>2, <1>t, <2>2 DEF FlushSend
  <2>4. Unskipped' = n
    BY <1>u, <2>3, OneUnskipped
  <2>5. sent' = sent \o SubSeq(outbuf, 1, n) /\ UNCHANGED <<outbuf, wrote>>
    BY <1>2 DEF FlushSend
  <2> QED
    <3>1. Whole(n, sent \o SubSeq(outbuf, 1, n), outbuf, sent \o outbuf)
      BY <1>t, <2>1, SendParts
    <3>2. Whole(Unskipped', sent', outbuf', wrote')
      BY <1>q, <2>2, <2>4, <2>5, <3>1
    <3> QED
      BY <1>w, <3>2
<1>3. ASSUME NEW t \in Threads, FlushSkip(t) PROVE WireInv'
  <2>1. /\ \A u \in Threads : num_sent[u] > 0 => u = t
        /\ num_sent[t] > 0 /\ num_sent' = [num_sent EXCEPT ![t] = 0]
    BY <1>1, <1>3, OneFlushing DEF FlushSkip
  <2>2. Unskipped = num_sent[t] /\ connected
    BY <1>1, <1>u, <2>1, OneUnskipped DEF FlushInv
  <2>3. outbuf' = Skipped(t) /\ UNCHANGED <<wrote, sent>>
    BY <1>1, <1>3, <1>t, <2>2 DEF FlushSkip, Whole
  <2>4. sent' \o outbuf' = wrote'
    BY <1>1, <2>2, <2>3 DEF Whole, Skipped
  <2>5. \A u \in Threads : ~(num_sent'[u] > 0)
    BY <1>t, <2>1
  <2> QED
    BY <1>r, <2>4, <2>5
<1>4. ASSUME NEW w \in Workers, Write(w) PROVE WireInv'
  <2>1. CASE connected
    <3>1. Unskipped = 0 /\ \A u \in Threads : ~(num_sent[u] > 0)
      BY <1>1, <1>4, NothingHalfSent DEF Write
    <3>2. UNCHANGED <<num_sent, sent>>
      BY <1>4 DEF Write, workFrame
    <3>3. outbuf' = Append(outbuf, current[w]) /\ wrote' = Append(wrote, current[w])
      BY <1>4, <2>1 DEF Write
    <3>4. current[w] \in Nat
      BY DEF TypeOK, Threads
    <3>5. sent \o Append(outbuf, current[w]) = Append(sent \o outbuf, current[w])
      <4>1. \A s \in Seq(Nat), b \in Seq(Nat), x \in Nat : s \o Append(b, x) = Append(s \o b, x)
        BY MoveEnd
      <4> QED
        BY <1>t, <3>4, <4>1
    <3> QED
      BY <1>q, <1>r, <3>1, <3>2, <3>3, <3>5
  <2>2. CASE ~connected
    BY <1>4, <1>s, <2>2 DEF Write, workFrame
  <2> QED
    BY <2>1, <2>2
<1>5. ASSUME NEW n \in 0..Len(outbuf), Cancel(n) PROVE WireInv'
  <2>1. Unskipped = 0 /\ \A u \in Threads : ~(num_sent[u] > 0)
    BY <1>1, <1>5, NothingHalfSent DEF Cancel
  <2>2. /\ UNCHANGED <<num_sent, wrote>> /\ sent' = sent \o SubSeq(outbuf, 1, n)
        /\ outbuf' = SubSeq(outbuf, n + 1, Len(outbuf))
    BY <1>5 DEF Cancel
  <2>3. sent' \o outbuf' = wrote'
    BY <1>q, <1>t, <2>1, <2>2, SendParts, ZenonT(30)
  <2> QED
    BY <1>r, <2>1, <2>2, <2>3
\* No other step touches the buffer.
<1>6. CASE Poll \/ Read \/ HandleWrite
  <2>1. Main \in Threads
    BY DEF Threads
  <2>2. UNCHANGED <<num_sent, sent>>
    BY <1>6, <2>1, OtherThreads
  <2>3. UNCHANGED <<outbuf, wrote>>
    <3> USE DEF Jump, bufVars, pollFrame, readFrame
    <3>1. Poll => UNCHANGED <<outbuf, wrote>>
      BY DEF Poll, Scan, SelectBadDescriptor, EndOfPoll, DrainTrigger, KillZombies, KillClose, Select
    <3>2. Read => UNCHANGED <<outbuf, wrote>>
      BY DEF Read, HandleReadIgnored, HandleReadClosed, HandleRead, ReceivedNothing, ReceivedRequest,
             ReceivedBad, ReceivedAll, QueueTask, SetSync, AddTask
    <3>3. HandleWrite => UNCHANGED <<outbuf, wrote>>
      BY DEF HandleWrite
    <3> QED
      BY <1>6, <3>1, <3>2, <3>3
  <2> QED
    BY <1>s, <2>2, <2>3
<1>7. ASSUME NEW t \in Threads, FlushSome(t) PROVE WireInv'
  <2>1. CASE FlushNothing(t) \/ FlushError(t)
    BY <1>s, <2>1 DEF FlushNothing, FlushError, bufVars
  <2> QED
    BY <1>2, <1>3, <1>7, <2>1 DEF FlushSome
<1>8. ASSUME NEW w \in Workers, Service(w) PROVE WireInv'
  <2>1. CASE FlushSome(w)
    BY <1>7, <2>1 DEF Threads
  <2>2. CASE Write(w)
    BY <1>4, <2>2
  <2>3. CASE ~FlushSome(w) /\ ~Write(w)
    <3>1. UNCHANGED <<outbuf, wrote, sent, num_sent>>
      BY <1>8, <2>3
         DEF Service, Take, PopTask, NoMoreTasks, SetAsync, PullTrigger, SetLastActivity, Flush,
             ApplicationError, Finish, Fail, WillClose, PullClose, Readd, Flushed, Jump, bufVars,
             pollFrame, readFrame, workFrame
    <3> QED
      BY <1>s, <3>1
  <2> QED
    BY <2>1, <2>2, <2>3
<1>9. CASE Environment
  <2>1. CASE Timeout \/ PeerLeaves
    BY <1>s, <2>1 DEF Timeout, PeerLeaves, bufVars
  <2> QED
    BY <1>5, <1>9, <2>1 DEF Environment
<1> QED
  BY <1>6, <1>7, <1>8, <1>9 DEF Next, MainStep, Threads

\* closed_by becomes "done" in handle_write() only, with an empty buffer.
LEMMA CleanCloseStep ==
  TypeOK /\ TypeOK' /\ Handover /\ FlushInv /\ WireInv /\ CleanClose /\ Next => CleanClose'
<1> SUFFICES ASSUME TypeOK, TypeOK', Handover, FlushInv, WireInv, CleanClose, Next,
                    closed_by' = "done", ~late'
             PROVE  sent' = wrote'
  BY DEF CleanClose
<1>1. ~late
  BY LateStays
<1>t. /\ outbuf \in Seq(Nat) /\ wrote \in Seq(Nat) /\ sent \in Seq(Nat) /\ num_sent \in [Threads -> Nat]
  BY DEF TypeOK
<1>2. CASE closed_by = "done"
  <2>1. sent = wrote /\ ~connected
    BY <1>1, <1>2 DEF CleanClose, FlushInv
  <2>2. UNCHANGED <<sent, wrote>>
    <3> USE <2>1 DEF Jump, bufVars, pollFrame, readFrame, workFrame
    <3>1. Poll => UNCHANGED <<sent, wrote>>
      BY DEF Poll, Scan, SelectBadDescriptor, EndOfPoll, DrainTrigger, KillZombies, KillClose, Select
    <3>2. Read => UNCHANGED <<sent, wrote>>
      BY DEF Read, HandleReadIgnored, HandleReadClosed, HandleRead, ReceivedNothing, ReceivedRequest,
             ReceivedBad, ReceivedAll, QueueTask, SetSync, AddTask
    <3>3. HandleWrite => UNCHANGED <<sent, wrote>>
      BY DEF HandleWrite
    <3>4. \A t \in Threads : FlushSome(t) => UNCHANGED <<sent, wrote>>
      BY DEF FlushSome, FlushSend, FlushNothing, FlushError, FlushSkip
    <3>5. \A w \in Workers : Service(w) => UNCHANGED <<sent, wrote>>
      BY <3>4 DEF Service, Take, PopTask, NoMoreTasks, SetAsync, PullTrigger, SetLastActivity, Write, Flush,
             ApplicationError, Finish, Fail, WillClose, PullClose, Readd, Flushed, Threads
    <3>6. ASSUME NEW n \in 0..Len(outbuf), Cancel(n) PROVE UNCHANGED <<sent, wrote>>
      <4>1. n = 0 /\ sent' = sent \o SubSeq(outbuf, 1, n) /\ UNCHANGED wrote
        BY <3>6, <1>t DEF Cancel
      <4> QED
        BY <4>1, <1>t
    <3>7. Environment => UNCHANGED <<sent, wrote>>
      BY <3>6 DEF Environment, Timeout, PeerLeaves
    <3> QED
      BY <3>1, <3>2, <3>3, <3>4, <3>5, <3>7 DEF Next, MainStep, Threads
  <2> QED
    BY <2>1, <2>2
<1>3. CASE closed_by # "done"
  <2>1. HandleWrite
    <3> USE <1>3 DEF Closed, Jump, closeVars, pollFrame, readFrame, workFrame
    <3>1. ~Poll
      BY DEF Poll, Scan, SelectBadDescriptor, EndOfPoll, DrainTrigger, KillZombies, KillClose, Select
    <3>2. ~Read
      BY DEF Read, HandleReadIgnored, HandleReadClosed, HandleRead, ReceivedNothing, ReceivedRequest,
             ReceivedBad, ReceivedAll, QueueTask, SetSync, AddTask
    <3>4. \A t \in Threads : ~FlushSome(t)
      BY DEF FlushSome, FlushSend, FlushNothing, FlushError, FlushSkip
    <3>5. \A w \in Workers : ~Service(w)
      BY <3>4 DEF Service, Take, PopTask, NoMoreTasks, SetAsync, PullTrigger, SetLastActivity, Write, Flush,
             ApplicationError, Finish, Fail, WillClose, PullClose, Readd, Flushed, Threads
    <3>7. ~Environment
      BY DEF Environment, Cancel, Timeout, PeerLeaves
    <3> QED
      BY <3>1, <3>2, <3>4, <3>5, <3>7 DEF Next, MainStep, Threads
  <2>2. /\ async_mode /\ pc[Main] = "dispatch" /\ outbuf = <<>>
        /\ UNCHANGED <<sent, wrote>>
    BY <1>3, <2>1 DEF HandleWrite, Closed, Handling, Flushable, closeVars, pollFrame, bufVars
  <2>3. Unskipped = 0
    BY <1>1, <2>2, NothingHalfSent
  <2> QED
    <3>1. Whole(0, sent, outbuf, wrote)
      BY <1>1, <2>3 DEF WireInv
    <3>2. sent \o outbuf = wrote
      BY <1>t, <3>1, WholeQuiet
    <3> QED
      BY <1>t, <2>2, <3>2, EmptyEnd
<1> QED
  BY <1>2, <1>3

\* Nothing is sent, buffered or written at first.
LEMMA WireInit == Init => FlushInv /\ WireInv /\ CleanClose
<1> SUFFICES ASSUME Init PROVE FlushInv /\ WireInv /\ CleanClose
  OBVIOUS
<1>1. \A t \in Threads : num_sent[t] = 0
  BY DEF Init
<1>2. FlushInv
  BY <1>1, ThreadsAssumption DEF Init, FlushInv, Threads
<1>3. Unskipped = 0
  BY <1>1, NoneUnskipped DEF Unskipped, UnskippedOf
<1>4. sent = <<>> /\ outbuf = <<>> /\ wrote = <<>> /\ closed_by = "no"
  BY DEF Init
<1>5. sent \o outbuf = wrote
  BY <1>4
<1>6. Whole(0, sent, outbuf, wrote)
  <2>1. sent \in Seq(Nat) /\ outbuf \in Seq(Nat)
    BY <1>4
  <2> QED
    BY <1>5, <2>1, WholeQuiet
<1> QED
  BY <1>2, <1>3, <1>4, <1>6 DEF WireInv, CleanClose

\* What the wire theorems rest on: the state at every step, and its flushes.
LEMMA WireHolds == Spec => []Wire
<1>1. Init => FlushInv /\ WireInv /\ CleanClose
  BY WireInit
<1>2. TypeOK /\ TypeOK' /\ Handover /\ FlushInv /\ WireInv /\ CleanClose /\ [Next]_vars
      => FlushInv' /\ WireInv' /\ CleanClose'
  <2>1. CASE Next
    BY <2>1, FlushInvStep, WireInvStep, CleanCloseStep
  <2>2. CASE UNCHANGED vars
    BY <2>2 DEF vars, modeVars, closeVars, taskVars, bufVars, FlushInv, WireInv, CleanClose,
                Flushing, Unskipped
  <2> QED
    BY <2>1, <2>2
<1> QED
  BY <1>1, <1>2, HandoverHolds, PTL DEF Spec, Wire

\* What the tasks wrote is what goes over the wire, no unit lost, repeated or
\* moved, whoever flushes it: as long as no task is serviced after will_close.
THEOREM WireIntact == Spec => []WireIntegrity
<1>1. Wire => WireIntegrity
  BY DEF Wire, WireInv, Whole, WireIntegrity
<1> QED
  BY <1>1, WireHolds, PTL

\* A connection closed because of will_close has sent all that was written.
THEOREM ClosedClean == Spec => []CleanClose
<1>1. Wire => CleanClose
  BY DEF Wire
<1> QED
  BY <1>1, WireHolds, PTL
=============================================================================
