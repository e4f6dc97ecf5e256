--------------------------- MODULE TaskDispatcher ---------------------------
(* ThreadedTaskDispatcher: the pool of handler threads that services the   *)
(* tasks put in one queue, its resizing with setThreadCount() and its end  *)
(* with shutdown().  queue.Queue, threading.Lock and the logging package   *)
(* are external; queue operations are atomic, and everything done under    *)
(* thread_mgmt_lock is one step.                                           *)
EXTENDS Integers, Sequences, FiniteSets, SequencesExt

CONSTANTS
  ThreadNos,       \* bound: the thread numbers, 0..n
  Tasks,           \* the tasks given to addTask()
  Pill,            \* the None that stops one thread
  Counts,          \* arguments of setThreadCount()
  MaxAdds          \* bound: calls of addTask()

ASSUME ThreadNosAssumption == ThreadNos \subseteq Nat /\ IsFiniteSet(ThreadNos)
ASSUME TasksAssumption  == Pill \notin Tasks
ASSUME CountsAssumption == Counts \subseteq Nat /\ MaxAdds \in Nat

VARIABLES
  threads,      \* keys of self.threads
  stop_count,
  queue,
  pc,           \* of each handler thread: "none", "get", "service", "log", "exit"
  shut,         \* of shutdown(): "no", "joining", "draining", "getting", "done",
                \* or "failed" by a cancel() that raised
  target,       \* history: the last count asked for
  added,        \* history: tasks put in the queue, in order
  begun,        \* history: tasks taken to be serviced or cancelled, in order
  died          \* history: threads that ended because log.exception() raised

vars == <<threads, stop_count, queue, pc, shut, target, added, begun, died>>

Init ==
  /\ threads = {} /\ stop_count = 0 /\ queue = <<>>
  /\ pc = [n \in ThreadNos |-> "none"]
  /\ shut = "no"
  /\ target = 0 /\ added = <<>> /\ begun = <<>> /\ died = 0

-----------------------------------------------------------------------------
\* Mutant: threads about to stop are taken for running ones.
runningAll == Cardinality(threads)
running == Cardinality(threads) - stop_count

\* The lowest free numbers are used.
Lowest(new) == \A n \in new : \A m \in 0..(n - 1) : m \in threads \cup new

StartThreads(count) ==
  \E new \in SUBSET (ThreadNos \ threads) :
     /\ Cardinality(new) = count - running /\ Lowest(new)
     /\ threads' = threads \cup new
     /\ pc' = [n \in ThreadNos |-> IF n \in new THEN "get" ELSE pc[n]]
     /\ UNCHANGED <<stop_count, queue>>

StopThreads(count) ==
  LET to_stop == running - count IN
  /\ stop_count' = stop_count + to_stop
  /\ queue' = queue \o [i \in 1..to_stop |-> Pill]
  /\ UNCHANGED <<threads, pc>>

ResizeTo(count) == /\ IF running <= count THEN StartThreads(count) ELSE StopThreads(count)
                   /\ target' = count

setThreadCount(count) ==
  /\ shut = "no"
  /\ ResizeTo(count)
  /\ UNCHANGED <<shut, added, begun, died>>

\* A task is queued: by the main loop, or by the service() of a task that
\* puts itself back before it raises.
Put(task) ==
  /\ Len(added) < MaxAdds
  /\ queue' = Append(queue, task)
  /\ added' = Append(added, task)

Valid(task) == task # Pill

addTask(task) ==
  /\ shut = "no" /\ Valid(task)
  /\ Put(task)
  /\ UNCHANGED <<threads, stop_count, pc, shut, target, begun, died>>

-----------------------------------------------------------------------------
(* handlerThread(thread_no).                                               *)

Goto(n, l) == pc' = [pc EXCEPT ![n] = l]

Get(n) ==
  /\ pc[n] = "get" /\ queue # <<>>
  /\ queue' = Tail(queue)
  /\ IF Head(queue) = Pill
     THEN Goto(n, "exit") /\ UNCHANGED begun
     ELSE Goto(n, "service") /\ begun' = Append(begun, Head(queue))
  /\ UNCHANGED <<threads, stop_count, shut, target, added, died>>

Serviced(n) ==
  /\ pc[n] = "service"
  /\ Goto(n, "get")
  /\ UNCHANGED <<threads, stop_count, queue, shut, target, added, begun, died>>

ServiceRaises(n) ==
  /\ pc[n] = "service"
  /\ Goto(n, "log")
  /\ \/ \E task \in Tasks : Put(task)
     \/ UNCHANGED <<queue, added>>
  /\ UNCHANGED <<threads, stop_count, shut, target, begun, died>>

\* Mutant: the handler does not survive a task that raises.
AfterErrorExit == "exit"
AfterError == "get"

\* log.exception(); its own exception ends the thread.
LogException(n) ==
  /\ pc[n] = "log"
  /\ \/ Goto(n, AfterError) /\ UNCHANGED died
     \/ Goto(n, "exit") /\ died' = died + 1
  /\ UNCHANGED <<threads, stop_count, queue, shut, target, added, begun>>

\* Mutant: a thread that stops is still counted as one that will.
stopCountKept == stop_count
stopCountLess == stop_count - 1

\* The finally clause.
Exit(n) ==
  /\ pc[n] = "exit"
  /\ stop_count' = stopCountLess
  /\ threads' = threads \ {n}
  /\ Goto(n, "none")
  /\ UNCHANGED <<queue, shut, target, added, begun, died>>

handlerThread(n) == \/ Get(n) \/ Serviced(n) \/ ServiceRaises(n)
                    \/ LogException(n) \/ Exit(n)

-----------------------------------------------------------------------------
(* shutdown().                                                             *)

Shutdown ==
  /\ shut = "no"
  /\ ResizeTo(0)
  /\ shut' = "joining"
  /\ UNCHANGED <<added, begun, died>>

\* All threads are gone, or the timeout has expired; the queue is drained if
\* shutdown() was called with cancel_pending.
Joined ==
  /\ shut = "joining"
  /\ shut' \in {"draining", "done"}
  /\ UNCHANGED <<threads, stop_count, queue, pc, target, added, begun, died>>

CheckEmpty ==
  /\ shut = "draining"
  /\ shut' = IF queue = <<>> THEN "done" ELSE "getting"
  /\ UNCHANGED <<threads, stop_count, queue, pc, target, added, begun, died>>

\* Mutant: one pending task is cancelled, not all.
AfterGetDone == "done"
AfterGet == "draining"

\* queue.get() waits until there is something, for ever if need be; the cancel()
\* of a channel whose client has left may raise, and shutdown() with it.
GetPending ==
  /\ shut = "getting" /\ queue # <<>>
  /\ queue' = Tail(queue)
  /\ IF Head(queue) = Pill
     THEN shut' = AfterGet /\ UNCHANGED begun
     ELSE shut' \in {AfterGet, "failed"} /\ begun' = Append(begun, Head(queue))
  /\ UNCHANGED <<threads, stop_count, pc, target, added, died>>

shutdown == Shutdown \/ Joined \/ CheckEmpty \/ GetPending

Next == \/ \E count \in Counts : setThreadCount(count)
        \/ \E task \in Tasks \cup {Pill} : addTask(task)
        \/ \E n \in ThreadNos : handlerThread(n)
        \/ shutdown

Spec == Init /\ [][Next]_vars

\* A thread that can run does, tasks end, and shutdown() goes on once called.
Fairness == /\ \A n \in ThreadNos : WF_vars(handlerThread(n))
            /\ WF_vars(Joined \/ CheckEmpty \/ GetPending)

FairSpec == Spec /\ Fairness

-----------------------------------------------------------------------------
(* Properties.                                                             *)

\* Every variable keeps its type.
TypeOK ==
  /\ threads \subseteq ThreadNos
  /\ stop_count \in Int
  /\ queue \in Seq(Tasks \cup {Pill})
  /\ pc \in [ThreadNos -> {"none", "get", "service", "log", "exit"}]
  /\ shut \in {"no", "joining", "draining", "getting", "done", "failed"}
  /\ target \in Nat
  /\ added \in Seq(Tasks) /\ begun \in Seq(Tasks) /\ died \in Nat

\* The threads, less those counted in stop_count, are as many as were asked
\* for, at every moment of any sequence of resizings, exceptions and exits.
ThreadBudget == Cardinality(threads) - stop_count = target

\* The numbers in self.threads are those of the threads that run.
Registered == \A n \in ThreadNos : pc[n] # "none" <=> n \in threads

\* The pool: its types, whom it has registered, and how many it has.
\* (setThreadCount, handlerThread)
PoolInv == TypeOK /\ Registered /\ ThreadBudget

\* Until shutdown() drains the queue, a thread that stops has its None in the
\* queue or in its hands: none is counted without being told, and none stops
\* without being counted but those that died, which nobody told to stop and
\* which make stop_count too small for good.
StopsAreTold ==
  shut \in {"no", "joining"} =>
    stop_count + died = Cardinality({i \in DOMAIN queue : queue[i] = Pill})
                        + Cardinality({n \in ThreadNos : pc[n] = "exit"})

\* The number of threads converges to the last count asked for, or falls
\* short of it by no more threads than have died, for these are never replaced;
\* until shutdown() drains the queue.
Converges ==
  \A c \in Counts :
    target = c ~> \/ target # c \/ Cardinality(threads) \in (c - died)..c
                  \/ shut \notin {"no", "joining"}

\* A task that was put is taken as long as threads are left.
EveryTaskTaken ==
  \A i \in 1..MaxAdds :
    Len(added) >= i ~> Len(begun) >= i \/ target <= died \/ shut # "no"

\* Every task that is queued before a shutdown() that cancels what is pending
\* has returned is serviced or cancelled, even if its timeout expires, and
\* whatever its threads still do; but not if a cancel() raises. (shutdown)
EveryTaskServicedOrCancelled ==
  \A i \in 1..MaxAdds :
    Len(added) >= i /\ shut \in {"draining", "getting"}
      ~> Len(begun) >= i \/ shut = "failed"
=============================================================================
