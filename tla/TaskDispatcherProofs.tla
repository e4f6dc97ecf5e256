------------------------- MODULE TaskDispatcherProofs -------------------------
(* Proofs about TaskDispatcher, for any numbers of threads, tasks and calls: *)
(* the pool has registered exactly the threads that run, and they are as     *)
(* many as were asked for, plus those that are about to stop, each of        *)
(* which has been told so, or died.                                          *)
EXTENDS TaskDispatcher, FiniteSetTheorems, TLAPS

-----------------------------------------------------------------------------
(* Lemmas about the sets of threads and about the queue.                   *)

\* Any set of thread numbers is finite and has a size.
LEMMA ThreadsFinite ==
  ASSUME NEW T, T \subseteq ThreadNos
  PROVE  IsFiniteSet(T) /\ Cardinality(T) \in Nat
  BY ThreadNosAssumption, FS_Subset, FS_CardinalityType

\* New threads add to the size of the pool.
LEMMA Joining ==
  ASSUME NEW T, T \subseteq ThreadNos, NEW new, new \subseteq ThreadNos \ T
  PROVE  Cardinality(T \cup new) = Cardinality(T) + Cardinality(new)
<1>1. IsFiniteSet(T) /\ IsFiniteSet(new) /\ T \cap new = {}
  BY ThreadsFinite
<1>2. Cardinality(T) \in Nat /\ Cardinality(new) \in Nat
  BY ThreadsFinite
<1>3. Cardinality(T \cup new) = Cardinality(T) + Cardinality(new) - Cardinality(T \cap new)
  BY <1>1, FS_Union
<1>4. Cardinality(T \cap new) = 0
  BY <1>1, FS_EmptySet
<1> QED
  BY <1>2, <1>3, <1>4

\* The queue's ends and its entries.
LEMMA QueueTypes ==
  ASSUME NEW S, NEW q \in Seq(S)
  PROVE  /\ \A x \in S : Append(q, x) \in Seq(S)
         /\ q # <<>> => Head(q) \in S /\ Tail(q) \in Seq(S)
  OBVIOUS

\* As many entries as one likes join the queue.
LEMMA ManyJoin ==
  ASSUME NEW S, NEW q \in Seq(S), NEW x \in S, NEW n \in Nat
  PROVE  q \o [i \in 1..n |-> x] \in Seq(S)
<1>1. [i \in 1..n |-> x] \in Seq(S)
  OBVIOUS
<1> QED
  BY <1>1

-----------------------------------------------------------------------------
(* The invariant, action by action.                                        *)

LEMMA InitInv == Init => PoolInv
<1> SUFFICES ASSUME Init PROVE PoolInv
  OBVIOUS
<1>1. TypeOK
  BY DEF Init, TypeOK
<1>2. Registered
  BY DEF Init, Registered
<1>3. ThreadBudget
  BY FS_EmptySet DEF Init, ThreadBudget
<1> QED
  BY <1>1, <1>2, <1>3 DEF PoolInv

\* setThreadCount() starts threads or tells threads to stop.
LEMMA ResizeInv ==
  ASSUME PoolInv, NEW count \in Nat, ResizeTo(count), UNCHANGED <<added, begun, died>>,
         shut' \in {"no", "joining"}
  PROVE  PoolInv'
<1> USE DEF PoolInv
<1>1. threads \subseteq ThreadNos /\ Cardinality(threads) \in Nat /\ stop_count \in Int
  BY ThreadsFinite DEF TypeOK
<1>2. running \in Int /\ target' = count
  BY <1>1 DEF running, ResizeTo
<1>3. CASE running <= count
  <2>1. PICK new \in SUBSET (ThreadNos \ threads) :
           /\ Cardinality(new) = count - running
           /\ threads' = threads \cup new
           /\ pc' = [n \in ThreadNos |-> IF n \in new THEN "get" ELSE pc[n]]
           /\ UNCHANGED <<stop_count, queue>>
    BY <1>3 DEF ResizeTo, StartThreads
  <2>2. TypeOK'
    BY <1>2, <2>1 DEF TypeOK
  <2>3. Registered'
    BY <2>1 DEF Registered, TypeOK
  <2>4. Cardinality(threads') = Cardinality(threads) + (count - running)
    BY <1>1, <2>1, Joining
  <2>5. ThreadBudget'
    BY <1>1, <1>2, <2>1, <2>4 DEF ThreadBudget, running
  <2> QED
    BY <2>2, <2>3, <2>5
<1>4. CASE ~(running <= count)
  <2>1. /\ stop_count' = stop_count + (running - count)
        /\ queue' = queue \o [i \in 1..(running - count) |-> Pill]
        /\ UNCHANGED <<threads, pc>>
    BY <1>4 DEF ResizeTo, StopThreads
  <2>2. running - count \in Nat
    BY <1>2, <1>4
  <2>3. queue' \in Seq(Tasks \cup {Pill})
    BY <2>1, <2>2, ManyJoin DEF TypeOK
  <2>4. TypeOK'
    BY <1>1, <1>2, <2>1, <2>2, <2>3 DEF TypeOK
  <2>5. Registered'
    BY <2>1 DEF Registered
  <2>6. ThreadBudget'
    BY <1>1, <1>2, <2>1 DEF ThreadBudget, running
  <2> QED
    BY <2>4, <2>5, <2>6
<1> QED
  BY <1>3, <1>4

\* A thread that was told to stop takes itself, and its place in stop_count,
\* off the books.
LEMMA ExitInv == ASSUME PoolInv, NEW n \in ThreadNos, Exit(n) PROVE PoolInv'
<1> USE DEF PoolInv, Exit, Goto
<1>1. threads \subseteq ThreadNos /\ IsFiniteSet(threads) /\ Cardinality(threads) \in Nat /\ stop_count \in Int
  BY ThreadsFinite DEF TypeOK
<1>2. n \in threads
  BY DEF Registered
<1>3. TypeOK'
  BY <1>1 DEF TypeOK, stopCountLess
<1>4. Registered'
  BY DEF Registered, TypeOK
<1>5. Cardinality(threads') = Cardinality(threads) - 1
  BY <1>1, <1>2, FS_RemoveElement
<1>6. ThreadBudget'
  BY <1>1, <1>5 DEF ThreadBudget, stopCountLess
<1> QED
  BY <1>3, <1>4, <1>6

\* The other steps of a thread leave the pool as it is.
LEMMA HandlerInv == ASSUME PoolInv, NEW n \in ThreadNos, handlerThread(n) PROVE PoolInv'
<1> USE DEF PoolInv, Goto, Registered, ThreadBudget
<1>1. CASE Get(n)
  <2>1. Head(queue) \in Tasks \cup {Pill} /\ Tail(queue) \in Seq(Tasks \cup {Pill})
    BY <1>1, QueueTypes DEF Get, TypeOK
  <2>2. begun' = begun \/ (Head(queue) \in Tasks /\ begun' = Append(begun, Head(queue)))
    BY <1>1, <2>1 DEF Get
  <2>3. begun' \in Seq(Tasks)
    BY <2>2, QueueTypes DEF TypeOK
  <2> QED
    BY <1>1, <2>1, <2>3 DEF Get, TypeOK
<1>2. CASE Serviced(n)
  BY <1>2 DEF Serviced, TypeOK
<1>3. CASE ServiceRaises(n)
  <2>1. UNCHANGED <<queue, added>>
        \/ \E task \in Tasks : queue' = Append(queue, task) /\ added' = Append(added, task)
    BY <1>3 DEF ServiceRaises, Put
  <2>2. queue' \in Seq(Tasks \cup {Pill}) /\ added' \in Seq(Tasks)
    <3>1. queue \in Seq(Tasks \cup {Pill}) /\ added \in Seq(Tasks)
      BY DEF TypeOK
    <3>2. \A task \in Tasks : /\ Append(queue, task) \in Seq(Tasks \cup {Pill})
                            /\ Append(added, task) \in Seq(Tasks)
      BY <3>1
    <3> QED
      BY <2>1, <3>1, <3>2
  <2> QED
    BY <1>3, <2>2 DEF ServiceRaises, TypeOK
<1>4. CASE LogException(n)
  BY <1>4 DEF LogException, AfterError, TypeOK
<1>5. CASE Exit(n)
  BY <1>5, ExitInv
<1> QED
  BY <1>1, <1>2, <1>3, <1>4, <1>5 DEF handlerThread

LEMMA NextInv == PoolInv /\ [Next]_vars => PoolInv'
<1> SUFFICES ASSUME PoolInv, [Next]_vars PROVE PoolInv'
  OBVIOUS
<1> USE DEF PoolInv
<1>1. ASSUME NEW count \in Counts, setThreadCount(count) PROVE PoolInv'
  BY <1>1, CountsAssumption, ResizeInv DEF setThreadCount
<1>2. ASSUME NEW task \in Tasks \cup {Pill}, addTask(task) PROVE PoolInv'
  <2>1. queue' \in Seq(Tasks \cup {Pill}) /\ added' \in Seq(Tasks)
    BY <1>2, QueueTypes DEF addTask, Put, Valid, TypeOK
  <2> QED
    BY <1>2, <2>1 DEF addTask, TypeOK, Registered, ThreadBudget
<1>3. ASSUME NEW n \in ThreadNos, handlerThread(n) PROVE PoolInv'
  BY <1>3, HandlerInv
<1>4. CASE Shutdown
  BY <1>4, ResizeInv DEF Shutdown
<1>5. CASE Joined \/ CheckEmpty
  BY <1>5 DEF Joined, CheckEmpty, TypeOK, Registered, ThreadBudget
<1>6. CASE GetPending
  <2>1. Head(queue) \in Tasks \cup {Pill} /\ Tail(queue) \in Seq(Tasks \cup {Pill})
    BY <1>6, QueueTypes DEF GetPending, TypeOK
  <2>2. begun' \in Seq(Tasks)
    BY <1>6, <2>1, QueueTypes DEF GetPending, TypeOK
  <2>3. shut' \in {"draining", "failed"}
    BY <1>6 DEF GetPending, AfterGet
  <2> QED
    BY <1>6, <2>1, <2>2, <2>3 DEF GetPending, TypeOK, Registered, ThreadBudget
<1>7. CASE UNCHANGED vars
  BY <1>7 DEF vars, TypeOK, Registered, ThreadBudget
<1> QED
  BY <1>1, <1>2, <1>3, <1>4, <1>5, <1>6, <1>7 DEF Next, shutdown

-----------------------------------------------------------------------------
\* In any sequence of resizings, exceptions, exits and a shutdown the threads
\* registered are those that run, and less those that are to stop they are as
\* many as were asked for last. (setThreadCount, handlerThread)
THEOREM PoolCorrect == Spec => []PoolInv
  BY InitInv, NextInv, PTL DEF Spec

-----------------------------------------------------------------------------
(* Threads that are told to stop.                                          *)

\* The places of the Nones in a queue, and the threads that have got one, or
\* that died.
Pills(q) == {i \in DOMAIN q : q[i] = Pill}
Exiting == {n \in ThreadNos : pc[n] = "exit"}

LEMMA StopsAreToldSays ==
  StopsAreTold <=> (shut \in {"no", "joining"} =>
                      stop_count + died = Cardinality(Pills(queue)) + Cardinality(Exiting))
  BY DEF StopsAreTold, Pills, Exiting

LEMMA PillsFinite ==
  ASSUME NEW S, NEW q \in Seq(S)
  PROVE  IsFiniteSet(Pills(q)) /\ Cardinality(Pills(q)) \in Nat
<1>1. Pills(q) \subseteq 1..Len(q) /\ Len(q) \in Nat
  BY DEF Pills
<1>2. IsFiniteSet(1..Len(q))
  BY <1>1, FS_Interval
<1> QED
  BY <1>1, <1>2, FS_Subset, FS_CardinalityType

\* A task adds no None.
LEMMA PillsWithTask ==
  ASSUME NEW S, NEW q \in Seq(S), NEW x \in S, x # Pill
  PROVE  Pills(Append(q, x)) = Pills(q)
<1>1. /\ Len(q) \in Nat /\ DOMAIN q = 1..Len(q) /\ DOMAIN Append(q, x) = 1..Len(q) + 1
      /\ Append(q, x)[Len(q) + 1] = x /\ \A i \in 1..Len(q) : Append(q, x)[i] = q[i]
  OBVIOUS
<1>2. \A i : i \in 1..Len(q) + 1 <=> i \in 1..Len(q) \/ i = Len(q) + 1
  BY <1>1
<1> QED
  BY <1>1, <1>2 DEF Pills

\* As many Nones as are put there.
LEMMA PillsWithMore ==
  ASSUME NEW S, NEW q \in Seq(S), Pill \in S, NEW k \in Nat
  PROVE  Cardinality(Pills(q \o [i \in 1..k |-> Pill])) = Cardinality(Pills(q)) + k
<1> DEFINE more == [i \in 1..k |-> Pill]
           l == Len(q)
           new == (l + 1)..(l + k)
<1>1. /\ l \in Nat /\ DOMAIN q = 1..l /\ more \in Seq(S) /\ Len(more) = k
      /\ DOMAIN (q \o more) = 1..(l + k)
      /\ \A i \in 1..l : (q \o more)[i] = q[i]
      /\ \A i \in new : (q \o more)[i] = Pill
  OBVIOUS
<1> HIDE DEF more, l
<1>2. \A i : i \in 1..(l + k) <=> i \in 1..l \/ i \in new
  BY <1>1
<1>3. Pills(q \o more) = Pills(q) \cup new
  BY <1>1, <1>2 DEF Pills
<1>4. Pills(q) \cap new = {}
  BY <1>1 DEF Pills
<1>5. IsFiniteSet(new) /\ Cardinality(new) = k
  <2>1. l + 1 \in Int /\ l + k \in Int
    BY <1>1
  <2>2. IsFiniteSet(new) /\ Cardinality(new) = IF l + 1 > l + k THEN 0 ELSE (l + k) - (l + 1) + 1
    BY <2>1, FS_Interval
  <2> QED
    BY <1>1, <2>2
<1>6. IsFiniteSet(Pills(q)) /\ Cardinality(Pills(q)) \in Nat
  BY PillsFinite
<1> HIDE DEF new
<1>7. Cardinality(Pills(q) \cup new) = Cardinality(Pills(q)) + Cardinality(new) - Cardinality(Pills(q) \cap new)
  BY <1>5, <1>6, FS_Union
<1>8. Cardinality(Pills(q) \cap new) = 0
  BY <1>4, FS_EmptySet
<1>9. Cardinality(Pills(q \o more)) = Cardinality(Pills(q)) + k
  BY <1>3, <1>5, <1>6, <1>7, <1>8
<1> QED
  BY <1>9 DEF more

\* The one that is taken.
LEMMA PillsTaken ==
  ASSUME NEW S, NEW q \in Seq(S), q # <<>>
  PROVE  Cardinality(Pills(q)) = Cardinality(Pills(Tail(q))) + (IF Head(q) = Pill THEN 1 ELSE 0)
<1> DEFINE rest == Pills(q) \ {1}
           f == [i \in rest |-> i - 1]
<1>1. /\ Len(q) \in Nat \ {0} /\ DOMAIN q = 1..Len(q) /\ Head(q) = q[1]
      /\ Tail(q) \in Seq(S) /\ DOMAIN Tail(q) = 1..(Len(q) - 1)
      /\ \A i \in 1..(Len(q) - 1) : Tail(q)[i] = q[i + 1]
  OBVIOUS
<1>2. rest = {i \in 2..Len(q) : q[i] = Pill}
  BY <1>1 DEF Pills
<1>3. Pills(Tail(q)) = {i \in 1..(Len(q) - 1) : q[i + 1] = Pill}
  BY <1>1 DEF Pills
<1>4. f \in Bijection(rest, Pills(Tail(q)))
  <2>1. ASSUME NEW i \in rest PROVE f[i] \in Pills(Tail(q))
    <3>1. i \in 2..Len(q) /\ q[i] = Pill /\ f[i] = i - 1
      BY <1>2
    <3>2. i - 1 \in 1..(Len(q) - 1) /\ (i - 1) + 1 = i
      BY <1>1, <3>1
    <3> QED
      BY <1>3, <3>1, <3>2
  <2>2. \A i, j \in rest : f[i] = f[j] => i = j
    BY <1>1, <1>2
  <2>3. ASSUME NEW j \in Pills(Tail(q)) PROVE \E i \in rest : f[i] = j
    <3>1. j + 1 \in 2..Len(q) /\ q[j + 1] = Pill /\ (j + 1) - 1 = j
      BY <1>1, <1>3
    <3> QED
      BY <1>2, <3>1
  <2>4. f \in [rest -> Pills(Tail(q))] /\ DOMAIN f = rest
    BY <2>1
  <2> HIDE DEF f, rest
  <2> QED
    BY <2>2, <2>3, <2>4 DEF Bijection, Injection, Surjection, IsInjective
<1>5. IsFiniteSet(Pills(q)) /\ Cardinality(Pills(q)) \in Nat /\ IsFiniteSet(rest)
  <2>1. IsFiniteSet(Pills(q)) /\ Cardinality(Pills(q)) \in Nat
    BY PillsFinite
  <2>2. rest \subseteq Pills(q)
    OBVIOUS
  <2> QED
    BY <2>1, <2>2, FS_Subset
<1>6. Cardinality(rest) = Cardinality(Pills(Tail(q)))
  <2>1. ExistsBijection(rest, Pills(Tail(q)))
    BY <1>4 DEF ExistsBijection
  <2> QED
    BY <1>5, <2>1, FS_Bijection
<1>7. Cardinality(rest) = IF 1 \in Pills(q) THEN Cardinality(Pills(q)) - 1 ELSE Cardinality(Pills(q))
  BY <1>5, FS_RemoveElement
<1>8. 1 \in Pills(q) <=> Head(q) = Pill
  BY <1>1 DEF Pills
<1> QED
  BY <1>5, <1>6, <1>7, <1>8

\* A thread that is to end, and one that is no more.
LEMMA OneMoreExits ==
  ASSUME pc \in [ThreadNos -> {"none", "get", "service", "log", "exit"}], NEW m \in ThreadNos
  PROVE  /\ pc[m] # "exit" /\ Goto(m, "exit") => Cardinality(Exiting') = Cardinality(Exiting) + 1
         /\ pc[m] = "exit" /\ Goto(m, "none") => Cardinality(Exiting') = Cardinality(Exiting) - 1
         /\ pc[m] # "exit" /\ (\E l \in {"get", "service", "log"} : Goto(m, l)) => Exiting' = Exiting
         /\ Cardinality(Exiting) \in Nat
<1>1. IsFiniteSet(Exiting) /\ Cardinality(Exiting) \in Nat
  BY ThreadsFinite DEF Exiting
<1>2. ASSUME pc[m] # "exit", Goto(m, "exit")
      PROVE  Cardinality(Exiting') = Cardinality(Exiting) + 1
  <2>1. Exiting' = Exiting \cup {m} /\ m \notin Exiting
    BY <1>2 DEF Exiting, Goto
  <2> QED
    BY <1>1, <2>1, FS_AddElement
<1>3. ASSUME pc[m] = "exit", Goto(m, "none")
      PROVE  Cardinality(Exiting') = Cardinality(Exiting) - 1
  <2>1. Exiting' = Exiting \ {m} /\ m \in Exiting
    BY <1>3 DEF Exiting, Goto
  <2> QED
    BY <1>1, <2>1, FS_RemoveElement
<1>4. ASSUME pc[m] # "exit", NEW l \in {"get", "service", "log"}, Goto(m, l)
      PROVE  Exiting' = Exiting
  BY <1>4 DEF Exiting, Goto
<1> QED
  BY <1>1, <1>2, <1>3, <1>4

\* setThreadCount() tells as many threads to stop as it counts.
LEMMA ResizeTold ==
  ASSUME PoolInv, StopsAreTold, shut = "no", NEW count \in Nat, ResizeTo(count), UNCHANGED died
  PROVE  StopsAreTold'
<1>1. /\ threads \subseteq ThreadNos /\ Cardinality(threads) \in Nat /\ stop_count \in Int /\ died \in Nat
      /\ queue \in Seq(Tasks \cup {Pill}) /\ Cardinality(Pills(queue)) \in Nat
      /\ Cardinality(Exiting) \in Nat
  <2>1. threads \subseteq ThreadNos /\ stop_count \in Int /\ died \in Nat /\ queue \in Seq(Tasks \cup {Pill})
    BY DEF PoolInv, TypeOK
  <2>2. Exiting \subseteq ThreadNos
    BY DEF Exiting
  <2> QED
    BY <2>1, <2>2, ThreadsFinite, PillsFinite
<1>2. stop_count + died = Cardinality(Pills(queue)) + Cardinality(Exiting)
  BY StopsAreToldSays
<1>3. running \in Int
  BY <1>1 DEF running
<1>4. CASE running <= count
  <2>1. PICK new \in SUBSET (ThreadNos \ threads) :
           /\ pc' = [n \in ThreadNos |-> IF n \in new THEN "get" ELSE pc[n]]
           /\ UNCHANGED <<stop_count, queue>>
    BY <1>4 DEF ResizeTo, StartThreads
  <2>2. Exiting' = Exiting
    BY <2>1 DEF Exiting, PoolInv, Registered
  <2> QED
    BY <1>2, <2>1, <2>2, StopsAreToldSays DEF StopsAreTold, Pills, Exiting
<1>5. CASE ~(running <= count)
  <2> DEFINE k == running - count
  <2>1. /\ stop_count' = stop_count + k /\ queue' = queue \o [i \in 1..k |-> Pill] /\ pc' = pc /\ k \in Nat
    BY <1>3, <1>5 DEF ResizeTo, StopThreads
  <2> HIDE DEF k
  <2>2. Cardinality(Pills(queue')) = Cardinality(Pills(queue)) + k
    BY <1>1, <2>1, PillsWithMore
  <2>3. Exiting' = Exiting
    BY <2>1 DEF Exiting
  <2>4. stop_count' = stop_count + k /\ k \in Nat /\ died' = died
    BY <2>1
  <2>5. stop_count' + died' = Cardinality(Pills(queue')) + Cardinality(Exiting')
    BY <1>1, <1>2, <2>2, <2>3, <2>4
  <2> QED
    BY <2>5 DEF StopsAreTold, Pills, Exiting
<1> QED
  BY <1>4, <1>5

\* What else happens to the Nones and the threads before shutdown() drains the
\* queue.
LEMMA ToldNext == ASSUME PoolInv, StopsAreTold, [Next]_vars PROVE StopsAreTold'
<1> SUFFICES ASSUME shut' \in {"no", "joining"}
             PROVE  stop_count' + died' = Cardinality(Pills(queue')) + Cardinality(Exiting')
  BY DEF StopsAreTold, Pills, Exiting
<1>1. /\ stop_count \in Int /\ died \in Nat /\ queue \in Seq(Tasks \cup {Pill})
      /\ pc \in [ThreadNos -> {"none", "get", "service", "log", "exit"}]
  BY DEF PoolInv, TypeOK
<1>2. /\ Cardinality(Pills(queue)) \in Nat /\ Cardinality(Exiting) \in Nat
  <2>1. Exiting \subseteq ThreadNos
    BY DEF Exiting
  <2> QED
    BY <1>1, <2>1, ThreadsFinite, PillsFinite
<1>3. shut \in {"no", "joining"} =>
        stop_count + died = Cardinality(Pills(queue)) + Cardinality(Exiting)
  BY StopsAreToldSays
<1>4. CASE (\E count \in Counts : setThreadCount(count)) \/ Shutdown
  <2>1. PICK count \in Nat : ResizeTo(count) /\ shut = "no" /\ UNCHANGED died
    BY <1>4, CountsAssumption DEF setThreadCount, Shutdown
  <2>2. StopsAreTold'
    BY <2>1, ResizeTold
  <2> QED
    BY <2>2 DEF StopsAreTold, Pills, Exiting
<1>5. ASSUME NEW task \in Tasks \cup {Pill}, addTask(task)
      PROVE  stop_count' + died' = Cardinality(Pills(queue')) + Cardinality(Exiting')
  <2>1. queue' = Append(queue, task) /\ task # Pill /\ UNCHANGED <<stop_count, died, pc>> /\ shut = "no"
    BY <1>5 DEF addTask, Put, Valid
  <2>2. Pills(queue') = Pills(queue) /\ Exiting' = Exiting
    BY <1>1, <2>1, PillsWithTask DEF Pills, Exiting
  <2> QED
    BY <1>3, <2>1, <2>2
<1>6. ASSUME NEW m \in ThreadNos, handlerThread(m)
      PROVE  stop_count' + died' = Cardinality(Pills(queue')) + Cardinality(Exiting')
  <2>0. shut' = shut
    BY <1>6 DEF handlerThread, Get, Serviced, ServiceRaises, LogException, Exit
  <2>1. stop_count + died = Cardinality(Pills(queue)) + Cardinality(Exiting)
    BY <1>3, <2>0
  <2>2. CASE Get(m)
    <3>1. pc[m] = "get" /\ queue # <<>> /\ queue' = Tail(queue) /\ UNCHANGED <<stop_count, died>>
          /\ IF Head(queue) = Pill THEN Goto(m, "exit") ELSE Goto(m, "service")
      BY <2>2 DEF Get
    <3>2. Cardinality(Pills(queue)) = Cardinality(Pills(queue')) + (IF Head(queue) = Pill THEN 1 ELSE 0)
      BY <1>1, <3>1, PillsTaken DEF Pills
    <3>3. Cardinality(Pills(queue')) \in Nat
      <4>1. queue' \in Seq(Tasks \cup {Pill})
        BY <1>1, <3>1, QueueTypes
      <4> QED
        BY <4>1, PillsFinite DEF Pills
    <3>4. Cardinality(Exiting') = Cardinality(Exiting) + (IF Head(queue) = Pill THEN 1 ELSE 0)
      BY <1>1, <1>2, <3>1, OneMoreExits
    <3> QED
      BY <1>1, <1>2, <2>1, <3>1, <3>2, <3>3, <3>4
  <2>3. CASE Serviced(m)
    <3>1. pc[m] = "service" /\ Goto(m, "get") /\ UNCHANGED <<stop_count, died, queue>>
      BY <2>3 DEF Serviced
    <3>2. Exiting' = Exiting /\ Pills(queue') = Pills(queue)
      BY <1>1, <3>1, OneMoreExits DEF Pills
    <3> QED
      BY <2>1, <3>1, <3>2
  <2>4. CASE ServiceRaises(m)
    <3>1. pc[m] = "service" /\ Goto(m, "log") /\ UNCHANGED <<stop_count, died>>
          /\ (queue' = queue \/ \E task \in Tasks : queue' = Append(queue, task))
      BY <2>4 DEF ServiceRaises, Put
    <3>2. Exiting' = Exiting
      BY <1>1, <3>1, OneMoreExits
    <3>3. \A task \in Tasks : Pills(Append(queue, task)) = Pills(queue)
      BY <1>1, TasksAssumption, PillsWithTask
    <3>4. Pills(queue') = Pills(queue)
      BY <3>1, <3>3 DEF Pills
    <3> QED
      BY <2>1, <3>1, <3>2, <3>4
  <2>5. CASE LogException(m)
    <3>1. pc[m] = "log" /\ UNCHANGED <<stop_count, queue>>
          /\ ((Goto(m, "get") /\ died' = died) \/ (Goto(m, "exit") /\ died' = died + 1))
      BY <2>5 DEF LogException, AfterError
    <3>2. Pills(queue') = Pills(queue)
      BY <3>1 DEF Pills
    <3>3. CASE Goto(m, "get") /\ died' = died
      <4>1. Exiting' = Exiting
        BY <1>1, <3>1, <3>3, OneMoreExits
      <4> QED
        BY <2>1, <3>1, <3>2, <3>3, <4>1
    <3>4. CASE Goto(m, "exit") /\ died' = died + 1
      <4>1. Cardinality(Exiting') = Cardinality(Exiting) + 1
        BY <1>1, <3>1, <3>4, OneMoreExits
      <4> QED
        BY <1>1, <1>2, <2>1, <3>1, <3>2, <3>4, <4>1
    <3> QED
      BY <3>1, <3>3, <3>4
  <2>6. CASE Exit(m)
    <3>1. pc[m] = "exit" /\ Goto(m, "none") /\ stop_count' = stop_count - 1 /\ UNCHANGED <<queue, died>>
      BY <2>6 DEF Exit, stopCountLess
    <3>2. Pills(queue') = Pills(queue)
      BY <3>1 DEF Pills
    <3>3. Cardinality(Exiting') = Cardinality(Exiting) - 1
      BY <1>1, <3>1, OneMoreExits
    <3> QED
      BY <1>1, <1>2, <2>1, <3>1, <3>2, <3>3
  <2> QED
    BY <1>6, <2>2, <2>3, <2>4, <2>5, <2>6 DEF handlerThread
<1>7. CASE Joined \/ CheckEmpty \/ GetPending
  BY <1>7 DEF Joined, CheckEmpty, GetPending, AfterGet
<1>8. CASE UNCHANGED vars
  <2>1. UNCHANGED <<stop_count, died, queue, pc, shut>>
    BY <1>8 DEF vars
  <2> QED
    BY <1>3, <2>1 DEF Pills, Exiting
<1> QED
  BY <1>4, <1>5, <1>6, <1>7, <1>8 DEF Next, shutdown

\* Until shutdown() drains the queue, a thread that is counted in stop_count has
\* a None in the queue or in its hands, and the threads that died, which nobody
\* told to stop, are all that stop_count is short of. (setThreadCount,
\* handlerThread)
THEOREM StopsCounted == Spec => []StopsAreTold
<1>1. Init => StopsAreTold
  <2> SUFFICES ASSUME Init PROVE stop_count + died = Cardinality(Pills(queue)) + Cardinality(Exiting)
    BY StopsAreToldSays
  <2>1. Pills(queue) = {} /\ Exiting = {} /\ stop_count = 0 /\ died = 0
    BY DEF Init, Pills, Exiting
  <2> QED
    BY <2>1, FS_EmptySet
<1>2. PoolInv /\ StopsAreTold /\ [Next]_vars => StopsAreTold'
  BY ToldNext
<1> QED
  BY <1>1, <1>2, PoolCorrect, PTL DEF Spec
=============================================================================
