--------------------------- MODULE MainLoopProofs ---------------------------
(* Proofs about what the main loop serves.  ChannelServer, for any         *)
(* channels, descriptors and limit: the socket map holds exactly the open  *)
(* channels, the class's map finds every one of them, and the connection   *)
(* limit is respected.  Trigger, for any threads, thunks, number of calls  *)
(* and sizes of the pipe: everything that was passed runs once and in      *)
(* order, and nothing waits unannounced.                                   *)
EXTENDS ChannelServer, Trigger, FiniteSetTheorems, TLAPS

-----------------------------------------------------------------------------
(* Lemmas about the maps.                                                  *)

\* What Without() makes of a map.
LEMMA WithoutMap ==
  ASSUME NEW f, NEW cs
  PROVE  /\ DOMAIN Without(f, cs) = {fd \in DOMAIN f : f[fd] \notin cs}
         /\ \A x \in DOMAIN Without(f, cs) : Without(f, cs)[x] = f[x]
         /\ Range(Without(f, cs)) = Range(f) \ cs
  BY DEF Without, Range

\* One more descriptor is one more entry at most, and none of the others goes.
LEMMA OneMore ==
  ASSUME NEW D, D \subseteq Fds, NEW fd \in Fds, NEW E, E \subseteq D \cup {fd}
  PROVE  /\ Cardinality(E) \in Nat /\ Cardinality(D) \in Nat
         /\ Cardinality(E) <= Cardinality(D) + 1
<1>1. IsFiniteSet(D) /\ Cardinality(D) \in Nat
  BY FdsAssumption, FS_Subset, FS_CardinalityType
<1>2. /\ IsFiniteSet(D \cup {fd})
      /\ Cardinality(D \cup {fd}) = IF fd \in D THEN Cardinality(D) ELSE Cardinality(D) + 1
  BY <1>1, FS_AddElement
<1>3. IsFiniteSet(E) /\ Cardinality(E) <= Cardinality(D \cup {fd})
  BY <1>2, FS_Subset
<1>4. Cardinality(E) \in Nat
  BY <1>3, FS_CardinalityType
<1> QED
  BY <1>1, <1>2, <1>3, <1>4

\* A map that loses entries loses no descriptor it keeps.
LEMMA Fewer ==
  ASSUME NEW D, D \subseteq Fds, NEW E, E \subseteq D
  PROVE  Cardinality(E) \in Nat /\ Cardinality(D) \in Nat /\ Cardinality(E) <= Cardinality(D)
  BY FdsAssumption, FS_Subset, FS_CardinalityType

-----------------------------------------------------------------------------
(* The invariant, action by action.                                        *)

LEMMA InitInv == Init => MapsInv
<1> SUFFICES ASSUME Init PROVE MapsInv
  OBVIOUS
<1>1. DOMAIN socket_map = {} /\ DOMAIN active_channels = {}
  BY DEF Init, NoEntries
<1>2. Range(socket_map) = {} /\ Range(active_channels) = {}
  BY <1>1 DEF Range
<1>3. TypeOK
  BY <1>1, <1>2 DEF Init, TypeOK, open
<1>4. WithinLimit
  BY <1>1, FS_EmptySet, LimitAssumption DEF WithinLimit
<1>5. OpenIsTracked
  BY <1>1 DEF OpenIsTracked
<1> QED
  BY <1>3, <1>4, <1>5 DEF MapsInv

\* A new channel takes a free descriptor, and a cleanup closes old ones.
LEMMA AcceptInv == ASSUME MapsInv, NEW c \in Channels, handle_accept(c) PROVE MapsInv'
<1> USE DEF MapsInv
<1>1. PICK fd \in Fds \ DOMAIN socket_map :
        /\ active_channels' = Entered(fd, c)
        /\ LET dead == IF cleanup THEN zombies(active_channels') \ {c} ELSE {} IN
           /\ state' = [x \in Channels |-> IF x = c THEN "open"
                                           ELSE IF x \in dead THEN "closed" ELSE state[x]]
           /\ socket_map' = With(Without(socket_map, dead), fd, c)
  BY DEF handle_accept
<1> DEFINE dead == IF cleanup THEN zombies(active_channels') \ {c} ELSE {}
           kept == Without(socket_map, dead)
<1>2. c \notin dead
  OBVIOUS
<1>3. /\ state' = [x \in Channels |-> IF x = c THEN "open" ELSE IF x \in dead THEN "closed" ELSE state[x]]
      /\ socket_map' = With(kept, fd, c)
      /\ active_channels' = With(active_channels, fd, c)
  BY <1>1 DEF Entered
<1>4. state[c] # "open" /\ cleanup' = FALSE
      /\ running_tasks' = running_tasks \ {c} /\ inactive' = inactive \ {c}
  BY DEF handle_accept
<1> HIDE DEF dead
<1>5. /\ DOMAIN kept \subseteq DOMAIN socket_map
      /\ \A x \in DOMAIN kept : kept[x] = socket_map[x]
      /\ Range(kept) = open \ dead
  <2>1. /\ DOMAIN kept = {x \in DOMAIN socket_map : socket_map[x] \notin dead}
        /\ \A x \in DOMAIN kept : kept[x] = socket_map[x]
        /\ Range(kept) = Range(socket_map) \ dead
    BY WithoutMap
  <2>2. Range(socket_map) = open
    BY DEF TypeOK
  <2> QED
    BY <2>1, <2>2
<1> HIDE DEF kept
<1>6. /\ DOMAIN socket_map' = DOMAIN kept \cup {fd} /\ socket_map'[fd] = c
      /\ \A x \in DOMAIN kept : x # fd /\ socket_map'[x] = socket_map[x]
  <2>1. /\ DOMAIN With(kept, fd, c) = DOMAIN kept \cup {fd} /\ With(kept, fd, c)[fd] = c
        /\ \A x \in DOMAIN kept : x # fd => With(kept, fd, c)[x] = kept[x]
    BY DEF With
  <2> QED
    BY <1>1, <1>3, <1>5, <2>1
<1>7. /\ DOMAIN active_channels' = DOMAIN active_channels \cup {fd} /\ active_channels'[fd] = c
      /\ \A x \in DOMAIN active_channels : x # fd => active_channels'[x] = active_channels[x]
  <2>1. /\ DOMAIN With(active_channels, fd, c) = DOMAIN active_channels \cup {fd}
        /\ With(active_channels, fd, c)[fd] = c
        /\ \A x \in DOMAIN active_channels : x # fd => With(active_channels, fd, c)[x] = active_channels[x]
    BY DEF With
  <2> QED
    BY <1>3, <2>1
<1>8. Range(socket_map') = (open \ dead) \cup {c}
  BY <1>5, <1>6 DEF Range
<1>9. open' = (open \ dead) \cup {c}
  BY <1>2, <1>3 DEF open
<1>10. TypeOK'
  <2>1. state' \in [Channels -> {"new", "open", "closed"}]
    BY <1>3 DEF TypeOK
  <2>2. DOMAIN socket_map' \subseteq Fds /\ Range(socket_map') = open'
    BY <1>1, <1>5, <1>6, <1>8, <1>9 DEF TypeOK
  <2>3. ASSUME NEW x \in DOMAIN socket_map', NEW y \in DOMAIN socket_map', socket_map'[x] = socket_map'[y]
        PROVE  x = y
    <3>1. \A z \in DOMAIN kept : socket_map'[z] # c
      BY <1>4, <1>5, <1>6 DEF TypeOK, Range, open
    <3> QED
      BY <1>5, <1>6, <2>3, <3>1 DEF TypeOK
  <2>4. DOMAIN active_channels' \subseteq Fds /\ Range(active_channels') \subseteq Channels
    BY <1>1, <1>7 DEF TypeOK, Range
  <2> QED
    BY <1>4, <2>1, <2>2, <2>3, <2>4 DEF TypeOK
<1>11. WithinLimit'
  <2>1. Cardinality(DOMAIN socket_map) + Reserved < Limit
    BY DEF handle_accept, readable
  <2>2. /\ Cardinality(DOMAIN socket_map') \in Nat /\ Cardinality(DOMAIN socket_map) \in Nat
        /\ Cardinality(DOMAIN socket_map') <= Cardinality(DOMAIN socket_map) + 1
    BY <1>1, <1>5, <1>6, OneMore DEF TypeOK
  <2> QED
    BY <2>1, <2>2, LimitAssumption DEF WithinLimit
<1>12. OpenIsTracked'
  BY <1>5, <1>6, <1>7 DEF OpenIsTracked
<1> QED
  BY <1>10, <1>11, <1>12

LEMMA CloseInv == ASSUME MapsInv, NEW c \in Channels, close(c) PROVE MapsInv'
<1> USE DEF MapsInv
<1>1. /\ state' = [state EXCEPT ![c] = "closed"] /\ socket_map' = Without(socket_map, {c})
      /\ UNCHANGED <<active_channels, running_tasks, inactive, cleanup>>
  BY DEF close
<1>2. /\ DOMAIN socket_map' \subseteq DOMAIN socket_map
      /\ \A x \in DOMAIN socket_map' : socket_map'[x] = socket_map[x]
      /\ Range(socket_map') = open \ {c}
  <2>1. /\ DOMAIN Without(socket_map, {c}) = {x \in DOMAIN socket_map : socket_map[x] \notin {c}}
        /\ \A x \in DOMAIN Without(socket_map, {c}) : Without(socket_map, {c})[x] = socket_map[x]
        /\ Range(Without(socket_map, {c})) = Range(socket_map) \ {c}
    BY WithoutMap
  <2>2. Range(socket_map) = open
    BY DEF TypeOK
  <2> QED
    BY <1>1, <2>1, <2>2
<1>3. open' = open \ {c}
  BY <1>1 DEF open, TypeOK
<1>4. TypeOK'
  BY <1>1, <1>2, <1>3 DEF TypeOK
<1>5. WithinLimit'
  <2>1. /\ Cardinality(DOMAIN socket_map') \in Nat /\ Cardinality(DOMAIN socket_map) \in Nat
        /\ Cardinality(DOMAIN socket_map') <= Cardinality(DOMAIN socket_map)
    BY <1>2, Fewer DEF TypeOK
  <2> QED
    BY <2>1, LimitAssumption DEF WithinLimit
<1>6. OpenIsTracked'
  BY <1>1, <1>2 DEF OpenIsTracked
<1> QED
  BY <1>4, <1>5, <1>6

LEMMA NextInv == MapsInv /\ [Next]_vars => MapsInv'
<1> SUFFICES ASSUME MapsInv, [Next]_vars PROVE MapsInv'
  OBVIOUS
<1>1. ASSUME NEW c \in Channels, handle_accept(c) PROVE MapsInv'
  BY <1>1, AcceptInv
<1>2. ASSUME NEW c \in Channels, close(c) PROVE MapsInv'
  BY <1>2, CloseInv
<1>3. ASSUME NEW c \in Channels, queue_task(c) \/ set_async(c) \/ ChannelTimeout(c) PROVE MapsInv'
  BY <1>3 DEF queue_task, set_async, ChannelTimeout, MapsInv, TypeOK, WithinLimit, OpenIsTracked, open
<1>4. CASE CleanupInterval
  BY <1>4 DEF CleanupInterval, MapsInv, TypeOK, WithinLimit, OpenIsTracked, open
<1>5. CASE UNCHANGED vars
  BY <1>5 DEF vars, MapsInv, TypeOK, WithinLimit, OpenIsTracked, open
<1> QED
  BY <1>1, <1>2, <1>3, <1>4, <1>5 DEF Next

-----------------------------------------------------------------------------
\* The socket map holds exactly the open channels, within the limit, and each
\* is found in active_channels under its descriptor, however often descriptors
\* are used again. (handle_accept, add_channel, del_channel)
THEOREM MapsCorrect == Spec => []MapsInv
  BY InitInv, NextInv, PTL DEF Spec

\* A cleanup closes the open channels that are inactive and run no task, and
\* no other. (kill_zombies)
THEOREM CleanupExact == Spec => ZombiesReaped
<1> DEFINE Exact == cleanup /\ ~cleanup' =>
                      \A c \in open : state'[c] = "closed" <=> c \in inactive \ running_tasks
<1>1. ASSUME MapsInv, [Next]_vars PROVE [Exact]_vars
  <2>1. SUFFICES ASSUME cleanup, ~cleanup', NEW c \in open
                 PROVE  state'[c] = "closed" <=> c \in inactive \ running_tasks
    OBVIOUS
  <2>2. PICK d \in Channels : handle_accept(d)
    BY <1>1, <2>1 DEF Next, vars, close, queue_task, set_async, ChannelTimeout, CleanupInterval
  <2>3. PICK fd \in Fds \ DOMAIN socket_map :
          /\ active_channels' = Entered(fd, d)
          /\ state' = [x \in Channels |-> IF x = d THEN "open"
                                          ELSE IF x \in zombies(active_channels') \ {d} THEN "closed"
                                          ELSE state[x]]
    BY <2>1, <2>2 DEF handle_accept
  <2>4. c \in Channels /\ state[c] = "open" /\ state[d] # "open"
    BY <2>1, <2>2 DEF open, handle_accept
  <2>5. c # d
    BY <2>4
  <2>6. PICK x \in DOMAIN socket_map : socket_map[x] = c
    BY <1>1, <2>1 DEF MapsInv, TypeOK, Range
  <2>7. x \in DOMAIN active_channels' /\ active_channels'[x] = c
    <3>1. /\ DOMAIN With(active_channels, fd, d) = DOMAIN active_channels \cup {fd}
          /\ \A y \in DOMAIN active_channels : y # fd => With(active_channels, fd, d)[y] = active_channels[y]
      BY DEF With
    <3>2. x # fd /\ x \in DOMAIN active_channels /\ active_channels[x] = c
      BY <1>1, <2>3, <2>6 DEF MapsInv, OpenIsTracked
    <3> QED
      BY <2>3, <3>1, <3>2 DEF Entered
  <2>8. c \in zombies(active_channels') <=> c \notin running_tasks /\ c \in inactive
    BY <2>7 DEF zombies, Range
  <2> QED
    BY <2>3, <2>4, <2>5, <2>8
<1>2. MapsInv /\ [Next]_vars => [Exact]_vars
  BY <1>1
<1> QED
  BY <1>2, MapsCorrect, PTL DEF Spec, ZombiesReaped

-----------------------------------------------------------------------------
(* Lemmas about sequences.                                                 *)

\* What joins a list joins the part of it that is still to be run.
LEMMA AppendPart ==
  ASSUME NEW S, NEW s \in Seq(S), NEW x \in S, NEW i \in Nat \ {0}, i <= Len(s) + 1
  PROVE  SubSeq(Append(s, x), i, Len(Append(s, x))) = Append(SubSeq(s, i, Len(s)), x)
  OBVIOUS

\* The next element of a list leaves the part that is still to be run.
LEMMA NextPart ==
  ASSUME NEW S, NEW r \in Seq(S), NEW s \in Seq(S), NEW i \in Nat \ {0}, i <= Len(s)
  PROVE  Append(r, s[i]) \o SubSeq(s, i + 1, Len(s)) = r \o SubSeq(s, i, Len(s))
<1>1. SubSeq(s, i, Len(s)) = <<s[i]>> \o SubSeq(s, i + 1, Len(s))
  OBVIOUS
<1>2. SubSeq(s, i + 1, Len(s)) \in Seq(S)
  OBVIOUS
<1>3. s[i] \in S
  OBVIOUS
<1> DEFINE rest == SubSeq(s, i + 1, Len(s))
<1> HIDE DEF rest
<1>4. rest \in Seq(S) => Append(r, s[i]) \o rest = r \o (<<s[i]>> \o rest)
  BY <1>3
<1> QED
  BY <1>1, <1>2, <1>4 DEF rest

LEMMA ConcatAppend ==
  ASSUME NEW S, NEW r \in Seq(S), NEW s \in Seq(S), NEW x \in S
  PROVE  r \o Append(s, x) = Append(r \o s, x)
  OBVIOUS

\* Nothing is left behind the end of a list.
LEMMA EndPart ==
  ASSUME NEW S, NEW r \in Seq(S), NEW s \in Seq(S)
  PROVE  /\ SubSeq(s, Len(s) + 1, Len(s)) = <<>>
         /\ r \o <<>> = r
         /\ SubSeq(<<>>, 1, Len(<<>>)) = <<>>
  OBVIOUS

\* The lists of steps that pull_trigger() goes through.
LEMMA StepLists ==
  /\ Head(<<"write">>) = "write" /\ Tail(<<"write">>) = <<>>
  /\ Head(<<"append", "write">>) = "append" /\ Tail(<<"append", "write">>) = <<"write">>
  /\ <<"write">> # <<>> /\ <<"append", "write">> # <<>> /\ <<"append", "write">> # <<"write">>
<1>1. Len(<<"write">>) = 1 /\ Len(<<"append", "write">>) = 2
  OBVIOUS
<1>2. Len(<<>>) = 0
  OBVIOUS
<1>3. Tail(<<"write">>) = <<>>
  OBVIOUS
<1>4. Tail(<<"append", "write">>) = <<"write">>
  OBVIOUS
<1>5. Head(<<"write">>) = "write" /\ Head(<<"append", "write">>) = "append"
  OBVIOUS
<1> QED
  BY <1>1, <1>2, <1>3, <1>4, <1>5

-----------------------------------------------------------------------------
(* The invariant, action by action.                                        *)

LEMMA TriggerInitInv == TriggerInit => TriggerInv
<1> SUFFICES ASSUME TriggerInit PROVE TriggerInv
  OBVIOUS
<1>1. TriggerTypeOK
  <2>1. step \in [Pullers -> {<<>>, <<"write">>, <<"append", "write">>}]
    BY DEF TriggerInit
  <2>2. thunks \in Seq(Thunks) /\ passed \in Seq(Thunks) /\ ran \in Seq(Thunks) /\ Len(thunks) = 0
    BY DEF TriggerInit
  <2>3. arg \in [Pullers -> Thunks \cup {NoThunk}]
    BY DEF TriggerInit
  <2>4. lock = FALSE /\ pipe = 0 /\ pulls = 0
    BY DEF TriggerInit
  <2>5. pipe \in 0..PipeSize /\ pulls \in 0..MaxPulls
    BY <2>4, PullsAssumption, SizesAssumption
  <2>6. main \in {"select", "recv", "run", "clear"} /\ next = 1
    BY DEF TriggerInit
  <2>7. lock \in BOOLEAN
    BY <2>4
  <2>8. next \in Nat \ {0} /\ next <= Len(thunks) + 1
    BY <2>2, <2>6
  <2> QED
    BY <2>1, <2>2, <2>3, <2>5, <2>6, <2>7, <2>8 DEF TriggerTypeOK
<1>2. RunInOrder
  BY DEF TriggerInit, RunInOrder
<1>3. Phases /\ NoLostThunk
  BY DEF TriggerInit, Phases, NoLostThunk
<1> QED
  BY <1>1, <1>2, <1>3 DEF TriggerInv

\* pull_trigger() begins: nothing but the calls changes.
LEMMA PullInv ==
  ASSUME TriggerInv, NEW t \in Pullers, NEW thunk \in Thunks \cup {NoThunk}, pull_trigger(t, thunk)
  PROVE  TriggerInv'
<1> USE DEF TriggerInv, pull_trigger
<1>1. TriggerTypeOK'
  BY PullsAssumption DEF TriggerTypeOK, AppendFirst
<1>2. Phases'
  BY DEF TriggerTypeOK, Phases, AppendFirst
<1>3. RunInOrder'
  BY DEF RunInOrder
<1>4. NoLostThunk'
  <2>1. \A u \in Pullers : step[u] = <<"write">> => step'[u] = <<"write">>
    BY StepLists DEF TriggerTypeOK
  <2> QED
    BY <2>1 DEF NoLostThunk
<1> QED
  BY <1>1, <1>2, <1>3, <1>4

\* The thunk joins the list, and its caller has still to write the byte.
LEMMA AppendInv == ASSUME TriggerInv, NEW t \in Pullers, AppendThunk(t) PROVE TriggerInv'
<1> USE DEF TriggerInv, AppendThunk, Does, LockFree
<1>1. step[t] = <<"append", "write">> /\ step' = [step EXCEPT ![t] = <<"write">>]
  <2>1. step[t] \in {<<>>, <<"write">>, <<"append", "write">>}
    BY DEF TriggerTypeOK
  <2> QED
    BY <2>1, StepLists
<1>2. arg[t] \in Thunks /\ thunks' = Append(thunks, arg[t]) /\ passed' = Append(passed, arg[t])
  BY <1>1 DEF Phases
<1>3. TriggerTypeOK'
  BY <1>1, <1>2 DEF TriggerTypeOK
<1>4. Phases'
  BY <1>1 DEF TriggerTypeOK, Phases
<1>5. RunInOrder'
  <2>1. SubSeq(thunks', next, Len(thunks')) = Append(SubSeq(thunks, next, Len(thunks)), arg[t])
    BY <1>2, AppendPart, SMTT(30) DEF TriggerTypeOK
  <2>2. SubSeq(thunks, next, Len(thunks)) \in Seq(Thunks)
    BY DEF TriggerTypeOK
  <2>3. ran \o Append(SubSeq(thunks, next, Len(thunks)), arg[t])
          = Append(ran \o SubSeq(thunks, next, Len(thunks)), arg[t])
    <3> DEFINE rest == SubSeq(thunks, next, Len(thunks))
    <3> HIDE DEF rest
    <3>1. rest \in Seq(Thunks)
      BY <2>2 DEF rest
    <3>2. ran \in Seq(Thunks) /\ arg[t] \in Thunks
      BY <1>2 DEF TriggerTypeOK
    <3>3. ran \o Append(rest, arg[t]) = Append(ran \o rest, arg[t])
      BY <3>1, <3>2, ConcatAppend
    <3> QED
      BY <3>3 DEF rest
  <2> QED
    BY <1>2, <2>1, <2>3 DEF RunInOrder
<1>6. NoLostThunk'
  BY <1>1 DEF NoLostThunk, TriggerTypeOK
<1> QED
  BY <1>3, <1>4, <1>5, <1>6

\* The byte announces whatever is in the list.
LEMMA PhysicalPullInv == ASSUME TriggerInv, NEW t \in Pullers, _physical_pull(t) PROVE TriggerInv'
<1> USE DEF TriggerInv, _physical_pull, Does, HasRoom
<1>1. step[t] = <<"write">> /\ step' = [step EXCEPT ![t] = <<>>]
  <2>1. step[t] \in {<<>>, <<"write">>, <<"append", "write">>}
    BY DEF TriggerTypeOK
  <2> QED
    BY <2>1, StepLists
<1>2. TriggerTypeOK'
  BY <1>1, SizesAssumption DEF TriggerTypeOK
<1>3. Phases'
  <2>1. \A u \in Pullers : step'[u] = <<"append", "write">> => step[u] = <<"append", "write">>
    BY <1>1, StepLists DEF TriggerTypeOK
  <2> QED
    BY <2>1 DEF Phases
<1>4. RunInOrder'
  BY DEF RunInOrder
<1>5. NoLostThunk'
  BY SizesAssumption DEF NoLostThunk, TriggerTypeOK
<1> QED
  BY <1>2, <1>3, <1>4, <1>5

LEMMA HandleReadInv == ASSUME TriggerInv, handle_read PROVE TriggerInv'
<1> USE DEF TriggerInv, callVars
<1>1. CASE Recv
  BY <1>1, SizesAssumption DEF Recv, Drained, TriggerTypeOK, Phases, RunInOrder, NoLostThunk
<1>2. CASE Acquire
  BY <1>2 DEF Acquire, TriggerTypeOK, Phases, RunInOrder, NoLostThunk
<1>3. CASE RunThunk
  <2>1. RunInOrder'
    BY <1>3, NextPart DEF RunThunk, TriggerTypeOK, RunInOrder
  <2>2. ran' \in Seq(Thunks)
    BY <1>3 DEF RunThunk, TriggerTypeOK
  <2> QED
    BY <1>3, <2>1, <2>2 DEF RunThunk, TriggerTypeOK, Phases, NoLostThunk
<1>4. CASE EndRun
  BY <1>4 DEF EndRun, TriggerTypeOK, Phases, RunInOrder, NoLostThunk
<1>5. CASE Release
  <2>1. RunInOrder'
    BY <1>5, EndPart DEF Release, TriggerTypeOK, Phases, RunInOrder
  <2>2. TriggerTypeOK'
    <3>1. thunks' \in Seq(Thunks) /\ Len(thunks') = 0
      BY <1>5 DEF Release
    <3>2. next' = 1 /\ main' = "select" /\ lock' = FALSE /\ UNCHANGED <<arg, step, pulls, pipe, passed, ran>>
      BY <1>5 DEF Release
    <3>3. next' \in Nat \ {0} /\ next' <= Len(thunks') + 1
      BY <3>1, <3>2
    <3>4. lock' \in BOOLEAN /\ main' \in {"select", "recv", "run", "clear"}
      BY <3>2
    <3> QED
      BY <3>1, <3>2, <3>3, <3>4 DEF TriggerTypeOK
  <2>3. Phases' /\ NoLostThunk'
    BY <1>5 DEF Release, Phases, NoLostThunk
  <2> QED
    BY <2>1, <2>2, <2>3
<1> QED
  BY <1>1, <1>2, <1>3, <1>4, <1>5 DEF handle_read

LEMMA TriggerNextInv == TriggerInv /\ [TriggerNext]_triggerVars => TriggerInv'
<1> SUFFICES ASSUME TriggerInv, [TriggerNext]_triggerVars PROVE TriggerInv'
  OBVIOUS
<1>1. CASE handle_read
  BY <1>1, HandleReadInv
<1>2. ASSUME NEW t \in Pullers, NEW thunk \in Thunks \cup {NoThunk}, pull_trigger(t, thunk)
      PROVE  TriggerInv'
  BY <1>2, PullInv
<1>3. ASSUME NEW t \in Pullers, Puller(t) PROVE TriggerInv'
  BY <1>3, AppendInv, PhysicalPullInv DEF Puller
<1>4. CASE UNCHANGED triggerVars
  BY <1>4 DEF triggerVars, callVars, TriggerInv, TriggerTypeOK, Phases, RunInOrder, NoLostThunk
<1> QED
  BY <1>1, <1>2, <1>3, <1>4 DEF TriggerNext

-----------------------------------------------------------------------------
\* What is passed to pull_trigger() runs once and in order, and the main loop
\* never waits while something is in the list without a byte for it, in the
\* pipe or on its way. (pull_trigger, handle_read)
THEOREM TriggerCorrect == TriggerSpec => []TriggerInv
  BY TriggerInitInv, TriggerNextInv, PTL DEF TriggerSpec
=============================================================================
