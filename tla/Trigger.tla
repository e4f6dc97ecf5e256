------------------------------ MODULE Trigger ------------------------------
(* The pipe trigger: other threads wake the main loop and move work into   *)
(* it.  pull_trigger() appends the thunk under the lock and then writes a  *)
(* byte; handle_read() empties the pipe and then runs the thunks under the *)
(* lock.  The pipe and select() are external.  The usual names begin with  *)
(* Trigger, so that a module about the main loop can extend this one too.  *)
EXTENDS Naturals, Sequences, SequencesExt

CONSTANTS
  Pullers,     \* threads that pull the trigger
  Thunks,      \* the callbacks they may pass
  NoThunk,     \* pull_trigger() without a thunk
  MaxPulls,    \* bound: calls of pull_trigger()
  PipeSize,    \* bytes the pipe holds; a write to a full pipe waits
  RecvSize     \* handle_read() receives this many bytes at most

ASSUME PullsAssumption == NoThunk \notin Thunks /\ MaxPulls \in Nat
ASSUME SizesAssumption == PipeSize \in Nat \ {0} /\ RecvSize \in Nat \ {0}

VARIABLES
  thunks,    \* self.thunks
  lock,      \* TRUE while handle_read() holds self.lock
  pipe,      \* number of bytes in the pipe
  arg,       \* of each puller: the argument of the call it is in, or NoThunk
  step,      \* of each puller: steps of pull_trigger() still to do
  main,      \* main loop: "select", "recv" or "run"
  next,      \* index of the thunk handle_read() runs next
  pulls,     \* number of calls made
  passed,    \* history: thunks appended, in order
  ran        \* history: thunks run, in order

callVars == <<arg, step, pulls>>
triggerVars == <<thunks, lock, pipe, callVars, main, next, passed, ran>>

TriggerInit == /\ thunks = <<>> /\ lock = FALSE /\ pipe = 0
               /\ arg = [t \in Pullers |-> NoThunk] /\ step = [t \in Pullers |-> <<>>]
               /\ main = "select" /\ next = 1
               /\ pulls = 0 /\ passed = <<>> /\ ran = <<>>

-----------------------------------------------------------------------------
\* Mutant: the main loop is woken before the thunk is there.
WriteFirst == <<"write", "append">>
AppendFirst == <<"append", "write">>

pull_trigger(t, thunk) ==
  /\ step[t] = <<>> /\ pulls < MaxPulls
  /\ arg' = [arg EXCEPT ![t] = thunk]
  /\ step' = [step EXCEPT ![t] = IF thunk = NoThunk THEN <<"write">> ELSE AppendFirst]
  /\ pulls' = pulls + 1
  /\ UNCHANGED <<thunks, lock, pipe, main, next, passed, ran>>

Does(t, s) == /\ step[t] # <<>> /\ Head(step[t]) = s
              /\ step' = [step EXCEPT ![t] = Tail(@)]

\* Mutant: the list is appended to while it is traversed.
LockIgnored == TRUE
LockFree == ~lock

AppendThunk(t) ==
  /\ Does(t, "append")
  /\ LockFree
  /\ thunks' = Append(thunks, arg[t])
  /\ passed' = Append(passed, arg[t])
  /\ UNCHANGED <<arg, pulls, lock, pipe, main, next, ran>>

\* os.write() waits for room in the pipe.
HasRoom == pipe < PipeSize

_physical_pull(t) ==
  /\ Does(t, "write")
  /\ HasRoom
  /\ pipe' = pipe + 1
  /\ UNCHANGED <<arg, pulls, thunks, lock, main, next, passed, ran>>

-----------------------------------------------------------------------------
(* handle_read(), when select() has found the pipe readable.               *)

\* os.read() takes what there is, but no more than it was asked for.
Drained == IF pipe > RecvSize THEN pipe - RecvSize ELSE 0

\* Mutant: the bytes are not received.
NoRecv ==
  /\ main = "select" /\ pipe > 0
  /\ main' = "recv"
  /\ UNCHANGED <<callVars, pipe, thunks, lock, next, passed, ran>>

Recv ==
  /\ main = "select" /\ pipe > 0
  /\ pipe' = Drained
  /\ main' = "recv"
  /\ UNCHANGED <<callVars, thunks, lock, next, passed, ran>>

Acquire ==
  /\ main = "recv"
  /\ lock' = TRUE /\ main' = "run" /\ next' = 1
  /\ UNCHANGED <<callVars, thunks, pipe, passed, ran>>

\* An exception a thunk raises is printed and the traversal goes on.
RunThunk ==
  /\ main = "run" /\ next <= Len(thunks)
  /\ ran' = Append(ran, thunks[next])
  /\ next' = next + 1
  /\ UNCHANGED <<callVars, thunks, lock, pipe, main, passed>>

\* The traversal has ended; the list is replaced as a step of its own.
EndRun ==
  /\ main = "run" /\ next > Len(thunks)
  /\ main' = "clear"
  /\ UNCHANGED <<callVars, thunks, lock, pipe, next, passed, ran>>

Release ==
  /\ main = "clear"
  /\ thunks' = <<>> /\ lock' = FALSE /\ main' = "select" /\ next' = 1
  /\ UNCHANGED <<callVars, pipe, passed, ran>>

handle_read == Recv \/ Acquire \/ RunThunk \/ EndRun \/ Release

Puller(t) == AppendThunk(t) \/ _physical_pull(t)

TriggerNext == \/ handle_read
               \/ \E t \in Pullers : \/ \E thunk \in Thunks \cup {NoThunk} : pull_trigger(t, thunk)
                                     \/ Puller(t)

TriggerSpec == TriggerInit /\ [][TriggerNext]_triggerVars

\* The main loop polls again and again, and a thread inside pull_trigger()
\* goes on when it can; nobody has to call it.
Fairness == WF_triggerVars(handle_read) /\ \A t \in Pullers : WF_triggerVars(Puller(t))
FairSpec == TriggerSpec /\ Fairness

-----------------------------------------------------------------------------
(* Properties.                                                             *)

\* Every variable keeps its type.
TriggerTypeOK ==
  /\ thunks \in Seq(Thunks) /\ passed \in Seq(Thunks) /\ ran \in Seq(Thunks)
  /\ lock \in BOOLEAN
  /\ pipe \in 0..PipeSize
  /\ arg \in [Pullers -> Thunks \cup {NoThunk}]
  /\ step \in [Pullers -> {<<>>, <<"write">>, <<"append", "write">>}]
  /\ main \in {"select", "recv", "run", "clear"}
  /\ next \in Nat \ {0} /\ next <= Len(thunks) + 1
  /\ pulls \in 0..MaxPulls

\* The thunks run, or still to run, are exactly those that were passed, in the
\* order they were passed: none is lost, repeated or overtaken.
RunInOrder == ran \o SubSeq(thunks, next, Len(thunks)) = passed

\* The main loop never waits in select() while thunks wait for it: a byte is
\* in the pipe, or the thread that passed the thunk is about to write one.
NoLostThunk ==
  thunks # <<>> /\ main = "select" => pipe > 0 \/ \E t \in Pullers : step[t] = <<"write">>

\* handle_read() holds the lock while it runs and replaces the list, and at no
\* other time has it begun to run it.
Phases ==
  /\ lock <=> main \in {"run", "clear"}
  /\ ~lock => next = 1
  /\ main = "clear" => next = Len(thunks) + 1
  /\ \A t \in Pullers : step[t] = <<"append", "write">> => arg[t] \in Thunks

\* The trigger between two threads, all of it: what has been passed runs once
\* and in order, and nothing waits unannounced. (pull_trigger, handle_read)
TriggerInv == TriggerTypeOK /\ Phases /\ RunInOrder /\ NoLostThunk

\* Every thunk that was passed runs.
EveryThunkRuns == \A i \in 1..MaxPulls : Len(passed) >= i ~> Len(ran) >= i

\* Nobody stays blocked in pull_trigger(), though the pipe may be full.
PullReturns == \A t \in Pullers : step[t] # <<>> ~> step[t] = <<>>
=============================================================================
