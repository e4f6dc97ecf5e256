---------------------------- MODULE TaskSequence ----------------------------
(* What IServerChannel.queue_task() promises: the tasks of a channel are   *)
(* "processed in sequence".  A task is begun when it is the oldest one     *)
(* waiting and no other is in progress; the waiting tasks can only be      *)
(* cancelled all together, and not while one is in progress.               *)
EXTENDS Naturals, Sequences

VARIABLES
  waiting,   \* tasks queued and not begun, oldest first
  active     \* tasks in progress

vars == <<waiting, active>>

Init == waiting = <<>> /\ active = {}

\* Some task joins at the end.
Queue == /\ waiting' # <<>>
         /\ waiting = SubSeq(waiting', 1, Len(waiting') - 1)
         /\ UNCHANGED active

Begin == /\ active = {} /\ waiting # <<>>
         /\ active' = {Head(waiting)}
         /\ waiting' = Tail(waiting)

End == /\ active # {} /\ active' = {}
       /\ UNCHANGED waiting

Cancel == /\ active = {} /\ waiting' = <<>>
          /\ UNCHANGED active

Next == Queue \/ Begin \/ End \/ Cancel

Spec == Init /\ [][Next]_vars
=============================================================================
