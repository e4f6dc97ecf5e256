----------------------------- MODULE MCMainLoop -----------------------------
(* What the main loop serves besides the channels, for TLC: its trigger, or *)
(* its server socket with the maps and the cleanups. They share no state.   *)
EXTENDS Trigger, ChannelServer

VARIABLE subject  \* which of the two goes on

FourFds == 3..6

MCInit == TriggerInit /\ Init /\ subject \in {"trigger", "server"}
MCNext ==
  \/ subject = "trigger" /\ TriggerNext /\ UNCHANGED <<vars, subject>>
  \/ subject = "server" /\ Next /\ UNCHANGED <<triggerVars, subject>>
MCSpec == MCInit /\ [][MCNext]_<<vars, triggerVars, subject>> /\ Fairness
=============================================================================
