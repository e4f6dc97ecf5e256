-------------------------- MODULE MCTaskDispatcher --------------------------
(* Values of the constants of TaskDispatcher for TLC.                      *)
EXTENDS TaskDispatcher, TLC

ThreeNumbers == 0..2
UpToTwo      == 0..2
=============================================================================
