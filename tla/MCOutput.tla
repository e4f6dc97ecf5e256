------------------------------ MODULE MCOutput ------------------------------
(* Output, for TLC: a buffer on its own, or the channel of a download, which *)
(* takes its buffer as the queue that the first shows it to be.              *)
EXTENDS FileBuffer, RETRChannel

VARIABLE subject  \* which of the two goes on

TwoBytes  == {<<>>, <<1>>, <<2>>, <<1, 2>>}
UpToThree == -1..3

MCInit == Init /\ DownloadInit /\ subject \in {"buffer", "channel"}
MCNext ==
  \/ subject = "buffer" /\ Next /\ UNCHANGED <<downloadVars, subject>>
  \/ subject = "channel" /\ DownloadNext /\ UNCHANGED <<vars, subject>>
MCSpec == MCInit /\ [][MCNext]_<<vars, downloadVars, subject>> /\ DownloadFairness
=============================================================================
