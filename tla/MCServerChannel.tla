--------------------------- MODULE MCServerChannel ---------------------------
(* Values of the constants of ServerChannel for TLC.                       *)
EXTENDS ServerChannel, TLC

\* One recv() per request, or two requests pipelined in one recv().
SingleRequests == {<<"full">>}
Pipelined      == {<<"full">>, <<"full", "full">>}
\* A request in two parts, blank lines before one, a part left over, and
\* bytes the parser raises on, alone or behind a request.
AllPieces == {<<"full">>, <<"full", "full">>, <<"part", "full">>, <<"full", "part">>,
              <<"empty", "full">>, <<"bad">>, <<"full", "bad">>}
PipelinedBad   == {<<"full", "bad">>}

WorkerSymmetry == Permutations(Workers)
=============================================================================
