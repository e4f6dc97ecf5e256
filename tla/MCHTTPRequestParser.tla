------------------------ MODULE MCHTTPRequestParser ------------------------
EXTENDS HTTPRequestParser

CRLF == <<"r", "n">>
Lines11(fields) == FoldLeft(LAMBDA s, f : s \o <<f>> \o CRLF, <<"GET1.1">> \o CRLF, fields) \o CRLF

\* Without a body, with a body of a known length or in chunks, with line ends
\* of one byte, blank lines before, fields that are repeated, continued or no
\* number, bodies that look like a header, trailers, and input that raises.
First ==
  { Lines11(<<>>),
    <<"n", "n", "GET", "n", "n">>,
    Lines11(<<"CL0">>),
    Lines11(<<"X", "CL1">>) \o <<"n">>,
    Lines11(<<"CL3">>) \o <<"n", "n", "b">>,
    <<"GET1.0", "n", "TE", "n", "CL1", "n", "n", "b">>,
    Lines11(<<"CLx">>),
    Lines11(<<"CL1", "CL3">>),
    <<"GET", "n", "CL1", "n", " ", "X", "n", "r", "n">>,
    <<"GET", "n", "CL1", "n", " ", "r", "n", "X", "n", "n">>,
    Lines11(<<"TE">>) \o <<"1", "n", "n", "n", "0", "n", "n">>,
    Lines11(<<"TE", "CL1">>) \o <<"2", ";", "X", "r", "n", "r", "n", "r", "n", "0", "r", "n", "r", "n">>,
    Lines11(<<"TE">>) \o <<"0", "n", "X", "r", "n", "r", "n">>,
    Lines11(<<"TE">>) \o <<"0", "1", " ", "n", "b", "n", " ", "0", "r", "n", "X", "n", "n">> }
Second ==
  { Lines11(<<>>), <<"r", "n", "GET", "r", "n", "r", "n">>,
    Lines11(<<"CL1">>) \o <<"b">>,
    Lines11(<<"TE">>) \o <<"2", "n", "b", "n", "0", "n", "r", "n">>,
    Lines11(<<"TE">>) \o <<"X", "n">>, Lines11(<<"TE">>) \o <<"1", "n", "b", ";", "0", "n">>,
    <<"GET[", "n", "n">>, <<"GET", "n", " ", "X", "n", "n">>, <<"r", "GET1.1", "r">> }
MCStreams == {first \o second : first \in First, second \in Second}
=============================================================================
