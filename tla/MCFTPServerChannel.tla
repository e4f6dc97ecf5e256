------------------------- MODULE MCFTPServerChannel -------------------------
(* A client that logs in, then sends two commands of any kind, one by one or *)
(* together; and batches of three where commands meet others that run.       *)
EXTENDS FTPServerChannel

Cmd(method, args) == [kind |-> "line", method |-> method, args |-> args]
Half == [kind |-> "part", method |-> "", args |-> <<>>]

User == Cmd("user", <<"bob">>)
Right == Cmd("pass", <<"right">>)
Wrong == Cmd("pass", <<"wrong">>)
Rest == Cmd("rest", <<"position">>)
Retr1 == Cmd("retr", <<"f">>)
Dele == Cmd("dele", <<"f">>)
Login == <<User, Right>>

WithoutArgs == {Cmd(method, <<>>) : method \in
  {"", "abor", "cdup", "dele", "help", "list", "noop", "pasv", "pwd", "quit", "retr", "stat", "stor",
   "syst", "type", "user"}}
WithName == {Cmd(method, <<"f">>) : method \in
  {"appe", "cwd", "mdtm", "mkd", "nlst", "rmd", "rnfr", "rnto", "size", "stru", "mode", "port", "rest"}}
Others ==
  {Rest, Retr1, Dele, Wrong, Cmd("rest", <<"0">>), Cmd("cwd", <<"/", "..", "d">>), Cmd("list", <<"-?">>),
   Cmd("mdtm", <<"f", "g">>), Cmd("type", <<"i">>), Cmd("type", <<"l", "byte", "7">>),
   Cmd("stru", <<"F">>), Cmd("mode", <<"S">>), Cmd("port", <<"address">>)}
Lines == WithoutArgs \cup WithName \cup Others

\* Whoever logs in again, transfers again or renames again, while others run.
Meetings ==
  {<<Wrong, Dele>>, <<Cmd("user", <<"eve">>), Right, Dele>>, <<User, Wrong, Dele>>, <<Right, User, Dele>>,
   <<Rest, Retr1, Retr1>>, <<Retr1, Rest, Retr1>>, <<Rest, Retr1, Rest, Retr1>>,
   <<Rest, Cmd("stor", <<"f">>), Retr1>>,
   <<Cmd("rnfr", <<"f">>), Cmd("rnto", <<"g">>), Cmd("rnto", <<"g">>)>>,
   <<Half, Dele, Half>>, <<Half, Half, Half, Dele>>, <<Cmd("quit", <<>>), Dele, Cmd("noop", <<>>)>>}

MCScripts ==
  {<<Login, <<x>>, <<y>>>> : x, y \in Lines}
    \cup {<<Login, <<x, y>>>> : x, y \in Lines}
    \cup {<<<<x>>, Login>> : x \in Lines}
    \cup {<<Login, batch, <<Dele>>>> : batch \in Meetings}
    \cup {<<Login \o batch>> : batch \in Meetings}
MCAccepted == {<<"bob", <<"right">>>>}
MCMaxLines == 7
=============================================================================
