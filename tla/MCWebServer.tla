---------------------------- MODULE MCWebServer ----------------------------
(* A directory with two readable files and one unreadable one.             *)
EXTENDS WebServer, TLC

MCFiles == <<"p">> :> 2 @@ <<"q">> :> 0 @@ <<"p", "q">> :> 1
             @@ <<"r">> :> 1 @@ <<"s">> :> 1
MCUnreadable == {<<"r">>}
MCInvalid == {<<"s">>}

\* The first client: a path in two pieces, a missing file with HEAD, a forbidden
\* one, an invalid one, a refused method, nonsense, two requests on one connection.
MCRequests ==
  1 :> { <<"GET", "p", "q", "end">>, <<"HEAD", "q", "q", "end">>,
         <<"POST", "p", "end">>, <<"GET", "s", "end">>,
         <<"GET", "r", "end">>, <<"bad", "bad">>,
         <<"GET", "p", "bad">>, <<"GET", "p", "keep", "GET", "q", "end">> }
  @@ 2 :> { <<"bad">> }
  @@ 3 :> { <<>> }        \* connects and stays silent
=============================================================================
