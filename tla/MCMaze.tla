------------------------------- MODULE MCMaze -------------------------------
(* Games on a map of three by four cells.                                  *)
EXTENDS Maze

Group(walls, agents, crashes) ==
  [walls |-> walls, crashes |-> crashes, interrupted |-> FALSE,
   agents |-> agents]
Unit(kind, at, arg) == [kind |-> kind, at |-> at, arg |-> arg]

\* Every map around a waller; facing north also with the waller put on a wall.
Lone(w, d) == Group(w, <<Unit("waller", <<2, 2>>, d)>>, 0)
LoneGames == {Lone(w, d) : w \in SUBSET (Cells \ {<<2, 2>>}), d \in Dirs}
               \cup {Lone(w, "N") : w \in SUBSET Cells}

Top == {<<1, 1>>}

Walk  == <<"H", "E", "N", "W">>
Groups ==
  { Group(Top, <<Unit("simple", <<2, 1>>, "E"), Unit("slow", <<3, 1>>, 1)>>, 2),
    Group(Top, <<Unit("fromfile", <<2, 2>>, <<"E", "N", "W">>),
                 Unit("slow", <<2, 4>>, 1)>>, 0),
    Group(Top, <<Unit("waller", <<2, 1>>, "E"), Unit("waller", <<2, 3>>, "W"),
                 Unit("fromfile", <<3, 1>>, Walk)>>, 3),
    Group({}, <<Unit("waller", <<1, 1>>, "E"),
                Unit("simple", <<3, 3>>, "W")>>, 2),
    Group(Top, <<Unit("fromfile", <<2, 1>>, <<>>), Unit("bad", <<2, 2>>, 2),
                 Unit("bad", <<2, 3>>, 7)>>, 1),
    Group(Top, <<Unit("simple", <<1, 1>>, "S"), Unit("simple", <<2, 2>>, "W"),
                 Unit("fromfile", <<2, 2>>, <<"E", "W">>)>>, 3),
    Group(Top, <<Unit("bad", <<2, 1>>, 1), Unit("simple", <<2, 2>>, "E")>>, 2),
    Group(Top, <<Unit("bad", <<2, 1>>, 7), Unit("simple", <<2, 2>>, "E")>>, 0),
    [Group(Top, <<Unit("simple", <<2, 1>>, "N")>>, 1)
       EXCEPT !.interrupted = TRUE] }

MCGames == LoneGames \cup Groups

\* A status that was never set may look like every kind of end.
MCStale == {-15, -9, 0, 2, 7}
=============================================================================
