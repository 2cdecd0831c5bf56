------------------------------- MODULE Lobby -------------------------------
(***************************************************************************)
(* The lobby of the 499 server: process_connections of                     *)
(* Unix/csse2310/assignment4/serv499.c, the clients that connect to it     *)
(* (send_start_game of client499.c) and the threads it starts.  One thread *)
(* accepts clients and reads the two lines of each, waiting for them; when *)
(* a game is full it copies the game into a variable of its own and gives  *)
(* the new thread the address of that variable, which the thread uses for  *)
(* as long as it runs.  All of it is one process, in which nobody ignores  *)
(* SIGPIPE and a failed call ends in error: a client who hangs up may take *)
(* the whole server down.                                                  *)
(***************************************************************************)
EXTENDS Integers, FiniteSets, Sequences, SequencesExt

CONSTANTS
  Clients,    \* numbered in the order in which they connect
  Names,      \* names of games clients ask for
  Garbage,    \* what a name buffer holds that nothing was read into
  NoClient,   \* nobody is being read
  Seats,      \* players of a game, 4 in the code
  MayHangUp   \* can clients close the connection

ASSUME ClientsAssumption ==
  Clients \subseteq Nat /\ IsFiniteSet(Clients) /\ NoClient \notin Clients
ASSUME NamesAssumption == Garbage \notin Names
ASSUME SeatsAssumption == Seats \in Nat \ {0}
ASSUME HangUpAssumption == MayHangUp \in BOOLEAN

VARIABLES
  state,        \* per client: "away", "queued", "greeted", "seated"
  request,      \* per client: the name it will ask for
  gone,         \* clients that closed the connection
  down,         \* the server has ended
  backlog,      \* connections not accepted yet
  reading,      \* the client whose lines are awaited
  pendingGamesList, activeGamesList,
  giveGameSessionData,  \* the variable the threads are given the address of
  running,      \* games, by their place in activeGamesList, with a thread
  spoke         \* history: whom the thread of each game has written to

clientvars == <<state, request, gone>>
vars == <<clientvars, down, backlog, reading, pendingGamesList, activeGamesList,
          giveGameSessionData, running, spoke>>

Game(g, players) == [sessionName |-> g, players |-> players]
NoGame == Game(Garbage, <<>>)
Full(game) == Len(game.players) = Seats

Init ==
  /\ state = [c \in Clients |-> "away"]
  /\ request \in [Clients -> Names]
  /\ gone = {}
  /\ down = FALSE
  /\ backlog = <<>>
  /\ reading = NoClient
  /\ pendingGamesList = <<>> /\ activeGamesList = <<>>
  /\ giveGameSessionData = NoGame
  /\ running = {}
  /\ spoke = <<>>
----------------------------------------------------------------------------
(* The clients.                                                            *)

Connect(c) ==
  /\ ~down
  /\ state[c] = "away"
  /\ \A d \in Clients : d < c => state[d] # "away"  \* clients are alike
  /\ state' = [state EXCEPT ![c] = "queued"]
  /\ backlog' = Append(backlog, c)
  /\ UNCHANGED <<request, gone, down, reading, pendingGamesList, activeGamesList,
                 giveGameSessionData, running, spoke>>

\* A client that hangs up after its lines were sent is one that hangs up after
\* they were read.
HangUp(c) ==
  /\ ~down
  /\ MayHangUp
  /\ state[c] # "away" /\ c \notin gone
  /\ gone' = gone \cup {c}
  /\ UNCHANGED <<state, request, down, backlog, reading, pendingGamesList,
                 activeGamesList, giveGameSessionData, running, spoke>>
----------------------------------------------------------------------------
(* The accepting thread.                                                   *)

\* The connection of a client who hung up may make accept, or the greeting
\* written to it, fail, which ends the server.
Accept ==
  /\ ~down
  /\ reading = NoClient
  /\ backlog # <<>>
  /\ reading' = Head(backlog)
  /\ backlog' = Tail(backlog)
  /\ state' = [state EXCEPT ![reading'] = "greeted"]
  /\ \/ UNCHANGED down
     \/ reading' \in gone /\ down' = TRUE
  /\ UNCHANGED <<request, gone, pendingGamesList, activeGamesList,
                 giveGameSessionData, running, spoke>>

\* The name read: nobody checks whether there was a line to read.
NamesReadOpen(c) == IF c \in gone THEN {} ELSE {request[c]}
NamesRead(c) == IF c \in gone THEN Names \cup {Garbage} ELSE {request[c]}

\* The pending games after c asked for g: the first game of the name gets a
\* player, or a game is added at the end.
MatchingShort(g) == {j \in DOMAIN pendingGamesList :
                       /\ j < Len(pendingGamesList)
                       /\ pendingGamesList[j].sessionName = g}
Matching(g) == {j \in DOMAIN pendingGamesList :
                  pendingGamesList[j].sessionName = g}
Join(c, g) ==
  IF Matching(g) = {}
  THEN Append(pendingGamesList, Game(g, <<c>>))
  ELSE LET j == CHOOSE k \in Matching(g) : \A m \in Matching(g) : k <= m
       IN [pendingGamesList EXCEPT ![j].players = Append(@, c)]

\* A full game leaves the pending games.
DropForgotten(list, j) == list
Drop(list, j) == RemoveAt(list, j)
Given(list) == list[Len(list)]

\* The first full game becomes active, is copied for its thread, and the
\* thread is started.
Start(list, j) ==
  /\ activeGamesList' = Append(activeGamesList, list[j])
  /\ pendingGamesList' = Drop(list, j)
  /\ giveGameSessionData' = Given(activeGamesList')
  /\ running' = running \cup {Len(activeGamesList')}
  /\ spoke' = Append(spoke, {})

\* The lines of the client arrive, or the end of its connection.
Register(c) ==
  /\ ~down
  /\ reading = c
  /\ \E g \in NamesRead(c) :
       LET list == Join(c, g)
           full == {j \in DOMAIN list : Full(list[j])} IN
       IF full = {}
       THEN /\ pendingGamesList' = list
            /\ UNCHANGED <<activeGamesList, giveGameSessionData, running, spoke>>
       ELSE Start(list, CHOOSE j \in full : \A k \in full : j <= k)
  /\ reading' = NoClient
  /\ state' = [state EXCEPT ![c] = "seated"]
  /\ UNCHANGED <<request, gone, down, backlog>>
----------------------------------------------------------------------------
(* The thread of game k: whatever it writes goes to the players it finds   *)
(* through the address it was given.                                       *)

Audience == ToSet(giveGameSessionData.players)

\* Writing to a player who hung up raises SIGPIPE once the connection is reset,
\* and reading from it ends in error: either is the end of all games.
Talk(k) ==
  /\ ~down
  /\ k \in running
  /\ \/ /\ spoke' = [spoke EXCEPT ![k] = @ \cup Audience]
        /\ UNCHANGED down
     \/ /\ Audience \cap gone # {}
        /\ down' = TRUE
        /\ UNCHANGED spoke
  /\ UNCHANGED <<clientvars, backlog, reading, pendingGamesList,
                 activeGamesList, giveGameSessionData, running>>

GameOver(k) ==
  /\ ~down
  /\ k \in running
  /\ running' = running \ {k}
  /\ UNCHANGED <<clientvars, down, backlog, reading, pendingGamesList,
                 activeGamesList, giveGameSessionData, spoke>>

Next == \/ \E c \in Clients : Connect(c) \/ HangUp(c) \/ Register(c)
        \/ Accept
        \/ \E k \in DOMAIN activeGamesList : Talk(k) \/ GameOver(k)

Spec == Init /\ [][Next]_vars

\* The accepting thread runs, and a client that was greeted sends its lines or
\* hangs up; nothing in the code makes it.
Fairness == WF_vars(Accept) /\ \A c \in Clients : WF_vars(Register(c))
FairSpec == Spec /\ Fairness
----------------------------------------------------------------------------
GameTypes == [sessionName : Names \cup {Garbage}, players : Seq(Clients)]

\* The variables have their types; no game has more players than its array.
TypeOK ==
  /\ state \in [Clients -> {"away", "queued", "greeted", "seated"}]
  /\ request \in [Clients -> Names]
  /\ gone \subseteq Clients /\ down \in BOOLEAN
  /\ backlog \in Seq(Clients)
  /\ reading \in Clients \cup {NoClient}
  /\ pendingGamesList \in Seq(GameTypes) /\ activeGamesList \in Seq(GameTypes)
  /\ giveGameSessionData \in GameTypes
  /\ \A list \in {pendingGamesList, activeGamesList} :
       \A j \in DOMAIN list : Len(list[j].players) <= Seats
  /\ running \subseteq DOMAIN activeGamesList
  /\ spoke \in Seq(SUBSET Clients)

Games == pendingGamesList \o activeGamesList
PlacesOf(c) == {place \in (DOMAIN Games) \X (1..Seats) :
                  LET players == Games[place[1]].players
                  IN  place[2] <= Len(players) /\ players[place[2]] = c}

\* A client whose lines were read sits in one place of one game, pending or
\* active, and nobody else sits anywhere: moving games between the lists
\* neither loses nor doubles a player.
SeatedOnce ==
  \A c \in Clients : Cardinality(PlacesOf(c)) = IF state[c] = "seated" THEN 1 ELSE 0

\* Clients who ask for the same game meet: pending games have different names
\* and are not full, and active games have all their players.
TablesFill ==
  /\ \A j, k \in DOMAIN pendingGamesList :
       pendingGamesList[j].sessionName = pendingGamesList[k].sessionName => j = k
  /\ \A j \in DOMAIN pendingGamesList : ~Full(pendingGamesList[j])
  /\ \A j \in DOMAIN activeGamesList : Full(activeGamesList[j])

\* The thread of each game writes to players of its game only.
OwnPlayers ==
  \A k \in DOMAIN activeGamesList : spoke[k] \subseteq ToSet(activeGamesList[k].players)

\* Every client that connects is seated in the end, although the server reads
\* one client at a time, unless a client who hung up takes the server down.
EveryoneSeated ==
  \A c \in Clients :
    state[c] = "queued" ~> state[c] = "seated" \/ (down /\ gone # {})
============================================================================
