-------------------------------- MODULE Maze --------------------------------
(***************************************************************************)
(* The maze game of src/Unix/csse2310/assignment3: handler.c asks its      *)
(* agents, child processes behind pipes, one after the other for a move.   *)
(* The agents are waller.c, simple.c, fromfile.c and slow.c with what they *)
(* share in sharing.c.  Agents may fail at the start or die at any time;   *)
(* the SIGCHLD handler runs between any two steps of the turn loop.        *)
(***************************************************************************)
EXTENDS Integers, Sequences, FiniteSets

CONSTANTS
  Rows, Cols,   \* mapDimensions
  Games,        \* maps with agents: the contents of the two input files
  MaxTurns,     \* maxTurns
  SimpleMoves,  \* moves of simple.c before it is done (10)
  Delay,        \* moves that slow.c lags behind its target (10)
  StaleStatus   \* what an extStatus that was never set may look like

Cells == (1..Rows) \X (1..Cols)
Dirs  == {"N", "S", "E", "W"}
Moves == Dirs \cup {"H", "D"}
Lines == Moves \cup {"text"}      \* "text": a line of more than one letter

\* What an agent program accepts as its argument: a direction, a file of
\* letters, the agent to follow; a program that accepts nothing is "bad", and
\* its argument is the status it exits with.
ArgumentOK(agent, others) ==
  \/ agent.kind \in {"waller", "simple"} /\ agent.arg \in Dirs
  \/ agent.kind = "fromfile" /\ agent.arg \in Seq(Moves)
  \/ agent.kind = "slow" /\ agent.arg \in others
  \/ agent.kind = "bad" /\ agent.arg \in 1..7

ASSUME MazeAssumption ==
  /\ Rows \in Nat \ {0} /\ Cols \in Nat \ {0}
  /\ MaxTurns \in Nat \ {0} /\ SimpleMoves \in Nat /\ Delay \in Nat \ {0}
  /\ StaleStatus \subseteq {-15, -9} \cup 0..7
  /\ \A g \in Games :
       /\ g.walls \subseteq Cells
       /\ Len(g.agents) \in Nat \ {0} /\ DOMAIN g.agents = 1..Len(g.agents)
       /\ \A i \in DOMAIN g.agents : ArgumentOK(g.agents[i], DOMAIN g.agents)
       /\ \A i \in DOMAIN g.agents : g.agents[i].at \in Cells

VARIABLES
  game,        \* the map and the agents, as read at the start
  pos,         \* currentPosition of every agent
  mem,         \* what each agent program remembers
  life,        \* its process: "run", "closing", "zombie" or "reaped"
  status,      \* its exit status, or minus the signal that ended it
  asked,       \* coordinates are in its pipe
  lines,       \* its answers in the pipe back
  pc, cur, turns, buf,  \* the turn loop; buf is recievedMove
  waits, result,        \* reaper's second loop and the exit code behind it
  sigchld, inSig,       \* SIGCHLD is pending; interceptee is running
  killed,      \* killedBySigKill # 0
  code         \* how handler ended: an exit code, or SigPipe; Running before

agentVars == <<mem, life, status, asked, lines>>
loopVars  == <<pc, cur, turns, buf, waits, result>>
sigVars   == <<sigchld, inSig, killed>>
vars == <<game, pos, agentVars, loopVars, sigVars, code>>

Running == -1
SigPipe == -13

Ids   == DOMAIN game.agents
Kind(a) == game.agents[a].kind
Arg(a)  == game.agents[a].arg
Start(a) == game.agents[a].at

-----------------------------------------------------------------------------
(* The map.                                                                *)

Offset == [N |-> <<-1, 0>>, S |-> <<1, 0>>, E |-> <<0, 1>>, W |-> <<0, -1>>]
LeftOf == [N |-> "W", W |-> "S", S |-> "E", E |-> "N"]
RightOf == [N |-> "E", E |-> "S", S |-> "W", W |-> "N"]

\* give_point_difference and update_point: other letters stay put.
Ahead(p, d) ==
  IF d \in Dirs THEN <<p[1] + Offset[d][1], p[2] + Offset[d][2]>> ELSE p

Free(p) == p \in Cells \ game.walls

\* check_direction_with_map
Walled(p, d) == p \notin Cells \/ (d \in Dirs /\ ~Free(Ahead(p, d)))

Taken(p) == \E b \in Ids : pos[b] = p

-----------------------------------------------------------------------------
(* The agent programs: what agent a may answer to the positions it reads,  *)
(* with its memory afterwards and whether it ends.                         *)

Answer(m, line) == [mem |-> m, line |-> line, ends |-> FALSE]
Done(m) == [mem |-> m, line |-> "D", ends |-> TRUE]

\* check_wall_lower_left: free on the left, and a wall on the left behind.
WallLowerLeftAhead(p, d) ==
  /\ d \in Dirs
  /\ ~Walled(p, LeftOf[d])
  /\ Walled(Ahead(p, d), LeftOf[d])
WallLowerLeft(p, d) ==
  /\ d \in Dirs
  /\ ~Walled(p, LeftOf[d])
  /\ Walled(Ahead(p, LeftOf[LeftOf[d]]), LeftOf[d])

\* agent_turn_left: looks to the left of the direction it is given.
TurnBlocked(p, d) == Taken(Ahead(p, LeftOf[d]))

\* agent_in_path: with 'H' it compares a point it never set.
InPath(p, d) == IF d \in Dirs THEN {Taken(Ahead(p, d))} ELSE BOOLEAN

\* The do loop of waller's main: turn right until there is no wall.
FirstFree(p, d) ==
  LET turn == <<RightOf[d], LeftOf[LeftOf[d]], LeftOf[d]>>
  IN  turn[CHOOSE k \in 1..3 : /\ ~Walled(p, turn[k])
                               /\ \A j \in 1..(k - 1) : Walled(p, turn[j])]

Waller(a) ==
  LET m == mem[a]
      p == pos[a]
      To(move, prev) == Answer([move |-> move, prev |-> prev], move)
  IN  CASE \A d \in Dirs : Walled(p, d) -> {To("H", m.move)}
        [] (\E d \in Dirs : ~Walled(p, d)) /\ WallLowerLeft(p, m.move) ->
             LET new == LeftOf[m.move]
             IN  {To(IF TurnBlocked(p, new) THEN "H" ELSE new, new)}
        [] OTHER ->
             IF Walled(p, m.move) THEN {To(FirstFree(p, m.move), m.prev)}
             ELSE {To(IF inPath THEN "H"
                      ELSE IF m.move = "H" THEN m.prev ELSE m.move, m.prev) :
                     inPath \in InPath(p, m.move)}

Simple(a) ==
  IF mem[a] = 0 THEN {Done(mem[a])}
  ELSE {Answer(mem[a] - 1, IF Walled(pos[a], Arg(a)) THEN "H" ELSE Arg(a))}

FromFile(a) ==
  IF mem[a] = <<>> THEN {Done(mem[a])}
  ELSE LET d == Head(mem[a])
       IN  {Answer(Tail(mem[a]),
                   IF d \notin Dirs \/ Walled(pos[a], d) THEN "H" ELSE d)}

\* coords_difference
DifferenceBack(p, q) ==
  IF \E d \in Dirs : Ahead(q, d) = p THEN CHOOSE d \in Dirs : Ahead(q, d) = p
  ELSE "H"
Difference(p, q) ==
  IF \E d \in Dirs : Ahead(p, d) = q THEN CHOOSE d \in Dirs : Ahead(p, d) = q
  ELSE "H"

\* slow.c keeps the last Delay + 1 positions of its target; their
\* differences are delayedMoves.  "first" is kept for the properties.
Slow(a) ==
  LET m    == mem[a]
      now  == pos[Arg(a)]
      seen == Append(m.seen, now)
  IN  IF Len(m.seen) <= Delay
        THEN {Answer([first |-> seen[1], seen |-> seen], "H")}
        ELSE {Answer([m EXCEPT !.seen = Tail(seen)],
                     Difference(m.seen[1], m.seen[2]))}

Decide(a) ==
  CASE Kind(a) = "waller"   -> Waller(a)
    [] Kind(a) = "simple"   -> Simple(a)
    [] Kind(a) = "fromfile" -> FromFile(a)
    [] Kind(a) = "slow"     -> Slow(a)

StartMem(agent) ==
  CASE agent.kind = "waller"   -> [move |-> agent.arg, prev |-> agent.arg]
    [] agent.kind = "simple"   -> SimpleMoves
    [] agent.kind = "fromfile" -> agent.arg
    [] agent.kind = "slow"     -> [first |-> agent.at, seen |-> <<>>]
    [] agent.kind = "bad"      -> 0

\* scanf's trailing newline in check_start_inputs also skips the leading rows
\* without walls; run_get_map then reads as many lines more, of coordinates.
OpenRows ==
  LET open == {k \in 1..Rows : \A r \in 1..k, c \in 1..Cols : Free(<<r, c>>)}
  IN  Cardinality(open)

\* A line of coordinates fits into the buffer for a row: one fgets takes it.
LinesFit == Rows <= 9 /\ Cols \in 3..9

-----------------------------------------------------------------------------
Init ==
  /\ game \in Games
  /\ pos = [a \in Ids |-> game.agents[a].at]
  /\ mem = [a \in Ids |-> StartMem(game.agents[a])]
  /\ life = [a \in Ids |-> "run"]
  /\ status = [a \in Ids |-> 0]
  /\ asked = [a \in Ids |-> FALSE]
  /\ lines = [a \in Ids |-> <<>>]
  /\ pc = "init" /\ cur = 1 /\ turns = 0 /\ buf = "text"
  /\ waits = 0 /\ result = 0
  /\ sigchld = FALSE /\ inSig = FALSE /\ killed = FALSE
  /\ code = Running

Ended == code # Running

\* A process ends: its pipes are closed first.
Exit(a, s) ==
  /\ life' = [life EXCEPT ![a] = "closing"]
  /\ status' = [status EXCEPT ![a] = s]

\* An agent reads the coordinates and answers.
Play(a) ==
  /\ life[a] = "run" /\ asked[a] /\ Kind(a) # "bad" /\ OpenRows = 0
  /\ asked' = [asked EXCEPT ![a] = FALSE]
  /\ \E r \in Decide(a) :
       /\ mem' = [mem EXCEPT ![a] = r.mem]
       /\ lines' = [lines EXCEPT ![a] = Append(@, r.line)]
       /\ IF r.ends THEN Exit(a, 0) ELSE UNCHANGED <<life, status>>
  /\ UNCHANGED <<game, pos, loopVars, sigVars, code>>

\* check_map fails on coordinates read as a row: BAD_HANDLER_COMM.
MisreadMap(a) ==
  /\ life[a] = "run" /\ asked[a] /\ Kind(a) # "bad" /\ OpenRows > 0
  /\ OpenRows <= Len(game.agents) \/ ~LinesFit
  /\ lines' = [lines EXCEPT ![a] = Append(@, "text")]
  /\ asked' = [asked EXCEPT ![a] = FALSE]
  /\ Exit(a, 4)
  /\ UNCHANGED <<game, pos, mem, loopVars, sigVars, code>>

\* run_get_map takes all the coordinates there are and blocks in fgets for more.
StarveInMap(a) ==
  /\ life[a] = "run" /\ asked[a] /\ Kind(a) # "bad"
  /\ OpenRows > Len(game.agents)
  /\ asked' = [asked EXCEPT ![a] = FALSE]
  /\ UNCHANGED <<game, pos, mem, life, status, lines, loopVars, sigVars, code>>

\* Wrong arguments end an agent at once, with a message in the pipe, and
\* status 7, a failed execv, without one.
FailAtStart(a) ==
  /\ life[a] = "run" /\ Kind(a) = "bad"
  /\ lines' = [lines EXCEPT ![a] = IF Arg(a) = 7 THEN @ ELSE Append(@, "text")]
  /\ Exit(a, Arg(a))
  /\ UNCHANGED <<game, pos, mem, asked, loopVars, sigVars, code>>

\* An agent is killed from outside (SIGTERM) or by a fault of its own.
Crash(a) ==
  /\ life[a] = "run" /\ a = game.crashes
  /\ Exit(a, -15)
  /\ UNCHANGED <<game, pos, mem, asked, lines, loopVars, sigVars, code>>

\* The kernel posts SIGCHLD; signals that are pending already are merged.
Die(a) ==
  /\ life[a] = "closing"
  /\ life' = [life EXCEPT ![a] = "zombie"]
  /\ sigchld' = TRUE
  /\ UNCHANGED <<game, pos, mem, status, asked, lines, loopVars, inSig,
                 killed, code>>

Agent(a) == \/ Play(a) \/ MisreadMap(a) \/ StarveInMap(a)
            \/ FailAtStart(a) \/ Die(a)

-----------------------------------------------------------------------------
(* The turn loop of main.  It stands still while interceptee runs.         *)

At(label) == pc = label /\ ~inSig /\ ~Ended

\* A write to an agent that is gone: SIGPIPE has its default action.
BrokenPipe == code' = SigPipe /\ UNCHANGED <<pc, asked>>

\* send_init_interaction
SendInit ==
  /\ At("init")
  /\ IF \A a \in Ids : life[a] = "run"
       THEN pc' = "send" /\ UNCHANGED <<code, asked>>
       ELSE BrokenPipe
  /\ UNCHANGED <<game, pos, mem, life, status, lines, cur, turns, buf, waits,
                 result, sigVars>>

\* send_coords to the agent whose turn it is.
AskFirst(a) == asked' = [asked EXCEPT ![1] = TRUE]
Ask(a) == asked' = [asked EXCEPT ![a] = TRUE]

SendCoords ==
  /\ At("send")
  /\ IF life[cur] = "run"
       THEN /\ pc' = "read" /\ Ask(cur)
            /\ UNCHANGED code
       ELSE BrokenPipe
  /\ UNCHANGED <<game, pos, mem, life, status, lines, cur, turns, buf, waits,
                 result, sigVars>>

\* fgets: at the end of file the buffer keeps what it held.
ReadMove ==
  /\ At("read")
  /\ \/ /\ lines[cur] # <<>>
        /\ buf' = Head(lines[cur])
        /\ lines' = [lines EXCEPT ![cur] = Tail(@)]
     \/ /\ lines[cur] = <<>> /\ life[cur] # "run"
        /\ UNCHANGED <<buf, lines>>
  /\ pc' = "judge"
  /\ UNCHANGED <<game, pos, mem, life, status, asked, cur, turns, waits,
                 result, sigVars, code>>

\* check_agent_collision: a letter that is no direction meets the agent itself.
CollidesNever(p, d) == FALSE
Collides(p, d) == d # "H" /\ Taken(Ahead(p, d))

\* process_command exits without the reaper.
InvalidResponse ==
  /\ At("judge") /\ buf = "text"
  /\ code' = 11
  /\ UNCHANGED <<game, pos, agentVars, loopVars, sigVars>>

Finish(how) == result' = how /\ pc' = "kill" /\ UNCHANGED <<pos, cur, turns>>

JudgeMove ==
  /\ At("judge") /\ buf # "text"
  /\ LET p == pos[cur]
     IN  \/ buf = "D" /\ Finish(0)
         \/ buf # "D" /\ Walled(p, buf) /\ Finish(8)
         \/ buf # "D" /\ ~Walled(p, buf) /\ Collides(p, buf) /\ Finish(9)
         \/ /\ buf # "D" /\ ~Walled(p, buf) /\ ~Collides(p, buf)
            /\ pos' = [pos EXCEPT ![cur] = Ahead(p, buf)]
            /\ LET last == cur = Len(game.agents)
                   over == last /\ turns + 1 = MaxTurns
               IN  /\ cur' = IF last THEN 1 ELSE cur + 1
                   /\ turns' = IF last THEN turns + 1 ELSE turns
                   /\ pc' = IF over THEN "kill" ELSE "send"
                   /\ result' = IF over THEN 10 ELSE result
  /\ UNCHANGED <<game, agentVars, buf, waits, sigVars, code>>

\* The loop over the agents to kill.
DoomedOffByOne == {a \in Ids : life[a] = "run" /\ a < Len(game.agents)}
Doomed == {a \in Ids : life[a] = "run"}

\* reaper: kill every agent, sleep, and wait as often as there are agents.
KillAll ==
  /\ At("kill")
  /\ life' = [a \in Ids |-> IF a \in Doomed THEN "closing" ELSE life[a]]
  /\ status' = [a \in Ids |-> IF a \in Doomed THEN -9 ELSE status[a]]
  /\ pc' = "wait" /\ waits' = Len(game.agents)
  /\ UNCHANGED <<game, pos, mem, asked, lines, cur, turns, buf, result,
                 sigVars, code>>

Zombies  == {a \in Ids : life[a] = "zombie"}
NoChild  == \A a \in Ids : life[a] = "reaped"
Reap(a)  == life' = [life EXCEPT ![a] = "reaped"]

WaitOne ==
  /\ At("wait") /\ waits > 0
  /\ \/ \E a \in Zombies : Reap(a)
     \/ NoChild /\ UNCHANGED life
  /\ waits' = waits - 1
  /\ UNCHANGED <<game, pos, mem, status, asked, lines, pc, cur, turns, buf,
                 result, sigVars, code>>

ExitHandler ==
  /\ At("wait") /\ waits = 0
  /\ code' = result
  /\ UNCHANGED <<game, pos, agentVars, loopVars, sigVars>>

Loop == \/ SendInit \/ SendCoords \/ ReadMove \/ InvalidResponse \/ JudgeMove
        \/ KillAll \/ WaitOne \/ ExitHandler

-----------------------------------------------------------------------------
(* interceptee.                                                            *)

Intercept ==
  /\ ~Ended /\ sigchld /\ ~inSig
  /\ sigchld' = FALSE /\ inSig' = TRUE
  /\ UNCHANGED <<game, pos, agentVars, loopVars, killed, code>>

\* What the status of the agent that wait returned leads to.
InterpretRaw(s) ==
  /\ killed' = (killed \/ s = -9)
  /\ code' = CASE s > 0 -> s
               [] s < 0 /\ s # -9 /\ ~killed -> 13
               [] OTHER -> code
Interpret(s) ==
  /\ killed' = (killed \/ s = -9)
  /\ code' = CASE s \in 1..4 -> 12
               [] s = 7 -> 7
               [] s < 0 /\ s # -9 /\ ~killed -> 13
               [] OTHER -> code

InterceptWait ==
  /\ ~Ended /\ inSig /\ inSig' = FALSE
  /\ \/ \E a \in Zombies : Reap(a) /\ Interpret(status[a])
     \/ /\ NoChild /\ UNCHANGED life              \* wait fails
        /\ \E s \in StaleStatus : Interpret(s)
  /\ UNCHANGED <<game, pos, mem, status, asked, lines, loopVars, sigchld>>

\* intercepteeInt
Interrupt ==
  /\ ~Ended /\ game.interrupted
  /\ code' = 14
  /\ UNCHANGED <<game, pos, agentVars, loopVars, sigVars>>

Next ==
  \/ Loop \/ Intercept \/ InterceptWait \/ Interrupt
  \/ ~Ended /\ \E a \in Ids : Agent(a) \/ Crash(a)

Spec == Init /\ [][Next]_vars

\* The processes are scheduled; nobody has to interrupt or kill anything.
FairSpec ==
  /\ Spec
  /\ WF_vars(Loop) /\ WF_vars(Intercept \/ InterceptWait)
  /\ WF_vars(~Ended /\ \E a \in Ids : Agent(a))

-----------------------------------------------------------------------------
\* The variables have their types; the handler ends with one of its codes.
TypeOK ==
  /\ game \in Games
  /\ pos \in [Ids -> Int \X Int]
  /\ life \in [Ids -> {"run", "closing", "zombie", "reaped"}]
  /\ status \in [Ids -> {-15, -9} \cup 0..7]
  /\ asked \in [Ids -> BOOLEAN]
  /\ lines \in [Ids -> Seq(Lines)]
  /\ pc \in {"init", "send", "read", "judge", "kill", "wait"}
  /\ cur \in Ids /\ turns \in 0..MaxTurns /\ buf \in Lines
  /\ waits \in 0..Len(game.agents) /\ result \in {0, 8, 9, 10}
  /\ {sigchld, inSig, killed} \subseteq BOOLEAN
  /\ code \in {Running, SigPipe, 0, 7, 8, 9, 10, 11, 12, 13, 14}

\* The display writes every agent into the map: whatever the agents answer,
\* and also when a move is judged that a dead agent never made, every agent is
\* on the map, and one that has left the place the file gave it (which nothing
\* checks) stands on a free cell and alone.
SafePositions ==
  \A a \in Ids :
    /\ pos[a] \in Cells
    /\ pos[a] # Start(a) => /\ Free(pos[a])
                           /\ \A b \in Ids \ {a} : pos[b] # pos[a]

\* Handler and agents stay in step: nobody but the agent whose turn it is has
\* coordinates to read or an answer waiting, and never more than one, so an
\* answer is always about the positions it is judged by.
InStep ==
  \A a \in Ids :
    /\ Len(lines[a]) <= 1
    /\ life[a] = "run" =>
         /\ asked[a] => lines[a] = <<>>
         /\ asked[a] \/ lines[a] # <<>> => a = cur /\ pc = "read"

\* A waller that is alone and left alone.
LoneWaller == Len(game.agents) = 1 /\ Kind(1) = "waller" /\ game.crashes # 1

\* Its left hand is on a wall, beside it or where it has just been, or it is
\* walled in.
HandOnWall ==
  LET p == pos[1]
      d == mem[1].move
  IN  /\ LoneWaller
      /\ \/ \A e \in Dirs : Walled(p, e)
         \/ /\ d \in Dirs
            /\ \/ Walled(p, LeftOf[d])
               \/ Walled(Ahead(p, RightOf[RightOf[d]]), LeftOf[d])

\* A waller that is alone never runs into a wall, and once its left hand is on
\* a wall, whatever corners and dead ends the wall has, it never loses it.
WallerKeepsWall ==
  /\ [](LoneWaller => result \notin {8, 9})
  /\ [](pc = "send" /\ HandOnWall => [](pc = "send" => HandOnWall))

\* However the moves of the agents interleave, slow.c repeats the way of its
\* target, Delay moves behind: its displacement is the one the target had.
SlowTrails ==
  \A a \in Ids :
    LET seen == mem[a].seen[1]
        from == Start(a)
    IN  /\ Kind(a) = "slow" /\ life[a] = "run" /\ pc = "send"
        /\ mem[a].seen # <<>>
        => /\ pos[a][1] - from[1] = seen[1] - mem[a].first[1]
           /\ pos[a][2] - from[2] = seen[2] - mem[a].first[2]

\* Whatever agents die and whichever signals are merged, handler ends: it is
\* never stuck in fgets or in one of its calls of wait.  The exception are maps
\* that begin with more open rows than there are agents: there the agent waits
\* for a row of the map and handler for its answer.
GameEnds == OpenRows <= Len(game.agents) => <>Ended
=============================================================================
