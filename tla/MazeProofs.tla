----------------------------- MODULE MazeProofs -----------------------------
(* The positions, the pipes, the types, the lone waller's wall and the way  *)
(* of slow.c, for every map, every set of agents and every behaviour of     *)
(* the agents and of the signals.                                           *)
EXTENDS Maze, TLAPS

\* Every agent has a cell, and those that moved stand apart on free cells.
PlacesInv ==
  /\ pos \in [Ids -> Cells]
  /\ SafePositions

\* A move that the map and the collision test let through is none, or leads to
\* a free cell on which nobody stands.
LEMMA JudgedMove ==
  ASSUME NEW p, NEW d, ~Walled(p, d), ~Collides(p, d)
  PROVE  Ahead(p, d) = p \/ (Free(Ahead(p, d)) /\ ~Taken(Ahead(p, d)))
<1>1. CASE d \in Dirs
  <2>1. Free(Ahead(p, d))
    BY <1>1 DEF Walled
  <2>2. d # "H"
    BY <1>1 DEF Dirs
  <2> QED  BY <2>1, <2>2 DEF Collides
<1>2. CASE d \notin Dirs
  BY <1>2 DEF Ahead
<1> QED  BY <1>1, <1>2

\* Only JudgeMove moves anybody.
LEMMA OthersStay ==
  ASSUME [Next]_vars, ~JudgeMove
  PROVE  UNCHANGED <<game, pos>>
<1>1. CASE Loop
  BY <1>1 DEF Loop, SendInit, SendCoords, ReadMove, InvalidResponse, KillAll,
              WaitOne, ExitHandler
<1>2. CASE Intercept \/ InterceptWait \/ Interrupt
  BY <1>2 DEF Intercept, InterceptWait, Interrupt
<1>3. ASSUME NEW a \in Ids, Agent(a) \/ Crash(a)
      PROVE  UNCHANGED <<game, pos>>
  BY <1>3 DEF Agent, Play, MisreadMap, StarveInMap, FailAtStart, Die, Crash
<1>4. CASE UNCHANGED vars
  BY <1>4 DEF vars
<1> QED  BY <1>1, <1>2, <1>3, <1>4 DEF Next

\* A move that was judged leads to a free cell nobody stands on.
LEMMA MoveSafe ==
  ASSUME PlacesInv, JudgeMove
  PROVE  PlacesInv'
<1> DEFINE p == pos[cur]
           q == Ahead(p, buf)
<1>1. game' = game
  BY DEF JudgeMove
<1>2. CASE pos' = pos
  BY <1>1, <1>2 DEF PlacesInv, SafePositions, Free, Ids, Start
<1>3. CASE pos' = [pos EXCEPT ![cur] = q] /\ cur \notin Ids
  <2>1. pos' = pos
    BY <1>3 DEF PlacesInv
  <2> QED  BY <2>1, <1>2
<1>4. CASE /\ pos' = [pos EXCEPT ![cur] = q] /\ cur \in Ids
           /\ ~Walled(p, buf) /\ ~Collides(p, buf)
  <2>1. q = p \/ (Free(q) /\ ~Taken(q))
    BY <1>4, JudgedMove
  <2>2. pos' = [a \in Ids |-> IF a = cur THEN q ELSE pos[a]]
    BY <1>4 DEF PlacesInv
  <2>3. CASE q = p
    <3>1. pos' = pos
      BY <2>2, <2>3 DEF PlacesInv
    <3> QED  BY <3>1, <1>2
  <2>4. CASE Free(q) /\ ~Taken(q)
    <3> HIDE DEF q
    <3>1. \A a \in Ids : pos[a] # q
      BY <2>4 DEF Taken
    <3>2. ASSUME NEW a \in Ids, pos'[a] # Start(a)
          PROVE  Free(pos'[a]) /\ \A b \in Ids \ {a} : pos'[b] # pos'[a]
      <4>1. CASE a = cur
        BY <2>2, <2>4, <3>1, <4>1
      <4>2. CASE a # cur
        <5>1. pos'[a] = pos[a] /\ pos[a] # Start(a)
          BY <2>2, <3>2, <4>2
        <5>2. Free(pos[a]) /\ \A b \in Ids \ {a} : pos[b] # pos[a]
          BY <5>1 DEF PlacesInv, SafePositions
        <5> QED  BY <2>2, <3>1, <5>1, <5>2
      <4> QED  BY <4>1, <4>2
    <3>3. pos' \in [Ids -> Cells]
      BY <2>2, <2>4 DEF Free, PlacesInv
    <3>4. /\ Ids' = Ids
          /\ \A a : Start(a)' = Start(a)
          /\ \A a \in Ids : Free(pos[a])' <=> Free(pos'[a])
      BY <1>1 DEF Ids, Start, Free
    <3> QED  BY <3>2, <3>3, <3>4 DEF PlacesInv, SafePositions
  <2> QED  BY <2>1, <2>3, <2>4
<1> QED  BY <1>2, <1>3, <1>4 DEF JudgeMove, Finish

\* At the start the agents are where the files put them.
LEMMA InitPlaces == Init => PlacesInv
<1> SUFFICES ASSUME Init PROVE PlacesInv
  OBVIOUS
<1>1. game \in Games /\ pos = [a \in Ids |-> game.agents[a].at]
  BY DEF Init
<1>2. \A i \in Ids : game.agents[i].at \in Cells
  BY <1>1, MazeAssumption DEF Ids
<1> QED  BY <1>1, <1>2 DEF PlacesInv, SafePositions, Start

\* Every step keeps the places.
LEMMA StepPlaces == PlacesInv /\ [Next]_vars => PlacesInv'
<1> SUFFICES ASSUME PlacesInv, [Next]_vars PROVE PlacesInv'
  OBVIOUS
<1>1. CASE JudgeMove
  BY <1>1, MoveSafe
<1>2. CASE ~JudgeMove
  BY <1>2, OthersStay DEF PlacesInv, SafePositions, Free, Ids, Start
<1> QED  BY <1>1, <1>2

\* Wherever the files put the agents, whatever they answer, die of or fail with,
\* and whenever signals arrive: an agent that has moved is on a free cell of the
\* map, alone.
THEOREM PositionsSafe == Spec => []SafePositions
<1>1. PlacesInv => SafePositions
  BY DEF PlacesInv
<1> QED  BY <1>1, InitPlaces, StepPlaces, PTL DEF Spec

-----------------------------------------------------------------------------
\* What is in the pipes of agent a: at most one line from it, and only while
\* it is asked, or answered, is there anything at all.
PipesOf(a) ==
  /\ lines[a] = <<>> \/ \E x : lines[a] = <<x>>
  /\ life[a] = "run" =>
       /\ asked[a] \/ Kind(a) = "bad" => lines[a] = <<>>
       /\ asked[a] \/ lines[a] # <<>> => a = cur /\ pc = "read"

PipesInv ==
  /\ life \in [Ids -> {"run", "closing", "zombie", "reaped"}]
  /\ asked = [a \in Ids |-> asked[a]]
  /\ lines = [a \in Ids |-> lines[a]]
  /\ \A a \in Ids : PipesOf(a)

\* The first answer in an empty pipe.
LEMMA AppendFirst ==
  ASSUME NEW x
  PROVE  Append(<<>>, x) = <<x>>
<1>1. <<>> \in Seq({x}) /\ x \in {x}
  OBVIOUS
<1> QED  BY <1>1

\* The only answer read out of a pipe.
LEMMA TailOnly ==
  ASSUME NEW x
  PROVE  Tail(<<x>>) = <<>>
<1>1. <<x>> \in Seq({x}) /\ Len(<<x>>) = 1
  OBVIOUS
<1> QED  BY <1>1

\* An agent that reads, fails or dies.
LEMMA AgentPipes ==
  ASSUME PipesInv, NEW a \in Ids, Agent(a) \/ Crash(a)
  PROVE  PipesInv'
<1> USE DEF PipesInv, PipesOf, Exit, loopVars, Kind, Ids
<1>1. CASE Play(a)
  <2>1. PICK r \in Decide(a) :
          /\ lines' = [lines EXCEPT ![a] = Append(lines[a], r.line)]
          /\ \/ life' = [life EXCEPT ![a] = "closing"]
             \/ life' = life
    BY <1>1 DEF Play
  <2>2. /\ life[a] = "run" /\ asked[a] /\ Kind(a) # "bad"
        /\ asked' = [asked EXCEPT ![a] = FALSE]
        /\ UNCHANGED <<game, cur, pc>>
    BY <1>1 DEF Play
  <2>3. lines' = [lines EXCEPT ![a] = <<r.line>>]
    BY <2>1, <2>2, AppendFirst
  <2> QED  BY <2>1, <2>2, <2>3, ZenonT(60)
<1>2. CASE MisreadMap(a)
  <2>1. lines' = [lines EXCEPT ![a] = <<"text">>]
    BY <1>2, AppendFirst DEF MisreadMap
  <2> QED  BY <1>2, <2>1, ZenonT(60) DEF MisreadMap
<1>3. CASE FailAtStart(a)
  <2>1. \/ lines' = [lines EXCEPT ![a] = <<"text">>]
        \/ lines' = lines
    BY <1>3, AppendFirst DEF FailAtStart
  <2> QED  BY <1>3, <2>1, ZenonT(60) DEF FailAtStart
<1>4. CASE StarveInMap(a)
  BY <1>4 DEF StarveInMap
<1>5. CASE Die(a) \/ Crash(a)
  BY <1>5 DEF Die, Crash
<1> QED  BY <1>1, <1>2, <1>3, <1>4, <1>5 DEF Agent

\* The turn loop keeps the pipes in step,
LEMMA LoopPipes ==
  ASSUME PipesInv, Loop
  PROVE  PipesInv'
<1> USE DEF PipesInv, PipesOf, Kind, Ids, At
<1>1. CASE SendInit \/ InvalidResponse \/ ExitHandler
  BY <1>1 DEF SendInit, BrokenPipe, InvalidResponse, ExitHandler, agentVars,
              loopVars
<1>2. CASE SendCoords
  BY <1>2 DEF SendCoords, Ask, BrokenPipe
<1>3. CASE ReadMove
  <2>1. \/ lines[cur] # <<>> /\ lines' = [lines EXCEPT ![cur] = Tail(lines[cur])]
        \/ lines[cur] = <<>> /\ life[cur] # "run" /\ lines' = lines
    BY <1>3 DEF ReadMove
  <2>2. \/ lines' = lines /\ (cur \notin Ids \/ life[cur] # "run")
        \/ cur \in Ids /\ lines[cur] # <<>>
           /\ lines' = [lines EXCEPT ![cur] = <<>>]
    BY <2>1, TailOnly
  <2> QED  BY <1>3, <2>2 DEF ReadMove
<1>4. CASE JudgeMove
  BY <1>4 DEF JudgeMove, Finish, agentVars
<1>5. CASE KillAll
  BY <1>5 DEF KillAll, Doomed
<1>6. CASE WaitOne
  BY <1>6 DEF WaitOne, Reap, Zombies
<1> QED  BY <1>1, <1>2, <1>3, <1>4, <1>5, <1>6 DEF Loop

\* and so do the signal handlers.
LEMMA SignalPipes ==
  ASSUME PipesInv, Intercept \/ InterceptWait \/ Interrupt
  PROVE  PipesInv'
BY ZenonT(60)
   DEF PipesInv, PipesOf, Kind, Ids, Intercept, InterceptWait, Interrupt, Reap,
       Zombies, Interpret, agentVars, loopVars

\* At the start the pipes are empty.
LEMMA InitPipes == Init => PipesInv
BY DEF Init, PipesInv, PipesOf

\* Every step keeps them in step.
LEMMA StepPipes == PipesInv /\ [Next]_vars => PipesInv'
<1> SUFFICES ASSUME PipesInv, [Next]_vars PROVE PipesInv'
  OBVIOUS
<1>1. CASE UNCHANGED vars
  BY <1>1 DEF PipesInv, PipesOf, Kind, Ids, vars, agentVars, loopVars
<1> QED  BY <1>1, AgentPipes, LoopPipes, SignalPipes DEF Next

\* No answer ever waits in a pipe for a later turn: in every reachable state
\* only the agent whose turn it is has something to read or to be read.
THEOREM HandlerInStep == Spec => []InStep
<1>1. PipesInv => InStep
  <2> SUFFICES ASSUME PipesInv, NEW a \in Ids, PipesOf(a) PROVE Len(lines[a]) <= 1
    BY DEF PipesInv, PipesOf, InStep
  <2>1. CASE lines[a] = <<>>
    BY <2>1
  <2>2. ASSUME NEW x, lines[a] = <<x>>
        PROVE  Len(lines[a]) <= 1
    BY <2>2
  <2> QED  BY <2>1, <2>2 DEF PipesOf
<1> QED  BY <1>1, InitPipes, StepPipes, PTL DEF Spec

-----------------------------------------------------------------------------
(* What the agents answer and remember.                                    *)

\* The letters an agent prints as moves.
Steps == Dirs \cup {"H"}

\* What agent a can remember.
MemOf(a, m) ==
  /\ Kind(a) = "waller" => m \in [move : Steps, prev : Steps]
  /\ Kind(a) = "simple" => m \in Nat
  /\ Kind(a) = "fromfile" => m \in Seq(Moves)
  /\ Kind(a) = "slow" => m \in [first : Cells, seen : Seq(Cells)]

\* Turning right until there is no wall: right, back or left, and then there
\* are walls in the directions passed over.
LEMMA FirstFreeIs ==
  ASSUME NEW p, NEW d \in Dirs, Walled(p, d), \E e \in Dirs : ~Walled(p, e)
  PROVE  /\ FirstFree(p, d) \in Dirs
         /\ ~Walled(p, FirstFree(p, d))
         /\ \/ FirstFree(p, d) = RightOf[d]
            \/ FirstFree(p, d) = LeftOf[LeftOf[d]] /\ Walled(p, RightOf[d])
            \/ /\ FirstFree(p, d) = LeftOf[d]
               /\ Walled(p, RightOf[d]) /\ Walled(p, LeftOf[LeftOf[d]])
<1> DEFINE turn == <<RightOf[d], LeftOf[LeftOf[d]], LeftOf[d]>>
           First(k) == ~Walled(p, turn[k]) /\ \A j \in 1..(k - 1) : Walled(p, turn[j])
<1>1. Dirs = {d, RightOf[d], LeftOf[LeftOf[d]], LeftOf[d]}
  BY DEF Dirs, RightOf, LeftOf
<1>2. turn[1] = RightOf[d] /\ turn[2] = LeftOf[LeftOf[d]] /\ turn[3] = LeftOf[d]
  OBVIOUS
<1> HIDE DEF turn
<1>3. \E k \in 1..3 : First(k)
  <2>1. CASE ~Walled(p, turn[1])
    <3>1. First(1)
      BY <2>1
    <3> QED  BY <3>1
  <2>2. CASE Walled(p, turn[1]) /\ ~Walled(p, turn[2])
    <3>1. First(2)
      BY <2>2
    <3> QED  BY <3>1
  <2>3. CASE Walled(p, turn[1]) /\ Walled(p, turn[2])
    <3>1. ~Walled(p, turn[3])
      BY <1>1, <1>2, <2>3
    <3>2. First(3)
      BY <2>3, <3>1
    <3> QED  BY <3>2
  <2> QED  BY <2>1, <2>2, <2>3
<1> DEFINE k == CHOOSE k \in 1..3 : First(k)
<1>4. k \in 1..3 /\ First(k)
  BY <1>3
<1>5. FirstFree(p, d) = turn[k]
  BY DEF FirstFree, turn
<1> HIDE DEF k
<1>6. CASE k = 1
  BY <1>1, <1>2, <1>4, <1>5, <1>6
<1>7. CASE k = 2
  <2>1. Walled(p, turn[1])
    BY <1>4, <1>7
  <2> QED  BY <1>1, <1>2, <1>4, <1>5, <1>7, <2>1
<1>8. CASE k = 3
  <2>1. Walled(p, turn[1]) /\ Walled(p, turn[2])
    BY <1>4, <1>8
  <2> QED  BY <1>1, <1>2, <1>4, <1>5, <1>8, <2>1
<1> QED  BY <1>4, <1>6, <1>7, <1>8

\* A waller answers a step and remembers two.
LEMMA WallerAnswers ==
  ASSUME NEW a \in Ids, pos[a] \in Cells, mem[a] \in [move : Steps, prev : Steps],
         NEW r \in Waller(a)
  PROVE  r.line \in Steps /\ r.mem \in [move : Steps, prev : Steps] /\ r.ends = FALSE
<1> DEFINE m == mem[a]
           p == pos[a]
           To(move, prev) == Answer([move |-> move, prev |-> prev], move)
<1>1. m.move \in Steps /\ m.prev \in Steps /\ "H" \in Steps
  BY DEF Steps
<1>2. \A x, y \in Steps : LET q == To(x, y)
                          IN  /\ q.line \in Steps /\ q.ends = FALSE
                              /\ q.mem \in [move : Steps, prev : Steps]
  BY DEF Answer
<1> HIDE DEF m, To
<1>3. \E x, y \in Steps : r = To(x, y)
  <2>1. CASE \A d \in Dirs : Walled(p, d)
    <3>1. r = To("H", m.move)
      BY <2>1 DEF Waller, m, To
    <3> QED  BY <1>1, <3>1
  <2>2. CASE (\E d \in Dirs : ~Walled(p, d)) /\ WallLowerLeft(p, m.move)
    <3> DEFINE new == LeftOf[m.move]
    <3>1. r = To(IF TurnBlocked(p, new) THEN "H" ELSE new, new)
      BY <2>2 DEF Waller, m, To
    <3>2. new \in Steps
      BY <2>2 DEF WallLowerLeft, Dirs, LeftOf, Steps
    <3> HIDE DEF new
    <3> QED  BY <1>1, <3>1, <3>2
  <2>3. CASE /\ \E d \in Dirs : ~Walled(p, d)
             /\ ~WallLowerLeft(p, m.move) /\ Walled(p, m.move)
    <3>1. r = To(FirstFree(p, m.move), m.prev)
      BY <2>3 DEF Waller, m, To
    <3>2. m.move \in Dirs
      BY <2>3 DEF Walled
    <3>3. FirstFree(p, m.move) \in Steps
      BY <2>3, <3>2, FirstFreeIs DEF Steps
    <3> QED  BY <1>1, <3>1, <3>3
  <2>4. CASE /\ \E d \in Dirs : ~Walled(p, d)
             /\ ~WallLowerLeft(p, m.move) /\ ~Walled(p, m.move)
    <3>1. PICK inPath \in InPath(p, m.move) :
            r = To(IF inPath THEN "H"
                   ELSE IF m.move = "H" THEN m.prev ELSE m.move, m.prev)
      BY <2>4 DEF Waller, m, To
    <3> QED  BY <1>1, <3>1
  <2> QED  BY <2>1, <2>2, <2>3, <2>4
<1> QED  BY <1>2, <1>3

\* The difference of two points is a step.
LEMMA DifferenceSteps ==
  ASSUME NEW p, NEW q
  PROVE  Difference(p, q) \in Steps
BY DEF Difference, Steps

\* Whatever an agent answers is a line with a move, and it remembers as much
\* as before.
LEMMA DecideTyped ==
  ASSUME game \in Games, pos \in [Ids -> Cells], NEW a \in Ids, Kind(a) # "bad",
         MemOf(a, mem[a]), NEW r \in Decide(a)
  PROVE  r.line \in Moves /\ MemOf(a, r.mem) /\ r.ends \in BOOLEAN
<1>0. ArgumentOK(game.agents[a], Ids)
  BY MazeAssumption DEF Ids
<1>1. Steps \subseteq Moves /\ "D" \in Moves
  BY DEF Steps, Moves
<1>2. CASE Kind(a) = "waller"
  <2>1. r \in Waller(a)
    BY <1>2 DEF Decide
  <2>2. mem[a] \in [move : Steps, prev : Steps] /\ pos[a] \in Cells
    BY <1>2 DEF MemOf
  <2>3. r.line \in Steps /\ r.mem \in [move : Steps, prev : Steps] /\ r.ends = FALSE
    BY <2>1, <2>2, WallerAnswers
  <2> QED  BY <1>1, <1>2, <2>3 DEF MemOf
<1>3. CASE Kind(a) = "simple"
  <2>1. r \in Simple(a)
    BY <1>3 DEF Decide
  <2>2. mem[a] \in Nat /\ Arg(a) \in Steps /\ "H" \in Steps
    BY <1>0, <1>3 DEF MemOf, ArgumentOK, Kind, Arg, Steps
  <2>3. CASE mem[a] = 0
    <3>1. r = Done(mem[a])
      BY <2>1, <2>3 DEF Simple
    <3> QED  BY <1>1, <1>3, <2>2, <3>1 DEF Done, MemOf
  <2>4. CASE mem[a] # 0
    <3>1. mem[a] - 1 \in Nat
      BY <2>2, <2>4
    <3>2. PICK x \in Steps : r = Answer(mem[a] - 1, x)
      BY <2>1, <2>2, <2>4 DEF Simple
    <3> QED  BY <1>1, <1>3, <3>1, <3>2 DEF Answer, MemOf
  <2> QED  BY <2>3, <2>4
<1>4. CASE Kind(a) = "fromfile"
  <2>1. r \in FromFile(a) /\ mem[a] \in Seq(Moves)
    BY <1>4 DEF Decide, MemOf
  <2>2. CASE mem[a] = <<>>
    <3>1. r = Done(mem[a])
      BY <2>1, <2>2 DEF FromFile
    <3> QED  BY <1>1, <1>4, <2>1, <3>1 DEF Done, MemOf
  <2>3. CASE mem[a] # <<>>
    <3>1. Tail(mem[a]) \in Seq(Moves)
      BY <2>1, <2>3
    <3>2. PICK x \in Steps : r = Answer(Tail(mem[a]), x)
      BY <2>1, <2>3 DEF FromFile, Steps
    <3> QED  BY <1>1, <1>4, <3>1, <3>2 DEF Answer, MemOf
  <2> QED  BY <2>2, <2>3
<1>5. CASE Kind(a) = "slow"
  <2> DEFINE m == mem[a]
             now == pos[Arg(a)]
             seen == Append(m.seen, now)
  <2>1. r \in Slow(a) /\ m \in [first : Cells, seen : Seq(Cells)]
    BY <1>5 DEF Decide, MemOf
  <2>2. now \in Cells
    BY <1>0, <1>5 DEF ArgumentOK, Kind, Arg
  <2>3. /\ seen \in Seq(Cells) /\ seen[1] \in Cells /\ Tail(seen) \in Seq(Cells)
    <3> HIDE DEF now
    <3> QED  BY <2>1, <2>2
  <2>4. CASE r = Answer([first |-> seen[1], seen |-> seen], "H")
    <3> HIDE DEF seen
    <3> QED  BY <1>1, <1>5, <2>3, <2>4 DEF Answer, MemOf, Steps
  <2>5. CASE r = Answer([m EXCEPT !.seen = Tail(seen)], Difference(m.seen[1], m.seen[2]))
    <3>1. [m EXCEPT !.seen = Tail(seen)] \in [first : Cells, seen : Seq(Cells)]
      <4> HIDE DEF seen, m
      <4> QED  BY <2>1, <2>3
    <3>2. Difference(m.seen[1], m.seen[2]) \in Moves
      BY <1>1, DifferenceSteps
    <3> QED  BY <1>5, <2>5, <3>1, <3>2 DEF Answer, MemOf
  <2> QED  BY <2>1, <2>4, <2>5 DEF Slow
<1> QED  BY <1>0, <1>2, <1>3, <1>4, <1>5 DEF ArgumentOK, Kind

\* Types, what the agents remember, and that a running game has a turn left.
TypeInv ==
  /\ TypeOK
  /\ PlacesInv
  /\ mem = [a \in Ids |-> mem[a]]
  /\ \A a \in Ids : MemOf(a, mem[a])
  /\ pc \in {"init", "send", "read", "judge"} => turns < MaxTurns

\* The numbers of the agents, and what is known of their arguments.
LEMMA AgentIds ==
  ASSUME game \in Games
  PROVE  /\ Ids = 1..Len(game.agents) /\ Len(game.agents) \in Nat \ {0}
         /\ \A a \in Ids : ArgumentOK(game.agents[a], Ids)
BY MazeAssumption DEF Ids

\* What an agent does to its own pipes, process and memory.
LEMMA AgentTyped ==
  ASSUME TypeInv, NEW a \in Ids, Agent(a) \/ Crash(a)
  PROVE  TypeOK' /\ (mem = [b \in Ids |-> mem[b]])'
         /\ (\A b \in Ids : MemOf(b, mem[b]))'
<1> USE DEF MemOf, Kind, Ids
<1>1. TypeOK /\ mem = [b \in Ids |-> mem[b]] /\ \A b \in Ids : MemOf(b, mem[b])
  BY DEF TypeInv
<1>2. UNCHANGED <<game, pos, loopVars, inSig, killed, code>>
  BY DEF Agent, Play, MisreadMap, StarveInMap, FailAtStart, Die, Crash, sigVars
<1>3. CASE Play(a)
  <2>1. PICK r \in Decide(a) :
          /\ mem' = [mem EXCEPT ![a] = r.mem]
          /\ lines' = [lines EXCEPT ![a] = Append(@, r.line)]
          /\ \/ Exit(a, 0)
             \/ UNCHANGED <<life, status>>
    BY <1>3 DEF Play
  <2>2. r.line \in Moves /\ MemOf(a, r.mem)
    <3>1. game \in Games /\ pos \in [Ids -> Cells] /\ Kind(a) # "bad"
      BY <1>3 DEF TypeInv, TypeOK, PlacesInv, Play
    <3> QED  BY <1>1, <2>1, <3>1, DecideTyped
  <2>3. lines' \in [Ids -> Seq(Lines)]
    <3>1. lines[a] \in Seq(Lines) /\ r.line \in Lines
      BY <1>1, <2>2 DEF TypeOK, Lines
    <3>2. Append(lines[a], r.line) \in Seq(Lines)
      BY <3>1
    <3> QED  BY <1>1, <2>1, <3>2 DEF TypeOK
  <2>4. life' \in [Ids -> {"run", "closing", "zombie", "reaped"}]
        /\ status' \in [Ids -> {-15, -9} \cup 0..7]
    <3>1. CASE Exit(a, 0)
      BY <1>1, <3>1 DEF TypeOK, Exit
    <3>2. CASE UNCHANGED <<life, status>>
      BY <1>1, <3>2 DEF TypeOK
    <3> QED  BY <2>1, <3>1, <3>2
  <2>5. asked' \in [Ids -> BOOLEAN] /\ UNCHANGED sigchld
    BY <1>1, <1>3 DEF Play, TypeOK, sigVars
  <2>6. TypeOK'
    BY <1>1, <1>2, <2>3, <2>4, <2>5 DEF TypeOK, loopVars
  <2>7. (mem = [b \in Ids |-> mem[b]])' /\ (\A b \in Ids : MemOf(b, mem[b]))'
    BY <1>1, <1>2, <2>1, <2>2
  <2> QED  BY <2>6, <2>7
<1>4. CASE ~Play(a)
  <2>1. UNCHANGED mem
    BY <1>4 DEF Agent, MisreadMap, StarveInMap, FailAtStart, Die, Crash
  <2>2. (mem = [b \in Ids |-> mem[b]])' /\ (\A b \in Ids : MemOf(b, mem[b]))'
    BY <1>1, <1>2, <2>1
  <2>3. TypeOK'
    <3>1. CASE MisreadMap(a)
      <4>1. Append(lines[a], "text") \in Seq(Lines)
        <5>1. lines[a] \in Seq(Lines) /\ "text" \in Lines
          BY <1>1 DEF TypeOK, Lines
        <5> QED  BY <5>1
      <4>2. lines' \in [Ids -> Seq(Lines)]
        BY <1>1, <3>1, <4>1 DEF MisreadMap, TypeOK
      <4>3. life' \in [Ids -> {"run", "closing", "zombie", "reaped"}]
            /\ status' \in [Ids -> {-15, -9} \cup 0..7]
            /\ asked' \in [Ids -> BOOLEAN] /\ UNCHANGED sigchld
        BY <1>1, <3>1 DEF MisreadMap, TypeOK, Exit, sigVars
      <4> QED  BY <1>1, <1>2, <4>2, <4>3 DEF TypeOK, loopVars
    <3>2. CASE FailAtStart(a)
      <4>1. Append(lines[a], "text") \in Seq(Lines) /\ lines[a] \in Seq(Lines)
        <5>1. lines[a] \in Seq(Lines) /\ "text" \in Lines
          BY <1>1 DEF TypeOK, Lines
        <5> QED  BY <5>1
      <4>2. lines' \in [Ids -> Seq(Lines)]
        BY <1>1, <3>2, <4>1 DEF FailAtStart, TypeOK
      <4>3. Arg(a) \in 0..7
        <5>1. ArgumentOK(game.agents[a], Ids) /\ game.agents[a].kind = "bad"
          BY <1>1, <3>2, AgentIds DEF FailAtStart, TypeOK
        <5> QED  BY <5>1 DEF ArgumentOK, Arg
      <4>4. life' \in [Ids -> {"run", "closing", "zombie", "reaped"}]
            /\ status' \in [Ids -> {-15, -9} \cup 0..7]
            /\ asked' = asked /\ UNCHANGED sigchld
        BY <1>1, <3>2, <4>3 DEF FailAtStart, TypeOK, Exit, sigVars
      <4> QED  BY <1>1, <1>2, <4>2, <4>4 DEF TypeOK, loopVars
    <3>3. CASE StarveInMap(a)
      <4>1. asked' \in [Ids -> BOOLEAN]
            /\ UNCHANGED <<life, status, lines, sigchld>>
        BY <1>1, <3>3 DEF StarveInMap, TypeOK, sigVars
      <4> QED  BY <1>1, <1>2, <4>1 DEF TypeOK, loopVars
    <3>4. CASE Crash(a) \/ Die(a)
      <4>1. life' \in [Ids -> {"run", "closing", "zombie", "reaped"}]
            /\ status' \in [Ids -> {-15, -9} \cup 0..7]
            /\ asked' = asked /\ lines' = lines /\ sigchld' \in BOOLEAN
        BY <1>1, <3>4, ZenonT(60) DEF Crash, Die, TypeOK, Exit, sigVars
      <4> QED  BY <1>1, <1>2, <4>1 DEF TypeOK, loopVars
    <3> QED  BY <1>4, <3>1, <3>2, <3>3, <3>4 DEF Agent
  <2> QED  BY <2>2, <2>3
<1> QED  BY <1>3, <1>4

\* The turn loop.
LEMMA LoopTyped ==
  ASSUME TypeInv, Loop
  PROVE  /\ TypeOK' /\ UNCHANGED mem
         /\ (pc \in {"init", "send", "read", "judge"} => turns < MaxTurns)'
<1> DEFINE Left == pc \in {"init", "send", "read", "judge"} => turns < MaxTurns
<1> USE DEF Ids
<1>1. TypeOK /\ Left
  BY DEF TypeInv
<1>2. Ids = 1..Len(game.agents) /\ Len(game.agents) \in Nat \ {0} /\ cur \in Ids
      /\ turns \in Nat /\ MaxTurns \in Nat \ {0}
  BY <1>1, AgentIds, MazeAssumption DEF TypeOK
<1>3. CASE SendInit \/ SendCoords
  <2>1. asked' \in [Ids -> BOOLEAN] /\ pc' \in {"init", "send", "read"}
        /\ code' \in {code, SigPipe}
    BY <1>1, <1>3 DEF SendInit, SendCoords, Ask, BrokenPipe, TypeOK, At
  <2>2. UNCHANGED <<game, pos, mem, life, status, lines, cur, turns, buf, waits,
                    result, sigVars>> /\ pc \in {"init", "send"}
    BY <1>3 DEF SendInit, SendCoords, At
  <2> QED  BY <1>1, <2>1, <2>2 DEF TypeOK, sigVars
<1>4. CASE ReadMove
  <2>1. lines[cur] \in Seq(Lines) /\ buf \in Lines
    BY <1>1 DEF TypeOK
  <2>2. buf' \in Lines /\ lines' \in [Ids -> Seq(Lines)]
    <3>1. CASE lines[cur] = <<>>
      BY <1>1, <1>4, <3>1 DEF ReadMove, TypeOK
    <3>2. CASE lines[cur] # <<>>
      <4>1. Head(lines[cur]) \in Lines /\ Tail(lines[cur]) \in Seq(Lines)
        BY <2>1, <3>2
      <4> QED  BY <1>1, <1>4, <3>2, <4>1 DEF ReadMove, TypeOK
    <3> QED  BY <3>1, <3>2
  <2>3. UNCHANGED <<game, pos, mem, life, status, asked, cur, turns, waits,
                    result, sigVars, code>> /\ pc = "read" /\ pc' = "judge"
    BY <1>4 DEF ReadMove, At
  <2> QED  BY <1>1, <2>2, <2>3 DEF TypeOK, sigVars
<1>5. CASE JudgeMove
  <2>1. UNCHANGED <<game, agentVars, buf, waits, sigVars, code>> /\ pc = "judge"
    BY <1>5 DEF JudgeMove, At
  <2>2. pos' \in [Ids -> Int \X Int]
    <3>1. PlacesInv'
      BY <1>5, MoveSafe DEF TypeInv
    <3>2. pos' \in [Ids -> Cells]
      BY <2>1, <3>1 DEF PlacesInv
    <3>3. Cells \subseteq Int \X Int
      BY MazeAssumption DEF Cells
    <3> QED  BY <3>2, <3>3
  <2>3. CASE \E how \in {0, 8, 9} : Finish(how)
    BY <1>1, <1>2, <2>1, <2>2, <2>3 DEF Finish, TypeOK, agentVars, sigVars
  <2>4. CASE ~ \E how \in {0, 8, 9} : Finish(how)
    <3> DEFINE last == cur = Len(game.agents)
               over == last /\ turns + 1 = MaxTurns
    <3>1. /\ cur' = IF last THEN 1 ELSE cur + 1
          /\ turns' = IF last THEN turns + 1 ELSE turns
          /\ pc' = IF over THEN "kill" ELSE "send"
          /\ result' = IF over THEN 10 ELSE result
      BY <1>5, <2>4 DEF JudgeMove
    <3>2. cur' \in Ids
      BY <1>2, <3>1
    <3>3. turns' \in 0..MaxTurns /\ (pc' # "kill" => turns' < MaxTurns)
      BY <1>1, <1>2, <2>1, <3>1
    <3>4. result' \in {0, 8, 9, 10} /\ pc' \in {"send", "kill"}
      BY <1>1, <3>1 DEF TypeOK
    <3> QED  BY <1>1, <2>1, <2>2, <3>2, <3>3, <3>4 DEF TypeOK, agentVars, sigVars
  <2> QED  BY <2>3, <2>4
<1>6. CASE KillAll
  <2>1. life' \in [Ids -> {"run", "closing", "zombie", "reaped"}]
        /\ status' \in [Ids -> {-15, -9} \cup 0..7]
    BY <1>1, <1>6 DEF KillAll, TypeOK
  <2>2. UNCHANGED <<game, pos, mem, asked, lines, cur, turns, buf, result,
                    sigVars, code>> /\ pc' = "wait" /\ waits' = Len(game.agents)
    BY <1>6 DEF KillAll
  <2>3. waits' \in 0..Len(game.agents)
    BY <1>2, <2>2
  <2> QED  BY <1>1, <2>1, <2>2, <2>3 DEF TypeOK, sigVars
<1>7. CASE WaitOne
  <2>1. life' \in [Ids -> {"run", "closing", "zombie", "reaped"}]
    BY <1>1, <1>7 DEF WaitOne, TypeOK, Reap, Zombies
  <2>2. UNCHANGED <<game, pos, mem, status, asked, lines, pc, cur, turns, buf,
                    result, sigVars, code>> /\ waits' = waits - 1 /\ waits > 0
    BY <1>7 DEF WaitOne
  <2>3. waits' \in 0..Len(game.agents)
    BY <1>1, <1>2, <2>2 DEF TypeOK
  <2> QED  BY <1>1, <2>1, <2>2, <2>3 DEF TypeOK, sigVars
<1>8. CASE InvalidResponse \/ ExitHandler
  <2>1. UNCHANGED <<game, pos, agentVars, loopVars, sigVars>>
        /\ code' \in {11, result}
    BY <1>8 DEF InvalidResponse, ExitHandler
  <2> QED  BY <1>1, <2>1 DEF TypeOK, agentVars, loopVars, sigVars
<1> QED  BY <1>3, <1>4, <1>5, <1>6, <1>7, <1>8 DEF Loop

\* The signal handlers.
LEMMA SignalTyped ==
  ASSUME TypeInv, Intercept \/ InterceptWait \/ Interrupt
  PROVE  TypeOK' /\ UNCHANGED <<game, pos, mem, pc, turns>>
<1> USE DEF Ids
<1>1. TypeOK
  BY DEF TypeInv
<1>2. CASE Intercept \/ Interrupt
  BY <1>1, <1>2, ZenonT(60)
     DEF Intercept, Interrupt, TypeOK, agentVars, loopVars, sigVars
<1>3. CASE InterceptWait
  <2>1. life' \in [Ids -> {"run", "closing", "zombie", "reaped"}]
        /\ inSig' = FALSE
    BY <1>1, <1>3 DEF InterceptWait, TypeOK, Reap, Zombies
  <2>2. killed' \in BOOLEAN /\ code' \in {code, 12, 7, 13}
    BY <1>1, <1>3, MazeAssumption DEF InterceptWait, TypeOK, Interpret
  <2>3. /\ UNCHANGED <<game, pos, mem, status, asked, lines, sigchld>>
        /\ UNCHANGED <<pc, cur, turns, buf, waits, result>>
    BY <1>3 DEF InterceptWait, loopVars
  <2>4. Ids' = Ids /\ {sigchld, inSig, killed}' \subseteq BOOLEAN
        /\ code' \in {Running, SigPipe, 0, 7, 8, 9, 10, 11, 12, 13, 14}
    BY <1>1, <2>1, <2>2, <2>3 DEF TypeOK
  <2> QED  BY <1>1, <2>1, <2>3, <2>4 DEF TypeOK
<1> QED  BY <1>2, <1>3

\* Every step keeps the types.
LEMMA StepTyped == TypeInv /\ [Next]_vars => TypeInv'
<1> SUFFICES ASSUME TypeInv, [Next]_vars PROVE TypeInv'
  OBVIOUS
<1> DEFINE Left == pc \in {"init", "send", "read", "judge"} => turns < MaxTurns
           Memory == mem = [a \in Ids |-> mem[a]] /\ \A a \in Ids : MemOf(a, mem[a])
<1>1. PlacesInv' /\ Memory /\ Left
  BY StepPlaces DEF TypeInv
<1>2. UNCHANGED <<game, mem>> => Memory'
  BY <1>1 DEF Ids, MemOf, Kind
<1>3. CASE UNCHANGED vars
  BY <1>1, <1>2, <1>3 DEF TypeInv, TypeOK, vars, agentVars, loopVars, sigVars, Ids
<1>4. ASSUME NEW a \in Ids, Agent(a) \/ Crash(a)
      PROVE  TypeInv'
  <2>1. UNCHANGED <<pc, turns>>
    BY <1>4 DEF Agent, Play, MisreadMap, StarveInMap, FailAtStart, Die, Crash, loopVars
  <2> QED  BY <1>1, <1>4, <2>1, AgentTyped DEF TypeInv
<1>5. CASE Loop
  <2>1. game' = game
    BY <1>5 DEF Loop, SendInit, SendCoords, ReadMove, InvalidResponse, JudgeMove,
                KillAll, WaitOne, ExitHandler
  <2>2. TypeOK' /\ UNCHANGED mem /\ Left'
    BY <1>5, LoopTyped
  <2>3. Memory'
    BY <1>2, <2>1, <2>2
  <2> QED  BY <1>1, <2>2, <2>3 DEF TypeInv
<1>6. CASE Intercept \/ InterceptWait \/ Interrupt
  BY <1>1, <1>2, <1>6, SignalTyped DEF TypeInv
<1> QED  BY <1>3, <1>4, <1>5, <1>6 DEF Next

\* A game starts typed.
LEMMA InitTyped == Init => TypeInv
<1> SUFFICES ASSUME Init PROVE TypeInv
  OBVIOUS
<1>1. /\ Ids = 1..Len(game.agents) /\ Len(game.agents) \in Nat \ {0}
      /\ \A a \in Ids : ArgumentOK(game.agents[a], Ids)
  BY AgentIds DEF Init
<1>2. \A a \in Ids : game.agents[a].at \in Cells
  BY MazeAssumption DEF Init, Ids
<1>3. PlacesInv
  BY InitPlaces
<1>4. mem = [a \in Ids |-> mem[a]] /\ \A a \in Ids : MemOf(a, mem[a])
  <2>1. \A a \in Ids : mem[a] = StartMem(game.agents[a])
    BY DEF Init
  <2>2. ASSUME NEW a \in Ids PROVE MemOf(a, mem[a])
    <3>1. SimpleMoves \in Nat
      BY MazeAssumption
    <3>2. ArgumentOK(game.agents[a], Ids) /\ game.agents[a].at \in Cells
      BY <1>1, <1>2
    <3>3. CASE Kind(a) = "waller"
      <4>1. game.agents[a].arg \in Steps
        BY <3>2, <3>3 DEF ArgumentOK, Kind, Steps
      <4>2. mem[a] = [move |-> game.agents[a].arg, prev |-> game.agents[a].arg]
        BY <2>1, <3>3 DEF StartMem, Kind
      <4>3. mem[a] \in [move : Steps, prev : Steps]
        BY <4>1, <4>2
      <4> QED  BY <3>3, <4>3 DEF MemOf
    <3>4. CASE Kind(a) = "simple"
      BY <2>1, <3>1, <3>4 DEF MemOf, StartMem, Kind
    <3>5. CASE Kind(a) = "fromfile"
      BY <2>1, <3>2, <3>5 DEF MemOf, StartMem, ArgumentOK, Kind
    <3>6. CASE Kind(a) = "slow"
      <4>1. <<>> \in Seq(Cells)
        OBVIOUS
      <4>2. mem[a] = [first |-> game.agents[a].at, seen |-> <<>>]
        BY <2>1, <3>6 DEF StartMem, Kind
      <4>3. mem[a] \in [first : Cells, seen : Seq(Cells)]
        BY <3>2, <4>1, <4>2
      <4> QED  BY <3>6, <4>3 DEF MemOf
    <3>7. CASE Kind(a) = "bad"
      BY <3>7 DEF MemOf
    <3> QED  BY <3>2, <3>3, <3>4, <3>5, <3>6, <3>7 DEF ArgumentOK, Kind
  <2> QED  BY <2>2 DEF Init
<1>5. TypeOK
  <2>1. pos \in [Ids -> Int \X Int]
    BY <1>2, MazeAssumption DEF Init, Cells
  <2>2. 1 \in Ids /\ 0 \in 0..MaxTurns /\ 0 \in 0..Len(game.agents)
    BY <1>1, MazeAssumption
  <2>3. lines \in [Ids -> Seq(Lines)] /\ status \in [Ids -> {-15, -9} \cup 0..7]
    <3>1. <<>> \in Seq(Lines) /\ 0 \in 0..7
      OBVIOUS
    <3> QED  BY <3>1 DEF Init
  <2>4. /\ game \in Games
        /\ life \in [Ids -> {"run", "closing", "zombie", "reaped"}]
        /\ asked \in [Ids -> BOOLEAN]
        /\ pc = "init" /\ cur = 1 /\ turns = 0 /\ buf \in Lines
        /\ waits = 0 /\ result = 0
        /\ {sigchld, inSig, killed} \subseteq BOOLEAN /\ code = Running
    BY DEF Init, Lines
  <2> QED  BY <2>1, <2>2, <2>3, <2>4 DEF TypeOK
<1>6. turns < MaxTurns
  BY MazeAssumption DEF Init
<1> QED  BY <1>3, <1>4, <1>5, <1>6 DEF TypeInv

\* Whatever the maps and the agents: all variables keep their types, and the
\* handler ends with one of its codes.
THEOREM TypeCorrect == Spec => []TypeOK
<1>1. TypeInv => TypeOK
  BY DEF TypeInv
<1> QED  BY <1>1, InitTyped, StepTyped, PTL DEF Spec

-----------------------------------------------------------------------------
(* A lone waller.                                                          *)

\* What HandOnWall says of the waller at p that goes in direction d.
Enclosed(p) == \A e \in Dirs : Walled(p, e)
Hand(p, d) ==
  \/ Enclosed(p)
  \/ /\ d \in Dirs
     /\ \/ Walled(p, LeftOf[d])
        \/ Walled(Ahead(p, RightOf[RightOf[d]]), LeftOf[d])

\* A step leads to another cell, and the step back returns.
LEMMA StepAndBack ==
  ASSUME NEW p \in Int \X Int, NEW d \in Dirs
  PROVE  /\ Ahead(p, d) # p /\ Ahead(p, d) \in Int \X Int
         /\ Ahead(Ahead(p, d), RightOf[RightOf[d]]) = p
         /\ {LeftOf[d], RightOf[d], RightOf[RightOf[d]]} \subseteq Dirs
         /\ LeftOf[LeftOf[d]] = RightOf[RightOf[d]] /\ LeftOf[RightOf[d]] = d
         /\ LeftOf[RightOf[RightOf[d]]] = RightOf[d]
         /\ RightOf[LeftOf[d]] = d
         /\ d # "H"
<1>1. p = <<p[1], p[2]>> /\ p[1] \in Int /\ p[2] \in Int
  OBVIOUS
<1>2. CASE d = "N"
  BY <1>1, <1>2 DEF Dirs, Ahead, Offset, LeftOf, RightOf
<1>3. CASE d = "S"
  BY <1>1, <1>3 DEF Dirs, Ahead, Offset, LeftOf, RightOf
<1>4. CASE d = "E"
  BY <1>1, <1>4 DEF Dirs, Ahead, Offset, LeftOf, RightOf
<1>5. CASE d = "W"
  BY <1>1, <1>5 DEF Dirs, Ahead, Offset, LeftOf, RightOf
<1> QED  BY <1>2, <1>3, <1>4, <1>5 DEF Dirs

\* Around the corner: the wall behind on the left is on the left after a left
\* turn and a step.
LEMMA CornerKept ==
  ASSUME NEW p \in Cells, NEW d \in Dirs, WallLowerLeft(p, d)
  PROVE  Walled(Ahead(p, LeftOf[d]), LeftOf[LeftOf[d]])
<1> DEFINE l == LeftOf[d]
           b == LeftOf[l]
<1>1. p = <<p[1], p[2]>> /\ p[1] \in 1..Rows /\ p[2] \in 1..Cols
      /\ Rows \in Nat /\ Cols \in Nat
  BY MazeAssumption DEF Cells
<1>2. Walled(Ahead(p, b), l) /\ ~Walled(p, l)
  BY DEF WallLowerLeft
<1>3. Ahead(Ahead(p, b), l) = Ahead(Ahead(p, l), b) /\ l \in Dirs /\ b \in Dirs
  <2>1. CASE d = "N"
    BY <1>1, <2>1 DEF Dirs, Ahead, Offset, LeftOf
  <2>2. CASE d = "S"
    BY <1>1, <2>2 DEF Dirs, Ahead, Offset, LeftOf
  <2>3. CASE d = "E"
    BY <1>1, <2>3 DEF Dirs, Ahead, Offset, LeftOf
  <2>4. CASE d = "W"
    BY <1>1, <2>4 DEF Dirs, Ahead, Offset, LeftOf
  <2> QED  BY <2>1, <2>2, <2>3, <2>4 DEF Dirs
<1>4. Ahead(p, b) \notin Cells => Ahead(Ahead(p, l), b) \notin Cells
  <2>1. CASE d = "N"
    BY <1>1, <2>1 DEF Dirs, Ahead, Offset, LeftOf, Cells
  <2>2. CASE d = "S"
    BY <1>1, <2>2 DEF Dirs, Ahead, Offset, LeftOf, Cells
  <2>3. CASE d = "E"
    BY <1>1, <2>3 DEF Dirs, Ahead, Offset, LeftOf, Cells
  <2>4. CASE d = "W"
    BY <1>1, <2>4 DEF Dirs, Ahead, Offset, LeftOf, Cells
  <2> QED  BY <2>1, <2>2, <2>3, <2>4 DEF Dirs
<1> HIDE DEF l, b
<1>5. ~Free(Ahead(Ahead(p, l), b))
  BY <1>2, <1>3, <1>4 DEF Walled, Free
<1> QED  BY <1>3, <1>5 DEF Walled, l, b

\* One answer of a lone waller: it is no way into a wall, and if the hand was
\* on a wall it is on a wall after the step.
LEMMA WallerStep ==
  ASSUME NEW p \in Cells, Ids = {1}, pos[1] = p, mem[1] \in [move : Steps, prev : Steps],
         mem[1].move = "H" => Enclosed(p),
         NEW r \in Waller(1)
  PROVE  /\ r.line = r.mem.move /\ r.line \in Steps /\ ~Walled(p, r.line)
         /\ r.line = "H" => Enclosed(p)
         /\ Hand(p, mem[1].move) => Hand(Ahead(p, r.line), r.line)
<1> DEFINE d == mem[1].move
           To(move, prev) == Answer([move |-> move, prev |-> prev], move)
           Good(x) == /\ x \in Steps /\ ~Walled(p, x)
                      /\ x = "H" => Enclosed(p)
                      /\ Hand(p, d) => Hand(Ahead(p, x), x)
<1>1. d \in Steps /\ p \in Int \X Int
  <2>1. Cells \subseteq Int \X Int
    BY MazeAssumption DEF Cells
  <2> QED  BY <2>1
<1>2. \A x, y : To(x, y).line = x /\ To(x, y).mem.move = x
  BY DEF Answer
<1>3. \A q : Taken(q) => q = p
  BY DEF Taken
<1> HIDE DEF To
<1>4. \E x, y : r = To(x, y) /\ Good(x)
  <2>1. CASE Enclosed(p)
    <3>1. r = To("H", d)
      BY <2>1 DEF Waller, To, Enclosed
    <3>2. ~Walled(p, "H") /\ "H" \in Steps /\ Ahead(p, "H") = p
      BY DEF Walled, Steps, Ahead, Dirs
    <3>3. Good("H")
      BY <2>1, <3>2 DEF Hand
    <3> QED  BY <3>1, <3>3
  <2>2. CASE ~Enclosed(p) /\ WallLowerLeft(p, d)
    <3> DEFINE new == LeftOf[d]
    <3>1. d \in Dirs
      BY <2>2 DEF WallLowerLeft
    <3>2. new \in Dirs /\ ~Walled(p, new) /\ Walled(Ahead(p, new), LeftOf[new])
      BY <2>2, <3>1, <1>1, StepAndBack, CornerKept DEF WallLowerLeft
    <3>3. LeftOf[new] \in Dirs
      BY <1>1, <3>2, StepAndBack
    <3> HIDE DEF new
    <3>4. ~TurnBlocked(p, new)
      BY <1>1, <1>3, <3>3, StepAndBack DEF TurnBlocked
    <3>5. r = To(new, new)
      BY <2>2, <3>4 DEF Waller, To, Enclosed, new
    <3>6. Good(new)
      BY <1>1, <3>2, StepAndBack DEF Hand, Steps
    <3> QED  BY <3>5, <3>6
  <2>3. ASSUME NEW x \in Dirs, ~Walled(p, x), Hand(p, d) => Walled(p, LeftOf[x])
        PROVE  Good(x)
    <3>1. Ahead(Ahead(p, x), RightOf[RightOf[x]]) = p /\ x # "H"
      BY <1>1, StepAndBack
    <3> QED  BY <2>3, <3>1 DEF Hand, Steps
  <2>4. CASE ~Enclosed(p) /\ ~WallLowerLeft(p, d) /\ Walled(p, d)
    <3> DEFINE x == FirstFree(p, d)
    <3>1. r = To(x, mem[1].prev)
      BY <2>4 DEF Waller, To, Enclosed
    <3>2. d \in Dirs
      BY <2>4 DEF Walled
    <3>3. /\ x \in Dirs /\ ~Walled(p, x)
          /\ \/ x = RightOf[d]
             \/ x = LeftOf[LeftOf[d]] /\ Walled(p, RightOf[d])
             \/ x = LeftOf[d] /\ Walled(p, RightOf[d]) /\ Walled(p, LeftOf[LeftOf[d]])
      BY <2>4, <3>2, FirstFreeIs DEF Enclosed
    <3> HIDE DEF x
    <3>4. Walled(p, LeftOf[x])
      <4>1. /\ LeftOf[LeftOf[d]] = RightOf[RightOf[d]] /\ LeftOf[RightOf[d]] = d
            /\ LeftOf[RightOf[RightOf[d]]] = RightOf[d]
        BY <1>1, <3>2, StepAndBack
      <4> QED  BY <2>4, <3>3, <4>1
    <3> QED  BY <2>3, <3>1, <3>3, <3>4
  <2>5. CASE ~Enclosed(p) /\ ~WallLowerLeft(p, d) /\ ~Walled(p, d)
    <3>1. d \in Dirs /\ d # "H"
      BY <1>1, <2>5 DEF Steps
    <3>2. \A inPath \in InPath(p, d) : ~inPath
      <4>1. ~Taken(Ahead(p, d))
        BY <1>1, <1>3, <3>1, StepAndBack
      <4> QED  BY <3>1, <4>1, Zenon DEF InPath
    <3>3. r = To(d, mem[1].prev)
      <4>1. PICK inPath \in InPath(p, d) :
              r = To(IF inPath THEN "H"
                     ELSE IF d = "H" THEN mem[1].prev ELSE d, mem[1].prev)
        BY <2>5 DEF Waller, To, Enclosed
      <4> QED  BY <3>1, <3>2, <4>1
    <3>4. Hand(p, d) => Walled(p, LeftOf[d])
      BY <1>1, <2>5, <3>1, StepAndBack DEF Hand, WallLowerLeft
    <3> QED  BY <2>3, <2>5, <3>1, <3>3, <3>4
  <2> QED  BY <2>1, <2>2, <2>4, <2>5
<1> QED  BY <1>2, <1>4

\* The waller is to be asked or to answer; line x of it is under way.
Idle == pc \in {"init", "send"} \/ (pc = "read" /\ lines[1] = <<>>)
Sent(x) == (pc = "read" /\ lines[1] = <<x>>) \/ (pc = "judge" /\ buf = x)

\* A line under way is an error, or the step it remembers, no way into a wall.
LoneInv ==
  /\ result \notin {8, 9}
  /\ mem[1].move = "H" => Enclosed(pos[1])
  /\ Idle => life[1] = "run"
  /\ \A x : Sent(x) => \/ x = "text"
                       \/ /\ life[1] = "run" /\ x = mem[1].move
                          /\ ~Walled(pos[1], x)

\* The hand is on the wall, or will be after the step that is under way.
Touch ==
  /\ LoneWaller
  /\ Idle => Hand(pos[1], mem[1].move)
  /\ \A x : Sent(x) /\ x # "text" => Hand(Ahead(pos[1], x), x)

WalkInv == TypeInv /\ PipesInv /\ (LoneWaller => LoneInv)

\* Nothing that matters to a lone waller changes.
LEMMA LoneStays ==
  ASSUME LoneInv, UNCHANGED <<game, pos, mem, lines, pc, buf, result>>,
         life[1] = "run" => life'[1] = "run"
  PROVE  LoneInv' /\ (Touch => Touch')
<1>1. (Idle' <=> Idle) /\ \A x : Sent(x)' <=> Sent(x)
  BY DEF Idle, Sent
<1>2. LoneWaller' <=> LoneWaller
  BY DEF LoneWaller, Kind
<1>3. \A p, d : (Walled(p, d)' <=> Walled(p, d)) /\ Ahead(p, d)' = Ahead(p, d)
  BY DEF Walled, Free, Ahead
<1>4. \A p : Enclosed(p)' <=> Enclosed(p)
  BY DEF Enclosed, Walled, Free, Ahead
<1>5. \A p, d : Hand(p, d)' <=> Hand(p, d)
  BY DEF Hand, Enclosed, Walled, Free, Ahead
<1>6. LoneInv'
  BY <1>1, <1>3, <1>4 DEF LoneInv
<1>7. ASSUME Touch PROVE Touch'
  BY <1>1, <1>2, <1>3, <1>5, <1>7 DEF Touch
<1> QED  BY <1>6, <1>7

\* What a lone waller is.
LEMMA LoneFacts ==
  ASSUME WalkInv, LoneWaller
  PROVE  /\ Ids = {1} /\ cur = 1 /\ Kind(1) = "waller" /\ game.crashes # 1
         /\ pos[1] \in Cells /\ mem[1] \in [move : Steps, prev : Steps]
         /\ PipesOf(1) /\ LoneInv
<1>1. Ids = 1..Len(game.agents) /\ cur \in Ids
  BY AgentIds DEF WalkInv, TypeInv, TypeOK
<1>2. Ids = {1} /\ cur = 1
  BY <1>1 DEF LoneWaller
<1>3. Kind(1) = "waller" /\ game.crashes # 1
  BY DEF LoneWaller
<1> QED  BY <1>2, <1>3 DEF WalkInv, TypeInv, PlacesInv, PipesInv, MemOf

\* The waller reads, answers, fails or ends.
LEMMA LoneAgent ==
  ASSUME WalkInv, LoneWaller, NEW a \in Ids, Agent(a) \/ Crash(a)
  PROVE  LoneInv' /\ (Touch => Touch')
<1>1. /\ a = 1 /\ Ids = {1} /\ cur = 1 /\ Kind(1) = "waller" /\ game.crashes # 1
      /\ pos[1] \in Cells /\ mem[1] \in [move : Steps, prev : Steps]
      /\ PipesOf(1) /\ LoneInv
  BY LoneFacts
<1>2. UNCHANGED <<game, pos, pc, buf, result, cur>>
  BY DEF Agent, Play, MisreadMap, StarveInMap, FailAtStart, Die, Crash, loopVars
<1>3. CASE Die(1)
  BY <1>1, <1>2, <1>3, LoneStays DEF Die
<1>4. ASSUME life[1] = "run", asked[1], NEW y, lines' = [lines EXCEPT ![1] = Append(@, y)]
      PROVE  /\ pc = "read" /\ Idle /\ ~Idle' /\ lines'[1] = <<y>>
             /\ \A x : Sent(x)' <=> x = y
  <2>1. lines[1] = <<>> /\ pc = "read"
    BY <1>1, <1>4 DEF PipesOf
  <2>2. lines' = [lines EXCEPT ![1] = <<y>>]
    BY <1>4, <2>1, AppendFirst
  <2>3. lines'[1] = <<y>> /\ pc' = "read"
    BY <1>1, <1>2, <2>1, <2>2 DEF WalkInv, PipesInv
  <2>4. ~Idle' /\ \A x : Sent(x)' <=> x = y
    <3>1. <<y>> # <<>> /\ \A x : <<y>> = <<x>> <=> x = y
      OBVIOUS
    <3> QED  BY <2>3, <3>1 DEF Idle, Sent
  <2> QED  BY <2>1, <2>3, <2>4 DEF Idle
<1>5. CASE MisreadMap(1)
  <2>1. ~Idle' /\ \A x : Sent(x)' <=> x = "text"
    BY <1>4, <1>5 DEF MisreadMap
  <2>2. mem' = mem
    BY <1>5 DEF MisreadMap
  <2>3. LoneInv'
    BY <1>1, <1>2, <2>1, <2>2 DEF LoneInv, Enclosed, Walled, Free, Ahead
  <2>4. LoneWaller'
    BY <1>2 DEF LoneWaller, Kind
  <2> QED  BY <2>1, <2>3, <2>4 DEF Touch
<1>6. CASE Play(1)
  <2>1. PICK r \in Decide(1) :
          /\ mem' = [mem EXCEPT ![1] = r.mem]
          /\ lines' = [lines EXCEPT ![1] = Append(@, r.line)]
          /\ ~r.ends => UNCHANGED <<life, status>>
    BY <1>6 DEF Play
  <2>2. r \in Waller(1)
    BY <1>1, <2>1 DEF Decide
  <2>3. life[1] = "run" /\ asked[1]
    BY <1>6 DEF Play
  <2>4. Idle /\ ~Idle' /\ \A x : Sent(x)' <=> x = r.line
    BY <1>4, <2>1, <2>3
  <2>5. life' = life /\ mem'[1] = r.mem
    BY <1>1, <2>1, <2>2, WallerAnswers DEF WalkInv, TypeInv
  <2>6. /\ r.line = r.mem.move /\ r.line \in Steps /\ ~Walled(pos[1], r.line)
        /\ r.line = "H" => Enclosed(pos[1])
        /\ Hand(pos[1], mem[1].move) => Hand(Ahead(pos[1], r.line), r.line)
    BY <1>1, <2>2, WallerStep DEF LoneInv
  <2>7. /\ \A p, d : (Walled(p, d)' <=> Walled(p, d)) /\ Ahead(p, d)' = Ahead(p, d)
        /\ \A p : Enclosed(p)' <=> Enclosed(p)
        /\ \A p, d : Hand(p, d)' <=> Hand(p, d)
    BY <1>2 DEF Hand, Enclosed, Walled, Free, Ahead
  <2>8. LoneInv'
    BY <1>1, <1>2, <2>3, <2>4, <2>5, <2>6, <2>7 DEF LoneInv
  <2>9. ASSUME Touch PROVE Touch'
    <3>1. LoneWaller'
      BY <1>2 DEF LoneWaller, Kind
    <3> QED  BY <1>2, <2>4, <2>6, <2>7, <2>9, <3>1 DEF Touch
  <2> QED  BY <2>8, <2>9
<1>7. CASE StarveInMap(1)
  BY <1>1, <1>2, <1>7, LoneStays DEF StarveInMap
<1> QED  BY <1>1, <1>3, <1>5, <1>6, <1>7 DEF Agent, FailAtStart, Crash

\* The turn loop.
LEMMA LoneLoop ==
  ASSUME WalkInv, LoneWaller, Loop
  PROVE  LoneInv' /\ (Touch => Touch')
<1>1. /\ Ids = {1} /\ cur = 1
      /\ pos[1] \in Cells /\ PipesOf(1) /\ LoneInv
  BY LoneFacts
<1>2. UNCHANGED <<game, mem>>
  BY DEF Loop, SendInit, SendCoords, ReadMove, InvalidResponse, JudgeMove,
         KillAll, WaitOne, ExitHandler, agentVars
<1>3. LoneWaller' /\ \A p, d : (Walled(p, d)' <=> Walled(p, d)) /\ Ahead(p, d)' = Ahead(p, d)
      /\ (Enclosed(p)' <=> Enclosed(p)) /\ (Hand(p, d)' <=> Hand(p, d))
  BY <1>2 DEF Hand, Enclosed, Walled, Free, Ahead, LoneWaller, Kind
<1>4. CASE SendInit \/ SendCoords
  <2>1. UNCHANGED <<game, pos, mem, life, lines, buf, result>>
        /\ pc \in {"init", "send"} /\ pc' \in {"init", "send", "read"}
    BY <1>4 DEF SendInit, SendCoords, BrokenPipe, At
  <2>2. Idle /\ Idle' /\ \A x : ~Sent(x)'
    <3>1. Idle
      BY <2>1 DEF Idle
    <3>2. lines[1] = <<>>
      BY <1>1, <2>1, <3>1 DEF PipesOf, LoneInv
    <3>3. \A x : <<>> # <<x>>
      OBVIOUS
    <3> QED  BY <2>1, <3>1, <3>2, <3>3 DEF Idle, Sent
  <2> QED  BY <1>1, <1>3, <2>1, <2>2 DEF LoneInv, Touch
<1>5. CASE ReadMove
  <2>1. UNCHANGED <<game, pos, mem, life, result>> /\ pc = "read" /\ pc' = "judge"
    BY <1>5 DEF ReadMove, At
  <2>2. PICK x : lines[1] = <<x>> /\ buf' = x
    <3>1. lines[1] = <<>> => Idle /\ life[1] = "run"
      BY <1>1, <2>1 DEF Idle, LoneInv
    <3>2. lines[1] # <<>> /\ buf' = Head(lines[1])
      BY <1>1, <1>5, <3>1 DEF ReadMove
    <3>3. PICK x : lines[1] = <<x>>
      BY <1>1, <3>2 DEF PipesOf
    <3>4. Head(<<x>>) = x
      OBVIOUS
    <3> QED  BY <3>2, <3>3, <3>4
  <2>3. Sent(x) /\ ~Idle' /\ \A y : Sent(y)' <=> y = x
    BY <2>1, <2>2 DEF Idle, Sent
  <2> QED  BY <1>1, <1>3, <2>1, <2>3 DEF LoneInv, Touch
<1>6. CASE JudgeMove
  <2>1. /\ pc = "judge" /\ buf # "text" /\ pc' \in {"send", "kill"}
        /\ UNCHANGED <<game, mem, life, buf>>
    BY <1>6 DEF JudgeMove, At, agentVars, Finish
  <2>2. Sent(buf)
    BY <2>1 DEF Sent
  <2>3. life[1] = "run" /\ buf = mem[1].move /\ ~Walled(pos[1], buf) /\ buf \in Steps
    <3>1. mem[1].move \in Steps
      BY LoneFacts
    <3> QED  BY <1>1, <2>1, <2>2, <3>1 DEF LoneInv
  <2>4. buf # "D" /\ ~Collides(pos[1], buf)
    <3>1. pos[1] \in Int \X Int
      BY <1>1, MazeAssumption DEF Cells
    <3>2. buf \in Dirs => Ahead(pos[1], buf) # pos[1]
      BY <3>1, StepAndBack
    <3> QED  BY <1>1, <2>3, <3>2 DEF Collides, Taken, Steps, Dirs
  <2>5. pos' = [pos EXCEPT ![1] = Ahead(pos[1], buf)] /\ result' \in {result, 10}
    BY <1>1, <1>6, <2>3, <2>4 DEF JudgeMove
  <2>6. pos'[1] = Ahead(pos[1], buf)
    BY <1>1, <2>5 DEF WalkInv, TypeInv, PlacesInv
  <2>7. (\A x : ~Sent(x)') /\ mem'[1].move = buf
    BY <2>1, <2>3 DEF Sent
  <2>8. buf = "H" => pos'[1] = pos[1]
    BY <2>6 DEF Ahead, Dirs
  <2>9. LoneInv'
    BY <1>1, <1>3, <2>1, <2>3, <2>5, <2>7, <2>8 DEF LoneInv
  <2>10. ASSUME Touch PROVE Touch'
    <3>1. Hand(pos'[1], buf)
      BY <2>1, <2>2, <2>6, <2>10 DEF Touch
    <3> QED  BY <1>3, <2>7, <3>1 DEF Touch
  <2> QED  BY <2>9, <2>10
<1>7. CASE KillAll \/ WaitOne
  <2>1. UNCHANGED <<game, pos, mem, result>> /\ pc' = "wait"
    BY <1>7 DEF KillAll, WaitOne, At
  <2>2. ~Idle' /\ \A x : ~Sent(x)'
    BY <2>1 DEF Idle, Sent
  <2> QED  BY <1>1, <1>3, <2>1, <2>2 DEF LoneInv, Touch
<1>8. CASE InvalidResponse \/ ExitHandler
  BY <1>1, <1>8, LoneStays DEF InvalidResponse, ExitHandler, agentVars, loopVars
<1> QED  BY <1>4, <1>5, <1>6, <1>7, <1>8 DEF Loop

\* The signal handlers only take zombies away.
LEMMA LoneSignals ==
  ASSUME WalkInv, LoneWaller, Intercept \/ InterceptWait \/ Interrupt
  PROVE  LoneInv' /\ (Touch => Touch')
<1>1. LoneInv /\ Ids = {1}
  BY LoneFacts
<1>2. UNCHANGED <<game, pos, mem, lines, pc, buf, result>>
  BY DEF Intercept, InterceptWait, Interrupt, agentVars, loopVars
<1>3. life[1] = "run" => life'[1] = "run"
  BY <1>1 DEF Intercept, InterceptWait, Interrupt, agentVars, Reap, Zombies,
              WalkInv, PipesInv
<1> QED  BY <1>1, <1>2, <1>3, LoneStays

\* Every step.
LEMMA StepWalk ==
  ASSUME WalkInv, [Next]_vars
  PROVE  WalkInv' /\ (Touch => Touch')
<1>1. TypeInv' /\ PipesInv'
  BY StepTyped, StepPipes DEF WalkInv
<1>2. LoneWaller' <=> LoneWaller
  <2>1. game' = game
    BY OthersStay DEF JudgeMove
  <2> QED  BY <2>1 DEF LoneWaller, Kind
<1>3. ASSUME LoneWaller
      PROVE  LoneInv' /\ (Touch => Touch')
  <2>1. LoneInv
    BY <1>3, LoneFacts
  <2>2. CASE UNCHANGED vars
    BY <2>1, <2>2, LoneStays DEF vars, agentVars, loopVars
  <2> QED  BY <1>3, <2>2, LoneAgent, LoneLoop, LoneSignals DEF Next
<1> QED  BY <1>1, <1>2, <1>3 DEF WalkInv, Touch

\* At the start the waller is alive and nothing is under way.
LEMMA InitWalk == Init => WalkInv
<1> SUFFICES ASSUME Init PROVE WalkInv
  OBVIOUS
<1>1. TypeInv /\ PipesInv
  BY InitTyped, InitPipes
<1>2. ASSUME LoneWaller PROVE LoneInv
  <2>1. Ids = {1} /\ ArgumentOK(game.agents[1], Ids) /\ Kind(1) = "waller"
    BY <1>2, AgentIds DEF Init, LoneWaller
  <2>2. mem[1] = [move |-> Arg(1), prev |-> Arg(1)] /\ Arg(1) \in Dirs
    BY <2>1 DEF Init, StartMem, Kind, Arg, ArgumentOK
  <2>3. mem[1].move # "H"
    BY <2>2 DEF Dirs
  <2>4. life[1] = "run" /\ \A x : ~Sent(x)
    BY <2>1 DEF Init, Sent
  <2> QED  BY <2>3, <2>4 DEF Init, LoneInv
<1> QED  BY <1>1, <1>2 DEF WalkInv

\* Whatever the map, a waller that is alone never runs into a wall or out of
\* the map, and once its left hand is on a wall it is there before every turn.
THEOREM WallerFollowsWall == Spec => WallerKeepsWall
<1>1. WalkInv /\ [Next]_vars => WalkInv' /\ (Touch => Touch')
  BY StepWalk
<1>2. WalkInv => (LoneWaller => result \notin {8, 9})
  BY DEF WalkInv, LoneInv
<1>3. WalkInv /\ pc = "send" /\ HandOnWall => Touch
  BY DEF HandOnWall, Hand, Enclosed, Touch, Sent
<1>4. Touch => (pc = "send" => HandOnWall)
  BY DEF HandOnWall, Hand, Enclosed, Touch, Idle
<1> QED  BY <1>1, <1>2, <1>3, <1>4, InitWalk, PTL DEF Spec, WallerKeepsWall

-----------------------------------------------------------------------------
(* slow.c and its target.                                                  *)

\* The step from p to q, and two displacements that are the same.
Near(p, q) == \E x \in Steps : q = Ahead(p, x)
SameWay(p, from, q, first) ==
  p[1] - from[1] = q[1] - first[1] /\ p[2] - from[2] = q[2] - first[2]

\* Positions one after the other are a step apart.
Chain(s) == \A i \in 1..(Len(s) - 1) : Near(s[i], s[i + 1])

\* No two directions lead to the same cell, so the difference of two positions
\* a step apart is that step.
LEMMA DifferenceIs ==
  ASSUME NEW p \in Cells, NEW q, Near(p, q)
  PROVE  Ahead(p, Difference(p, q)) = q
<1>1. CASE \E d \in Dirs : Ahead(p, d) = q
  <2>1. Difference(p, q) = CHOOSE d \in Dirs : Ahead(p, d) = q
    BY <1>1 DEF Difference
  <2> QED  BY <1>1, <2>1
<1>2. CASE ~ \E d \in Dirs : Ahead(p, d) = q
  <2>1. Difference(p, q) = "H" /\ "H" \notin Dirs
    BY <1>2 DEF Difference, Dirs
  <2>2. q = Ahead(p, "H")
    BY <1>2 DEF Near, Steps
  <2> QED  BY <2>1, <2>2
<1> QED  BY <1>1, <1>2

\* A step keeps the way that two walkers have gone the same.
LEMMA SameStep ==
  ASSUME NEW p \in Cells, NEW from \in Cells, NEW q \in Cells, NEW first \in Cells,
         NEW x \in Steps, SameWay(p, from, q, first)
  PROVE  SameWay(Ahead(p, x), from, Ahead(q, x), first)
<1>1. /\ p[1] \in Int /\ p[2] \in Int /\ q[1] \in Int /\ q[2] \in Int
      /\ from[1] \in Int /\ from[2] \in Int /\ first[1] \in Int /\ first[2] \in Int
  BY MazeAssumption DEF Cells
<1>2. CASE x \in Dirs
  <2>1. Offset[x][1] \in Int /\ Offset[x][2] \in Int
    BY <1>2 DEF Dirs, Offset
  <2> DEFINE u == Offset[x][1]
             v == Offset[x][2]
  <2>2. Ahead(p, x) = <<p[1] + u, p[2] + v>> /\ Ahead(q, x) = <<q[1] + u, q[2] + v>>
    BY <1>2 DEF Ahead
  <2>3. u \in Int /\ v \in Int
    BY <2>1
  <2> HIDE DEF u, v
  <2> QED  BY <1>1, <2>2, <2>3 DEF SameWay
<1>3. CASE x \notin Dirs
  BY <1>3 DEF Ahead
<1> QED  BY <1>2, <1>3

\* One more position.
LEMMA ChainAppend ==
  ASSUME NEW s \in Seq(Cells), NEW q \in Cells, Chain(s),
         s # <<>> => Near(s[Len(s)], q)
  PROVE  /\ Append(s, q) \in Seq(Cells) /\ Len(Append(s, q)) = Len(s) + 1
         /\ Append(s, q)[Len(s) + 1] = q
         /\ \A i \in 1..Len(s) : Append(s, q)[i] = s[i]
         /\ Chain(Append(s, q))
<1> DEFINE t == Append(s, q)
<1>1. /\ t \in Seq(Cells) /\ Len(t) = Len(s) + 1 /\ Len(s) \in Nat
      /\ t[Len(s) + 1] = q /\ \A i \in 1..Len(s) : t[i] = s[i]
  OBVIOUS
<1> HIDE DEF t
<1>2. ASSUME NEW i \in 1..(Len(t) - 1) PROVE Near(t[i], t[i + 1])
  <2>1. CASE i = Len(s)
    <3>1. s # <<>> /\ t[i] = s[Len(s)] /\ t[i + 1] = q
      BY <1>1, <1>2, <2>1
    <3> QED  BY <3>1
  <2>2. CASE i # Len(s)
    <3>1. i \in 1..(Len(s) - 1) /\ t[i] = s[i] /\ t[i + 1] = s[i + 1]
      BY <1>1, <1>2, <2>2
    <3> QED  BY <3>1 DEF Chain
  <2> QED  BY <2>1, <2>2
<1> QED  BY <1>1, <1>2 DEF Chain, t

\* The oldest position is forgotten.
LEMMA ChainTail ==
  ASSUME NEW s \in Seq(Cells), Chain(s), s # <<>>
  PROVE  /\ Tail(s) \in Seq(Cells) /\ Len(Tail(s)) = Len(s) - 1
         /\ \A i \in 1..(Len(s) - 1) : Tail(s)[i] = s[i + 1]
         /\ Chain(Tail(s))
<1> DEFINE t == Tail(s)
<1>1. /\ t \in Seq(Cells) /\ Len(t) = Len(s) - 1 /\ Len(s) \in Nat
      /\ \A i \in 1..(Len(s) - 1) : t[i] = s[i + 1]
  OBVIOUS
<1> HIDE DEF t
<1>2. ASSUME NEW i \in 1..(Len(t) - 1) PROVE Near(t[i], t[i + 1])
  <2>1. i + 1 \in 1..(Len(s) - 1) /\ t[i] = s[i + 1] /\ t[i + 1] = s[(i + 1) + 1]
    BY <1>1, <1>2
  <2> QED  BY <2>1 DEF Chain
<1> QED  BY <1>1, <1>2 DEF Chain, t

\* Agent a has played in its turn; t has had its turn since a last played.
Played(a) == cur = a /\ (pc = "judge" \/ (pc = "read" /\ lines[a] # <<>>))
Since(t, a) ==
  \/ cur = a /\ ~Played(a)
  \/ cur > a /\ a <= t /\ t < cur
  \/ cur < a /\ (t >= a \/ t < cur)

\* What slow.c knows of the way of its target, how far it has gone itself,
\* and where the answer that is under way leads it.
Trail(s, now, since) ==
  /\ Len(s) <= Delay + 1 /\ Chain(s)
  /\ s # <<>> => Near(s[Len(s)], now) /\ (~since => s[Len(s)] = now)
LineOf(a) == IF pc = "judge" THEN buf ELSE Head(lines[a])
SlowOf(a) ==
  LET m == mem[a]
      from == game.agents[a].at
  IN  /\ Trail(m.seen, pos[Arg(a)], Since(Arg(a), a))
      /\ m.seen = <<>> => m.first = from
      /\ m.seen # <<>> /\ Len(m.seen) <= Delay => m.first = m.seen[1]
      /\ ~Played(a) => IF m.seen = <<>> THEN pos[a] = from
                       ELSE SameWay(pos[a], from, m.seen[1], m.first)
      /\ Played(a) => /\ m.seen # <<>> /\ LineOf(a) \in Steps
                      /\ SameWay(Ahead(pos[a], LineOf(a)), from, m.seen[1], m.first)

Slows == {a \in Ids : Kind(a) = "slow" /\ life[a] = "run"}
InTurns == pc \in {"init", "send", "read", "judge"}
SlowInv == TypeInv /\ PipesInv /\ (InTurns => \A a \in Slows : SlowOf(a))

\* What is known of a slow agent.
LEMMA SlowFacts ==
  ASSUME TypeInv, NEW a \in Slows
  PROVE  /\ a \in Ids /\ Arg(a) \in Ids /\ pos \in [Ids -> Cells]
         /\ mem[a] \in [first : Cells, seen : Seq(Cells)]
         /\ game.agents[a].at \in Cells
         /\ Ids = 1..Len(game.agents) /\ Len(game.agents) \in Nat /\ cur \in Ids
<1>1. game \in Games /\ cur \in Ids
  BY DEF TypeInv, TypeOK
<1>2. a \in Ids /\ Kind(a) = "slow"
  BY DEF Slows
<1>3. ArgumentOK(game.agents[a], Ids)
  BY <1>1, <1>2, AgentIds
<1>4. Arg(a) \in Ids
  BY <1>2, <1>3 DEF ArgumentOK, Kind, Arg
<1>5. game.agents[a].at \in Cells
  BY <1>1, <1>2, MazeAssumption DEF Ids
<1>6. pos \in [Ids -> Cells] /\ mem[a] \in [first : Cells, seen : Seq(Cells)]
  BY <1>2 DEF TypeInv, PlacesInv, MemOf
<1> QED  BY <1>1, <1>2, <1>4, <1>5, <1>6, AgentIds

\* slow.c answers in its turn: it stays while it knows too little, and then
\* takes the oldest step of its target that it knows.
LEMMA SlowAnswers ==
  ASSUME TypeInv, NEW a \in Slows, SlowOf(a), cur = a, ~Played(a), NEW r \in Slow(a)
  PROVE  /\ r.ends = FALSE /\ r.line \in Steps
         /\ Trail(r.mem.seen, pos[Arg(a)], FALSE) /\ r.mem.seen # <<>>
         /\ Len(r.mem.seen) <= Delay => r.mem.first = r.mem.seen[1]
         /\ SameWay(Ahead(pos[a], r.line), game.agents[a].at, r.mem.seen[1],
                    r.mem.first)
<1> DEFINE m == mem[a]
           s == m.seen
           now == pos[Arg(a)]
           new == Append(s, now)
           from == game.agents[a].at
<1>1. /\ m \in [first : Cells, seen : Seq(Cells)] /\ s \in Seq(Cells)
      /\ now \in Cells /\ pos[a] \in Cells /\ from \in Cells /\ m.first \in Cells
      /\ Delay \in Nat \ {0} /\ Len(s) \in Nat
  BY SlowFacts, MazeAssumption
<1>2. /\ Trail(s, now, Since(Arg(a), a)) /\ (s = <<>> => pos[a] = from)
      /\ s # <<>> => SameWay(pos[a], from, s[1], m.first)
      /\ s # <<>> /\ Len(s) <= Delay => m.first = s[1]
  BY DEF SlowOf
<1>3. /\ new \in Seq(Cells) /\ Len(new) = Len(s) + 1
      /\ new[Len(s) + 1] = now /\ \A i \in 1..Len(s) : new[i] = s[i]
      /\ Chain(new)
  <2>1. Chain(s) /\ (s # <<>> => Near(s[Len(s)], now))
    BY <1>2 DEF Trail
  <2> HIDE DEF s, now
  <2> QED  BY <1>1, <2>1, ChainAppend
<1>4. \/ Len(s) <= Delay /\ r = Answer([first |-> new[1], seen |-> new], "H")
      \/ ~(Len(s) <= Delay) /\ r = Answer([m EXCEPT !.seen = Tail(new)],
                                          Difference(s[1], s[2]))
  BY DEF Slow
<1>5. s = <<>> \/ (s # <<>> /\ Len(s) >= 1)
  BY <1>1
<1> HIDE DEF m, now, new, from
<1>6. CASE Len(s) <= Delay /\ r = Answer([first |-> new[1], seen |-> new], "H")
  <2>1. r.ends = FALSE /\ r.line = "H" /\ r.mem.seen = new /\ r.mem.first = new[1]
    BY <1>6 DEF Answer
  <2>2. Trail(new, now, FALSE) /\ new # <<>>
    <3>1. Len(new) # 0 /\ Len(new) <= Delay + 1 /\ new[Len(new)] = now
      BY <1>1, <1>3, <1>6
    <3>2. Near(now, now)
      <4>1. "H" \in Steps /\ now = Ahead(now, "H")
        BY DEF Steps, Ahead, Dirs
      <4> QED  BY <4>1 DEF Near
    <3>3. new # <<>>
      BY <3>1
    <3> QED  BY <1>3, <3>1, <3>2, <3>3 DEF Trail
  <2>3. Ahead(pos[a], "H") = pos[a] /\ "H" \in Steps
    BY DEF Ahead, Steps, Dirs
  <2>4. SameWay(pos[a], from, new[1], new[1])
    <3>1. \A p \in Cells : p[1] \in Int /\ p[2] \in Int
      BY MazeAssumption DEF Cells
    <3>2. new[1] \in Cells
      BY <1>1, <1>3
    <3>3. CASE s = <<>>
      BY <1>1, <1>2, <3>1, <3>2, <3>3 DEF SameWay
    <3>4. CASE s # <<>>
      <4>1. new[1] = s[1]
        BY <1>3, <1>5, <3>4, <1>1
      <4>2. SameWay(pos[a], from, s[1], s[1])
        BY <1>2, <1>6, <3>4
      <4> QED  BY <4>1, <4>2
    <3> QED  BY <3>3, <3>4
  <2> QED  BY <2>1, <2>2, <2>3, <2>4 DEF now, from
<1>7. CASE ~(Len(s) <= Delay) /\ r = Answer([m EXCEPT !.seen = Tail(new)],
                                            Difference(s[1], s[2]))
  <2> DEFINE x == Difference(s[1], s[2])
             t == Tail(new)
  <2>1. r.ends = FALSE /\ r.line = x /\ r.mem.seen = t /\ r.mem.first = m.first
    BY <1>1, <1>7 DEF Answer
  <2>2. Len(s) = Delay + 1 /\ Len(s) >= 2
    BY <1>1, <1>2, <1>7 DEF Trail
  <2>3. /\ t \in Seq(Cells) /\ Len(t) = Len(s) /\ Chain(t)
        /\ t[Len(s)] = now /\ t[1] = s[2]
    <3>1. new # <<>>
      BY <1>3, <1>1
    <3>2. /\ t \in Seq(Cells) /\ Len(t) = Len(new) - 1
          /\ \A i \in 1..(Len(new) - 1) : t[i] = new[i + 1]
          /\ Chain(t)
      BY <1>3, <3>1, ChainTail
    <3> HIDE DEF t, s
    <3>3. Len(new) - 1 = Len(s) /\ Len(s) \in 1..Len(s) /\ 1 \in 1..Len(s)
          /\ 2 \in 1..Len(s)
      BY <1>1, <1>3, <2>2
    <3>4. t[Len(s)] = new[Len(s) + 1] /\ t[1] = new[1 + 1]
      BY <3>2, <3>3
    <3>5. new[1 + 1] = s[2]
      BY <1>3, <3>3
    <3> QED  BY <1>3, <3>2, <3>3, <3>4, <3>5
  <2>4. Near(s[1], s[2]) /\ s[1] \in Cells /\ s[2] \in Cells
    <3>1. 1 \in 1..(Len(s) - 1)
      BY <1>1, <2>2
    <3>2. Near(s[1], s[1 + 1])
      BY <1>2, <3>1 DEF Trail, Chain
    <3> QED  BY <1>1, <2>2, <3>2
  <2>5. Ahead(s[1], x) = s[2] /\ x \in Steps
    BY <2>4, DifferenceIs, DifferenceSteps
  <2> HIDE DEF x, t
  <2>6. t # <<>> /\ Trail(t, now, FALSE)
    <3>1. Near(now, now)
      <4>1. "H" \in Steps /\ now = Ahead(now, "H")
        BY DEF Steps, Ahead, Dirs
      <4> QED  BY <4>1 DEF Near
    <3>2. t # <<>>
      BY <2>2, <2>3
    <3> QED  BY <1>1, <2>2, <2>3, <3>1, <3>2 DEF Trail
  <2>7. SameWay(Ahead(pos[a], x), from, t[1], m.first)
    <3>1. s # <<>>
      BY <2>2
    <3>2. SameWay(pos[a], from, s[1], m.first)
      BY <1>2, <3>1
    <3>3. SameWay(Ahead(pos[a], x), from, Ahead(s[1], x), m.first)
      BY <1>1, <2>4, <2>5, <3>2, SameStep
    <3> QED  BY <2>3, <2>5, <3>3
  <2>8. ~(Len(t) <= Delay)
    BY <1>1, <2>2, <2>3
  <2> QED  BY <2>1, <2>5, <2>6, <2>7, <2>8 DEF now, from
<1> QED  BY <1>4, <1>6, <1>7

\* Nothing that matters to a slow agent changes.
LEMMA SlowStays ==
  ASSUME NEW a, SlowOf(a), UNCHANGED <<game, pos, cur>>, mem'[a] = mem[a],
         Played(a)' <=> Played(a), Played(a) => LineOf(a)' = LineOf(a)
  PROVE  SlowOf(a)'
<1>1. Since(Arg(a), a)' <=> Since(Arg(a), a)
  BY DEF Since, Arg
<1> QED  BY <1>1 DEF SlowOf, Trail, Chain, Near, Ahead, Arg, SameWay

\* The agents: a slow one answers, and the others do not touch its pipe.
LEMMA SlowAgent ==
  ASSUME SlowInv, NEW b \in Ids, Agent(b) \/ Crash(b), InTurns', NEW a \in Slows'
  PROVE  SlowOf(a)'
<1>1. UNCHANGED <<game, pos, pc, buf, cur>>
  BY DEF Agent, Play, MisreadMap, StarveInMap, FailAtStart, Die, Crash, loopVars
<1>2. /\ a \in Ids /\ Kind(a) = "slow" /\ life'[a] = "run" /\ PipesOf(a)
      /\ TypeOK /\ PipesInv /\ TypeInv
  <2>1. a \in Ids /\ Kind(a) = "slow" /\ life'[a] = "run"
    BY <1>1 DEF Slows, Ids, Kind
  <2> QED  BY <2>1 DEF SlowInv, PipesInv, TypeInv
<1>3. life[a] = "run" /\ (a = b => Play(a) \/ StarveInMap(a))
  BY <1>2 DEF PipesInv, Agent, Play, MisreadMap, StarveInMap, FailAtStart, Die,
              Crash, Exit
<1>4. SlowOf(a)
  BY <1>1, <1>2, <1>3 DEF SlowInv, InTurns, Slows
<1>5. CASE a # b \/ StarveInMap(b)
  <2>1. mem'[a] = mem[a] /\ lines'[a] = lines[a]
    BY <1>2, <1>5 DEF PipesInv, TypeInv, Agent, Play, MisreadMap, StarveInMap,
                      FailAtStart, Die, Crash
  <2> QED  BY <1>1, <1>4, <2>1, SlowStays DEF Played, LineOf
<1>6. CASE a = b /\ Play(a)
  <2>1. PICK r \in Decide(a) : /\ mem' = [mem EXCEPT ![a] = r.mem]
                               /\ lines' = [lines EXCEPT ![a] = Append(@, r.line)]
    BY <1>3, <1>6 DEF Play
  <2>2. lines[a] = <<>> /\ cur = a /\ pc = "read"
    BY <1>2, <1>3, <1>6 DEF PipesOf, Play
  <2>3. r \in Slow(a) /\ ~Played(a) /\ a \in Slows
    BY <1>2, <1>3, <2>1, <2>2 DEF Decide, Played, Slows
  <2>4. mem'[a] = r.mem /\ lines'[a] = <<r.line>>
    BY <1>2, <2>1, <2>2, AppendFirst DEF PipesInv, TypeInv
  <2>5. /\ r.line \in Steps
        /\ Trail(r.mem.seen, pos[Arg(a)], FALSE) /\ r.mem.seen # <<>>
        /\ Len(r.mem.seen) <= Delay => r.mem.first = r.mem.seen[1]
        /\ SameWay(Ahead(pos[a], r.line), game.agents[a].at, r.mem.seen[1],
                   r.mem.first)
    BY <1>2, <1>4, <2>2, <2>3, SlowAnswers
  <2>6. Played(a)' /\ LineOf(a)' = r.line
    <3>1. <<r.line>> # <<>> /\ Head(<<r.line>>) = r.line
      OBVIOUS
    <3> QED  BY <1>1, <2>2, <2>4, <3>1 DEF Played, LineOf
  <2> QED
    <3>1. mem'[a] = r.mem
      BY <2>4
    <3>2. Trail(mem[a].seen, pos[Arg(a)], Since(Arg(a), a))'
      BY <1>1, <3>1, <2>5 DEF Trail, Chain, Near, Ahead, Arg
    <3>3. SameWay(Ahead(pos[a], LineOf(a)), game.agents[a].at, mem[a].seen[1],
                  mem[a].first)'
      BY <1>1, <3>1, <2>5, <2>6 DEF SameWay, Ahead
    <3> QED  BY <2>5, <2>6, <3>1, <3>2, <3>3 DEF SlowOf
<1> QED  BY <1>3, <1>5, <1>6

\* Asking and reading.
LEMMA SlowLoop ==
  ASSUME SlowInv, Loop, ~JudgeMove, InTurns', NEW a \in Slows'
  PROVE  SlowOf(a)'
<1>1. ~KillAll /\ ~WaitOne
  BY DEF KillAll, WaitOne, InTurns, At
<1>2. UNCHANGED <<game, pos, mem, cur, life>>
  BY <1>1 DEF Loop, SendInit, SendCoords, ReadMove, InvalidResponse, ExitHandler,
              agentVars, loopVars
<1>3. /\ a \in Slows /\ a \in Ids /\ life[a] = "run" /\ PipesOf(a)
  BY <1>2 DEF Slows, Ids, Kind, SlowInv, PipesInv
<1>4. InTurns
  BY <1>1 DEF Loop, SendInit, SendCoords, ReadMove, InvalidResponse, ExitHandler,
              InTurns, At, loopVars
<1>5. SlowOf(a)
  BY <1>3, <1>4 DEF SlowInv
<1>6. CASE SendInit \/ SendCoords
  <2>1. pc \in {"init", "send"} /\ pc' \in {"init", "send", "read"} /\ lines' = lines
    BY <1>6 DEF SendInit, SendCoords, BrokenPipe, At
  <2>2. ~Played(a) /\ ~Played(a)'
    BY <1>3, <2>1 DEF PipesOf, Played
  <2> QED  BY <1>2, <1>5, <2>2, SlowStays
<1>7. CASE ReadMove
  <2>1. pc = "read" /\ pc' = "judge"
    BY <1>7 DEF ReadMove, At
  <2>2. CASE a # cur
    BY <1>2, <1>5, <2>1, <2>2, SlowStays DEF Played
  <2>3. CASE a = cur
    <3>1. lines[a] # <<>> /\ buf' = Head(lines[a])
      BY <1>3, <1>7, <2>3 DEF ReadMove
    <3> QED  BY <1>2, <1>5, <2>1, <2>3, <3>1, SlowStays DEF Played, LineOf
  <2> QED  BY <2>2, <2>3
<1>8. CASE InvalidResponse \/ ExitHandler
  <2>1. UNCHANGED <<lines, pc, buf>>
    BY <1>8 DEF InvalidResponse, ExitHandler, agentVars, loopVars
  <2> QED  BY <1>2, <1>5, <2>1, SlowStays DEF Played, LineOf
<1> QED  BY <1>1, <1>6, <1>7, <1>8 DEF Loop

\* A move: of the slow agent, of its target, of another one.
LEMMA SlowJudge ==
  ASSUME SlowInv, JudgeMove, InTurns', NEW a \in Slows'
  PROVE  SlowOf(a)'
<1>1. UNCHANGED <<game, mem, life, lines, buf>> /\ pc = "judge"
  BY DEF JudgeMove, agentVars, At
<1>2. a \in Slows /\ TypeInv /\ a \in Ids /\ life[a] = "run"
  BY <1>1 DEF Slows, Ids, Kind, SlowInv
<1> DEFINE t == Arg(a)
           s == mem[a].seen
           from == game.agents[a].at
           N == Len(game.agents)
<1>3. SlowOf(a)
  BY <1>1, <1>2 DEF SlowInv, InTurns
<1>4. /\ t \in Ids /\ pos \in [Ids -> Cells] /\ s \in Seq(Cells) /\ from \in Cells
      /\ mem[a].first \in Cells /\ Ids = 1..N /\ N \in Nat /\ cur \in Ids
  BY <1>2, SlowFacts
<1>5. /\ buf # "D" /\ pos' = [pos EXCEPT ![cur] = Ahead(pos[cur], buf)]
      /\ cur' = IF cur = N THEN 1 ELSE cur + 1
      /\ pc' = "send"
  BY DEF JudgeMove, Finish, InTurns
<1>6. ~Played(a)'
  BY <1>5 DEF Played
<1>7. buf \in Steps
  <2>1. buf \in Lines /\ buf # "text"
    BY <1>2 DEF JudgeMove, TypeInv, TypeOK
  <2> QED  BY <1>5, <2>1 DEF Lines, Moves, Steps
<1>8. Arg(a)' = t /\ mem'[a] = mem[a] /\ (game.agents[a].at)' = from
  BY <1>1 DEF Arg
<1>9. Trail(s, pos'[t], Since(t, a)')
  <2> DEFINE Passed(c) == \/ c = a
                          \/ c > a /\ a <= t /\ t < c
                          \/ c < a /\ (t >= a \/ t < c)
  <2>1. Trail(s, pos[t], Since(t, a))
    BY <1>3 DEF SlowOf
  <2>2. Since(t, a)' <=> Passed(cur')
    BY <1>6, <1>8 DEF Since
  <2>3. a \in 1..N /\ t \in 1..N /\ cur \in 1..N /\ N \in Nat
    BY <1>2, <1>4
  <2>4. Since(t, a) <=> cur # a /\ Passed(cur)
    <3>1. Played(a) <=> cur = a
      BY <1>1 DEF Played
    <3>2. cur > a \/ cur < a <=> cur # a
      BY <2>3
    <3> QED  BY <3>1, <3>2 DEF Since
  <2>5. CASE cur = t
    <3>1. ~(cur # a /\ Passed(cur)) /\ Passed(cur')
      <4> HIDE DEF t, N
      <4> QED  BY <1>5, <2>3, <2>5
    <3>2. pos'[t] = Ahead(pos[t], buf)
      BY <1>4, <1>5, <2>5
    <3>3. s # <<>> => Near(s[Len(s)], pos'[t])
      BY <1>7, <2>1, <2>4, <3>1, <3>2 DEF Trail, Near
    <3> QED  BY <2>1, <2>2, <3>1, <3>3 DEF Trail
  <2>6. CASE cur # t
    <3>1. cur # a /\ Passed(cur) => Passed(cur')
      <4> HIDE DEF t, N
      <4> QED  BY <1>5, <2>3, <2>6
    <3>2. pos'[t] = pos[t]
      BY <1>4, <1>5, <2>6
    <3> HIDE DEF Passed
    <3> QED  BY <2>1, <2>2, <2>4, <3>1, <3>2 DEF Trail
  <2> QED  BY <2>5, <2>6
<1>10. IF s = <<>> THEN pos'[a] = from ELSE SameWay(pos'[a], from, s[1], mem[a].first)
  <2>1. CASE cur = a
    <3>1. Played(a) /\ LineOf(a) = buf
      BY <1>1, <2>1 DEF Played, LineOf
    <3>2. s # <<>> /\ SameWay(Ahead(pos[a], buf), from, s[1], mem[a].first)
      BY <1>3, <3>1 DEF SlowOf
    <3>3. pos'[a] = Ahead(pos[a], buf)
      BY <1>2, <1>4, <1>5, <2>1
    <3> QED  BY <3>2, <3>3
  <2>2. CASE cur # a
    <3>1. ~Played(a) /\ pos'[a] = pos[a]
      BY <1>2, <1>4, <1>5, <2>2 DEF Played
    <3> QED  BY <1>3, <3>1 DEF SlowOf
  <2> QED  BY <2>1, <2>2
<1>11. (s = <<>> => mem[a].first = from)
       /\ (s # <<>> /\ Len(s) <= Delay => mem[a].first = s[1])
  BY <1>3 DEF SlowOf
<1>12. Trail(mem[a].seen, pos[Arg(a)], Since(Arg(a), a))'
  BY <1>8, <1>9 DEF Trail, Chain, Near, Ahead, Since
<1> QED  BY <1>6, <1>8, <1>10, <1>11, <1>12 DEF SlowOf, SameWay

\* Every step keeps what the slow agents know.
LEMMA StepSlow == SlowInv /\ [Next]_vars => SlowInv'
<1> SUFFICES ASSUME SlowInv, [Next]_vars, InTurns', NEW a \in Slows' PROVE SlowOf(a)'
  BY StepTyped, StepPipes DEF SlowInv
<1>1. ASSUME UNCHANGED <<game, pos, mem, lines, pc, buf, cur>>,
             life'[a] = "run" => life[a] = "run"
      PROVE  SlowOf(a)'
  <2>1. a \in Slows /\ InTurns
    BY <1>1 DEF Slows, Ids, Kind, InTurns
  <2> QED  BY <1>1, <2>1, SlowStays DEF SlowInv, Played, LineOf
<1>2. CASE UNCHANGED vars
  BY <1>1, <1>2 DEF vars, agentVars, loopVars
<1>3. CASE Intercept \/ InterceptWait \/ Interrupt
  <2>1. UNCHANGED <<game, pos, mem, lines, pc, buf, cur>>
    BY <1>3 DEF Intercept, InterceptWait, Interrupt, agentVars, loopVars
  <2>2. a \in Ids
    BY <2>1 DEF Slows, Ids
  <2>3. life'[a] = "run" => life[a] = "run"
    BY <1>3, <2>2 DEF Intercept, InterceptWait, Interrupt, agentVars, Reap, Zombies,
                      SlowInv, PipesInv
  <2> QED  BY <1>1, <2>1, <2>3
<1> QED  BY <1>2, <1>3, SlowAgent, SlowLoop, SlowJudge DEF Next

\* At the start a slow agent knows nothing and stands where it was put.
LEMMA InitSlow == Init => SlowInv
<1> SUFFICES ASSUME Init PROVE SlowInv
  OBVIOUS
<1>1. TypeInv /\ PipesInv
  BY InitTyped, InitPipes
<1>2. ASSUME NEW a \in Slows PROVE SlowOf(a)
  <2>1. a \in Ids /\ mem[a] = [first |-> game.agents[a].at, seen |-> <<>>]
        /\ pos[a] = game.agents[a].at /\ ~Played(a)
    BY DEF Slows, Kind, Init, StartMem, Played
  <2>2. mem[a].seen = <<>> /\ mem[a].first = game.agents[a].at
    BY <2>1
  <2>3. Trail(<<>>, pos[Arg(a)], Since(Arg(a), a))
    <3>1. Len(<<>>) = 0 /\ Delay \in Nat
      BY MazeAssumption
    <3> QED  BY <3>1 DEF Trail, Chain
  <2> QED  BY <2>1, <2>2, <2>3 DEF SlowOf
<1> QED  BY <1>1, <1>2 DEF SlowInv

\* Whatever the agents do and in whatever order they play, a slow agent has
\* before every turn gone the way that its target had gone Delay moves before.
THEOREM SlowRepeats == Spec => []SlowTrails
<1>1. SlowInv => SlowTrails
  BY DEF SlowInv, SlowTrails, Slows, InTurns, SlowOf, Played, SameWay,
         Start
<1> QED  BY <1>1, InitSlow, StepSlow, PTL DEF Spec
=============================================================================
