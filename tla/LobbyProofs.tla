---------------------------- MODULE LobbyProofs ----------------------------
(***************************************************************************)
(* What holds of the lobby for any number of clients, names and seats: no  *)
(* game is given more players than its array has, pending games are the    *)
(* ones with a seat left, one of each name, active games are full, and a   *)
(* client that is seated sits in one place.                                *)
(***************************************************************************)
EXTENDS Lobby, FiniteSetTheorems, TLAPS

-----------------------------------------------------------------------------
(* Sequences.                                                              *)

\* A sequence with one element replaced.
LEMMA ExceptSeq ==
  ASSUME NEW S, NEW s \in Seq(S), NEW k \in DOMAIN s, NEW x \in S
  PROVE  /\ [s EXCEPT ![k] = x] \in Seq(S)
         /\ DOMAIN [s EXCEPT ![k] = x] = DOMAIN s
<1>1. s \in [1..Len(s) -> S] /\ Len(s) \in Nat
  OBVIOUS
<1>2. [s EXCEPT ![k] = x] \in [1..Len(s) -> S]
  BY <1>1
<1> QED
  BY <1>1, <1>2

\* A sequence with one element added.
LEMMA AppendSeq ==
  ASSUME NEW S, NEW s \in Seq(S), NEW x \in S
  PROVE  /\ Append(s, x) \in Seq(S)
         /\ DOMAIN Append(s, x) = 1..(Len(s) + 1)
         /\ \A j \in DOMAIN s : Append(s, x)[j] = s[j]
         /\ Append(s, x)[Len(s) + 1] = x
         /\ Len(Append(s, x)) = Len(s) + 1
         /\ DOMAIN s = 1..Len(s) /\ Len(s) \in Nat
OBVIOUS

\* One sequence after another.
LEMMA ConcatSeq ==
  ASSUME NEW S, NEW a \in Seq(S), NEW b \in Seq(S)
  PROVE  /\ a \o b \in Seq(S) /\ Len(a \o b) = Len(a) + Len(b)
         /\ \A j \in 1..Len(a) : (a \o b)[j] = a[j]
         /\ \A j \in 1..Len(b) : (a \o b)[Len(a) + j] = b[j]
OBVIOUS

\* Taking out element k moves those behind it up by one.
LEMMA RemoveSeq ==
  ASSUME NEW S, NEW s \in Seq(S), NEW k \in DOMAIN s
  PROVE  /\ RemoveAt(s, k) \in Seq(S)
         /\ DOMAIN RemoveAt(s, k) = 1..(Len(s) - 1)
         /\ \A j \in 1..(Len(s) - 1) :
              RemoveAt(s, k)[j] = IF j < k THEN s[j] ELSE s[j + 1]
<1> DEFINE a == SubSeq(s, 1, k - 1)
           b == SubSeq(s, k + 1, Len(s))
<1>1. k \in 1..Len(s) /\ Len(s) \in Nat
  OBVIOUS
<1>2. /\ a \in Seq(S) /\ Len(a) = k - 1
      /\ \A j \in 1..(k - 1) : a[j] = s[j]
  BY <1>1
<1>3. /\ b \in Seq(S) /\ Len(b) = Len(s) - k
      /\ \A j \in 1..(Len(s) - k) : b[j] = s[k + j]
  BY <1>1
<1>4. RemoveAt(s, k) = a \o b
  BY DEF RemoveAt
<1> HIDE DEF a, b
<1>5. /\ a \o b \in Seq(S)
      /\ Len(a \o b) = Len(s) - 1
  BY <1>1, <1>2, <1>3
<1>6. ASSUME NEW j \in 1..(Len(s) - 1)
      PROVE  (a \o b)[j] = IF j < k THEN s[j] ELSE s[j + 1]
  <2>1. CASE j < k
    BY <1>1, <1>2, <1>3, <2>1, ConcatSeq
  <2>2. CASE ~(j < k)
    <3> DEFINE m == j - (k - 1)
    <3>1. m \in 1..(Len(s) - k) /\ (k - 1) + m = j /\ k + m = j + 1
      BY <1>1, <2>2
    <3> HIDE DEF m
    <3>2. (a \o b)[(k - 1) + m] = b[m]
      <4>1. m \in 1..Len(b) /\ Len(a) = k - 1
        BY <1>2, <1>3, <3>1
      <4>2. (a \o b)[Len(a) + m] = b[m]
        BY <1>2, <1>3, <4>1, ConcatSeq, SMTT(30)
      <4> QED
        BY <4>1, <4>2
    <3>3. b[m] = s[k + m]
      BY <1>3, <3>1
    <3>4. (a \o b)[j] = s[j + 1]
      <4>1. (a \o b)[j] = (a \o b)[(k - 1) + m] /\ s[k + m] = s[j + 1]
        BY <3>1
      <4> QED
        BY <4>1, <3>2, <3>3
    <3> QED
      BY <2>2, <3>4
  <2> QED
    BY <2>1, <2>2
<1> QED
  BY <1>4, <1>5, <1>6

-----------------------------------------------------------------------------
(* The invariant: TypeOK and TablesFill, with pending games short of       *)
(* Seats players, not only different from full.                            *)

Short(list) == \A j \in DOMAIN list : Len(list[j].players) < Seats
Apart(list) == \A j, k \in DOMAIN list :
                 list[j].sessionName = list[k].sessionName => j = k

Tables ==
  /\ Short(pendingGamesList) /\ Apart(pendingGamesList)
  /\ \A j \in DOMAIN activeGamesList : Full(activeGamesList[j])

LInv == TypeOK /\ Tables

\* There are no tables at the start.
LEMMA InitTables == Init => LInv
<1> SUFFICES ASSUME Init PROVE LInv
  OBVIOUS
<1>1. NoGame \in GameTypes
  BY DEF NoGame, Game, GameTypes
<1>2. Tables
  BY DEF Init, Tables, Short, Apart
<1>3. down \in BOOLEAN
  BY DEF Init
<1> QED
  BY <1>1, <1>2, <1>3 DEF Init, LInv, TypeOK

\* After the lines of c: whatever the name, at most one game of the list is
\* full, and it has a name of its own.
LEMMA JoinTables ==
  ASSUME LInv, NEW c \in Clients, NEW g \in Names \cup {Garbage}
  PROVE  LET list == Join(c, g)
         IN  /\ list \in Seq(GameTypes) /\ Apart(list)
             /\ \A j \in DOMAIN list : Len(list[j].players) <= Seats
             /\ \A j, k \in DOMAIN list : Full(list[j]) /\ Full(list[k]) => j = k
<1> DEFINE list == Join(c, g)
<1>1. /\ pendingGamesList \in Seq(GameTypes) /\ Short(pendingGamesList)
      /\ Apart(pendingGamesList) /\ Seats \in Nat \ {0}
  BY SeatsAssumption DEF LInv, TypeOK, Tables
<1>2. CASE Matching(g) = {}
  <2> DEFINE new == Game(g, <<c>>)
  <2>1. new \in GameTypes /\ new.sessionName = g /\ Len(new.players) = 1
    BY DEF Game, GameTypes
  <2>2. list = Append(pendingGamesList, new)
    BY <1>2 DEF Join
  <2>3. \A j \in DOMAIN pendingGamesList : pendingGamesList[j].sessionName # g
    BY <1>2 DEF Matching
  <2> HIDE DEF new, list
  <2>4. /\ list \in Seq(GameTypes)
        /\ DOMAIN list = 1..(Len(pendingGamesList) + 1)
        /\ \A j \in DOMAIN pendingGamesList : list[j] = pendingGamesList[j]
        /\ list[Len(pendingGamesList) + 1] = new
        /\ DOMAIN pendingGamesList = 1..Len(pendingGamesList)
        /\ Len(pendingGamesList) \in Nat
    BY <1>1, <2>1, <2>2, AppendSeq
  <2>5. ASSUME NEW j \in DOMAIN list
        PROVE  \/ /\ j \in DOMAIN pendingGamesList
                  /\ list[j] = pendingGamesList[j]
                  /\ Len(list[j].players) < Seats /\ list[j].sessionName # g
               \/ /\ j = Len(pendingGamesList) + 1
                  /\ Len(list[j].players) = 1 /\ list[j].sessionName = g
    BY <1>1, <2>1, <2>3, <2>4 DEF Short
  <2>6. \A j \in DOMAIN list : Len(list[j].players) <= Seats
    <3>1. \A x \in GameTypes : Len(x.players) \in Nat
      BY DEF GameTypes
    <3>2. \A j \in DOMAIN list : Len(list[j].players) \in Nat
      BY <2>4, <3>1
    <3>3. ASSUME NEW j \in DOMAIN list
          PROVE  Len(list[j].players) <= Seats
      <4> DEFINE n == Len(list[j].players)
      <4>1. n \in Nat /\ (n < Seats \/ n = 1)
        BY <2>5, <3>2, <3>3
      <4> HIDE DEF n
      <4>2. n <= Seats
        BY <4>1, SeatsAssumption
      <4> QED
        BY <4>2 DEF n
    <3> QED
      BY <3>3
  <2>7. \A j, k \in DOMAIN list : Full(list[j]) /\ Full(list[k]) => j = k
    BY <1>1, <2>5 DEF Full
  <2>8. Apart(list)
    BY <1>1, <2>4, <2>5 DEF Apart
  <2> QED
    BY <2>4, <2>6, <2>7, <2>8 DEF list
<1>3. CASE Matching(g) # {}
  <2>1. PICK j \in Matching(g) :
          list = [pendingGamesList EXCEPT ![j].players = Append(@, c)]
    <3>1. \E j \in Matching(g) : \A m \in Matching(g) : j <= m
      <4>1. \A k, m \in Matching(g) : k = m /\ k \in Nat
        BY <1>1 DEF Matching, Apart
      <4> QED
        BY <1>3, <4>1
    <3> QED
      BY <1>3, <3>1 DEF Join
  <2> DEFINE old == pendingGamesList[j]
             new == [old EXCEPT !.players = Append(old.players, c)]
  <2>2. j \in DOMAIN pendingGamesList /\ old \in GameTypes /\ Len(old.players) < Seats
    BY <1>1 DEF Matching, Short
  <2>3. new \in GameTypes /\ new.sessionName = old.sessionName
    BY <2>2 DEF GameTypes
  <2>4. Len(new.players) = Len(old.players) + 1 /\ Len(old.players) \in Nat
    BY <2>2 DEF GameTypes
  <2>5. list = [pendingGamesList EXCEPT ![j] = new]
    BY <2>1
  <2> HIDE DEF new, old, list
  <2>6. list \in Seq(GameTypes) /\ DOMAIN list = DOMAIN pendingGamesList
    BY <1>1, <2>2, <2>3, <2>5, ExceptSeq
  <2>7. /\ list[j] = new
        /\ \A k \in DOMAIN list : k # j => list[k] = pendingGamesList[k]
    BY <2>2, <2>5, <1>1
  <2>8. \A k \in DOMAIN list : Len(list[k].players) <= Seats
    <3>1. ASSUME NEW k \in DOMAIN list, k # j
          PROVE  Len(list[k].players) < Seats /\ Len(list[k].players) \in Nat
      <4>1. list[k] \in GameTypes
        BY <2>6
      <4> QED
        BY <1>1, <2>6, <2>7, <3>1, <4>1 DEF Short, GameTypes
    <3>2. Len(list[j].players) <= Seats
      BY <1>1, <2>2, <2>4, <2>7
    <3> QED
      BY <1>1, <3>1, <3>2
  <2>9. \A k, m \in DOMAIN list : Full(list[k]) /\ Full(list[m]) => k = m
    BY <1>1, <2>6, <2>7 DEF Full, Short
  <2>10. Apart(list)
    BY <1>1, <2>2, <2>3, <2>6, <2>7 DEF Apart, old
  <2> QED
    BY <2>6, <2>8, <2>9, <2>10 DEF list
<1> QED
  BY <1>2, <1>3

\* The first full game is taken out of the pending ones.
LEMMA StartTables ==
  ASSUME LInv, NEW list \in Seq(GameTypes), Apart(list),
         \A j \in DOMAIN list : Len(list[j].players) <= Seats,
         \A j, k \in DOMAIN list : Full(list[j]) /\ Full(list[k]) => j = k,
         NEW f \in DOMAIN list, Full(list[f]), Start(list, f)
  PROVE  /\ Tables'
         /\ pendingGamesList' \in Seq(GameTypes)
         /\ activeGamesList' \in Seq(GameTypes)
         /\ giveGameSessionData' \in GameTypes
         /\ running' \subseteq DOMAIN activeGamesList'
         /\ spoke' \in Seq(SUBSET Clients)
<1> DEFINE rest == RemoveAt(list, f)
<1>1. /\ rest \in Seq(GameTypes) /\ DOMAIN rest = 1..(Len(list) - 1)
      /\ \A j \in 1..(Len(list) - 1) :
           rest[j] = IF j < f THEN list[j] ELSE list[j + 1]
  BY RemoveSeq
<1>2. pendingGamesList' = rest
  BY DEF Start, Drop
<1> HIDE DEF rest
<1>3. /\ DOMAIN list = 1..Len(list) /\ Len(list) \in Nat /\ f \in 1..Len(list)
      /\ Seats \in Nat
  BY SeatsAssumption
<1> DEFINE from(j) == IF j < f THEN j ELSE j + 1
<1>4. ASSUME NEW j \in DOMAIN rest
      PROVE  from(j) \in DOMAIN list \ {f} /\ rest[j] = list[from(j)]
  BY <1>1, <1>3
<1>5. \A j, k \in DOMAIN rest : from(j) = from(k) => j = k
  BY <1>1, <1>3
<1> HIDE DEF from
<1>6. Short(rest)
  <2> SUFFICES ASSUME NEW j \in DOMAIN rest
               PROVE  Len(rest[j].players) < Seats
    BY DEF Short
  <2>1. ~Full(rest[j]) /\ Len(rest[j].players) <= Seats
    BY <1>4
  <2>2. rest[j] \in GameTypes
    BY <1>1
  <2> QED
    BY <1>3, <2>1, <2>2 DEF Full, GameTypes
<1>7. Apart(rest)
  BY <1>4, <1>5 DEF Apart
<1>8. /\ activeGamesList' = Append(activeGamesList, list[f])
      /\ activeGamesList \in Seq(GameTypes) /\ list[f] \in GameTypes
  BY DEF Start, LInv, TypeOK
<1>9. /\ activeGamesList' \in Seq(GameTypes)
      /\ DOMAIN activeGamesList' = 1..(Len(activeGamesList) + 1)
      /\ \A j \in DOMAIN activeGamesList : activeGamesList'[j] = activeGamesList[j]
      /\ activeGamesList'[Len(activeGamesList) + 1] = list[f]
      /\ Len(activeGamesList') = Len(activeGamesList) + 1
      /\ DOMAIN activeGamesList = 1..Len(activeGamesList)
      /\ Len(activeGamesList) \in Nat
  BY <1>8, AppendSeq
<1>10. \A j \in DOMAIN activeGamesList' : Full(activeGamesList'[j])
  BY <1>9 DEF LInv, Tables
<1>11. giveGameSessionData' \in GameTypes
  BY <1>8, <1>9 DEF Start, Given
<1>12. running' \subseteq DOMAIN activeGamesList'
  BY <1>9 DEF Start, LInv, TypeOK
<1>13. spoke' \in Seq(SUBSET Clients)
  BY AppendSeq DEF Start, LInv, TypeOK
<1> QED
  BY <1>1, <1>2, <1>6, <1>7, <1>9, <1>10, <1>11, <1>12, <1>13 DEF Tables

\* Games that keep the invariant are not too long either.
LEMMA TablesBound ==
  ASSUME NEW pending \in Seq(GameTypes), Short(pending), NEW active,
         \A j \in DOMAIN active : Full(active[j])
  PROVE  \A list \in {pending, active} :
           \A j \in DOMAIN list : Len(list[j].players) <= Seats
<1>1. ASSUME NEW j \in DOMAIN pending
      PROVE  Len(pending[j].players) <= Seats
  <2>1. pending[j] \in GameTypes
    OBVIOUS
  <2> QED
    BY <2>1, SeatsAssumption DEF Short, GameTypes
<1>2. ASSUME NEW j \in DOMAIN active
      PROVE  Len(active[j].players) <= Seats
  BY SeatsAssumption DEF Full
<1> QED
  BY <1>1, <1>2

\* Seating a client keeps the tables in order.
LEMMA RegisterTables ==
  ASSUME LInv, NEW c \in Clients, Register(c)
  PROVE  LInv'
<1>1. PICK g \in NamesRead(c) :
        LET list == Join(c, g)
            full == {j \in DOMAIN list : Full(list[j])}
        IN  IF full = {}
            THEN /\ pendingGamesList' = list
                 /\ UNCHANGED <<activeGamesList, giveGameSessionData, running, spoke>>
            ELSE Start(list, CHOOSE j \in full : \A k \in full : j <= k)
  BY DEF Register
<1> DEFINE list == Join(c, g)
           full == {j \in DOMAIN list : Full(list[j])}
<1>2. g \in Names \cup {Garbage}
  BY DEF NamesRead, LInv, TypeOK
<1>3. /\ list \in Seq(GameTypes) /\ Apart(list)
      /\ \A j \in DOMAIN list : Len(list[j].players) <= Seats
      /\ \A j, k \in DOMAIN list : Full(list[j]) /\ Full(list[k]) => j = k
  BY <1>2, JoinTables
<1>4. full # {} => Start(list, CHOOSE j \in full : \A k \in full : j <= k)
  BY <1>1
<1>5. full = {} => /\ pendingGamesList' = list
                   /\ UNCHANGED <<activeGamesList, giveGameSessionData, running, spoke>>
  BY <1>1
<1> HIDE DEF list
<1>6. /\ Tables'
      /\ pendingGamesList' \in Seq(GameTypes)
      /\ activeGamesList' \in Seq(GameTypes)
      /\ giveGameSessionData' \in GameTypes
      /\ running' \subseteq DOMAIN activeGamesList'
      /\ spoke' \in Seq(SUBSET Clients)
  <2>1. CASE full = {}
    <3>1. Short(list)
      <4> SUFFICES ASSUME NEW j \in DOMAIN list
                   PROVE  Len(list[j].players) < Seats
        BY DEF Short
      <4>1. ~Full(list[j]) /\ Len(list[j].players) <= Seats /\ list[j] \in GameTypes
        BY <1>3, <2>1
      <4> QED
        BY <4>1, SeatsAssumption DEF Full, GameTypes
    <3> QED
      BY <1>3, <1>5, <2>1, <3>1 DEF LInv, TypeOK, Tables, Full
  <2>2. CASE full # {}
    <3>1. PICK f \in full : TRUE
      BY <2>2
    <3>2. \A j, k \in full : j = k /\ j \in Nat
      BY <1>3
    <3>3. (CHOOSE j \in full : \A k \in full : j <= k) \in full
      BY <3>1, <3>2
    <3> DEFINE h == CHOOSE j \in full : \A k \in full : j <= k
    <3>4. h \in DOMAIN list /\ Full(list[h]) /\ Start(list, h)
      BY <1>4, <2>2, <3>3
    <3> HIDE DEF h, full
    <3> QED
      BY <1>3, <3>4, StartTables
  <2> QED
    BY <2>1, <2>2
<1>7. /\ state' \in [Clients -> {"away", "queued", "greeted", "seated"}]
      /\ request' \in [Clients -> Names] /\ gone' \subseteq Clients
      /\ down' \in BOOLEAN
      /\ backlog' \in Seq(Clients) /\ reading' \in Clients \cup {NoClient}
  BY DEF Register, LInv, TypeOK
<1>8. (\A l \in {pendingGamesList, activeGamesList} :
         \A j \in DOMAIN l : Len(l[j].players) <= Seats)'
  BY <1>6, TablesBound DEF Tables, Short, Full
<1> QED
  BY <1>6, <1>7, <1>8 DEF LInv, TypeOK

\* Nobody else touches the lists of games.
LEMMA ListsStay ==
  ASSUME LInv, UNCHANGED <<pendingGamesList, activeGamesList>>
  PROVE  Tables'
BY DEF LInv, Tables, Short, Apart, Full

\* No other step touches the tables.
LEMMA OthersTables ==
  ASSUME LInv,
         \/ \E c \in Clients : Connect(c) \/ HangUp(c)
         \/ Accept
         \/ \E k \in DOMAIN activeGamesList : Talk(k) \/ GameOver(k)
  PROVE  LInv'
<1>1. UNCHANGED <<pendingGamesList, activeGamesList, giveGameSessionData>>
  BY DEF Connect, HangUp, Accept, Talk, GameOver
<1>2. Tables'
  BY <1>1, ListsStay
<1>3. ASSUME NEW c \in Clients, Connect(c) \/ HangUp(c)
      PROVE  TypeOK'
  <2>1. CASE Connect(c)
    <3>1. backlog' \in Seq(Clients)
      BY <2>1, AppendSeq DEF Connect, LInv, TypeOK
    <3> QED
      BY <2>1, <3>1 DEF Connect, LInv, TypeOK
  <2>2. CASE HangUp(c)
    BY <2>2 DEF HangUp, LInv, TypeOK
  <2> QED
    BY <1>3, <2>1, <2>2
<1>4. ASSUME Accept
      PROVE  TypeOK'
  <2>1. Head(backlog) \in Clients /\ Tail(backlog) \in Seq(Clients)
    BY <1>4 DEF Accept, LInv, TypeOK
  <2>2. down' \in BOOLEAN
    BY <1>4 DEF Accept, LInv, TypeOK
  <2> QED
    BY <1>4, <2>1, <2>2 DEF Accept, LInv, TypeOK
<1>5. ASSUME NEW k \in DOMAIN activeGamesList, Talk(k)
      PROVE  TypeOK'
  <2>1. spoke' \in Seq(SUBSET Clients)
    <3> DEFINE whom == spoke[k] \cup Audience
    <3>0. spoke' = spoke \/ spoke' = [spoke EXCEPT ![k] = whom]
      BY <1>5 DEF Talk
    <3>1. spoke \in Seq(SUBSET Clients)
      BY DEF LInv, TypeOK
    <3>5. CASE spoke' = spoke
      BY <3>1, <3>5
    <3>2. CASE k \in DOMAIN spoke
      <4>1. giveGameSessionData.players \in Seq(Clients)
        BY DEF LInv, TypeOK, GameTypes
      <4>2. Audience \subseteq Clients
        <5> HIDE DEF whom
        <5> QED  BY <4>1 DEF ToSet, Audience
      <4>3. spoke[k] \subseteq Clients
        BY <3>1, <3>2
      <4>4. whom \in SUBSET Clients
        BY <4>2, <4>3
      <4> HIDE DEF whom
      <4> QED
        BY <3>0, <3>1, <3>2, <4>4, ExceptSeq
    <3>3. CASE k \notin DOMAIN spoke
      <4> HIDE DEF whom
      <4>1. spoke \in [DOMAIN spoke -> SUBSET Clients]
        BY <3>1
      <4>2. spoke' = spoke
        BY <3>0, <3>1, <3>3, <4>1
      <4> QED
        BY <3>1, <4>2
    <3> QED
      BY <3>2, <3>3
  <2>2. down' \in BOOLEAN
    BY <1>5 DEF Talk, LInv, TypeOK
  <2> QED
    BY <1>5, <2>1, <2>2 DEF Talk, LInv, TypeOK, clientvars
<1>6. ASSUME NEW k \in DOMAIN activeGamesList, GameOver(k)
      PROVE  TypeOK'
  BY <1>6 DEF GameOver, LInv, TypeOK, clientvars
<1> QED
  BY <1>2, <1>3, <1>4, <1>5, <1>6 DEF LInv

\* So every step keeps the invariant.
LEMMA TablesStep == LInv /\ [Next]_vars => LInv'
<1> SUFFICES ASSUME LInv, [Next]_vars PROVE LInv'
  OBVIOUS
<1>1. CASE UNCHANGED vars
  BY <1>1 DEF LInv, TypeOK, Tables, Short, Apart, Full, vars, clientvars
<1> QED
  BY <1>1, RegisterTables, OthersTables DEF Next

-----------------------------------------------------------------------------
(* Who sits where.                                                         *)

\* Who waits for the accepting thread: each queued client once in the backlog,
\* and the client being read is greeted and not seated yet.
Waiting ==
  /\ \A i \in DOMAIN backlog : state[backlog[i]] = "queued"
  /\ \A i, j \in DOMAIN backlog : backlog[i] = backlog[j] => i = j
  /\ reading # NoClient => state[reading] = "greeted"

\* Client c has place i in game j of the list.
Sits(list, c, j, i) == /\ j \in DOMAIN list
                       /\ i \in 1..Len(list[j].players)
                       /\ list[j].players[i] = c

\* In the two lists together client c has one place.
OnePlace(p, a, c) ==
  /\ \E j, i : Sits(p, c, j, i) \/ Sits(a, c, j, i)
  /\ \A j, i, k, m : Sits(p, c, j, i) /\ Sits(p, c, k, m) => j = k /\ i = m
  /\ \A j, i, k, m : Sits(a, c, j, i) /\ Sits(a, c, k, m) => j = k /\ i = m
  /\ \A j, i, k, m : ~(Sits(p, c, j, i) /\ Sits(a, c, k, m))

\* In the two lists together client c has no place.
NoPlace(p, a, c) == \A j, i : ~Sits(p, c, j, i) /\ ~Sits(a, c, j, i)

Seating ==
  \A c \in Clients : IF state[c] = "seated"
                     THEN OnePlace(pendingGamesList, activeGamesList, c)
                     ELSE NoPlace(pendingGamesList, activeGamesList, c)

\* The lines of c give it a place at the end of one game and leave the places
\* of the others alone.
LEMMA JoinSeats ==
  ASSUME LInv, NEW c \in Clients, NEW g \in Names \cup {Garbage}
  PROVE  /\ \A d, j, i : d # c => (Sits(Join(c, g), d, j, i)
                                    <=> Sits(pendingGamesList, d, j, i))
         /\ \E jc, ic : \A j, i : Sits(Join(c, g), c, j, i)
                          <=> \/ Sits(pendingGamesList, c, j, i)
                              \/ j = jc /\ i = ic
<1> DEFINE list == Join(c, g)
<1>1. pendingGamesList \in Seq(GameTypes) /\ Apart(pendingGamesList)
  BY DEF LInv, TypeOK, Tables
<1>2. CASE Matching(g) = {}
  <2> DEFINE new == Game(g, <<c>>)
             n == Len(pendingGamesList) + 1
  <2>1. /\ new \in GameTypes /\ new.players = <<c>>
    BY DEF Game, GameTypes
  <2>2. list = Append(pendingGamesList, new)
    BY <1>2 DEF Join
  <2> HIDE DEF new, list
  <2>3. /\ DOMAIN list = 1..n /\ n \in Nat \ {0} /\ list[n] = new
        /\ \A j \in DOMAIN pendingGamesList : list[j] = pendingGamesList[j]
        /\ DOMAIN pendingGamesList = 1..(n - 1)
    BY <1>1, <2>1, <2>2, AppendSeq
  <2> HIDE DEF n
  <2>4. ASSUME NEW d, NEW j, NEW i
        PROVE  Sits(list, d, j, i) <=> \/ Sits(pendingGamesList, d, j, i)
                                       \/ d = c /\ j = n /\ i = 1
    <3>1. CASE j = n
      <4>1. Sits(list, d, j, i) <=> i \in 1..Len(<<c>>) /\ <<c>>[i] = d
        BY <2>1, <2>3, <3>1 DEF Sits
      <4>2. ~Sits(pendingGamesList, d, j, i)
        BY <2>3, <3>1 DEF Sits
      <4> QED
        BY <3>1, <4>1, <4>2
    <3>2. CASE j # n
      <4>1. j \in DOMAIN list <=> j \in DOMAIN pendingGamesList
        BY <2>3, <3>2
      <4> QED
        BY <2>3, <3>2, <4>1 DEF Sits
    <3> QED
      BY <3>1, <3>2
  <2>5. \A d, j, i : d # c => (Sits(list, d, j, i) <=> Sits(pendingGamesList, d, j, i))
    BY <2>4
  <2> DEFINE One(jc, ic) == \A j, i : Sits(list, c, j, i)
                              <=> \/ Sits(pendingGamesList, c, j, i)
                                  \/ j = jc /\ i = ic
  <2>6. One(n, 1)
    BY <2>4
  <2> HIDE DEF One
  <2>7. \E jc, ic : One(jc, ic)
    BY <2>6
  <2> QED
    BY <2>5, <2>7 DEF list, One
<1>3. CASE Matching(g) # {}
  <2>1. PICK k \in Matching(g) :
          list = [pendingGamesList EXCEPT ![k].players = Append(@, c)]
    <3>1. \E k \in Matching(g) : \A m \in Matching(g) : k <= m
      <4>1. \A k, m \in Matching(g) : k = m /\ k \in Nat
        BY <1>1 DEF Matching, Apart
      <4> QED
        BY <1>3, <4>1
    <3> QED
      BY <1>3, <3>1 DEF Join
  <2> DEFINE old == pendingGamesList[k].players
             n == Len(old) + 1
  <2>2. k \in DOMAIN pendingGamesList /\ pendingGamesList[k] \in GameTypes
    BY <1>1 DEF Matching
  <2>3. old \in Seq(Clients)
    BY <2>2 DEF GameTypes
  <2>4. DOMAIN list = DOMAIN pendingGamesList
    BY <1>1, <2>1
  <2>5. list[k].players = Append(old, c)
    BY <1>1, <2>1, <2>2 DEF GameTypes
  <2>6. \A j \in DOMAIN list : j # k => list[j] = pendingGamesList[j]
    BY <1>1, <2>1, <2>4
  <2> HIDE DEF old, list
  <2>7. /\ Len(Append(old, c)) = n /\ Append(old, c)[n] = c /\ n \in Nat \ {0}
        /\ \A i \in 1..(n - 1) : Append(old, c)[i] = old[i]
        /\ Len(old) = n - 1
    BY <2>3
  <2> HIDE DEF n
  <2>8. ASSUME NEW d, NEW j, NEW i
        PROVE  Sits(list, d, j, i) <=> \/ Sits(pendingGamesList, d, j, i)
                                       \/ d = c /\ j = k /\ i = n
    <3>1. CASE j = k
      <4>1. Sits(list, d, j, i) <=> i \in 1..n /\ Append(old, c)[i] = d
        BY <2>2, <2>4, <2>5, <2>7, <3>1 DEF Sits
      <4>2. Sits(pendingGamesList, d, j, i) <=> i \in 1..(n - 1) /\ old[i] = d
        BY <2>2, <2>7, <3>1 DEF Sits, old
      <4> QED
        BY <2>7, <3>1, <4>1, <4>2
    <3>2. CASE j # k
      BY <2>4, <2>6, <3>2 DEF Sits
    <3> QED
      BY <3>1, <3>2
  <2>9. \A d, j, i : d # c => (Sits(list, d, j, i) <=> Sits(pendingGamesList, d, j, i))
    BY <2>8
  <2> DEFINE One(jc, ic) == \A j, i : Sits(list, c, j, i)
                              <=> \/ Sits(pendingGamesList, c, j, i)
                                  \/ j = jc /\ i = ic
  <2>10. One(k, n)
    BY <2>8
  <2> HIDE DEF One
  <2>11. \E jc, ic : One(jc, ic)
    BY <2>10
  <2> QED
    BY <2>9, <2>11 DEF list, One
<1> QED
  BY <1>2, <1>3

\* A full game moves from the pending to the active games with its players.
LEMMA StartSeats ==
  ASSUME LInv, NEW list \in Seq(GameTypes), NEW f \in DOMAIN list, Start(list, f),
         NEW c
  PROVE  /\ OnePlace(list, activeGamesList, c)
              => OnePlace(pendingGamesList', activeGamesList', c)
         /\ NoPlace(list, activeGamesList, c)
              => NoPlace(pendingGamesList', activeGamesList', c)
<1> DEFINE from(j) == IF j < f THEN j ELSE j + 1
           back(j) == IF j < f THEN j ELSE j - 1
           n == Len(activeGamesList) + 1
<1>1. pendingGamesList' = RemoveAt(list, f)
  BY DEF Start, Drop
<1>2. /\ DOMAIN pendingGamesList' = 1..(Len(list) - 1)
      /\ \A j \in 1..(Len(list) - 1) :
           pendingGamesList'[j] = IF j < f THEN list[j] ELSE list[j + 1]
  BY <1>1, RemoveSeq
<1>3. DOMAIN list = 1..Len(list) /\ Len(list) \in Nat /\ f \in 1..Len(list)
  OBVIOUS
<1>4. /\ activeGamesList' = Append(activeGamesList, list[f])
      /\ activeGamesList \in Seq(GameTypes) /\ list[f] \in GameTypes
  BY DEF Start, LInv, TypeOK
<1>5. /\ DOMAIN activeGamesList' = 1..n /\ n \in Nat \ {0}
      /\ activeGamesList'[n] = list[f]
      /\ \A j \in DOMAIN activeGamesList : activeGamesList'[j] = activeGamesList[j]
      /\ DOMAIN activeGamesList = 1..(n - 1)
  BY <1>4, AppendSeq
<1> HIDE DEF n
<1>6. ASSUME NEW j, NEW i, Sits(pendingGamesList', c, j, i)
      PROVE  Sits(list, c, from(j), i) /\ from(j) # f /\ j \in Int
  BY <1>2, <1>3, <1>6 DEF Sits
<1>7. ASSUME NEW j, NEW i, Sits(list, c, j, i), j # f
      PROVE  Sits(pendingGamesList', c, back(j), i)
  BY <1>2, <1>3, <1>7 DEF Sits
<1>8. ASSUME NEW j, NEW i
      PROVE  Sits(activeGamesList', c, j, i)
               <=> \/ Sits(activeGamesList, c, j, i)
                   \/ j = n /\ Sits(list, c, f, i)
  <2>1. CASE j = n
    BY <1>5, <2>1 DEF Sits
  <2>2. CASE j # n
    <3>1. j \in DOMAIN activeGamesList' <=> j \in DOMAIN activeGamesList
      BY <1>5, <2>2
    <3> QED
      BY <1>5, <2>2, <3>1 DEF Sits
  <2> QED
    BY <2>1, <2>2
<1>9. ASSUME NEW j, NEW i, Sits(activeGamesList, c, j, i)
      PROVE  j # n
  BY <1>5, <1>9 DEF Sits
<1>10. ASSUME NEW j \in Int, NEW k \in Int, from(j) = from(k)
       PROVE  j = k
  BY <1>3, <1>10
<1> HIDE DEF from, back
<1>11. ASSUME OnePlace(list, activeGamesList, c)
       PROVE  OnePlace(pendingGamesList', activeGamesList', c)
  <2>1. \E j, i : \/ Sits(pendingGamesList', c, j, i)
                  \/ Sits(activeGamesList', c, j, i)
    <3>1. PICK j, i : Sits(list, c, j, i) \/ Sits(activeGamesList, c, j, i)
      BY <1>11 DEF OnePlace
    <3> QED
      BY <1>7, <1>8, <3>1
  <2>2. ASSUME NEW j, NEW i, NEW k, NEW m,
               Sits(pendingGamesList', c, j, i), Sits(pendingGamesList', c, k, m)
        PROVE  j = k /\ i = m
    <3>1. /\ Sits(list, c, from(j), i) /\ Sits(list, c, from(k), m)
          /\ j \in Int /\ k \in Int
      BY <1>6, <2>2
    <3>2. from(j) = from(k) /\ i = m
      BY <1>11, <3>1 DEF OnePlace
    <3> QED
      BY <1>10, <3>1, <3>2
  <2>3. ASSUME NEW j, NEW i, NEW k, NEW m,
               Sits(activeGamesList', c, j, i), Sits(activeGamesList', c, k, m)
        PROVE  j = k /\ i = m
    BY <1>8, <1>11, <2>3 DEF OnePlace
  <2>4. ASSUME NEW j, NEW i, NEW k, NEW m,
               Sits(pendingGamesList', c, j, i), Sits(activeGamesList', c, k, m)
        PROVE  FALSE
    <3>1. Sits(list, c, from(j), i) /\ from(j) # f
      BY <1>6, <2>4
    <3> QED
      BY <1>8, <1>11, <2>4, <3>1 DEF OnePlace
  <2> QED
    BY <2>1, <2>2, <2>3, <2>4 DEF OnePlace
<1>12. ASSUME NoPlace(list, activeGamesList, c)
       PROVE  NoPlace(pendingGamesList', activeGamesList', c)
  BY <1>6, <1>8, <1>12 DEF NoPlace
<1> QED
  BY <1>11, <1>12

\* Seating a client gives it one place and leaves the others theirs.
LEMMA RegisterSeats ==
  ASSUME LInv, Waiting, Seating, NEW c \in Clients, Register(c)
  PROVE  Seating'
<1> DEFINE p == pendingGamesList
           a == activeGamesList
<1>1. PICK g \in NamesRead(c) :
        LET list == Join(c, g)
            full == {j \in DOMAIN list : Full(list[j])}
        IN  IF full = {}
            THEN /\ pendingGamesList' = list
                 /\ UNCHANGED <<activeGamesList, giveGameSessionData, running, spoke>>
            ELSE Start(list, CHOOSE j \in full : \A k \in full : j <= k)
  BY DEF Register
<1> DEFINE list == Join(c, g)
           full == {j \in DOMAIN list : Full(list[j])}
           h == CHOOSE j \in full : \A k \in full : j <= k
<1>2. g \in Names \cup {Garbage}
  BY DEF NamesRead, LInv, TypeOK
<1>3. /\ list \in Seq(GameTypes)
      /\ \A j, k \in DOMAIN list : Full(list[j]) /\ Full(list[k]) => j = k
  BY <1>2, JoinTables
<1>4. /\ \A d, j, i : d # c => (Sits(list, d, j, i) <=> Sits(p, d, j, i))
      /\ \E jc, ic : \A j, i : Sits(list, c, j, i)
                       <=> Sits(p, c, j, i) \/ (j = jc /\ i = ic)
  BY <1>2, JoinSeats
<1>5. /\ full = {} => p' = list /\ a' = a
      /\ full # {} => Start(list, h)
  BY <1>1
<1> HIDE DEF list
<1>6. full # {} => h \in DOMAIN list
  <2> SUFFICES ASSUME full # {} PROVE h \in DOMAIN list
    OBVIOUS
  <2>1. \A j, k \in full : j = k /\ j \in Nat
    BY <1>3
  <2> QED
    BY <2>1
<1> HIDE DEF h, full
<1>7. /\ state[c] = "greeted" /\ c # NoClient
      /\ \A d \in Clients : state'[d] = IF d = c THEN "seated" ELSE state[d]
  BY ClientsAssumption DEF Register, Waiting, LInv, TypeOK
<1>8. OnePlace(list, a, c)
  <2>1. NoPlace(p, a, c)
    BY <1>7 DEF Seating
  <2> QED
    BY <1>4, <2>1 DEF NoPlace, OnePlace
<1>9. ASSUME NEW d \in Clients, d # c
      PROVE  /\ OnePlace(p, a, d) => OnePlace(list, a, d)
             /\ NoPlace(p, a, d) => NoPlace(list, a, d)
  BY <1>4, <1>9 DEF NoPlace, OnePlace
<1>10. ASSUME NEW d \in Clients
       PROVE  /\ OnePlace(list, a, d) => OnePlace(p', a', d)
              /\ NoPlace(list, a, d) => NoPlace(p', a', d)
  <2>1. CASE full = {}
    BY <1>5, <2>1
  <2>2. CASE full # {}
    BY <1>3, <1>5, <1>6, <2>2, StartSeats
  <2> QED
    BY <2>1, <2>2
<1>11. ASSUME NEW d \in Clients
       PROVE  IF state'[d] = "seated" THEN OnePlace(p', a', d) ELSE NoPlace(p', a', d)
  <2>1. CASE d = c
    BY <1>7, <1>8, <1>10, <2>1
  <2>2. CASE d # c
    BY <1>7, <1>9, <1>10, <2>2 DEF Seating
  <2> QED
    BY <2>1, <2>2
<1> QED
  BY <1>11 DEF Seating

\* Clients wait once, and are read once.
LEMMA WaitingStep == LInv /\ Waiting /\ [Next]_vars => Waiting'
<1> SUFFICES ASSUME LInv, Waiting, [Next]_vars PROVE Waiting'
  OBVIOUS
<1>t. /\ backlog \in Seq(Clients) /\ reading \in Clients \cup {NoClient}
      /\ state \in [Clients -> {"away", "queued", "greeted", "seated"}]
  BY DEF LInv, TypeOK
<1>1. ASSUME NEW c \in Clients, Connect(c) PROVE Waiting'
  <2>1. /\ state[c] = "away" /\ state' = [state EXCEPT ![c] = "queued"]
        /\ backlog' = Append(backlog, c) /\ reading' = reading
    BY <1>1 DEF Connect
  <2>2. /\ DOMAIN backlog' = 1..(Len(backlog) + 1)
        /\ \A j \in DOMAIN backlog : backlog'[j] = backlog[j]
        /\ backlog'[Len(backlog) + 1] = c
        /\ DOMAIN backlog = 1..Len(backlog) /\ Len(backlog) \in Nat
    BY <1>t, <2>1, AppendSeq
  <2>3. \A j \in DOMAIN backlog : backlog[j] \in Clients /\ backlog[j] # c
    BY <1>t, <2>1 DEF Waiting
  <2>4. ASSUME NEW i \in DOMAIN backlog'
        PROVE  \/ i \in DOMAIN backlog /\ backlog'[i] = backlog[i]
               \/ i = Len(backlog) + 1 /\ backlog'[i] = c
    BY <2>2
  <2>5. \A i \in DOMAIN backlog' : state'[backlog'[i]] = "queued"
    BY <1>t, <2>1, <2>3, <2>4 DEF Waiting
  <2>6. \A i, j \in DOMAIN backlog' : backlog'[i] = backlog'[j] => i = j
    BY <2>3, <2>4 DEF Waiting
  <2>7. reading' # NoClient => state'[reading'] = "greeted"
    BY <1>t, <2>1 DEF Waiting
  <2> QED
    BY <2>5, <2>6, <2>7 DEF Waiting
<1>2. CASE Accept
  <2>1. /\ backlog # <<>> /\ reading' = Head(backlog) /\ backlog' = Tail(backlog)
        /\ state' = [state EXCEPT ![reading'] = "greeted"]
    BY <1>2 DEF Accept
  <2>2. /\ Head(backlog) = backlog[1] /\ 1 \in DOMAIN backlog
        /\ DOMAIN backlog' = 1..(Len(backlog) - 1) /\ Len(backlog) \in Nat
        /\ DOMAIN backlog = 1..Len(backlog)
        /\ \A i \in 1..(Len(backlog) - 1) : backlog'[i] = backlog[i + 1]
    BY <1>t, <2>1
  <2>3. ASSUME NEW i \in DOMAIN backlog'
        PROVE  /\ i + 1 \in DOMAIN backlog /\ i \in Int /\ i + 1 # 1
               /\ backlog'[i] = backlog[i + 1]
    BY <2>2
  <2>4. \A i \in DOMAIN backlog' : backlog'[i] \in Clients /\ backlog'[i] # reading'
    BY <1>t, <2>1, <2>2, <2>3 DEF Waiting
  <2>5. \A i \in DOMAIN backlog' : state'[backlog'[i]] = "queued"
    BY <1>t, <2>1, <2>3, <2>4 DEF Waiting
  <2>6. \A i, j \in DOMAIN backlog' : backlog'[i] = backlog'[j] => i = j
    BY <2>3 DEF Waiting
  <2>7. reading' \in Clients
    BY <1>t, <2>1, <2>2
  <2> QED
    BY <1>t, <2>1, <2>5, <2>6, <2>7 DEF Waiting
<1>3. ASSUME NEW c \in Clients, Register(c) PROVE Waiting'
  <2>1. /\ reading = c /\ reading' = NoClient /\ backlog' = backlog
        /\ state' = [state EXCEPT ![c] = "seated"]
    BY <1>3 DEF Register
  <2>2. c # NoClient /\ state[c] = "greeted"
    BY <2>1, ClientsAssumption DEF Waiting
  <2>3. \A i \in DOMAIN backlog : backlog[i] \in Clients /\ backlog[i] # c
    BY <1>t, <2>2 DEF Waiting
  <2> QED
    BY <1>t, <2>1, <2>3 DEF Waiting
<1>4. ASSUME UNCHANGED <<state, backlog, reading>> PROVE Waiting'
  BY <1>4 DEF Waiting
<1> QED
  BY <1>1, <1>2, <1>3, <1>4 DEF Next, HangUp, Talk, GameOver, vars, clientvars

\* Only Register seats anybody.
LEMMA SeatingStep == LInv /\ Waiting /\ Seating /\ [Next]_vars => Seating'
<1> SUFFICES ASSUME LInv, Waiting, Seating, [Next]_vars PROVE Seating'
  OBVIOUS
<1>1. ASSUME UNCHANGED <<pendingGamesList, activeGamesList>>,
             \A c \in Clients : state'[c] = "seated" <=> state[c] = "seated"
      PROVE  Seating'
  BY <1>1 DEF Seating
<1>2. ASSUME NEW c \in Clients, Connect(c) PROVE Seating'
  BY <1>1, <1>2 DEF Connect, LInv, TypeOK
<1>3. CASE Accept
  <2>1. 1 \in DOMAIN backlog /\ Head(backlog) = backlog[1]
    BY <1>3 DEF Accept, LInv, TypeOK
  <2>2. state[Head(backlog)] = "queued"
    BY <2>1 DEF Waiting
  <2> QED
    BY <1>1, <1>3, <2>2 DEF Accept, LInv, TypeOK
<1>4. CASE UNCHANGED <<pendingGamesList, activeGamesList, state>>
  BY <1>1, <1>4
<1> QED
  BY <1>2, <1>3, <1>4, RegisterSeats
  DEF Next, HangUp, Talk, GameOver, vars, clientvars

\* One place is what PlacesOf counts as one.
LEMMA SeatingCounts == LInv /\ Seating => SeatedOnce
<1> SUFFICES ASSUME LInv, Seating, NEW c \in Clients
             PROVE  Cardinality(PlacesOf(c)) = IF state[c] = "seated" THEN 1 ELSE 0
  BY DEF SeatedOnce
<1> DEFINE p == pendingGamesList
           a == activeGamesList
           n == Len(p)
<1>1. /\ p \in Seq(GameTypes) /\ a \in Seq(GameTypes)
      /\ n \in Nat /\ DOMAIN p = 1..n /\ DOMAIN a = 1..Len(a) /\ Len(a) \in Nat
      /\ \A j \in DOMAIN p : Len(p[j].players) <= Seats
      /\ \A j \in DOMAIN a : Len(a[j].players) <= Seats
  BY DEF LInv, TypeOK
<1>2. /\ DOMAIN Games = 1..(n + Len(a))
      /\ \A j \in 1..n : Games[j] = p[j]
      /\ \A j \in 1..Len(a) : Games[n + j] = a[j]
  BY <1>1, ConcatSeq DEF Games
<1>3. \A x \in GameTypes : Len(x.players) \in Nat
  BY DEF GameTypes
<1> HIDE DEF n
<1>4. ASSUME NEW place \in PlacesOf(c)
      PROVE  /\ place = <<place[1], place[2]>>
             /\ \/ place[1] \in 1..n /\ Sits(p, c, place[1], place[2])
                \/ /\ place[1] \in Int /\ place[1] > n
                   /\ Sits(a, c, place[1] - n, place[2])
  <2>1. /\ place = <<place[1], place[2]>>
        /\ place[1] \in 1..(n + Len(a)) /\ place[2] \in 1..Seats
        /\ place[2] <= Len(Games[place[1]].players)
        /\ Games[place[1]].players[place[2]] = c
    BY <1>2 DEF PlacesOf
  <2>2. CASE place[1] <= n
    <3>1. place[1] \in 1..n /\ Games[place[1]] = p[place[1]]
      BY <1>1, <1>2, <2>1, <2>2
    <3>2. Len(p[place[1]].players) \in Nat
      BY <1>1, <1>3, <3>1
    <3> QED
      BY <1>1, <2>1, <3>1, <3>2, SeatsAssumption DEF Sits
  <2>3. CASE ~(place[1] <= n)
    <3> DEFINE k == place[1] - n
    <3>1. k \in 1..Len(a) /\ n + k = place[1]
      BY <1>1, <2>1, <2>3
    <3> HIDE DEF k
    <3>2. Games[place[1]] = a[k]
      BY <1>2, <3>1
    <3>3. Len(a[k].players) \in Nat
      BY <1>1, <1>3, <3>1
    <3>4. Sits(a, c, k, place[2])
      BY <1>1, <2>1, <3>1, <3>2, <3>3, SeatsAssumption DEF Sits
    <3> QED
      BY <1>1, <2>1, <2>3, <3>4 DEF k
  <2> QED
    BY <2>2, <2>3
<1>5. ASSUME NEW j, NEW i, Sits(p, c, j, i)
      PROVE  <<j, i>> \in PlacesOf(c)
  <2>1. j \in 1..n /\ i \in 1..Len(p[j].players) /\ p[j].players[i] = c
    BY <1>1, <1>5 DEF Sits
  <2>2. Len(p[j].players) \in Nat /\ Len(p[j].players) <= Seats
    BY <1>1, <1>3, <2>1
  <2>3. Games[j] = p[j] /\ j \in DOMAIN Games
    BY <1>1, <1>2, <2>1
  <2> QED
    BY <2>1, <2>2, <2>3, SeatsAssumption DEF PlacesOf
<1>6. ASSUME NEW j, NEW i, Sits(a, c, j, i)
      PROVE  <<n + j, i>> \in PlacesOf(c)
  <2>1. j \in 1..Len(a) /\ i \in 1..Len(a[j].players) /\ a[j].players[i] = c
    BY <1>1, <1>6 DEF Sits
  <2>2. Len(a[j].players) \in Nat /\ Len(a[j].players) <= Seats
    BY <1>1, <1>3, <2>1
  <2>3. Games[n + j] = a[j] /\ n + j \in DOMAIN Games
    BY <1>1, <1>2, <2>1
  <2> QED
    BY <2>1, <2>2, <2>3, SeatsAssumption DEF PlacesOf
<1>7. CASE state[c] = "seated"
  <2>1. OnePlace(p, a, c)
    BY <1>7 DEF Seating
  <2>2. PICK place \in PlacesOf(c) : TRUE
    BY <1>5, <1>6, <2>1 DEF OnePlace
  <2>3. ASSUME NEW other \in PlacesOf(c) PROVE other = place
    <3>1. place[2] = other[2] /\ (\/ place[1] = other[1]
                                 \/ /\ place[1] - n = other[1] - n
                                    /\ place[1] \in Int /\ other[1] \in Int)
      BY <1>4, <2>1 DEF OnePlace
    <3>2. place[1] = other[1]
      BY <1>1, <3>1
    <3> QED
      BY <1>4, <3>1, <3>2
  <2>4. PlacesOf(c) = {place}
    BY <2>3
  <2> QED
    BY <1>7, <2>4, FS_Singleton
<1>8. CASE state[c] # "seated"
  <2>1. NoPlace(p, a, c)
    BY <1>8 DEF Seating
  <2>2. PlacesOf(c) = {}
    BY <1>4, <2>1 DEF NoPlace
  <2> QED
    BY <1>8, <2>2, FS_EmptySet
<1> QED
  BY <1>7, <1>8

-----------------------------------------------------------------------------
\* No player is written behind the end of the array of a game, whatever names
\* the clients send or fail to send (serv499.c 445-480 and 505-540).
THEOREM TypeCorrect == Spec => []TypeOK
<1>1. LInv => TypeOK
  BY DEF LInv
<1> QED
  BY <1>1, InitTables, TablesStep, PTL DEF Spec

\* Clients who ask for one game meet in it: two pending games never have one
\* name, no full game goes on waiting, and no game starts short of players.
THEOREM TablesCorrect == Spec => []TablesFill
<1>1. LInv => TablesFill
  <2> SUFFICES ASSUME LInv PROVE TablesFill
    OBVIOUS
  <2>1. \A j \in DOMAIN pendingGamesList : ~Full(pendingGamesList[j])
    BY SeatsAssumption DEF LInv, Tables, Short, Full
  <2> QED
    BY <2>1 DEF LInv, Tables, Apart, TablesFill
<1> QED
  BY <1>1, InitTables, TablesStep, PTL DEF Spec

\* Moving games between the lists neither loses nor doubles a player, whatever
\* the order in which clients connect, hang up and are read (serv499.c 445-540).
THEOREM SeatedCorrect == Spec => []SeatedOnce
<1>1. Init => LInv /\ Waiting /\ Seating
  <2>1. Init => Waiting
    BY DEF Init, Waiting
  <2>2. Init => Seating
    BY DEF Init, Seating, NoPlace, Sits
  <2> QED
    BY <2>1, <2>2, InitTables
<1>2. LInv /\ Waiting /\ Seating /\ [Next]_vars => (LInv /\ Waiting /\ Seating)'
  BY TablesStep, WaitingStep, SeatingStep
<1> QED
  BY <1>1, <1>2, SeatingCounts, PTL DEF Spec
=============================================================================
