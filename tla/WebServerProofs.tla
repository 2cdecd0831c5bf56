-------------------------- MODULE WebServerProofs --------------------------
(* The invariants of the web server for any number of connections,         *)
(* descriptors, requests, files and units: events follow buffers, and what *)
(* was sent and what waits are whole responses.  What a read of any length *)
(* does to the parser is an induction over its tokens: LeastNat, from the  *)
(* well-foundedness of the naturals, gives the shortest counterexample.    *)
EXTENDS WebServer, SequenceTheorems, WellFoundedInduction, TLAPS

\* The buffers are sequences of units and the connections have a state.
BufferType ==
  /\ conn \in [Conns -> {"out", "backlog", "open", "served", "dropped"}]
  /\ res \in [Conns -> Seq(Units)]
  /\ rdEv \subseteq Conns /\ wrEv \subseteq Conns

WatchInv == BufferType /\ Watched

\* A response of n > 0 units is a sequence of units that is not empty.
LEMMA ResponseUnits ==
  ASSUME NEW code \in {200, 400, 403, 404, 405, 500}, NEW path,
         code = 200 => path \in DOMAIN Files, NEW n \in Nat \ {0}
  PROVE  Response(code, path, n) \in Seq(Units) /\ Response(code, path, n) # <<>>
<1> DEFINE file == IF code = 200 THEN path ELSE <<>>
<1> DEFINE unit(i) == [code |-> code, path |-> file, i |-> i, n |-> n]
<1>1. file \in DOMAIN Files \cup {<<>>}
  OBVIOUS
<1>2. \A i \in 1..n : unit(i) \in Units
  BY <1>1 DEF Units
<1> HIDE DEF unit
<1>3. [i \in 1..n |-> unit(i)] \in Seq(Units) /\ [i \in 1..n |-> unit(i)] # <<>>
  <2>1. [i \in 1..n |-> unit(i)] \in [1..n -> Units]
    BY <1>2
  <2>2. [i \in 1..n |-> unit(i)] \in Seq(Units)
    BY <2>1
  <2>3. DOMAIN [i \in 1..n |-> unit(i)] # {} /\ DOMAIN <<>> = {}
    BY SMT
  <2> QED  BY <2>2, <2>3
<1> QED  BY <1>3 DEF Response, unit

\* webserver_close keeps the invariant, whatever became of the connection.
LEMMA CloseWatched ==
  ASSUME WatchInv, NEW c \in Conns, NEW how \in {"served", "dropped"},
         Close(c, how)
  PROVE  WatchInv'
<1>1. BufferType'
  BY DEF WatchInv, BufferType, Close
<1>2. Watched'
  <2> SUFFICES ASSUME NEW d \in Conns
               PROVE  /\ d \in rdEv' <=> conn'[d] = "open"
                      /\ d \in wrEv' <=> res'[d] # <<>>
                      /\ res'[d] # <<>> => conn'[d] = "open"
    BY DEF Watched
  <2>1. CASE d = c
    BY <2>1 DEF WatchInv, BufferType, Close
  <2>2. CASE d # c
    BY <2>2 DEF WatchInv, BufferType, Watched, Close
  <2> QED  BY <2>1, <2>2
<1> QED  BY <1>1, <1>2 DEF WatchInv

\* Filling the buffer of an open connection and adding its write event.
LEMMA FillWatched ==
  ASSUME WatchInv, NEW c \in Conns, conn[c] = "open", UNCHANGED <<conn, rdEv>>,
         NEW buf \in Seq(Units), buf # <<>>,
         res' = [res EXCEPT ![c] = buf], wrEv' = wrEv \cup {c}
  PROVE  WatchInv'
<1>1. BufferType'
  BY DEF WatchInv, BufferType
<1>2. Watched'
  BY DEF WatchInv, BufferType, Watched
<1> QED  BY <1>1, <1>2 DEF WatchInv

\* webserver_read adds the write event whenever it fills the buffer.
LEMMA ReadWatched ==
  ASSUME WatchInv, NEW c \in Conns, Read(c)
  PROVE  WatchInv'
<1> USE ServerAssumption
<1>1. conn[c] = "open" /\ res[c] \in Seq(Units)
  BY DEF WatchInv, BufferType, Watched, Read
<1>2. PICK s : Respond(c, s)
  BY DEF Read
<1>3. UNCHANGED <<conn, rdEv>>
  BY DEF Read
<1>4. ASSUME NEW code \in {400, 405, 500}, BuildErr(c, code),
             wrEv' = wrEv \cup {c}
      PROVE  WatchInv'
  <2> DEFINE err == ErrResponse(code)
  <2>1. err \in Seq(Units) /\ err # <<>>
    BY <1>4, ResponseUnits DEF ErrResponse
  <2>2. res' = [res EXCEPT ![c] = err]
    BY <1>4 DEF BuildErr
  <2>3. wrEv' = wrEv \cup {c}
    BY <1>4
  <2> HIDE DEF err
  <2> QED
    <3>1. conn[c] = "open"
      BY <1>1
    <3>2. UNCHANGED <<conn, rdEv>>
      BY <1>3
    <3>3. err \in Seq(Units)
      BY <2>1
    <3>4. err # <<>>
      BY <2>1
    <3> QED  BY <3>1, <3>2, <3>3, <3>4, <2>2, <2>3, FillWatched
<1>5. ASSUME Build(c, s), wrEv' = wrEv \cup {c}
      PROVE  WatchInv'
  <2> DEFINE code == CodeFor(s.path)
             n    == IF s.method = "GET" THEN 1 + BodyOf(s.path) ELSE 1
             new  == Response(code, s.path, n)
  <2>1. code \in {200, 403, 404} /\ (code = 200 => s.path \in DOMAIN Files)
    BY DEF CodeFor
  <2>2. n \in Nat \ {0}
    BY <2>1 DEF BodyOf
  <2>3. new \in Seq(Units) /\ new # <<>>
    BY <2>1, <2>2, ResponseUnits
  <2>4. res[c] \o new \in Seq(Units) /\ res[c] \o new # <<>>
    <3> HIDE DEF new
    <3> QED  BY <1>1, <2>3
  <2>5. res' = [res EXCEPT ![c] = res[c] \o new]
    BY <1>5 DEF Build
  <2> HIDE DEF new
  <2> QED  BY <1>1, <1>3, <1>5, <2>4, <2>5, FillWatched
<1>6. CASE UNCHANGED <<res, wrEv>>
  BY <1>3, <1>6 DEF WatchInv, BufferType, Watched
<1> QED  BY <1>2, <1>4, <1>5, <1>6 DEF Respond

\* webserver_write adds it again unless the buffer is empty, and then closes.
LEMMA WriteWatched ==
  ASSUME WatchInv, NEW c \in Conns, Write(c)
  PROVE  WatchInv'
<1> DEFINE len  == Len(res[c])
           k    == IF len < PacketSize THEN len ELSE PacketSize
           rest == SubSeq(res[c], k + 1, len)
<1>1. conn[c] = "open" /\ res[c] \in Seq(Units) /\ c \in wrEv
  BY DEF WatchInv, BufferType, Watched, Write
<1>2. CASE rest # <<>>
  <2>1. rest \in Seq(Units)
    BY <1>1, ServerAssumption
  <2>2. res' = [res EXCEPT ![c] = rest] /\ wrEv' = wrEv \cup {c}
    BY <1>2 DEF Write
  <2>3. UNCHANGED <<conn, rdEv>>
    BY <1>2 DEF Write
  <2> HIDE DEF rest
  <2> QED  BY <1>1, <1>2, <2>1, <2>2, <2>3, FillWatched
<1>3. CASE rest = <<>>
  BY <1>3, CloseWatched DEF Write
<1> QED  BY <1>2, <1>3

\* Every step keeps the invariant.
LEMMA StepWatched == WatchInv /\ [Next]_vars => WatchInv'
<1> SUFFICES ASSUME WatchInv, [Next]_vars PROVE WatchInv'
  OBVIOUS
<1>1. CASE UNCHANGED <<conn, res, rdEv, wrEv>>
  BY <1>1 DEF WatchInv, BufferType, Watched
<1>2. CASE Start
  BY <1>1, <1>2 DEF Start
<1>3. ASSUME NEW c \in Conns, Connect(c) \/ AcceptDrops(c)
      PROVE  WatchInv'
  BY <1>3 DEF WatchInv, BufferType, Watched, Connect, AcceptDrops
<1>4. ASSUME NEW c \in Conns, Finish(c) \/ AcceptFails(c)
      PROVE  WatchInv'
  BY <1>1, <1>4 DEF Finish, AcceptFails
<1>5. ASSUME NEW c \in Conns, Accept(c)
      PROVE  WatchInv'
  BY <1>5 DEF WatchInv, BufferType, Watched, Accept
<1>6. ASSUME NEW c \in Conns, ReadEnds(c) \/ WriteFails(c)
      PROVE  WatchInv'
  BY <1>1, <1>6, CloseWatched DEF ReadEnds, WriteFails
<1> QED
  BY <1>1, <1>2, <1>3, <1>4, <1>5, <1>6, ReadWatched, WriteWatched
  DEF Next, Serve, vars

\* Whatever the clients send and however it is cut: an open connection is
\* watched for input, it waits to write exactly while its buffer holds
\* something, and no event outlives its connection.
THEOREM EventsFollowBuffers == Spec => []Watched
<1>1. Init => WatchInv
  BY DEF Init, WatchInv, BufferType, Watched
<1>2. WatchInv => Watched
  BY DEF WatchInv
<1> QED  BY <1>1, <1>2, StepWatched, PTL DEF Spec

-----------------------------------------------------------------------------
(* The parser.                                                             *)

\* Every set of naturals that is not empty has a least element.
LEMMA LeastNat ==
  ASSUME NEW T \in SUBSET Nat, T # {}
  PROVE  \E x \in T : \A y \in T : x <= y
<1> DEFINE R == OpToRel(<, Nat)
<1>1. PICK x \in T : \A y \in T : ~ (<<y, x>> \in R)
  <2>1. IsWellFoundedOn(R, Nat)
    BY NatLessThanWellFounded
  <2> HIDE DEF R
  <2> QED  BY <2>1, WFMin
<1>2. \A y \in T : ~ (y < x)
  BY <1>1 DEF OpToRel
<1> QED  BY <1>2

\* What States defines exists: after n tokens there is one state of the parser.
LEMMA StatesStep ==
  ASSUME NEW s, NEW input, Len(input) \in Nat
  PROVE  LET st == States(s, input)
         IN  /\ st[0] = [s EXCEPT !.mark = <<>>]
             /\ \A n \in 1..Len(input) : st[n] = Feed(st[n - 1], input[n])
<1> DEFINE next(g, n) == IF n = 0 THEN [s EXCEPT !.mark = <<>>]
                                  ELSE Feed(g[n - 1], input[n])
           Runs(k) == \E g : g = [n \in 0..k |-> next(g, n)]
           T == {k \in Nat : ~ Runs(k)}
<1>1. Runs(0)
  <2> DEFINE g == [n \in 0..0 |-> [s EXCEPT !.mark = <<>>]]
  <2>1. g = [n \in 0..0 |-> next(g, n)]
    OBVIOUS
  <2> QED  BY <2>1
<1>2. ASSUME NEW k \in Nat, Runs(k)
      PROVE  Runs(k + 1)
  <2>1. PICK g : g = [n \in 0..k |-> next(g, n)]
    BY <1>2
  <2> DEFINE h == [n \in 0..(k + 1) |-> IF n = k + 1 THEN Feed(g[k], input[k + 1]) ELSE g[n]]
  <2>2. ASSUME NEW n \in 0..(k + 1)
        PROVE  h[n] = next(h, n)
    <3>1. CASE n = 0
      BY <2>1, <3>1
    <3>2. CASE n \in 1..k
      <4>1. n \in 0..k /\ n - 1 \in 0..(k + 1) /\ n - 1 # k + 1 /\ n # k + 1 /\ n # 0
        BY <3>2
      <4>2. h[n] = g[n] /\ h[n - 1] = g[n - 1]
        BY <4>1
      <4>3. g[n] = next(g, n)
        BY <2>1, <4>1
      <4> QED  BY <4>1, <4>2, <4>3
    <3>3. CASE n = k + 1
      <4>1. n # 0 /\ n - 1 = k /\ k \in 0..(k + 1) /\ k # k + 1
        BY <3>3
      <4>2. h[k] = g[k] /\ h[n] = Feed(g[k], input[k + 1])
        BY <3>3, <4>1
      <4> QED  BY <3>3, <4>1, <4>2
    <3> QED  BY <3>1, <3>2, <3>3
  <2>3. h = [n \in 0..(k + 1) |-> h[n]]
    OBVIOUS
  <2> HIDE DEF h, next
  <2>4. h = [n \in 0..(k + 1) |-> next(h, n)]
    BY <2>2, <2>3
  <2> QED  BY <2>4
<1>3. \A k \in Nat : Runs(k)
  <2> HIDE DEF Runs
  <2> SUFFICES ASSUME T # {} PROVE FALSE
    OBVIOUS
  <2>1. PICK k \in T : \A y \in T : k <= y
    BY LeastNat
  <2>2. k # 0 /\ k \in Nat
    BY <1>1
  <2>3. k - 1 \in Nat /\ k - 1 \notin T
    BY <2>1, <2>2
  <2>4. Runs(k - 1)
    BY <2>3
  <2>5. Runs(k)
    BY <1>2, <2>2, <2>3, <2>4
  <2> QED  BY <2>5
<1> DEFINE st == States(s, input)
<1>4. st = [n \in 0..Len(input) |-> next(st, n)]
  BY <1>3 DEF States
<1> HIDE DEF st
<1>5. \A n \in 0..Len(input) : st[n] = next(st, n)
  BY <1>4
<1> QED  BY <1>5 DEF st

\* What the parser of a connection can hold.
ParserStates ==
  [phase : {"method", "spaces", "url", "dead", "error"},
   verb : Methods \cup {NoMethod}, mark : Seq(UrlTokens),
   method : Methods \cup {NoMethod}, path : Seq(UrlTokens),
   complete : BOOLEAN]

\* The callback keeps it, and never takes a complete request back.
LEMMA UrlCallbackStates ==
  ASSUME NEW s \in ParserStates
  PROVE  /\ UrlCallback(s) \in ParserStates
         /\ s.complete => UrlCallback(s).complete
<1> DEFINE ph == IF s.verb \in {"GET", "HEAD"} THEN s.phase ELSE "error"
<1>1. CASE s.mark = <<>>
  BY <1>1 DEF UrlCallback
<1>2. CASE s.mark # <<>>
  <2>1. UrlCallback(s) = [s EXCEPT !.method = s.verb, !.path = s.mark,
                                   !.mark = <<>>, !.phase = ph]
    BY <1>2 DEF UrlCallback
  <2>2. ph \in {"method", "spaces", "url", "dead", "error"}
    BY DEF ParserStates
  <2>3. s.verb \in Methods \cup {NoMethod} /\ s.mark \in Seq(UrlTokens)
        /\ <<>> \in Seq(UrlTokens)
    BY DEF ParserStates
  <2> HIDE DEF ph
  <2> QED  BY <2>1, <2>2, <2>3 DEF ParserStates
<1> QED  BY <1>1, <1>2

\* A token does the same.
LEMMA FeedStates ==
  ASSUME NEW s \in ParserStates, NEW t \in Tokens
  PROVE  /\ Feed(s, t) \in ParserStates
         /\ s.complete => Feed(s, t).complete
<1>1. CASE s.phase = "method" /\ t \in Methods
  BY <1>1 DEF Feed, ParserStates
<1>2. CASE s.phase \in {"spaces", "url"} /\ t \in UrlTokens
  <2>1. Append(s.mark, t) \in Seq(UrlTokens)
    BY <1>2 DEF ParserStates
  <2>2. s.phase # "method"
    BY <1>2
  <2>3. Feed(s, t) = [s EXCEPT !.phase = "url", !.mark = Append(@, t)]
    BY <1>2, <2>2 DEF Feed, UrlTokens, EndTokens
  <2> QED  BY <2>1, <2>3 DEF ParserStates
<1>3. CASE s.phase = "url" /\ t \in EndTokens
  <2> DEFINE u == UrlCallback(s)
  <2>1. u \in ParserStates /\ (s.complete => u.complete)
    BY UrlCallbackStates
  <2>2. Feed(s, t) = HeadersComplete(u, t)
    BY <1>3 DEF Feed, Methods, EndTokens, UrlTokens
  <2> HIDE DEF u
  <2> QED  BY <2>1, <2>2, ZenonT(60) DEF HeadersComplete, ParserStates
<1>4. CASE Feed(s, t) = [s EXCEPT !.phase = "error"]
  BY <1>4 DEF ParserStates
<1> QED  BY <1>1, <1>2, <1>3, <1>4 DEF Feed

\* Nor does a whole read, however many tokens it brings.
LEMMA ExecuteStates ==
  ASSUME NEW s \in ParserStates, NEW input \in Seq(Tokens)
  PROVE  /\ Execute(s, input) \in ParserStates
         /\ s.complete => Execute(s, input).complete
<1> DEFINE st == States(s, input)
           Good(u) == u \in ParserStates /\ (s.complete => u.complete)
           Bad == {n \in 0..Len(input) : ~ Good(st[n])}
<1>1. st[0] = [s EXCEPT !.mark = <<>>]
      /\ \A n \in 1..Len(input) : st[n] = Feed(st[n - 1], input[n])
  BY StatesStep
<1>2. Good(st[0])
  <2>1. <<>> \in Seq(UrlTokens)
    OBVIOUS
  <2> HIDE DEF st
  <2> QED  BY <1>1, <2>1 DEF ParserStates
<1>3. ASSUME NEW n \in 1..Len(input), Good(st[n - 1])
      PROVE  Good(st[n])
  <2>1. input[n] \in Tokens /\ st[n] = Feed(st[n - 1], input[n])
    BY <1>1
  <2> HIDE DEF st
  <2> QED  BY <1>3, <2>1, FeedStates
<1>4. Good(st[Len(input)])
  <2> SUFFICES ASSUME Bad # {} PROVE FALSE
    OBVIOUS
  <2>0. Bad \in SUBSET Nat
    OBVIOUS
  <2> HIDE DEF st
  <2>1. PICK n \in Bad : \A m \in Bad : n <= m
    BY <2>0, LeastNat
  <2>2. n # 0 /\ n \in 0..Len(input)
    BY <1>2, <2>1
  <2>3. n \in 1..Len(input) /\ n - 1 \in 0..Len(input) /\ n - 1 \notin Bad
    BY <2>1, <2>2
  <2> QED  BY <1>3, <2>1, <2>3
<1> HIDE DEF st
<1> QED  BY <1>4, UrlCallbackStates DEF Execute, st

-----------------------------------------------------------------------------
(* Sequences of units.                                                     *)

\* Unit j of q continues the unit before it, or begins a response where the
\* last one ended.
Before(u) == [u EXCEPT !.i = @ - 1]
Joined(q, j) ==
  IF q[j].i > 1 THEN j > 1 /\ q[j - 1] = Before(q[j])
  ELSE j = 1 \/ q[j - 1].i = q[j - 1].n \/ q[j].code = 500

\* Whole says so of every unit, and that the last response is finished.
LEMMA WholeIsJoined ==
  ASSUME NEW q
  PROVE  Whole(q) <=> /\ \A j \in DOMAIN q : Joined(q, j)
                      /\ q # <<>> => Last(q).i = Last(q).n
BY DEF Whole, Joined, Before

\* What is joined in one sequence is joined in another that agrees up to there.
LEMMA JoinedAgain ==
  ASSUME NEW q \in Seq(Units), NEW p \in Seq(Units), NEW k \in Nat,
         k <= Len(q), k <= Len(p), \A j \in 1..k : q[j] = p[j],
         NEW j \in 1..k, Joined(q, j)
  PROVE  Joined(p, j)
<1>1. q[j] = p[j] /\ (j # 1 => q[j - 1] = p[j - 1])
  OBVIOUS
<1> QED  BY <1>1 DEF Joined

\* The units of a response.
LEMMA ResponseJoined ==
  ASSUME NEW code, NEW path, NEW n \in Nat \ {0}
  PROVE  LET r == Response(code, path, n)
         IN  /\ Len(r) = n
             /\ \A i \in 1..n : r[i].i = i /\ r[i].n = n /\ r[i].code = code
             /\ \A i \in 2..n : r[i - 1] = Before(r[i])
<1> DEFINE file == IF code = 200 THEN path ELSE <<>>
           unit(i) == [code |-> code, path |-> file, i |-> i, n |-> n]
           r == Response(code, path, n)
<1>1. r = [i \in 1..n |-> unit(i)]
  BY DEF Response
<1>2. \A i \in 1..n : unit(i).i = i /\ unit(i).n = n /\ unit(i).code = code
  OBVIOUS
<1>3. \A i \in 2..n : unit(i - 1) = Before(unit(i))
  BY DEF Before
<1> HIDE DEF r, unit
<1>4. Len(r) = n /\ \A i \in 1..n : r[i] = unit(i)
  BY <1>1
<1>5. \A i \in 2..n : r[i] = unit(i) /\ r[i - 1] = unit(i - 1)
  BY <1>4
<1> QED  BY <1>2, <1>3, <1>4, <1>5 DEF r

\* A response goes behind whole responses.
LEMMA WholeAppend ==
  ASSUME NEW s \in Seq(Units), Whole(s), NEW code, NEW path, NEW n \in Nat \ {0},
         Response(code, path, n) \in Seq(Units)
  PROVE  Whole(s \o Response(code, path, n))
<1> DEFINE r == Response(code, path, n)
           w == s \o r
<1>1. /\ Len(r) = n
      /\ \A i \in 1..n : r[i].i = i /\ r[i].n = n
      /\ \A i \in 2..n : r[i - 1] = Before(r[i])
  BY ResponseJoined
<1> HIDE DEF r
<1>2. r \in Seq(Units)
  BY DEF r
<1>3. w \in Seq(Units) /\ Len(w) = Len(s) + n
  BY <1>1, <1>2, ConcatProperties
<1>4. Len(s) \in Nat /\ \A j \in 1..Len(s) : s[j] = w[j]
  BY <1>1, <1>2
<1>5. \A i \in 1..n : w[Len(s) + i] = r[i]
  BY <1>1, <1>2
<1> HIDE DEF w
<1>6. Last(w) = r[n]
  BY <1>3, <1>5 DEF Last
<1>7. ASSUME NEW j \in DOMAIN w
      PROVE  Joined(w, j)
  <2>1. CASE j \in 1..Len(s)
    <3>1. Joined(s, j)
      BY <2>1, WholeIsJoined
    <3>2. Len(s) <= Len(s) /\ Len(s) <= Len(w)
      BY <1>3, <1>4
    <3> QED  BY <1>3, <1>4, <2>1, <3>1, <3>2, JoinedAgain
  <2>2. CASE j = Len(s) + 1
    <3>1. w[j] = r[1]
      BY <1>5, <2>2
    <3>2. w[j].i = 1
      BY <1>1, <3>1
    <3>3. j # 1 => s # <<>> /\ w[j - 1] = Last(s)
      BY <1>4, <2>2 DEF Last
    <3>4. s # <<>> => Last(s).i = Last(s).n
      BY WholeIsJoined
    <3> QED  BY <3>2, <3>3, <3>4 DEF Joined
  <2>3. CASE j \in (Len(s) + 2)..(Len(s) + n)
    <3> DEFINE i == j - Len(s)
    <3>1. i \in 2..n /\ i - 1 \in 1..n /\ j = Len(s) + i /\ j - 1 = Len(s) + (i - 1)
      BY <2>3
    <3>2. w[j] = r[i] /\ w[j - 1] = r[i - 1]
      BY <1>5, <3>1
    <3>3. r[i].i = i /\ r[i - 1] = Before(r[i])
      BY <1>1, <3>1
    <3> HIDE DEF i
    <3> QED  BY <3>1, <3>2, <3>3 DEF Joined
  <2> QED  BY <2>1, <2>2, <2>3, <1>3
<1>8. Last(w).i = Last(w).n
  BY <1>1, <1>6
<1>9. Whole(w)
  BY <1>7, <1>8, WholeIsJoined
<1> QED  BY <1>9 DEF w, r

\* An error response may take the place of what was not sent, if it has code
\* 500 or nothing was sent.
LEMMA WholeCut ==
  ASSUME NEW s \in Seq(Units), NEW r \in Seq(Units), Whole(s \o r),
         NEW code, code = 500 \/ s = <<>>, ErrResponse(code) \in Seq(Units)
  PROVE  Whole(s \o ErrResponse(code))
<1> DEFINE e == ErrResponse(code)
           w == s \o e
           v == s \o r
<1>1. Len(e) = 1 /\ e[1].i = 1 /\ e[1].n = 1 /\ e[1].code = code
  <2>1. 1 \in Nat \ {0} /\ 1 \in 1..1
    OBVIOUS
  <2>2. Len(e) = 1
    BY DEF ErrResponse, Response
  <2>3. e[1].i = 1 /\ e[1].n = 1 /\ e[1].code = code
    BY <2>1, ResponseJoined DEF ErrResponse
  <2> QED  BY <2>2, <2>3
<1> HIDE DEF e
<1>2. e \in Seq(Units)
  BY DEF e
<1>3. w \in Seq(Units) /\ Len(w) = Len(s) + 1 /\ w[Len(s) + 1] = e[1]
  <2>1. w \in Seq(Units) /\ Len(w) = Len(s) + Len(e)
    BY <1>2, ConcatProperties
  <2>2. w[Len(s) + 1] = e[1]
    <3>1. Len(s) + 1 \in 1..(Len(s) + Len(e)) /\ ~ (Len(s) + 1 <= Len(s))
          /\ Len(s) + 1 - Len(s) = 1
      BY <1>1
    <3> QED  BY <1>2, <3>1, ConcatProperties
  <2> QED  BY <1>1, <2>1, <2>2
<1>4. \A j \in 1..Len(s) : w[j] = s[j]
  BY <1>1, <1>2
<1>5. v \in Seq(Units) /\ Len(v) >= Len(s) /\ \A j \in 1..Len(s) : v[j] = s[j]
  OBVIOUS
<1>6. \A j \in DOMAIN v : Joined(v, j)
  BY WholeIsJoined
<1> HIDE DEF w, v
<1>7. Last(w) = e[1]
  BY <1>3 DEF Last
<1>8. ASSUME NEW j \in DOMAIN w
      PROVE  Joined(w, j)
  <2>1. CASE j \in 1..Len(s)
    <3>1. j \in DOMAIN v
      BY <1>5, <2>1
    <3>2. \A i \in 1..Len(s) : v[i] = w[i]
      BY <1>4, <1>5
    <3>3. Len(s) \in Nat /\ Len(s) <= Len(v) /\ Len(s) <= Len(w)
      BY <1>3, <1>5
    <3>4. Joined(v, j)
      BY <1>6, <3>1
    <3>5. v \in Seq(Units) /\ w \in Seq(Units)
      BY <1>3, <1>5
    <3> QED  BY <2>1, <3>2, <3>3, <3>4, <3>5, JoinedAgain
  <2>2. CASE j = Len(s) + 1
    BY <1>1, <1>3, <2>2 DEF Joined
  <2> QED  BY <2>1, <2>2, <1>3
<1> QED  BY <1>1, <1>7, <1>8, WholeIsJoined DEF w, e

\* Writing a packet moves units from the buffer to the socket, in order.
LEMMA Moved ==
  ASSUME NEW s \in Seq(Units), NEW r \in Seq(Units), NEW k \in 0..Len(r)
  PROVE  /\ s \o SubSeq(r, 1, k) \in Seq(Units)
         /\ SubSeq(r, k + 1, Len(r)) \in Seq(Units)
         /\ (s \o SubSeq(r, 1, k)) \o SubSeq(r, k + 1, Len(r)) = s \o r
<1> DEFINE a == SubSeq(r, 1, k)
           b == SubSeq(r, k + 1, Len(r))
<1>1. a \in Seq(Units) /\ Len(a) = k /\ \A i \in 1..k : a[i] = r[i]
  BY SubSeqProperties
<1>2. b \in Seq(Units) /\ Len(b) = Len(r) - k /\ \A i \in 1..(Len(r) - k) : b[i] = r[k + i]
  BY SubSeqProperties
<1> HIDE DEF a, b
<1>3. a \o b = r
  <2>1. Len(a \o b) = Len(r) /\ a \o b \in Seq(Units)
    <3>1. Len(a \o b) = Len(a) + Len(b) /\ a \o b \in Seq(Units)
      BY <1>1, <1>2, ConcatProperties
    <3> QED  BY <1>1, <1>2, <3>1
  <2>2. ASSUME NEW i \in 1..Len(r) PROVE (a \o b)[i] = r[i]
    <3>1. CASE i <= k
      BY <1>1, <1>2, <3>1
    <3>2. CASE i > k
      <4> DEFINE m == i - k
      <4>1. m \in 1..(Len(r) - k) /\ k + m = i
        BY <3>2
      <4>2. (a \o b)[i] = b[m]
        BY <1>1, <1>2, <3>2
      <4>3. b[m] = r[k + m]
        BY <1>2, <4>1
      <4> HIDE DEF m
      <4> QED  BY <4>1, <4>2, <4>3
    <3>3. i <= k \/ i > k
      OBVIOUS
    <3> QED  BY <3>1, <3>2, <3>3
  <2> QED  BY <2>1, <2>2, SeqEqual
<1>4. s \o a \in Seq(Units) /\ (s \o a) \o b = s \o (a \o b)
  BY <1>1, <1>2, ConcatProperties, ConcatAssociative, SMTT(30)
<1> QED  BY <1>1, <1>2, <1>3, <1>4 DEF a, b

-----------------------------------------------------------------------------
(* Types and whole responses.                                              *)

\* The types of what BufferType leaves out.
StreamType ==
  /\ server \in {"starting", "up", "down"}
  /\ ask \in [Conns -> Seq(Tokens)] /\ inq \in [Conns -> Seq(Tokens)]
  /\ eof \in [Conns -> {"no", "fin", "reset"}]
  /\ parser \in [Conns -> ParserStates]
  /\ sent \in [Conns -> Seq(Units)]

\* Nothing is sent before the connection is open; what was sent and what waits
\* make whole responses; while no request was complete there is at most the one
\* unit of an error response, and as soon as that is written the server closes.
StreamWhole(c) ==
  /\ conn[c] \in {"out", "backlog"} => sent[c] = <<>>
  /\ conn[c] \in {"open", "served"} => Whole(sent[c] \o res[c])
  /\ conn[c] = "open" /\ ~ parser[c].complete => sent[c] = <<>> /\ Len(res[c]) <= 1

StreamInv == WatchInv /\ StreamType /\ \A c \in Conns : StreamWhole(c)

\* The code and the length of what build_response_message appends.
LEMMA BuildUnits ==
  ASSUME NEW s
  PROVE  LET code == CodeFor(s.path)
             n    == IF s.method = "GET" THEN 1 + BodyOf(s.path) ELSE 1
         IN  /\ n \in Nat \ {0}
             /\ Response(code, s.path, n) \in Seq(Units)
             /\ Response(code, s.path, n) # <<>>
<1> DEFINE code == CodeFor(s.path)
           n    == IF s.method = "GET" THEN 1 + BodyOf(s.path) ELSE 1
<1>1. code \in {200, 403, 404} /\ (code = 200 => s.path \in DOMAIN Files)
  BY DEF CodeFor
<1>2. n \in Nat \ {0}
  BY <1>1, ServerAssumption DEF BodyOf
<1> QED  BY <1>1, <1>2, ResponseUnits

\* What a read leaves in the parser.
LEMMA ReadParser ==
  ASSUME StreamInv, NEW c \in Conns, Read(c)
  PROVE  \E s \in ParserStates :
           /\ parser' = [parser EXCEPT ![c] = s]
           /\ parser[c].complete => s.complete
           /\ Respond(c, s)
<1>1. PICK k \in 1..Len(inq[c]) :
        LET s == Execute(parser[c], SubSeq(inq[c], 1, k))
        IN  /\ parser' = [parser EXCEPT ![c] = s]
            /\ Respond(c, s)
  BY DEF Read
<1>2. SubSeq(inq[c], 1, k) \in Seq(Tokens) /\ parser[c] \in ParserStates
  BY DEF StreamInv, StreamType
<1> QED  BY <1>1, <1>2, ExecuteStates

\* Every step keeps the types of the streams.
LEMMA StepTyped == StreamInv /\ [Next]_vars => StreamType'
<1> USE ServerAssumption
<1> SUFFICES ASSUME StreamInv, [Next]_vars PROVE StreamType'
  OBVIOUS
<1>1. StreamType /\ res \in [Conns -> Seq(Units)]
  BY DEF StreamInv, WatchInv, BufferType
<1>2. CASE UNCHANGED vars
  BY <1>1, <1>2 DEF StreamType, vars
<1>3. CASE Start
  BY <1>1, <1>3 DEF StreamType, Start
<1>4. ASSUME NEW c \in Conns, Connect(c)
      PROVE  StreamType'
  BY <1>1, <1>4 DEF StreamType, Connect
<1>5. ASSUME NEW c \in Conns, Finish(c)
      PROVE  StreamType'
  <2>1. inq' = inq \/ inq' = [inq EXCEPT ![c] = <<>>]
    BY <1>5 DEF Finish
  <2>2. inq' \in [Conns -> Seq(Tokens)]
    <3>1. <<>> \in Seq(Tokens) /\ inq \in [Conns -> Seq(Tokens)]
      BY <1>1 DEF StreamType
    <3> QED  BY <2>1, <3>1
  <2>3. eof' \in [Conns -> {"no", "fin", "reset"}] /\ UNCHANGED <<server, ask, parser, sent>>
    BY <1>1, <1>5 DEF StreamType, Finish
  <2> QED  BY <1>1, <2>2, <2>3 DEF StreamType
<1>6. ASSUME NEW c \in Conns, Accept(c) \/ AcceptDrops(c) \/ AcceptFails(c)
      PROVE  StreamType'
  BY <1>1, <1>6 DEF StreamType, Accept, AcceptDrops, AcceptFails
<1>7. ASSUME NEW c \in Conns, Read(c)
      PROVE  StreamType'
  <2>1. PICK s \in ParserStates : parser' = [parser EXCEPT ![c] = s] /\ Respond(c, s)
    BY <1>7, ReadParser
  <2>2. server' \in {"starting", "up", "down"}
    BY <1>1, <2>1 DEF StreamType, Respond
  <2>3. inq' \in [Conns -> Seq(Tokens)]
    <3>1. PICK k \in 1..Len(inq[c]) :
            inq' = [inq EXCEPT ![c] = SubSeq(@, k + 1, Len(@))]
      BY <1>7 DEF Read
    <3>2. SubSeq(inq[c], k + 1, Len(inq[c])) \in Seq(Tokens)
      BY <1>1 DEF StreamType
    <3> QED  BY <1>1, <3>1, <3>2 DEF StreamType
  <2>4. UNCHANGED <<ask, eof, sent>>
    BY <1>7 DEF Read
  <2> QED  BY <1>1, <2>1, <2>2, <2>3, <2>4 DEF StreamType
<1>8. ASSUME NEW c \in Conns, ReadEnds(c) \/ WriteFails(c)
      PROVE  StreamType'
  BY <1>1, <1>8 DEF StreamType, ReadEnds, WriteFails
<1>9. ASSUME NEW c \in Conns, Write(c)
      PROVE  StreamType'
  <2> DEFINE k == IF Len(res[c]) < PacketSize THEN Len(res[c]) ELSE PacketSize
  <2>1. sent' = [sent EXCEPT ![c] = @ \o SubSeq(res[c], 1, k)] /\ k \in 0..Len(res[c])
    BY <1>1, <1>9 DEF Write
  <2> HIDE DEF k
  <2>2. sent[c] \o SubSeq(res[c], 1, k) \in Seq(Units)
    <3>1. sent[c] \in Seq(Units) /\ res[c] \in Seq(Units) /\ k \in 0..Len(res[c])
      BY <1>1, <2>1 DEF StreamType
    <3> QED  BY <3>1, Moved
  <2>3. UNCHANGED <<server, ask, inq, eof, parser>>
    BY <1>9 DEF Write
  <2> QED  BY <1>1, <2>1, <2>2, <2>3 DEF StreamType
<1> QED
  BY <1>2, <1>3, <1>4, <1>5, <1>6, <1>7, <1>8, <1>9 DEF Next, Serve

\* A step that does not touch a connection keeps its stream.
LEMMA StreamStays ==
  ASSUME NEW c \in Conns, StreamWhole(c), conn'[c] = conn[c], sent'[c] = sent[c],
         res'[c] = res[c], parser'[c] = parser[c]
  PROVE  StreamWhole(c)'
BY DEF StreamWhole

\* A read appends a whole response or puts an error response in its place.
LEMMA ReadWhole ==
  ASSUME StreamInv, NEW c \in Conns, Read(c)
  PROVE  StreamWhole(c)'
<1>1. /\ conn[c] = "open" /\ conn'[c] = "open" /\ sent'[c] = sent[c]
      /\ res \in [Conns -> Seq(Units)] /\ sent[c] \in Seq(Units)
      /\ parser \in [Conns -> ParserStates]
  BY DEF StreamInv, WatchInv, BufferType, Watched, StreamType, Read
<1>2. /\ Whole(sent[c] \o res[c])
      /\ ~ parser[c].complete => sent[c] = <<>> /\ Len(res[c]) <= 1
  BY <1>1 DEF StreamInv, StreamWhole
<1>3. PICK s \in ParserStates :
        /\ parser' = [parser EXCEPT ![c] = s]
        /\ parser[c].complete => s.complete
        /\ Respond(c, s)
  BY ReadParser
<1>4. parser'[c] = s /\ s.complete \in BOOLEAN
  BY <1>1, <1>3 DEF ParserStates
<1>5. ASSUME NEW code \in {400, 405, 500}, BuildErr(c, code), code # 500 => ~ s.complete
      PROVE  StreamWhole(c)'
  <2>1. ErrResponse(code) \in Seq(Units)
    BY ResponseUnits DEF ErrResponse
  <2>2. Len(ErrResponse(code)) = 1
    BY DEF ErrResponse, Response
  <2>3. code = 500 \/ sent[c] = <<>>
    BY <1>2, <1>3, <1>5
  <2>4. res[c] \in Seq(Units) /\ res'[c] = ErrResponse(code)
    BY <1>1, <1>5 DEF BuildErr
  <2>5. Whole(sent[c] \o ErrResponse(code))
    BY <1>1, <1>2, <2>1, <2>3, <2>4, WholeCut
  <2>6. ~ s.complete => sent[c] = <<>>
    BY <1>2, <1>3
  <2>7. Whole(sent'[c] \o res'[c])
    BY <1>1, <2>4, <2>5
  <2>8. ~ parser'[c].complete => sent'[c] = <<>> /\ Len(res'[c]) <= 1
    <3>1. Len(res'[c]) = 1
      BY <2>2, <2>4
    <3>2. ~ parser'[c].complete => sent'[c] = <<>>
      BY <1>1, <1>4, <2>6
    <3> QED  BY <3>1, <3>2
  <2> QED  BY <1>1, <2>7, <2>8 DEF StreamWhole
<1>6. CASE s.complete /\ Build(c, s)
  <2> DEFINE code == CodeFor(s.path)
             n    == IF s.method = "GET" THEN 1 + BodyOf(s.path) ELSE 1
             new  == Response(code, s.path, n)
  <2>1. n \in Nat \ {0} /\ new \in Seq(Units)
    BY BuildUnits
  <2>2. res[c] \in Seq(Units) /\ res'[c] = res[c] \o new
    BY <1>1, <1>6 DEF Build
  <2> HIDE DEF code, n
  <2>3. sent[c] \o res[c] \in Seq(Units)
    BY <1>1, <2>2, ConcatProperties
  <2>4. Whole((sent[c] \o res[c]) \o new)
    BY <1>2, <2>1, <2>3, WholeAppend
  <2> HIDE DEF new
  <2>5. (sent[c] \o res[c]) \o new = sent[c] \o (res[c] \o new)
    <3>1. \A a, b, d \in Seq(Units) : (a \o b) \o d = a \o (b \o d)
      BY ConcatAssociative
    <3>2. sent[c] \in Seq(Units) /\ res[c] \in Seq(Units) /\ new \in Seq(Units)
      BY <1>1, <2>1, <2>2
    <3> QED  BY <3>1, <3>2, Zenon
  <2> QED  BY <1>1, <1>4, <1>6, <2>2, <2>4, <2>5 DEF StreamWhole
<1>7. CASE res' = res
  BY <1>1, <1>2, <1>3, <1>4, <1>7 DEF StreamWhole
<1> QED  BY <1>3, <1>5, <1>6, <1>7 DEF Respond

\* A write moves units in order, and closes only behind the last one.
LEMMA WriteWhole ==
  ASSUME StreamInv, NEW c \in Conns, Write(c)
  PROVE  StreamWhole(c)'
<1> DEFINE len  == Len(res[c])
           k    == IF len < PacketSize THEN len ELSE PacketSize
           rest == SubSeq(res[c], k + 1, len)
<1>1. /\ conn[c] = "open" /\ res \in [Conns -> Seq(Units)]
      /\ conn \in [Conns -> {"out", "backlog", "open", "served", "dropped"}]
      /\ sent \in [Conns -> Seq(Units)] /\ parser'[c] = parser[c]
  BY DEF StreamInv, WatchInv, BufferType, Watched, StreamType, Write
<1>2. /\ Whole(sent[c] \o res[c])
      /\ ~ parser[c].complete => sent[c] = <<>> /\ Len(res[c]) <= 1
  BY <1>1 DEF StreamInv, StreamWhole
<1>3. k \in 0..len /\ (len <= 1 => k = len)
  BY <1>1, ServerAssumption
<1>4. sent'[c] = sent[c] \o SubSeq(res[c], 1, k) /\ res'[c] = rest
      /\ conn'[c] = IF rest # <<>> THEN "open" ELSE "served"
  <2>1. CASE rest # <<>>
    BY <1>1, <2>1 DEF Write
  <2>2. CASE rest = <<>>
    BY <1>1, <2>2 DEF Write, Close
  <2> QED  BY <2>1, <2>2
<1>5. sent'[c] \o res'[c] = sent[c] \o res[c]
  <2>1. sent[c] \in Seq(Units) /\ res[c] \in Seq(Units)
    BY <1>1
  <2>2. k \in 0..Len(res[c]) /\ rest = SubSeq(res[c], k + 1, Len(res[c]))
    BY <1>3
  <2> HIDE DEF k, rest
  <2>3. (sent[c] \o SubSeq(res[c], 1, k)) \o rest = sent[c] \o res[c]
    BY <2>1, <2>2, Moved
  <2> QED  BY <1>4, <2>3
<1>6. len <= 1 => rest = <<>>
  <2>1. len \in Nat
    BY <1>1
  <2> HIDE DEF len, k
  <2> SUFFICES ASSUME len <= 1 PROVE SubSeq(res[c], k + 1, len) = <<>>
    OBVIOUS
  <2> QED  BY <1>3, <2>1, SubSeqEmpty
<1> HIDE DEF rest, k
<1> QED  BY <1>1, <1>2, <1>4, <1>5, <1>6 DEF StreamWhole

\* Every step keeps every stream whole.
LEMMA StepWhole ==
  ASSUME StreamInv, [Next]_vars, NEW d \in Conns
  PROVE  StreamWhole(d)'
<1>1. StreamWhole(d) /\ WatchInv /\ StreamType
  BY DEF StreamInv
<1>2. CASE UNCHANGED <<conn, sent, res, parser>>
  BY <1>1, <1>2, StreamStays
<1>3. ASSUME NEW c \in Conns, Connect(c) \/ Accept(c) \/ AcceptDrops(c)
      PROVE  StreamWhole(d)'
  <2>1. conn[c] \in {"out", "backlog"}
        /\ conn' \in {[conn EXCEPT ![c] = h] : h \in {"backlog", "open", "dropped"}}
        /\ UNCHANGED <<sent, res, parser>>
    BY <1>3 DEF Connect, Accept, AcceptDrops
  <2>2. CASE d # c
    <3>1. conn'[d] = conn[d] /\ sent'[d] = sent[d] /\ res'[d] = res[d]
          /\ parser'[d] = parser[d]
      BY <1>1, <2>1, <2>2 DEF WatchInv, BufferType
    <3> QED  BY <1>1, <3>1, StreamStays
  <2>3. CASE d = c
    <3>1. sent[c] = <<>> /\ res[c] = <<>>
      BY <1>1, <2>1, <2>3 DEF StreamWhole, WatchInv, Watched
    <3>2. Whole(<<>> \o <<>>) /\ Len(<<>>) <= 1
      BY DEF Whole
    <3>3. conn'[c] \in {"backlog", "open", "dropped"}
      BY <1>1, <2>1 DEF WatchInv, BufferType
    <3> QED  BY <2>1, <2>3, <3>1, <3>2, <3>3 DEF StreamWhole
  <2> QED  BY <2>2, <2>3
<1>4. ASSUME NEW c \in Conns, Read(c)
      PROVE  StreamWhole(d)'
  <2>1. CASE d = c
    BY <1>4, <2>1, ReadWhole
  <2>2. CASE d # c
    <3>1. PICK s : parser' = [parser EXCEPT ![c] = s] /\ Respond(c, s)
      BY <1>4, ReadParser
    <3>2. res'[d] = res[d]
      BY <1>1, <2>2, <3>1 DEF Respond, BuildErr, Build, WatchInv, BufferType
    <3> QED  BY <1>1, <1>4, <2>2, <3>1, <3>2, StreamStays DEF Read, StreamType
  <2> QED  BY <2>1, <2>2
<1>5. ASSUME NEW c \in Conns, Write(c)
      PROVE  StreamWhole(d)'
  <2>1. CASE d = c
    BY <1>5, <2>1, WriteWhole
  <2>2. CASE d # c
    <3>1. conn'[d] = conn[d] /\ res'[d] = res[d]
      <4>1. CASE UNCHANGED conn
        BY <1>1, <1>5, <2>2, <4>1 DEF Write, Close, WatchInv, BufferType
      <4>2. CASE Close(c, "served")
        BY <1>1, <2>2, <4>2 DEF Close, WatchInv, BufferType
      <4> QED  BY <1>5, <4>1, <4>2 DEF Write
    <3>2. sent'[d] = sent[d] /\ parser'[d] = parser[d]
      BY <1>1, <1>5, <2>2 DEF Write, StreamType
    <3> QED  BY <1>1, <3>1, <3>2, StreamStays
  <2> QED  BY <2>1, <2>2
<1>6. ASSUME NEW c \in Conns, Close(c, "dropped"), UNCHANGED <<sent, parser>>
      PROVE  StreamWhole(d)'
  <2>1. CASE d = c
    BY <1>1, <1>6, <2>1 DEF StreamWhole, Close, WatchInv, BufferType
  <2>2. CASE d # c
    BY <1>1, <1>6, <2>2, StreamStays DEF Close
  <2> QED  BY <2>1, <2>2
<1>7. ASSUME NEW c \in Conns, ReadEnds(c) \/ WriteFails(c)
      PROVE  StreamWhole(d)'
  BY <1>2, <1>6, <1>7 DEF ReadEnds, WriteFails
<1>8. ASSUME NEW c \in Conns, Finish(c) \/ AcceptFails(c)
      PROVE  StreamWhole(d)'
  BY <1>2, <1>8 DEF Finish, AcceptFails
<1> QED
  BY <1>2, <1>3, <1>4, <1>5, <1>7, <1>8 DEF Next, Serve, Start, vars

\* The streams start empty.
LEMMA InitStreams == Init => StreamInv
<1> SUFFICES ASSUME Init PROVE StreamInv
  OBVIOUS
<1>1. WatchInv
  BY DEF Init, WatchInv, BufferType, Watched
<1>2. NewParser \in ParserStates
  BY DEF NewParser, ParserStates
<1>3. StreamType
  BY <1>2 DEF Init, StreamType
<1>4. \A c \in Conns : StreamWhole(c)
  BY DEF Init, StreamWhole
<1> QED  BY <1>1, <1>3, <1>4 DEF StreamInv

\* Whatever the clients send and however it is cut, the parsers, the queues,
\* the buffers and what was sent have their types.
THEOREM TypeCorrect == Spec => []TypeOK
<1>1. StreamInv /\ [Next]_vars => StreamInv'
  BY StepWatched, StepTyped, StepWhole DEF StreamInv
<1>2. StreamInv => TypeOK
  BY DEF StreamInv, StreamType, WatchInv, BufferType, TypeOK, ParserStates
<1> QED  BY <1>1, <1>2, InitStreams, PTL DEF Spec

\* However requests arrive, responses of any length are built while others are
\* being written in packets of any size: what is sent and what waits are whole
\* responses, unless an error response takes the place of what waits.
THEOREM ResponsesAreWhole == Spec => []WholeResponses
<1>1. StreamInv /\ [Next]_vars => StreamInv'
  BY StepWatched, StepTyped, StepWhole DEF StreamInv
<1>2. StreamInv => WholeResponses
  BY DEF StreamInv, StreamWhole, WholeResponses
<1> QED  BY <1>1, <1>2, InitStreams, PTL DEF Spec
=============================================================================
