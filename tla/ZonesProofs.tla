---------------------------- MODULE ZonesProofs ----------------------------
(***************************************************************************)
(* Proofs about Zones, and about ZoneIsolation on top of it, for every      *)
(* number of nodes, processes and threads.                                 *)
(***************************************************************************)
EXTENDS ZonesRefine, ZoneIsolation, FiniteSetTheorems, TLAPS

\* At boot every variable has its type.
LEMMA TypeInit == Init => TypeOK
  BY NodesAssumption, NamesAssumption, ProcsAssumption, ThreadsAssumption,
     WidthAssumption
  DEF Init, TypeOK, Stats, Pcs, Ids

\* atomic_inc_int and atomic_dec_int stay within an unsigned int.
LEMMA CountsInRange ==
  ASSUME NEW x \in 0..CountMax
  PROVE  Inc(x) \in 0..CountMax /\ Dec(x) \in 0..CountMax
  BY WidthAssumption DEF Inc, Dec

\* The increment of zoneid_head stays within a zoneid_t.
LEMMA NextIdInRange == ASSUME NEW id \in Ids PROVE NextId(id) \in Ids
  BY WidthAssumption DEF NextId, Ids

\* Every step of every system call and process event keeps the types.
LEMMA TypeStep == TypeOK /\ ThreadsOk /\ [Next]_vars => TypeOK'
<1> SUFFICES ASSUME TypeOK, ThreadsOk, [Next]_vars PROVE TypeOK'
  OBVIOUS
<1> USE DEF TypeOK, registry, lock, procs, locals, Goto, Return
<1>1. CASE UNCHANGED vars
  BY <1>1 DEF vars
<1>2. ASSUME NEW p \in Procs, CopyZone(p)
      PROVE  /\ ps_zone' \in [Procs -> Nodes \cup {NULL}]
             /\ ps_total' \in [Nodes -> 0..CountMax]
  BY <1>2, CountsInRange, ProcsAssumption
  DEF CopyZone, CountIn, is_process_global
<1>3. ASSUME NEW t \in Threads, Call(t) PROVE TypeOK'
  <2>1. CASE CreateStart(t)
    BY <2>1 DEF CreateStart, Pcs
  <2>2. CASE DestroyStart(t) \/ EnterStart(t) \/ ListStart(t) \/ NameStart(t)
    BY <2>2 DEF DestroyStart, EnterStart, ListStart, NameStart, Pcs
  <2>3. CASE ForkStart(t)
    <3>1. owner[t] \in Procs
      BY <2>3 DEF ForkStart, ThreadsOk
    <3> QED BY <2>3, <3>1, <1>2 DEF ForkStart, FreeThreads, Stats, Pcs
  <2>4. CASE ForkThread(t)
    BY <2>4, <1>2 DEF ThreadsOk, ForkThread, FreeThreads, Pcs
  <2>5. CASE ThreadExit(t)
    BY <2>5 DEF ThreadExit, Pcs
  <2>6. CASE Exit(t)
    BY <2>6 DEF Exit, Stats, Pcs
  <2>7. CASE DropRoot(t)
    BY <2>7 DEF DropRoot
  <2> QED BY <1>3, <2>1, <2>2, <2>3, <2>4, <2>5, <2>6, <2>7 DEF Call
<1>4. ASSUME NEW t \in Threads, TakeLock(t) PROVE TypeOK'
  <2> USE DEF rw_enter_write, rw_enter_read, Pcs
  <2>1. CASE \/ CreateRefused(t) \/ DestroyRefused(t) \/ EnterRefused(t)
             \/ ListRefused(t) \/ NameRefused(t)
    BY <2>1 DEF CreateRefused, DestroyRefused, EnterRefused, ListRefused,
                NameRefused
  <2>2. CASE CreateLock(t)
    BY <2>2 DEF CreateLock
  <2>3. CASE DestroyLock(t)
    BY <2>3 DEF DestroyLock
  <2>4. CASE EnterLock(t)
    <3>1. PICK n \in Nodes : /\ ps_zone' = [ps_zone EXCEPT ![owner[t]] = n]
                             /\ CountIn(n)
      BY <2>4 DEF EnterLock, NodesWithId
    <3>2. ps_total' \in [Nodes -> 0..CountMax]
      BY <3>1, CountsInRange DEF CountIn
    <3> QED BY <2>4, <3>1, <3>2 DEF EnterLock
  <2>5. CASE ListLock(t)
    BY <2>5 DEF ListLock
  <2>6. CASE NameLock(t)
    BY <2>6 DEF NameLock, NodesWithId
  <2> QED BY <1>4, <2>1, <2>2, <2>3, <2>4, <2>5, <2>6 DEF TakeLock
<1>5. ASSUME NEW t \in Threads, Proceed(t) PROVE TypeOK'
  <2> USE DEF rw_exit_write, rw_exit_read, Pcs
  <2>1. CASE CreateInsert(t)
    BY <2>1, NextIdInRange, WidthAssumption
    DEF CreateInsert, generate_zoneid, Ids
  <2>2. CASE ListOut(t)
    BY <2>2 DEF ListOut
  <2>3. CASE NameOut(t)
    BY <2>3 DEF NameOut
  <2>4. CASE ForkNew(t)
    BY <2>4 DEF ForkNew, ThreadsOk, Stats
  <2> QED BY <1>5, <2>1, <2>2, <2>3, <2>4 DEF Proceed
<1>6. ASSUME NEW p \in Procs, Reap(p) \/ Wait(p) PROVE TypeOK'
  BY <1>6, CountsInRange DEF Reap, Wait, CountOut, Stats
<1> QED BY <1>1, <1>3, <1>4, <1>5, <1>6 DEF Next

-----------------------------------------------------------------------------
(* Threads, processes and forks in flight.                                 *)

\* The boot threads belong to live processes.
LEMMA ThreadsInit == Init => ThreadsOk
  BY ProcsAssumption, ThreadsAssumption DEF Init, ThreadsOk

\* fork1, exit1, the reaper and wait4 keep the process of every thread alive
\* while the thread is in the kernel, and every embryo in the hands of one
\* forking thread.
LEMMA ThreadsStep == TypeOK /\ ThreadsOk /\ [Next]_vars => ThreadsOk'
<1> SUFFICES ASSUME TypeOK, ThreadsOk, [Next]_vars PROVE ThreadsOk'
  OBVIOUS
<1> USE DEF registry, lock, procs, locals, Goto, Return
<1>1. CASE UNCHANGED vars
  BY <1>1 DEF vars, ThreadsOk
\* A step inside one system call moves only the thread's pc.
<1>2. ASSUME NEW t \in Threads, pc[t] \notin {"idl", "fork_new"},
             NEW at \in Pcs \ {"idl", "fork_new"}, Goto(t, at),
             UNCHANGED <<owner, stat, child>>
      PROVE  ThreadsOk'
  BY <1>2 DEF ThreadsOk, TypeOK
<1>3. ASSUME NEW t \in Threads, Call(t) PROVE ThreadsOk'
  <2>1. CASE CreateStart(t)
    BY <2>1, <1>2 DEF CreateStart, Pcs
  <2>2. CASE DestroyStart(t) \/ EnterStart(t) \/ ListStart(t) \/ NameStart(t)
    BY <2>2, <1>2 DEF DestroyStart, EnterStart, ListStart, NameStart, Pcs
  <2>3. CASE ForkStart(t)
    <3>1. PICK q \in Procs, u \in FreeThreads :
            /\ stat[q] = "free"
            /\ stat' = [stat EXCEPT ![q] = "idl"]
            /\ owner' = [owner EXCEPT ![u] = q]
            /\ child' = [child EXCEPT ![t] = q]
      BY <2>3 DEF ForkStart
    <3>2. pc[t] = "user" /\ pc' = [pc EXCEPT ![t] = "fork_new"]
      BY <2>3 DEF ForkStart
    <3>3. u # t /\ u \in Threads /\ owner[u] = NoProc /\ pc[u] = "idl"
      BY <3>2, ProcsAssumption DEF FreeThreads, ThreadsOk
    <3> QED BY <3>1, <3>2, <3>3, ProcsAssumption DEF ThreadsOk, TypeOK
  <2>4. CASE ForkThread(t)
    <3>1. PICK u \in FreeThreads : /\ owner' = [owner EXCEPT ![u] = owner[t]]
                                   /\ pc' = [pc EXCEPT ![u] = "user"]
      BY <2>4 DEF ForkThread
    <3>2. pc[t] = "user" /\ UNCHANGED <<stat, child>>
      BY <2>4 DEF ForkThread
    <3> QED BY <3>1, <3>2 DEF ThreadsOk, TypeOK, FreeThreads
  <2>5. CASE ThreadExit(t)
    BY <2>5, ProcsAssumption DEF ThreadExit, ThreadsOk, TypeOK
  <2>6. CASE Exit(t)
    <3>1. PICK d \in {"dead", "deadnz"} : stat' = [stat EXCEPT ![owner[t]] = d]
      BY <2>6 DEF Exit
    <3>2. /\ pc[t] = "user"
          /\ \A u \in Threads : owner[u] = owner[t] => pc[u] = "user"
          /\ pc' = [u \in Threads |-> IF owner[u] = owner[t] THEN "idl"
                                      ELSE pc[u]]
          /\ owner' = [u \in Threads |-> IF owner[u] = owner[t] THEN NoProc
                                         ELSE owner[u]]
          /\ child' = child
      BY <2>6 DEF Exit, ThreadsOf
    <3> QED BY <3>1, <3>2, ProcsAssumption DEF ThreadsOk, TypeOK
  <2>7. CASE DropRoot(t)
    BY <2>7 DEF DropRoot, ThreadsOk
  <2> QED BY <1>3, <2>1, <2>2, <2>3, <2>4, <2>5, <2>6, <2>7 DEF Call
<1>4. ASSUME NEW t \in Threads, TakeLock(t) PROVE ThreadsOk'
  <2>1. CASE \/ CreateRefused(t) \/ DestroyRefused(t) \/ EnterRefused(t)
             \/ ListRefused(t) \/ NameRefused(t)
    BY <2>1, <1>2 DEF CreateRefused, DestroyRefused, EnterRefused,
                      ListRefused, NameRefused, Pcs
  <2>2. CASE CreateLock(t) \/ DestroyLock(t) \/ EnterLock(t)
    BY <2>2, <1>2 DEF CreateLock, DestroyLock, EnterLock, Pcs
  <2>3. CASE ListLock(t) \/ NameLock(t)
    BY <2>3, <1>2 DEF ListLock, NameLock, Pcs
  <2> QED BY <1>4, <2>1, <2>2, <2>3 DEF TakeLock
<1>5. ASSUME NEW t \in Threads, Proceed(t) PROVE ThreadsOk'
  <2>1. CASE CreateInsert(t) \/ ListOut(t) \/ NameOut(t)
    BY <2>1, <1>2 DEF CreateInsert, ListOut, NameOut, Pcs
  <2>2. CASE ForkNew(t)
    <3>1. /\ pc[t] = "fork_new"
          /\ stat' = [stat EXCEPT ![child[t]] = "run"]
          /\ pc' = [u \in Threads |-> IF u = t \/ owner[u] = child[t]
                                      THEN "user" ELSE pc[u]]
          /\ child' = [child EXCEPT ![t] = NoProc]
          /\ owner' = owner
      BY <2>2 DEF ForkNew
    <3>2. \A u \in Threads : owner[u] = child[t] => pc[u] = "idl"
      BY <3>1 DEF ThreadsOk
    <3> QED BY <3>1, <3>2 DEF ThreadsOk, TypeOK
  <2> QED BY <1>5, <2>1, <2>2 DEF Proceed
<1>6. ASSUME NEW p \in Procs, Reap(p) \/ Wait(p) PROVE ThreadsOk'
  BY <1>6 DEF Reap, Wait, ThreadsOk, TypeOK
<1> QED BY <1>1, <1>3, <1>4, <1>5, <1>6 DEF Next

-----------------------------------------------------------------------------
(* The lock.                                                               *)

\* zone_rwlock is free at boot.
LEMMA LockInit == Init => LockOk
  BY DEF Init, LockOk

\* zone_rwlock is held across every sleep that relies on it.
LEMMA LockStep == TypeOK /\ ThreadsOk /\ LockOk /\ [Next]_vars => LockOk'
<1> SUFFICES ASSUME TypeOK, ThreadsOk, LockOk, [Next]_vars PROVE LockOk'
  OBVIOUS
<1> USE DEF registry, lock, procs, locals, Goto, Return
<1> DEFINE Holding == {"create_insert", "list_all", "list_own", "name_out"}
<1>1. CASE UNCHANGED vars
  BY <1>1 DEF vars, LockOk
\* A step that leaves the lock alone brings no thread to where it is held.
<1>2. ASSUME UNCHANGED lock, \A u \in Threads : pc'[u] = pc[u] \/ pc'[u] \notin Holding
      PROVE  LockOk'
  BY <1>2 DEF LockOk
<1>3. ASSUME NEW t \in Threads, Call(t) PROVE LockOk'
  <2>1. CASE CreateStart(t)
    BY <2>1, <1>2 DEF CreateStart, TypeOK
  <2>2. CASE DestroyStart(t) \/ EnterStart(t) \/ ListStart(t) \/ NameStart(t)
    BY <2>2, <1>2 DEF DestroyStart, EnterStart, ListStart, NameStart, TypeOK
  <2>3. CASE ForkStart(t)
    BY <2>3, <1>2 DEF ForkStart, TypeOK
  <2>4. CASE ForkThread(t)
    BY <2>4, <1>2 DEF ForkThread, TypeOK, FreeThreads
  <2>5. CASE ThreadExit(t)
    BY <2>5, <1>2 DEF ThreadExit, TypeOK
  <2>6. CASE Exit(t)
    BY <2>6, <1>2 DEF Exit, TypeOK
  <2>7. CASE DropRoot(t)
    BY <2>7, <1>2 DEF DropRoot
  <2> QED BY <1>3, <2>1, <2>2, <2>3, <2>4, <2>5, <2>6, <2>7 DEF Call
<1>4. ASSUME NEW t \in Threads, TakeLock(t) PROVE LockOk'
  <2>1. CASE \/ CreateRefused(t) \/ DestroyRefused(t) \/ EnterRefused(t)
             \/ ListRefused(t) \/ NameRefused(t)
    BY <2>1, <1>2 DEF CreateRefused, DestroyRefused, EnterRefused,
                      ListRefused, NameRefused, TypeOK
  <2>2. CASE CreateLock(t)
    BY <2>2, ThreadsAssumption
    DEF CreateLock, rw_enter_write, LockFree, LockOk, TypeOK
  <2>3. CASE DestroyLock(t) \/ EnterLock(t)
    BY <2>3, <1>2 DEF DestroyLock, EnterLock, TypeOK
  <2>4. CASE ListLock(t) \/ NameLock(t)
    BY <2>4, ThreadsAssumption
    DEF ListLock, NameLock, rw_enter_read, LockOk, TypeOK
  <2> QED BY <1>4, <2>1, <2>2, <2>3, <2>4 DEF TakeLock
<1>5. ASSUME NEW t \in Threads, Proceed(t) PROVE LockOk'
  <2>1. CASE CreateInsert(t)
    BY <2>1 DEF CreateInsert, rw_exit_write, LockOk, TypeOK
  <2>2. CASE ListOut(t) \/ NameOut(t)
    BY <2>2 DEF ListOut, NameOut, rw_exit_read, LockOk, TypeOK
  <2>3. CASE ForkNew(t)
    BY <2>3, <1>2 DEF ForkNew
  <2> QED BY <1>5, <2>1, <2>2, <2>3 DEF Proceed
<1>6. ASSUME NEW p \in Procs, Reap(p) \/ Wait(p) PROVE LockOk'
  BY <1>6 DEF Reap, Wait, LockOk
<1> QED BY <1>1, <1>3, <1>4, <1>5, <1>6 DEF Next

-----------------------------------------------------------------------------
(* Counts and the zones processes point at.                                *)

\* A part of a finite set is finite and no larger.
LEMMA CardMono ==
  ASSUME NEW S, IsFiniteSet(S), NEW T, T \subseteq S
  PROVE  IsFiniteSet(T) /\ Cardinality(T) \in Nat /\ Cardinality(T) <= Cardinality(S)
  BY FS_Subset, FS_CardinalityType

\* Adding at most one element to a finite set adds at most one to its size.
LEMMA CardPlus ==
  ASSUME NEW S, IsFiniteSet(S), NEW x, NEW T, T \subseteq S \cup {x}
  PROVE  Cardinality(T) <= Cardinality(S) + 1
<1>1. /\ IsFiniteSet(S \cup {x})
      /\ Cardinality(S \cup {x}) <= Cardinality(S) + 1
      /\ Cardinality(S \cup {x}) \in Nat /\ Cardinality(S) \in Nat
  BY FS_AddElement, FS_CardinalityType
<1>2. Cardinality(T) <= Cardinality(S \cup {x}) /\ Cardinality(T) \in Nat
  BY <1>1, CardMono
<1> QED BY <1>1, <1>2

\* Taking an element out of a finite set takes one from its size.
LEMMA CardMinus ==
  ASSUME NEW S, IsFiniteSet(S), NEW x \in S, NEW T, T \subseteq S \ {x}
  PROVE  Cardinality(T) <= Cardinality(S) - 1
<1>1. /\ IsFiniteSet(S \ {x})
      /\ Cardinality(S \ {x}) = Cardinality(S) - 1
      /\ Cardinality(S) \in Nat
  BY FS_RemoveElement, FS_CardinalityType
<1>2. Cardinality(T) <= Cardinality(S \ {x}) /\ Cardinality(T) \in Nat
  BY <1>1, CardMono
<1> QED BY <1>1, <1>2

\* The members of a node are finitely many: process_pool is bounded.
LEMMA MembersFinite ==
  ASSUME NEW n
  PROVE  IsFiniteSet(Members(n)) /\ Cardinality(Members(n)) \in Nat
<1>1. Members(n) \subseteq Procs
  BY DEF Members
<1> QED BY <1>1, CardMono, ProcsAssumption

\* A node with no count has no member.
LEMMA NoMembers ==
  ASSUME NEW n, Cardinality(Members(n)) <= 0 PROVE Members(n) = {}
  BY MembersFinite, FS_EmptySet

Counts == CountCoversMembers /\ NoDangling

\* No process is in a zone at boot.
LEMMA CountsInit == Init => Counts
<1> SUFFICES ASSUME Init PROVE Counts
  OBVIOUS
<1> QED BY DEF Init, Counts, CountCoversMembers, NoDangling

\* A step that touches neither the counts nor the tree, and adds no member.
LEMMA CountsQuiet ==
  ASSUME TypeOK, Counts, UNCHANGED <<tree, ps_total>>,
         \A p \in Procs : Unreaped(p)' => /\ Unreaped(p) /\ ps_zone'[p] = ps_zone[p]
                                         \/ ps_zone'[p] = NULL
  PROVE  Counts'
<1>1. \A p \in Procs : Unreaped(p)' => ps_zone'[p] \in tree \cup {NULL}
  BY DEF Counts, NoDangling
<1>2. ASSUME NEW n \in tree
      PROVE Cardinality(Members(n)') <= ps_total[n]
  <2>1. Members(n)' \subseteq Members(n)
    BY NodesAssumption DEF Members, TypeOK
  <2>2. Cardinality(Members(n)) <= ps_total[n] /\ ps_total[n] \in Int
    BY DEF Counts, CountCoversMembers, TypeOK
  <2> QED BY <2>1, <2>2, CardMono, MembersFinite
<1> QED BY <1>1, <1>2 DEF Counts, CountCoversMembers, NoDangling

\* A step that counts node n in and makes at most one process its member.
LEMMA CountsJoin ==
  ASSUME TypeOK, Counts, TotalBound <= CountMax,
         NEW n \in tree, ps_total[n] < TotalBound, CountIn(n), tree' = tree,
         NEW q,
         \A p \in Procs : Unreaped(p)' =>
            /\ Unreaped(p)
            /\ ps_zone'[p] = ps_zone[p] \/ (p = q /\ ps_zone'[p] = n)
  PROVE  Counts'
<1>0. n \in Nodes /\ ps_total \in [Nodes -> 0..CountMax]
  BY DEF TypeOK
<1>1. ps_total'[n] = ps_total[n] + 1 /\ \A m \in Nodes \ {n} : ps_total'[m] = ps_total[m]
  BY <1>0, WidthAssumption DEF CountIn, Inc
<1>2. \A p \in Procs : Unreaped(p)' => ps_zone'[p] \in tree \cup {NULL}
  BY DEF Counts, NoDangling
<1>3. ASSUME NEW m \in tree
      PROVE Cardinality(Members(m)') <= ps_total'[m]
  <2>1. Cardinality(Members(m)) <= ps_total[m] /\ ps_total[m] \in Int
    BY DEF Counts, CountCoversMembers, TypeOK
  <2>2. CASE m = n
    <3>1. Members(n)' \subseteq Members(n) \cup {q}
      BY DEF Members
    <3>2. Cardinality(Members(n)') <= Cardinality(Members(n)) + 1
      BY <3>1, CardPlus, MembersFinite
    <3>3. Members(n)' \subseteq Procs
      BY DEF Members
    <3>4. Cardinality(Members(n)') \in Nat
      BY <3>3, CardMono, ProcsAssumption
    <3> QED BY <1>1, <2>1, <2>2, <3>2, <3>4, MembersFinite
  <2>3. CASE m # n
    <3>1. Members(m)' \subseteq Members(m)
      BY <2>3 DEF Members
    <3>2. m \in Nodes \ {n}
      BY <2>3 DEF TypeOK
    <3> QED BY <1>1, <2>1, <3>1, <3>2, CardMono, MembersFinite
  <2> QED BY <2>2, <2>3
<1> QED BY <1>2, <1>3 DEF Counts, CountCoversMembers, NoDangling

\* fork1's store through the uninitialised pr moves a process into a zone
\* that has just been counted up, so it cannot break the counts.
LEMMA CountsCopyZone ==
  ASSUME TypeOK, Counts, TotalBound <= CountMax,
         NEW p \in Procs, Unreaped(p), CopyZone(p), tree' = tree,
         \A q \in Procs : Unreaped(q)' => Unreaped(q)
  PROVE  Counts'
<1>1. CASE is_process_global(p) /\ UNCHANGED <<ps_zone, ps_total>>
  BY <1>1, CountsQuiet
<1>2. CASE ~is_process_global(p)
  <2>1. ps_zone[p] \in tree
    BY <1>2 DEF Counts, NoDangling, is_process_global
  <2>2. ps_total[ps_zone[p]] < TotalBound /\ CountIn(ps_zone[p])
    BY <1>2 DEF CopyZone
  <2>3. CASE UNCHANGED ps_zone
    BY <2>1, <2>2, <2>3, CountsJoin
  <2>4. CASE \E pr \in StalePr : ps_zone' = [ps_zone EXCEPT ![pr] = ps_zone[p]]
    <3>1. PICK pr \in StalePr : ps_zone' = [ps_zone EXCEPT ![pr] = ps_zone[p]]
      BY <2>4
    <3>2. \A q \in Procs : ps_zone'[q] = ps_zone[q] \/ (q = pr /\ ps_zone'[q] = ps_zone[p])
      BY <3>1 DEF TypeOK
    <3> QED BY <2>1, <2>2, <3>2, CountsJoin
  <2> QED BY <1>2, <2>3, <2>4 DEF CopyZone
<1> QED BY <1>1, <1>2 DEF CopyZone

\* Every step keeps the counts at or above the members, and the zones of the
\* processes that are not reaped in the tree.
LEMMA CountsStep ==
  ASSUME TotalBound <= CountMax
  PROVE  TypeOK /\ ThreadsOk /\ Counts /\ [Next]_vars => Counts'
<1> SUFFICES ASSUME TypeOK, ThreadsOk, Counts, [Next]_vars PROVE Counts'
  OBVIOUS
<1> USE DEF registry, lock, procs, locals
\* Most steps leave everything the counts are about alone.
<1>1. ASSUME UNCHANGED <<tree, ps_total, ps_zone, stat>> PROVE Counts'
  BY <1>1, CountsQuiet DEF Unreaped
<1>2. ASSUME NEW t \in Threads, Call(t) PROVE Counts'
  <2>1. CASE CreateStart(t)
    BY <2>1, <1>1 DEF CreateStart
  <2>2. CASE DestroyStart(t) \/ EnterStart(t) \/ ListStart(t) \/ NameStart(t)
    BY <2>2, <1>1 DEF DestroyStart, EnterStart, ListStart, NameStart
  <2>3. CASE ForkStart(t)
    <3>1. owner[t] \in Procs /\ Unreaped(owner[t])
      BY <2>3 DEF ForkStart, ThreadsOk, Unreaped
    <3>2. PICK q \in Procs : stat' = [stat EXCEPT ![q] = "idl"]
      BY <2>3 DEF ForkStart
    <3>3. \A p \in Procs : Unreaped(p)' => Unreaped(p)
      BY <3>2 DEF Unreaped, TypeOK
    <3>4. CopyZone(owner[t]) /\ tree' = tree
      BY <2>3 DEF ForkStart
    <3> QED BY <3>1, <3>3, <3>4, CountsCopyZone
  <2>4. CASE ForkThread(t)
    <3>1. owner[t] \in Procs /\ Unreaped(owner[t])
      BY <2>4 DEF ForkThread, ThreadsOk, Unreaped
    <3>2. CopyZone(owner[t]) /\ tree' = tree /\ stat' = stat
      BY <2>4 DEF ForkThread
    <3> QED BY <3>1, <3>2, CountsCopyZone DEF Unreaped
  <2>5. CASE ThreadExit(t) \/ DropRoot(t)
    BY <2>5, <1>1 DEF ThreadExit, DropRoot
  <2>6. CASE Exit(t)
    <3>1. owner[t] \in Procs /\ Unreaped(owner[t])
      BY <2>6 DEF Exit, ThreadsOk, Unreaped
    <3>2. PICK d \in {"dead", "deadnz"} : stat' = [stat EXCEPT ![owner[t]] = d]
      BY <2>6 DEF Exit
    <3>3. \A p \in Procs : Unreaped(p)' => Unreaped(p)
      BY <3>1, <3>2 DEF Unreaped, TypeOK
    <3> QED BY <2>6, <3>3, CountsQuiet DEF Exit
  <2> QED BY <1>2, <2>1, <2>2, <2>3, <2>4, <2>5, <2>6 DEF Call
<1>3. ASSUME NEW t \in Threads, TakeLock(t) PROVE Counts'
  <2>1. CASE \/ CreateRefused(t) \/ DestroyRefused(t) \/ EnterRefused(t)
             \/ ListRefused(t) \/ NameRefused(t)
    BY <2>1, <1>1 DEF CreateRefused, DestroyRefused, EnterRefused,
                      ListRefused, NameRefused
  <2>2. CASE CreateLock(t) \/ ListLock(t) \/ NameLock(t)
    BY <2>2, <1>1 DEF CreateLock, ListLock, NameLock
  <2>3. CASE DestroyLock(t)
    <3>1. PICK n \in tree : ps_total[n] = 0 /\ tree' = tree \ {n}
      BY <2>3 DEF DestroyLock, NodesWithId, Destroyable
    <3>2. UNCHANGED <<ps_total, ps_zone, stat>>
      BY <2>3 DEF DestroyLock
    <3>3. Members(n) = {}
      BY <3>1, NoMembers DEF Counts, CountCoversMembers
    <3>4. NoDangling'
      BY <3>1, <3>2, <3>3 DEF Counts, NoDangling, Unreaped, Members
    <3>5. \A m : Members(m)' = Members(m)
      BY <3>2 DEF Members, Unreaped
    <3> QED BY <3>1, <3>2, <3>4, <3>5 DEF Counts, CountCoversMembers
  <2>4. CASE EnterLock(t)
    <3>1. PICK n \in tree : /\ ps_total[n] < TotalBound
                            /\ ps_zone' = [ps_zone EXCEPT ![owner[t]] = n]
                            /\ CountIn(n)
      BY <2>4 DEF EnterLock, NodesWithId
    <3>2. tree' = tree /\ stat' = stat
      BY <2>4 DEF EnterLock
    <3>3. \A p \in Procs : ps_zone'[p] = ps_zone[p] \/ (p = owner[t] /\ ps_zone'[p] = n)
      BY <3>1 DEF TypeOK
    <3> QED BY <3>1, <3>2, <3>3, CountsJoin DEF Unreaped
  <2> QED BY <1>3, <2>1, <2>2, <2>3, <2>4 DEF TakeLock
<1>4. ASSUME NEW t \in Threads, Proceed(t) PROVE Counts'
  <2>1. CASE CreateInsert(t)
    <3>1. PICK n \in Nodes \ tree : /\ ps_total' = [ps_total EXCEPT ![n] = 0]
                                    /\ tree' = tree \cup {n}
      BY <2>1 DEF CreateInsert
    <3>2. UNCHANGED <<ps_zone, stat>>
      BY <2>1 DEF CreateInsert
    <3>3. \A m : Members(m)' = Members(m)
      BY <3>2 DEF Members, Unreaped
    <3>4. Members(n) = {} /\ ps_total'[n] = 0
      BY <3>1, NodesAssumption DEF Members, Counts, NoDangling, TypeOK
    <3>5. \A m \in tree : ps_total'[m] = ps_total[m]
      BY <3>1 DEF TypeOK
    <3>6. NoDangling'
      BY <3>1, <3>2 DEF Counts, NoDangling, Unreaped
    <3>7. CountCoversMembers'
      BY <3>1, <3>3, <3>4, <3>5, FS_EmptySet DEF Counts, CountCoversMembers
    <3> QED BY <3>6, <3>7 DEF Counts
  <2>2. CASE ListOut(t) \/ NameOut(t)
    BY <2>2, <1>1 DEF ListOut, NameOut
  <2>3. CASE ForkNew(t)
    <3>1. child[t] \in Procs
      BY <2>3 DEF ForkNew, ThreadsOk
    <3>2. \A p \in Procs : \/ p = child[t] /\ ps_zone'[p] = NULL
                           \/ ps_zone'[p] = ps_zone[p] /\ stat'[p] = stat[p]
      BY <2>3, <3>1 DEF ForkNew, TypeOK
    <3> QED BY <2>3, <3>2, CountsQuiet DEF ForkNew, Unreaped
  <2> QED BY <1>4, <2>1, <2>2, <2>3 DEF Proceed
<1>5. ASSUME NEW p \in Procs, Wait(p) PROVE Counts'
  <2>1. \A q \in Procs : Unreaped(q)' => Unreaped(q)
    BY <1>5 DEF Wait, Unreaped, TypeOK
  <2> QED BY <1>5, <2>1, CountsQuiet DEF Wait
<1>6. ASSUME NEW p \in Procs, Reap(p) PROVE Counts'
  <2>1. /\ Unreaped(p) /\ tree' = tree /\ ps_zone' = ps_zone
        /\ \A q \in Procs : Unreaped(q)' => Unreaped(q) /\ q # p
    BY <1>6 DEF Reap, Unreaped, TypeOK
  <2>2. CASE is_process_global(p) /\ UNCHANGED ps_total
    BY <2>1, <2>2, CountsQuiet
  <2>3. CASE ~is_process_global(p) /\ CountOut(ps_zone[p])
    <3>1. ps_zone[p] \in tree
      BY <2>1, <2>3 DEF Counts, NoDangling, is_process_global
    <3>2. p \in Members(ps_zone[p])
      BY <2>1 DEF Members
    <3>3. Cardinality(Members(ps_zone[p])) <= ps_total[ps_zone[p]]
      BY <3>1 DEF Counts, CountCoversMembers
    <3>4. Cardinality(Members(ps_zone[p])') <= Cardinality(Members(ps_zone[p])) - 1
      <4>1. Members(ps_zone[p])' \subseteq Members(ps_zone[p]) \ {p}
        BY <2>1 DEF Members
      <4> QED BY <3>2, <4>1, CardMinus, MembersFinite
    <3>5. Members(ps_zone[p])' \subseteq Procs
      BY DEF Members
    <3>6. Cardinality(Members(ps_zone[p])') \in Nat
      BY <3>5, CardMono, ProcsAssumption
    <3>7. /\ ps_total[ps_zone[p]] \in Nat
          /\ ps_total'[ps_zone[p]] = IF ps_total[ps_zone[p]] = 0 THEN CountMax
                                     ELSE ps_total[ps_zone[p]] - 1
          /\ \A m \in Nodes : m # ps_zone[p] => ps_total'[m] = ps_total[m]
      BY <2>3, <3>1, WidthAssumption DEF CountOut, Dec, TypeOK
    <3>8. Cardinality(Members(ps_zone[p])') <= ps_total'[ps_zone[p]]
      BY <3>3, <3>4, <3>6, <3>7, MembersFinite
    <3>9. ASSUME NEW m \in tree, m # ps_zone[p]
          PROVE  Cardinality(Members(m)') <= ps_total'[m]
      <4>1. Members(m)' \subseteq Members(m)
        BY <2>1 DEF Members
      <4>2. Cardinality(Members(m)) <= ps_total[m] /\ ps_total[m] \in Int
        BY <3>9 DEF Counts, CountCoversMembers, TypeOK
      <4>3. ps_total'[m] = ps_total[m]
        BY <3>7, <3>9 DEF TypeOK
      <4> QED BY <4>1, <4>2, <4>3, CardMono, MembersFinite
    <3>10. \A m \in tree' : Cardinality(Members(m)') <= ps_total'[m]
      BY <2>1, <3>8, <3>9
    <3>11. NoDangling'
      BY <2>1 DEF Counts, NoDangling
    <3> QED BY <3>10, <3>11 DEF Counts, CountCoversMembers
  <2> QED BY <1>6, <2>2, <2>3 DEF Reap
<1>7. CASE UNCHANGED vars
  BY <1>7, <1>1 DEF vars
<1> QED BY <1>2, <1>3, <1>4, <1>5, <1>6, <1>7 DEF Next

-----------------------------------------------------------------------------
(* The tree: names, ids and their number.                                  *)

Registry == CreatorOk /\ UniqueNames /\ UniqueIds /\ TotalExact

\* The tree is empty at boot.
LEMMA RegistryInit == Init => Registry
  BY FS_EmptySet, NodesFinite, ThreadsAssumption
  DEF Init, Registry, CreatorOk, UniqueNames, UniqueIds, TotalExact

\* Only create and destroy change the tree, and a creator's two checks stay
\* true while it sleeps because it holds the write lock.
LEMMA RegistryStep == TypeOK /\ LockOk /\ Registry /\ [Next]_vars => Registry'
<1> SUFFICES ASSUME TypeOK, LockOk, Registry, [Next]_vars PROVE Registry'
  OBVIOUS
<1> USE DEF registry, lock, procs, locals, Goto, Return
<1> DEFINE Creating == {"create_lock", "create_insert"}
<1>1. ASSUME UNCHANGED registry,
             \A u \in Threads : pc'[u] \in Creating
                               => pc'[u] = pc[u] /\ buffer'[u] = buffer[u]
      PROVE  Registry'
  BY <1>1 DEF Registry, CreatorOk, UniqueNames, UniqueIds, TotalExact, Full,
              NodesNamed
<1>2. ASSUME NEW t \in Threads, Call(t) PROVE Registry'
  <2>1. CASE CreateStart(t)
    <3>1. PICK name \in Names : buffer' = [buffer EXCEPT ![t] = name]
      BY <2>1 DEF CreateStart
    <3>2. UNCHANGED registry /\ pc' = [pc EXCEPT ![t] = "create_lock"]
      BY <2>1 DEF CreateStart
    <3> QED BY <3>1, <3>2
        DEF Registry, CreatorOk, UniqueNames, UniqueIds, TotalExact, Full,
            NodesNamed, TypeOK
  <2>2. CASE DestroyStart(t) \/ EnterStart(t) \/ ListStart(t) \/ NameStart(t)
    BY <2>2, <1>1 DEF DestroyStart, EnterStart, ListStart, NameStart, TypeOK
  <2>3. CASE ForkStart(t)
    BY <2>3, <1>1 DEF ForkStart, TypeOK
  <2>4. CASE ForkThread(t)
    BY <2>4, <1>1 DEF ForkThread, FreeThreads, TypeOK
  <2>5. CASE ThreadExit(t) \/ Exit(t) \/ DropRoot(t)
    BY <2>5, <1>1 DEF ThreadExit, Exit, DropRoot, TypeOK
  <2> QED BY <1>2, <2>1, <2>2, <2>3, <2>4, <2>5 DEF Call
<1>3. ASSUME NEW t \in Threads, TakeLock(t) PROVE Registry'
  <2>1. CASE \/ CreateRefused(t) \/ DestroyRefused(t) \/ EnterRefused(t)
             \/ ListRefused(t) \/ NameRefused(t)
    BY <2>1, <1>1 DEF CreateRefused, DestroyRefused, EnterRefused,
                      ListRefused, NameRefused, TypeOK
  <2>2. CASE CreateLock(t)
    BY <2>2
    DEF CreateLock, Registry, CreatorOk, UniqueNames, UniqueIds, TotalExact,
        Full, NodesNamed, TypeOK
  <2>3. CASE DestroyLock(t)
    <3>1. PICK n \in tree : tree' = tree \ {n}
      BY <2>3 DEF DestroyLock, NodesWithId
    <3>2. /\ current_zones_total' = current_zones_total - 1
          /\ UNCHANGED <<zone_id, zone_name, buffer>>
          /\ pc' = [pc EXCEPT ![t] = "user"]
          /\ writer = NoThread
      BY <2>3 DEF DestroyLock, LockFree
    <3>3. IsFiniteSet(tree) /\ Cardinality(tree) \in Nat
      BY NodesFinite, CardMono DEF TypeOK
    <3>4. TotalExact'
      <4>1. Cardinality(tree \ {n}) = Cardinality(tree) - 1
        BY <3>1, <3>3, FS_RemoveElement
      <4> QED BY <3>1, <3>2, <3>3, <4>1, NodesFinite DEF Registry, TotalExact
    <3>5. \A u \in Threads : pc[u] # "create_insert"
      BY <3>2, ThreadsAssumption DEF LockOk
    <3>6. CreatorOk'
      BY <3>1, <3>2, <3>5 DEF Registry, CreatorOk, TypeOK
    <3>7. UniqueNames' /\ UniqueIds'
      BY <3>1, <3>2 DEF Registry, UniqueNames, UniqueIds
    <3> QED BY <3>4, <3>6, <3>7 DEF Registry
  <2>4. CASE EnterLock(t) \/ ListLock(t) \/ NameLock(t)
    BY <2>4, <1>1 DEF EnterLock, ListLock, NameLock, TypeOK
  <2> QED BY <1>3, <2>1, <2>2, <2>3, <2>4 DEF TakeLock
<1>4. ASSUME NEW t \in Threads, Proceed(t) PROVE Registry'
  <2>1. CASE CreateInsert(t)
    <3>1. PICK n \in Nodes \ tree, id \in Ids :
            /\ id \notin UsedIds
            /\ zone_id' = [zone_id EXCEPT ![n] = id]
            /\ zone_name' = [zone_name EXCEPT ![n] = buffer[t]]
            /\ tree' = tree \cup {n}
      BY <2>1 DEF CreateInsert, generate_zoneid
    <3>2. /\ pc[t] = "create_insert"
          /\ current_zones_total' = current_zones_total + 1
          /\ buffer' = [buffer EXCEPT ![t] = NoName]
          /\ pc' = [pc EXCEPT ![t] = "user"]
      BY <2>1 DEF CreateInsert
    <3>3. /\ buffer[t] \in Names
          /\ \A m \in tree : zone_name[m] # buffer[t]
          /\ current_zones_total < MaxZones
      BY <3>2, NodesFinite DEF Registry, CreatorOk, NodesNamed, Full, TypeOK
    <3>4. \A m \in tree : /\ zone_id'[m] = zone_id[m] /\ zone_id[m] # id
                          /\ zone_name'[m] = zone_name[m] /\ m # n
      BY <3>1 DEF UsedIds, TypeOK
    <3>5. zone_id'[n] = id /\ zone_name'[n] = buffer[t]
      BY <3>1 DEF TypeOK
    <3>6. UniqueNames' /\ UniqueIds'
      BY <3>1, <3>3, <3>4, <3>5 DEF Registry, UniqueNames, UniqueIds
    <3>7. IsFiniteSet(tree)
      BY NodesFinite, CardMono DEF TypeOK
    <3>8. TotalExact'
      BY <3>1, <3>2, <3>3, <3>7, FS_AddElement, FS_CardinalityType, NodesFinite
      DEF Registry, TotalExact
    <3>9. \A u \in Threads : u # t => pc[u] # "create_insert"
      BY <3>2 DEF LockOk
    <3>10. CreatorOk'
      BY <3>1, <3>2, <3>3, <3>4, <3>5, <3>9 DEF Registry, CreatorOk, TypeOK
    <3> QED BY <3>6, <3>8, <3>10 DEF Registry
  <2>2. CASE ListOut(t) \/ NameOut(t)
    BY <2>2, <1>1 DEF ListOut, NameOut, TypeOK
  <2>3. CASE ForkNew(t)
    BY <2>3, <1>1 DEF ForkNew
  <2> QED BY <1>4, <2>1, <2>2, <2>3 DEF Proceed
<1>5. ASSUME NEW p \in Procs, Reap(p) \/ Wait(p) PROVE Registry'
  BY <1>5, <1>1 DEF Reap, Wait
<1>6. CASE UNCHANGED vars
  BY <1>6, <1>1 DEF vars
<1> QED BY <1>2, <1>3, <1>4, <1>5, <1>6 DEF Next

-----------------------------------------------------------------------------
(* What a system call holds across a sleep.                                *)

\* Nobody is inside zone_list at boot.
LEMMA ListerInit == Init => ListerOk
  BY DEF Init, ListerOk

\* No step takes a running process back to the global zone.
LEMMA ListerStep ==
  TypeOK /\ ThreadsOk /\ ListerOk /\ [Next]_vars => ListerOk'
<1> SUFFICES ASSUME TypeOK, ThreadsOk, ListerOk, [Next]_vars PROVE ListerOk'
  OBVIOUS
<1> USE DEF registry, lock, procs, locals, Goto, Return
\* Steps that bring no thread to list_own, move no such thread to another
\* process and take no process but an embryo back to the global zone.
<1>1. ASSUME \A u \in Threads : pc'[u] = "list_own"
                               => pc[u] = "list_own" /\ owner'[u] = owner[u],
             \A p \in Procs : \/ ps_zone[p] # NULL => ps_zone'[p] # NULL
                             \/ stat[p] = "idl"
      PROVE  ListerOk'
  BY <1>1 DEF ListerOk, ThreadsOk, is_process_global
<1>2. ASSUME NEW p \in Procs, CopyZone(p)
      PROVE  \A q \in Procs : ps_zone[q] # NULL => ps_zone'[q] # NULL
  BY <1>2 DEF CopyZone, TypeOK, is_process_global
<1>3. ASSUME NEW t \in Threads, Call(t) PROVE ListerOk'
  <2>1. CASE \/ CreateStart(t) \/ DestroyStart(t) \/ EnterStart(t)
             \/ ListStart(t) \/ NameStart(t)
    BY <2>1, <1>1 DEF CreateStart, DestroyStart, EnterStart, ListStart,
                      NameStart, TypeOK
  <2>2. CASE ForkStart(t)
    <3>1. owner[t] \in Procs
      BY <2>2 DEF ForkStart, ThreadsOk
    <3>2. \A u \in Threads : pc'[u] = "list_own" => pc[u] = "list_own"
      BY <2>2 DEF ForkStart, TypeOK
    <3>3. \A u \in Threads : pc[u] = "list_own" => owner'[u] = owner[u]
      BY <2>2, ProcsAssumption DEF ForkStart, FreeThreads, ThreadsOk, TypeOK
    <3> QED BY <2>2, <3>1, <3>2, <3>3, <1>1, <1>2 DEF ForkStart
  <2>3. CASE ForkThread(t)
    <3>1. owner[t] \in Procs
      BY <2>3 DEF ForkThread, ThreadsOk
    <3>2. \A u \in Threads : pc'[u] = "list_own" => pc[u] = "list_own"
      BY <2>3 DEF ForkThread, FreeThreads, TypeOK
    <3>3. \A u \in Threads : pc[u] = "list_own" => owner'[u] = owner[u]
      BY <2>3, ProcsAssumption DEF ForkThread, FreeThreads, ThreadsOk, TypeOK
    <3> QED BY <2>3, <3>1, <3>2, <3>3, <1>1, <1>2 DEF ForkThread
  <2>4. CASE ThreadExit(t) \/ DropRoot(t)
    BY <2>4, <1>1 DEF ThreadExit, DropRoot, TypeOK
  <2>5. CASE Exit(t)
    BY <2>5, <1>1 DEF Exit, TypeOK
  <2> QED BY <1>3, <2>1, <2>2, <2>3, <2>4, <2>5 DEF Call
<1>4. ASSUME NEW t \in Threads, TakeLock(t) PROVE ListerOk'
  <2>1. CASE \/ CreateRefused(t) \/ DestroyRefused(t) \/ EnterRefused(t)
             \/ ListRefused(t) \/ NameRefused(t)
    BY <2>1, <1>1 DEF CreateRefused, DestroyRefused, EnterRefused,
                      ListRefused, NameRefused, TypeOK
  <2>2. CASE CreateLock(t) \/ DestroyLock(t) \/ NameLock(t)
    BY <2>2, <1>1 DEF CreateLock, DestroyLock, NameLock, TypeOK
  <2>3. CASE EnterLock(t)
    BY <2>3, <1>1, NodesAssumption DEF EnterLock, NodesWithId, TypeOK
  <2>4. CASE ListLock(t)
    BY <2>4 DEF ListLock, ListerOk, is_process_global, TypeOK
  <2> QED BY <1>4, <2>1, <2>2, <2>3, <2>4 DEF TakeLock
<1>5. ASSUME NEW t \in Threads, Proceed(t) PROVE ListerOk'
  <2>1. CASE CreateInsert(t) \/ ListOut(t) \/ NameOut(t)
    BY <2>1, <1>1 DEF CreateInsert, ListOut, NameOut, TypeOK
  <2>2. CASE ForkNew(t)
    BY <2>2, <1>1 DEF ForkNew, ThreadsOk, TypeOK
  <2> QED BY <1>5, <2>1, <2>2 DEF Proceed
<1>6. ASSUME NEW p \in Procs, Reap(p) \/ Wait(p) PROVE ListerOk'
  BY <1>6, <1>1 DEF Reap, Wait
<1>7. CASE UNCHANGED vars
  BY <1>7, <1>1 DEF vars
<1> QED BY <1>3, <1>4, <1>5, <1>6, <1>7 DEF Next

\* The node zone_name found and the size zone_list took stay right because
\* their reader keeps writers out of the tree.
ReadersOk ==
  \A t \in Threads :
    /\ pc[t] = "name_out" => zn[t] \in tree
    /\ pc[t] = "list_all" => kernel_zones[t] = Cardinality(tree)

\* Nobody sleeps inside zone_list or zone_name at boot.
LEMMA ReadersInit == Init => ReadersOk
  BY DEF Init, ReadersOk

\* The read lock keeps creators and destroyers away from what zone_list and
\* zone_name hold while they sleep.
LEMMA ReadersStep ==
  TypeOK /\ LockOk /\ TotalExact /\ ReadersOk /\ [Next]_vars => ReadersOk'
<1> SUFFICES ASSUME TypeOK, LockOk, TotalExact, ReadersOk, [Next]_vars
             PROVE  ReadersOk'
  OBVIOUS
<1> USE DEF registry, lock, procs, locals, Goto, Return
<1> DEFINE Reading == {"name_out", "list_all"}
<1>1. ASSUME tree' = tree,
             \A u \in Threads : pc'[u] \in Reading
               => /\ pc'[u] = pc[u] /\ zn'[u] = zn[u]
                  /\ kernel_zones'[u] = kernel_zones[u]
      PROVE  ReadersOk'
  BY <1>1 DEF ReadersOk
\* A step of a thread that finds no reader.
<1>2. ASSUME readers = {}, \A u \in Threads : pc'[u] \in Reading => pc'[u] = pc[u]
      PROVE  ReadersOk'
  BY <1>2 DEF LockOk, ReadersOk
<1>3. ASSUME NEW t \in Threads, Call(t) PROVE ReadersOk'
  <2>1. CASE \/ CreateStart(t) \/ DestroyStart(t) \/ EnterStart(t)
             \/ ListStart(t) \/ NameStart(t)
    BY <2>1, <1>1 DEF CreateStart, DestroyStart, EnterStart, ListStart,
                      NameStart, TypeOK
  <2>2. CASE ForkStart(t) \/ ForkThread(t)
    BY <2>2, <1>1 DEF ForkStart, ForkThread, FreeThreads, TypeOK
  <2>3. CASE ThreadExit(t) \/ Exit(t) \/ DropRoot(t)
    BY <2>3, <1>1 DEF ThreadExit, Exit, DropRoot, TypeOK
  <2> QED BY <1>3, <2>1, <2>2, <2>3 DEF Call
<1>4. ASSUME NEW t \in Threads, TakeLock(t) PROVE ReadersOk'
  <2>1. CASE \/ CreateRefused(t) \/ DestroyRefused(t) \/ EnterRefused(t)
             \/ ListRefused(t) \/ NameRefused(t)
    BY <2>1, <1>1 DEF CreateRefused, DestroyRefused, EnterRefused,
                      ListRefused, NameRefused, TypeOK
  <2>2. CASE CreateLock(t) \/ EnterLock(t)
    BY <2>2, <1>1 DEF CreateLock, EnterLock, TypeOK
  <2>3. CASE DestroyLock(t)
    BY <2>3, <1>2 DEF DestroyLock, LockFree, TypeOK
  <2>4. CASE ListLock(t)
    BY <2>4 DEF ListLock, ReadersOk, TotalExact, TypeOK
  <2>5. CASE NameLock(t)
    BY <2>5 DEF NameLock, ReadersOk, NodesWithId, TypeOK
  <2> QED BY <1>4, <2>1, <2>2, <2>3, <2>4, <2>5 DEF TakeLock
<1>5. ASSUME NEW t \in Threads, Proceed(t) PROVE ReadersOk'
  <2>1. CASE CreateInsert(t)
    <3>1. readers = {}
      BY <2>1, ThreadsAssumption DEF CreateInsert, LockOk
    <3> QED BY <2>1, <3>1, <1>2 DEF CreateInsert, TypeOK
  <2>2. CASE ListOut(t) \/ NameOut(t)
    BY <2>2, <1>1 DEF ListOut, NameOut, TypeOK
  <2>3. CASE ForkNew(t)
    BY <2>3, <1>1 DEF ForkNew
  <2> QED BY <1>5, <2>1, <2>2, <2>3 DEF Proceed
<1>6. ASSUME NEW p \in Procs, Reap(p) \/ Wait(p) PROVE ReadersOk'
  BY <1>6, <1>1 DEF Reap, Wait
<1>7. CASE UNCHANGED vars
  BY <1>7, <1>1 DEF vars
<1> QED BY <1>3, <1>4, <1>5, <1>6, <1>7 DEF Next

\* The parts proved step by step make up HeldAcrossSleep.
LEMMA HeldFollows ==
  ThreadsOk /\ ListerOk /\ NoDangling /\ ReadersOk => HeldAcrossSleep
  BY DEF ThreadsOk, ListerOk, NoDangling, ReadersOk, HeldAcrossSleep, Unreaped,
         is_process_global

-----------------------------------------------------------------------------
(* The theorems.                                                           *)

\* Every variable keeps its type, whatever the bounds: in particular a process
\* structure only ever points at a zone node or nowhere, whatever structure the
\* uninitialised pr of fork1 designates.
THEOREM TypeCorrect == Spec => []TypeOK
<1>1. Init => TypeOK /\ ThreadsOk
  BY TypeInit, ThreadsInit
<1>2. TypeOK /\ ThreadsOk /\ [Next]_vars => (TypeOK /\ ThreadsOk)'
  BY TypeStep, ThreadsStep
<1> QED BY <1>1, <1>2, PTL DEF Spec

\* Names and ids are unique, the total is the number of zones and at most
\* MAXZONES: creators and destroyers do not step on each other even where
\* zone_create sleeps, and generate_zoneid survives its own wrap-around.
THEOREM RegistryCorrect == Spec => []RegistryOK
<1> DEFINE Inv == TypeOK /\ ThreadsOk /\ LockOk /\ Registry
<1>1. Init => Inv
  BY TypeInit, ThreadsInit, LockInit, RegistryInit
<1>2. Inv /\ [Next]_vars => Inv'
  BY TypeStep, ThreadsStep, LockStep, RegistryStep
<1>3. Inv => RegistryOK
  BY DEF Registry, RegistryOK
<1> QED BY <1>1, <1>2, <1>3, PTL DEF Spec

\* As long as no ps_total wraps, the inductive invariant holds.
THEOREM InvariantCorrect == ASSUME TotalBound <= CountMax PROVE Spec => []IInv
<1> DEFINE Inv == /\ TypeOK /\ ThreadsOk /\ LockOk /\ Registry /\ ListerOk
                  /\ Counts /\ ReadersOk
<1>1. Init => Inv
  BY TypeInit, ThreadsInit, LockInit, RegistryInit, ListerInit, CountsInit,
     ReadersInit
<1>2. Inv /\ [Next]_vars => Inv'
  BY TypeStep, ThreadsStep, LockStep, RegistryStep, ListerStep, CountsStep,
     ReadersStep DEF Registry
<1>3. Inv => IInv
  BY HeldFollows DEF Registry, Counts, IInv
<1> QED BY <1>1, <1>2, <1>3, PTL DEF Spec

\* A zone is never freed while the kernel can still reach it from a process
\* that is not reaped, although forks miscount, threads of one process race
\* to enter zones, and fork1 writes through an uninitialised pointer.
THEOREM NeverDangling == ASSUME TotalBound <= CountMax PROVE Spec => []NoDangling
<1>1. IInv => NoDangling
  BY DEF IInv
<1> QED BY <1>1, InvariantCorrect, PTL

\* ps_total never undercounts: each process that the reaper has yet to take out
\* of a zone has been counted into it, so destroy's test for 0 is sufficient.
THEOREM CountsCover ==
  ASSUME TotalBound <= CountMax PROVE Spec => []CountCoversMembers
<1>1. IInv => CountCoversMembers
  BY DEF IInv
<1> QED BY <1>1, InvariantCorrect, PTL

\* What zone_list and zone_name took hold of survives their sleeps.
THEOREM HeldSafely == ASSUME TotalBound <= CountMax PROVE Spec => []HeldAcrossSleep
<1>1. IInv => HeldAcrossSleep
  BY DEF IInv
<1> QED BY <1>1, InvariantCorrect, PTL

-----------------------------------------------------------------------------
(* Zones implements ZoneContract.                                          *)

\* At boot there are no zones and nobody is in one.
LEMMA ContractInit == Init => Contract!Init
  BY DEF Init, Contract!Init, zonesImpl, inzoneImpl, InZone, ZoneOf

\* The contract counts zones with the same Cardinality.
LEMMA SameCardinality == ASSUME NEW S PROVE Contract!Cardinality(S) = Cardinality(S)
  BY DEF Contract!Cardinality, Cardinality

\* There are at most as many zones as nodes in the tree.
LEMMA ZonesBounded ==
  ASSUME TypeOK
  PROVE  IsFiniteSet(zonesImpl) /\ Cardinality(zonesImpl) <= Cardinality(tree)
<1> DEFINE f == [n \in tree |-> ZoneOf(n)]
<1>1. IsFiniteSet(tree)
  BY NodesFinite, CardMono DEF TypeOK
<1>2. f \in Surjection(tree, zonesImpl)
  BY DEF Surjection, zonesImpl
<1> QED BY <1>1, <1>2, FS_Surjection

\* A step that leaves the zones as they are and moves at most process q, to a
\* zone that exists, is a Join or a stutter.
LEMMA ContractJoin ==
  ASSUME UNCHANGED <<tree, zone_id, zone_name>>, NEW q \in Procs, NEW n \in tree,
         \A p \in Procs : InZone(p)' = InZone(p) \/ (p = q /\ InZone(p)' = zone_id[n])
  PROVE  Contract!Next \/ UNCHANGED <<zonesImpl, inzoneImpl>>
<1>1. zonesImpl' = zonesImpl
  BY DEF zonesImpl, ZoneOf
<1>2. CASE InZone(q)' = InZone(q)
  BY <1>1, <1>2 DEF inzoneImpl
<1>3. CASE InZone(q)' = zone_id[n]
  <2>1. ZoneOf(n) \in zonesImpl /\ ZoneOf(n)[1] = zone_id[n]
    BY DEF zonesImpl, ZoneOf
  <2>2. inzoneImpl' = [inzoneImpl EXCEPT ![q] = ZoneOf(n)[1]]
    BY <1>3, <2>1 DEF inzoneImpl
  <2>3. Contract!Join(q)
    BY <1>1, <2>1, <2>2 DEF Contract!Join
  <2> QED BY <2>3 DEF Contract!Next
<1> QED BY <1>2, <1>3

\* A step that leaves the nodes and the processes' zones alone is a stutter.
LEMMA ContractStutter ==
  ASSUME UNCHANGED <<tree, zone_id, zone_name>>,
         \A p \in Procs : InZone(p)' = InZone(p)
  PROVE  UNCHANGED <<zonesImpl, inzoneImpl>>
  BY DEF zonesImpl, inzoneImpl, ZoneOf

\* Every step of the registry is a step of the contract or a stutter.
LEMMA ContractStep ==
  IInv /\ [Next]_vars => [Contract!Next]_<<zonesImpl, inzoneImpl>>
<1> SUFFICES ASSUME IInv, [Next]_vars
             PROVE  Contract!Next \/ UNCHANGED <<zonesImpl, inzoneImpl>>
  OBVIOUS
<1> USE DEF registry, lock, procs, locals
<1>t. TypeOK /\ ThreadsOk /\ NoDangling
  BY DEF IInv
<1>1. ASSUME UNCHANGED <<tree, zone_id, zone_name, ps_zone, stat>>
      PROVE  UNCHANGED <<zonesImpl, inzoneImpl>>
  BY <1>1, ContractStutter DEF InZone, Unreaped
\* The stray store of fork1 is a Join of the process it hits, if any.
<1>2. ASSUME NEW p \in Procs, Unreaped(p), CopyZone(p),
             UNCHANGED <<tree, zone_id, zone_name>>,
             \A q \in Procs : Unreaped(q)' <=> Unreaped(q)
      PROVE  Contract!Next \/ UNCHANGED <<zonesImpl, inzoneImpl>>
  <2>1. CASE UNCHANGED ps_zone
    BY <1>2, <2>1, ContractStutter DEF InZone
  <2>2. CASE \E pr \in StalePr : ps_zone' = [ps_zone EXCEPT ![pr] = ps_zone[p]]
    <3>1. PICK pr \in StalePr : ps_zone' = [ps_zone EXCEPT ![pr] = ps_zone[p]]
      BY <2>2
    <3>2. pr \in Procs
      BY ProcsAssumption
    <3>3. CASE ps_zone[p] \in tree /\ Unreaped(pr)
      <4>1. \A q \in Procs : \/ InZone(q)' = InZone(q)
                             \/ q = pr /\ InZone(q)' = zone_id[ps_zone[p]]
        BY <1>2, <1>t, <3>1, <3>3, NodesAssumption DEF InZone, TypeOK
      <4> QED BY <1>2, <3>2, <3>3, <4>1, ContractJoin
    <3>4. CASE ~Unreaped(pr)
      BY <1>2, <1>t, <3>1, <3>4, ContractStutter DEF InZone, TypeOK
    <3>5. CASE ps_zone[p] = NULL
      BY <1>2, <1>t, <2>1, <3>5 DEF CopyZone, is_process_global
    <3> QED BY <1>2, <1>t, <3>3, <3>4, <3>5 DEF NoDangling
  <2> QED BY <1>2, <2>1, <2>2 DEF CopyZone
<1>3. ASSUME NEW t \in Threads, Call(t)
      PROVE  Contract!Next \/ UNCHANGED <<zonesImpl, inzoneImpl>>
  <2>1. CASE \/ CreateStart(t) \/ DestroyStart(t) \/ EnterStart(t)
             \/ ListStart(t) \/ NameStart(t)
    BY <2>1, <1>1 DEF CreateStart, DestroyStart, EnterStart, ListStart, NameStart
  <2>2. CASE ForkStart(t)
    <3>1. owner[t] \in Procs /\ Unreaped(owner[t])
      BY <2>2, <1>t DEF ForkStart, ThreadsOk, Unreaped
    <3>2. PICK q \in Procs : stat[q] = "free" /\ stat' = [stat EXCEPT ![q] = "idl"]
      BY <2>2 DEF ForkStart
    <3>3. \A p \in Procs : Unreaped(p)' <=> Unreaped(p)
      BY <1>t, <3>2 DEF Unreaped, TypeOK
    <3> QED BY <2>2, <3>1, <3>3, <1>2 DEF ForkStart
  <2>3. CASE ForkThread(t)
    <3>1. owner[t] \in Procs /\ Unreaped(owner[t])
      BY <2>3, <1>t DEF ForkThread, ThreadsOk, Unreaped
    <3> QED BY <2>3, <3>1, <1>2 DEF ForkThread, Unreaped
  <2>4. CASE ThreadExit(t) \/ DropRoot(t)
    BY <2>4, <1>1 DEF ThreadExit, DropRoot
  <2>5. CASE Exit(t)
    <3>1. stat[owner[t]] = "run"
      BY <2>5, <1>t DEF Exit, ThreadsOk
    <3>2. \A p \in Procs : Unreaped(p)' <=> Unreaped(p)
      BY <2>5, <1>t, <3>1 DEF Exit, Unreaped, TypeOK
    <3> QED BY <2>5, <3>2, ContractStutter DEF Exit, InZone
  <2> QED BY <1>3, <2>1, <2>2, <2>3, <2>4, <2>5 DEF Call
<1>4. ASSUME NEW t \in Threads, TakeLock(t)
      PROVE  Contract!Next \/ UNCHANGED <<zonesImpl, inzoneImpl>>
  <2>1. CASE \/ CreateRefused(t) \/ DestroyRefused(t) \/ EnterRefused(t)
             \/ ListRefused(t) \/ NameRefused(t)
    BY <2>1, <1>1 DEF CreateRefused, DestroyRefused, EnterRefused,
                      ListRefused, NameRefused
  <2>2. CASE CreateLock(t) \/ ListLock(t) \/ NameLock(t)
    BY <2>2, <1>1 DEF CreateLock, ListLock, NameLock
  <2>3. CASE DestroyLock(t)
    <3>1. PICK n \in tree : ps_total[n] = 0 /\ tree' = tree \ {n}
      BY <2>3 DEF DestroyLock, NodesWithId, Destroyable
    <3>2. UNCHANGED <<zone_id, zone_name, ps_zone, stat>>
      BY <2>3 DEF DestroyLock
    <3>3. Members(n) = {}
      BY <3>1, NoMembers DEF IInv, CountCoversMembers
    <3>4. zonesImpl' = zonesImpl \ {ZoneOf(n)}
      BY <3>1, <3>2 DEF zonesImpl, ZoneOf, IInv, UniqueIds
    <3>5. ZoneOf(n) \in zonesImpl /\ ZoneOf(n)[1] = zone_id[n]
      BY DEF zonesImpl, ZoneOf
    <3>6. zone_id[n] \in Ids
      BY DEF IInv, CreatorOk
    <3>7. ASSUME NEW p \in Procs PROVE inzoneImpl[p] # zone_id[n]
      BY <1>t, <3>3, <3>6, NodesAssumption
      DEF inzoneImpl, InZone, Members, NoDangling, IInv, UniqueIds
    <3>8. inzoneImpl' = inzoneImpl
      BY <3>2 DEF inzoneImpl, InZone, Unreaped
    <3>9. Contract!Destroy
      BY <3>4, <3>5, <3>7, <3>8 DEF Contract!Destroy
    <3> QED BY <3>9 DEF Contract!Next
  <2>4. CASE EnterLock(t)
    <3>1. PICK n \in tree : ps_zone' = [ps_zone EXCEPT ![owner[t]] = n]
      BY <2>4 DEF EnterLock, NodesWithId
    <3>2. UNCHANGED <<tree, zone_id, zone_name, stat>>
      BY <2>4 DEF EnterLock
    <3>3. owner[t] \in Procs /\ Unreaped(owner[t])
      BY <2>4, <1>t DEF EnterLock, ThreadsOk, Unreaped
    <3>4. \A p \in Procs : \/ InZone(p)' = InZone(p)
                           \/ p = owner[t] /\ InZone(p)' = zone_id[n]
      BY <1>t, <3>1, <3>2, <3>3, NodesAssumption DEF InZone, Unreaped, TypeOK
    <3> QED BY <3>2, <3>3, <3>4, ContractJoin
  <2> QED BY <1>4, <2>1, <2>2, <2>3, <2>4 DEF TakeLock
<1>5. ASSUME NEW t \in Threads, Proceed(t)
      PROVE  Contract!Next \/ UNCHANGED <<zonesImpl, inzoneImpl>>
  <2>1. CASE CreateInsert(t)
    <3>1. PICK n \in Nodes \ tree, id \in Ids :
            /\ id \notin UsedIds
            /\ zone_id' = [zone_id EXCEPT ![n] = id]
            /\ zone_name' = [zone_name EXCEPT ![n] = buffer[t]]
            /\ tree' = tree \cup {n}
      BY <2>1 DEF CreateInsert, generate_zoneid
    <3>2. pc[t] = "create_insert" /\ UNCHANGED <<ps_zone, stat>>
      BY <2>1 DEF CreateInsert
    <3>3. /\ buffer[t] \in Names
          /\ \A m \in tree : zone_name[m] # buffer[t]
          /\ Cardinality(tree) < MaxZones
      BY <3>2, NodesFinite DEF IInv, CreatorOk, NodesNamed, Full, TotalExact, TypeOK
    <3>4. \A m \in tree : /\ zone_id'[m] = zone_id[m] /\ zone_id[m] # id
                          /\ zone_name'[m] = zone_name[m]
      BY <1>t, <3>1 DEF UsedIds, TypeOK
    <3>5. zone_id'[n] = id /\ zone_name'[n] = buffer[t]
      BY <1>t, <3>1 DEF TypeOK
    <3>6. zonesImpl' = zonesImpl \cup {<<id, buffer[t]>>}
      BY <3>1, <3>4, <3>5 DEF zonesImpl, ZoneOf
    <3>7. \A z \in zonesImpl : z[1] # id /\ z[2] # buffer[t]
      BY <3>3, <3>4 DEF zonesImpl, ZoneOf
    <3>8. inzoneImpl' = inzoneImpl
      BY <1>t, <3>2, <3>4 DEF inzoneImpl, InZone, Unreaped, NoDangling
    <3>9. Cardinality(zonesImpl) < MaxZones
      <4>1. IsFiniteSet(tree)
        BY <1>t, NodesFinite, CardMono DEF TypeOK
      <4> QED BY <1>t, <3>3, <4>1, ZonesBounded, FS_CardinalityType, NodesFinite
    <3>10. Contract!Create
      <4>1. \E i \in Ids, name \in Names :
              /\ \A z \in zonesImpl : z[1] # i /\ z[2] # name
              /\ zonesImpl' = zonesImpl \cup {<<i, name>>}
        BY <3>3, <3>6, <3>7, Zenon
      <4> QED BY <3>8, <3>9, <4>1, SameCardinality DEF Contract!Create
    <3> QED BY <3>10 DEF Contract!Next
  <2>2. CASE ListOut(t) \/ NameOut(t)
    BY <2>2, <1>1 DEF ListOut, NameOut
  <2>3. CASE ForkNew(t)
    <3>1. child[t] \in Procs /\ stat[child[t]] = "idl"
      BY <2>3, <1>t DEF ForkNew, ThreadsOk
    <3>2. \A p \in Procs : InZone(p)' = InZone(p)
      BY <2>3, <1>t, <3>1 DEF ForkNew, InZone, Unreaped, TypeOK
    <3> QED BY <2>3, <3>2, ContractStutter DEF ForkNew
  <2> QED BY <1>5, <2>1, <2>2, <2>3 DEF Proceed
<1>6. ASSUME NEW p \in Procs, Wait(p)
      PROVE  UNCHANGED <<zonesImpl, inzoneImpl>>
  <2>1. \A q \in Procs : Unreaped(q)' <=> Unreaped(q)
    BY <1>6, <1>t DEF Wait, Unreaped, TypeOK
  <2> QED BY <1>6, <2>1, ContractStutter DEF Wait, InZone
<1>7. ASSUME NEW p \in Procs, Reap(p)
      PROVE  Contract!Next
  <2>1. zonesImpl' = zonesImpl
    BY <1>7 DEF Reap, zonesImpl, ZoneOf
  <2>2. \A q \in Procs : InZone(q)' = IF q = p THEN NULL ELSE InZone(q)
    BY <1>7, <1>t DEF Reap, InZone, Unreaped, TypeOK
  <2>3. inzoneImpl' = [inzoneImpl EXCEPT ![p] = NULL]
    BY <2>2 DEF inzoneImpl
  <2>4. Contract!Leave(p)
    BY <2>1, <2>3 DEF Contract!Leave
  <2> QED BY <2>4 DEF Contract!Next
<1>8. CASE UNCHANGED vars
  BY <1>8, <1>1 DEF vars
<1> QED BY <1>3, <1>4, <1>5, <1>6, <1>7, <1>8 DEF Next

\* The system calls, with everything that forks, exits and is reaped around
\* them, implement the contract for every number of zones and processes.
THEOREM ContractKept == ASSUME TotalBound <= CountMax PROVE Spec => KeepsContract
<1>1. Spec => Contract!Init
  BY ContractInit DEF Spec
<1>2. Spec => [][Contract!Next]_<<zonesImpl, inzoneImpl>>
  BY ContractStep, InvariantCorrect, PTL DEF Spec
<1> QED BY <1>1, <1>2, PTL DEF KeepsContract, Contract!Spec

-----------------------------------------------------------------------------
(* Signals and process listings.                                           *)

\* The history of the zone a process joined and its pointer agree for every
\* process that can still be signalled, and nobody outside zones has joined.
JoinedOK ==
  \A p \in Procs :
    /\ ps_zone[p] = NULL => joined[p] = NULL
    /\ Unreaped(p) /\ ps_zone[p] # NULL => joined[p] = zone_id[ps_zone[p]]

\* Signals and listings read the registry: what ISpec allows is a run of Spec.
LEMMA IsolationReads == ISpec => Spec
<1>1. IInit => Init
  BY DEF IInit
<1>2. [INext]_<<vars, viewVars>> => [Next]_vars
  BY DEF INext, RegistryMove, sys_kill, sysctl_doproc, killpg1, Post
<1> QED BY <1>1, <1>2, PTL DEF ISpec, Spec

\* A node in the tree keeps its id, and a step that moves a process to another
\* zone changes no id.
LEMMA IdsStay ==
  IInv /\ [Next]_vars =>
    /\ \A n \in tree : zone_id'[n] = zone_id[n]
    /\ zone_id' = zone_id \/ UNCHANGED <<ps_zone, stat>>
<1> SUFFICES ASSUME IInv, [Next]_vars
             PROVE  /\ \A n \in tree : zone_id'[n] = zone_id[n]
                    /\ zone_id' = zone_id \/ UNCHANGED <<ps_zone, stat>>
  OBVIOUS
<1> USE DEF registry, lock, procs, locals
<1>1. ASSUME NEW t \in Threads, CreateInsert(t)
      PROVE  /\ \A n \in tree : zone_id'[n] = zone_id[n]
             /\ UNCHANGED <<ps_zone, stat>>
  BY <1>1 DEF CreateInsert, IInv, TypeOK
<1>2. ASSUME NEW t \in Threads, Call(t) PROVE zone_id' = zone_id
  BY <1>2 DEF Call, CreateStart, DestroyStart, EnterStart, ListStart, NameStart,
              ForkStart, ForkThread, ThreadExit, Exit, DropRoot
<1>3. ASSUME NEW t \in Threads, TakeLock(t) PROVE zone_id' = zone_id
  BY <1>3 DEF TakeLock, CreateRefused, DestroyRefused, EnterRefused, ListRefused,
              NameRefused, CreateLock, DestroyLock, EnterLock, ListLock, NameLock
<1>4. ASSUME NEW t \in Threads, ListOut(t) \/ NameOut(t) \/ ForkNew(t)
      PROVE  zone_id' = zone_id
  BY <1>4 DEF ListOut, NameOut, ForkNew
<1>5. ASSUME NEW p \in Procs, Reap(p) \/ Wait(p) PROVE zone_id' = zone_id
  BY <1>5 DEF Reap, Wait
<1>6. CASE UNCHANGED vars
  BY <1>6 DEF vars
<1> QED BY <1>1, <1>2, <1>3, <1>4, <1>5, <1>6 DEF Next, Proceed

\* Only the end of a fork makes a process that can be signalled, and it is in
\* no zone.
LEMMA NewbornGlobal ==
  IInv /\ [Next]_vars =>
    \A p \in Procs : Unreaped(p)' => Unreaped(p) \/ ps_zone'[p] = NULL
<1> SUFFICES ASSUME IInv, [Next]_vars, NEW p \in Procs, Unreaped(p)', ~Unreaped(p)
             PROVE  ps_zone'[p] = NULL
  OBVIOUS
<1> USE DEF registry, lock, procs, locals
<1>t. TypeOK /\ ThreadsOk
  BY DEF IInv
<1>0. stat'[p] # stat[p]
  BY DEF Unreaped
<1>1. ASSUME NEW t \in Threads PROVE ~Call(t)
  <2>1. ~ForkStart(t)
    BY <1>t, <1>0 DEF ForkStart, Unreaped, TypeOK
  <2>2. ~Exit(t)
    BY <1>t, <1>0 DEF Exit, Unreaped, TypeOK, ThreadsOk
  <2> QED BY <1>0, <2>1, <2>2 DEF Call, CreateStart, DestroyStart, EnterStart,
              ListStart, NameStart, ForkThread, ThreadExit, DropRoot
<1>2. ASSUME NEW t \in Threads PROVE ~TakeLock(t)
  BY <1>0 DEF TakeLock, CreateRefused, DestroyRefused, EnterRefused, ListRefused,
              NameRefused, CreateLock, DestroyLock, EnterLock, ListLock, NameLock
<1>3. ASSUME NEW q \in Procs PROVE ~Reap(q) /\ ~Wait(q)
  BY <1>t, <1>0 DEF Reap, Wait, Unreaped, TypeOK
<1>4. ASSUME NEW t \in Threads, Proceed(t) PROVE ps_zone'[p] = NULL
  <2>1. ForkNew(t)
    BY <1>0, <1>4 DEF Proceed, CreateInsert, ListOut, NameOut
  <2> QED BY <1>t, <1>0, <2>1 DEF ForkNew, TypeOK, ThreadsOk
<1> QED BY <1>0, <1>1, <1>2, <1>3, <1>4 DEF Next, vars

\* Every step keeps pointers and history together.
LEMMA JoinedStep ==
  IInv /\ NoDangling' /\ JoinedOK /\ RegistryMove => JoinedOK'
<1> SUFFICES ASSUME IInv, NoDangling', JoinedOK, RegistryMove, NEW p \in Procs
             PROVE  /\ ps_zone'[p] = NULL => joined'[p] = NULL
                    /\ Unreaped(p)' /\ ps_zone'[p] # NULL
                         => joined'[p] = zone_id'[ps_zone'[p]]
  BY DEF JoinedOK
<1>1. joined'[p] = IF ps_zone'[p] = ps_zone[p] THEN joined[p]
                   ELSE IF ps_zone'[p] = NULL THEN NULL
                   ELSE zone_id[ps_zone'[p]]
  BY DEF RegistryMove
<1>2. ps_zone'[p] = NULL => joined'[p] = NULL
  BY <1>1 DEF JoinedOK
<1>3. ASSUME Unreaped(p)', ps_zone'[p] # NULL
      PROVE  joined'[p] = zone_id'[ps_zone'[p]]
  <2>1. [Next]_vars
    BY DEF RegistryMove
  <2>2. Unreaped(p)
    BY <1>3, <2>1, NewbornGlobal
  <2>3. CASE ps_zone'[p] = ps_zone[p]
    <3>1. ps_zone[p] \in tree
      BY <1>3, <2>2, <2>3 DEF IInv, NoDangling
    <3>2. joined[p] = zone_id[ps_zone[p]]
      BY <1>3, <2>2, <2>3 DEF JoinedOK
    <3> QED BY <1>1, <2>1, <2>3, <3>1, <3>2, IdsStay
  <2>4. CASE ps_zone'[p] # ps_zone[p]
    BY <1>1, <1>3, <2>1, <2>4, IdsStay
  <2> QED BY <2>3, <2>4
<1> QED BY <1>2, <1>3

\* Zones joined and pointers agree in every run with signals and listings.
LEMMA JoinedInvariant ==
  ASSUME TotalBound <= CountMax PROVE ISpec => []JoinedOK
<1>1. IInit => JoinedOK
  BY DEF IInit, Init, JoinedOK
<1>2. IInv /\ IInv' /\ JoinedOK /\ [INext]_<<vars, viewVars>> => JoinedOK'
  <2> SUFFICES ASSUME IInv, IInv', JoinedOK, [INext]_<<vars, viewVars>>
               PROVE  JoinedOK'
    OBVIOUS
  <2>1. CASE RegistryMove
    BY <2>1, JoinedStep DEF IInv
  <2>2. CASE UNCHANGED <<vars, joined>>
    BY <2>2 DEF JoinedOK, Unreaped, vars, registry, procs
  <2> QED BY <2>1, <2>2 DEF INext, sys_kill, sysctl_doproc, killpg1, Post, viewVars
<1> QED BY <1>1, <1>2, IsolationReads, InvariantCorrect, PTL DEF ISpec

\* The zone test of sys_kill and sysctl_doproc compares pointers, which stands
\* for the zones themselves while both processes are not reaped.
LEMMA SamePointerSameZone ==
  ASSUME JoinedOK, NEW p \in Procs, NEW q \in Procs, Unreaped(p), Unreaped(q),
         PidInZone(p, q), joined[p] # NULL
  PROVE  joined[q] = joined[p]
  BY DEF JoinedOK, PidInZone, is_process_global

(* A signal sent by pid from a process in a zone reaches only processes of  *)
(* that very zone, although pointers are compared and nodes are reused.     *)
THEOREM PidSignalsStay ==
  ASSUME TotalBound <= CountMax PROVE ISpec => []PidSignalsStayInZone
<1>1. IInit => PidSignalsStayInZone
  BY DEF IInit, PidSignalsStayInZone
<1>2. IInv /\ JoinedOK /\ PidSignalsStayInZone /\ [INext]_<<vars, viewVars>>
        => PidSignalsStayInZone'
  <2> SUFFICES ASSUME IInv, JoinedOK, PidSignalsStayInZone,
                      [INext]_<<vars, viewVars>>
               PROVE  PidSignalsStayInZone'
    OBVIOUS
  <2>1. ASSUME NEW t \in Threads, sys_kill(t) PROVE PidSignalsStayInZone'
    <3>1. PICK q \in Running : /\ PidInZone(owner[t], q)
                               /\ Post(owner[t], {q}, "pid")
      BY <2>1 DEF sys_kill
    <3>2. owner[t] \in Procs /\ Unreaped(owner[t])
      BY <2>1 DEF sys_kill, IInv, ThreadsOk, Unreaped
    <3>3. q \in Procs /\ Unreaped(q)
      BY DEF Running, Unreaped
    <3>4. joined[owner[t]] # NULL => joined[q] = joined[owner[t]]
      BY <3>1, <3>2, <3>3, SamePointerSameZone
    <3> QED BY <3>1, <3>4 DEF Post, PidSignalsStayInZone
  <2>2. ASSUME NEW t \in Threads, NEW all \in BOOLEAN, killpg1(t, all)
        PROVE  PidSignalsStayInZone'
    BY <2>2 DEF killpg1, Post, PidSignalsStayInZone
  <2>3. ASSUME NEW t \in Threads, sysctl_doproc(t) PROVE PidSignalsStayInZone'
    BY <2>3 DEF sysctl_doproc, PidSignalsStayInZone
  <2>4. CASE RegistryMove
    BY <2>4 DEF RegistryMove, PidSignalsStayInZone
  <2>5. CASE UNCHANGED <<vars, viewVars>>
    BY <2>5 DEF viewVars, PidSignalsStayInZone
  <2> QED BY <2>1, <2>2, <2>3, <2>4, <2>5 DEF INext
<1> QED BY <1>1, <1>2, IsolationReads, InvariantCorrect, JoinedInvariant, PTL
        DEF ISpec

(* The kernel's process table, as a process in a zone sees it, lists among  *)
(* the processes not yet reaped only those of that very zone.               *)
THEOREM LiveListingStays ==
  ASSUME TotalBound <= CountMax PROVE ISpec => []LiveListingInZone
<1>1. IInit => LiveListingInZone
  BY DEF IInit, LiveListingInZone
<1>2. IInv /\ JoinedOK /\ LiveListingInZone /\ [INext]_<<vars, viewVars>>
        => LiveListingInZone'
  <2> SUFFICES ASSUME IInv, JoinedOK, LiveListingInZone, [INext]_<<vars, viewVars>>
               PROVE  LiveListingInZone'
    OBVIOUS
  <2>1. ASSUME NEW t \in Threads, sysctl_doproc(t) PROVE LiveListingInZone'
    <3>1. owner[t] \in Procs /\ Unreaped(owner[t])
      BY <2>1 DEF sysctl_doproc, IInv, ThreadsOk, Unreaped
    <3>2. /\ listed' = {[by |-> owner[t], of |-> q] :
                          q \in {r \in Listable : PidInZone(owner[t], r)}}
          /\ UNCHANGED <<vars, joined>>
      BY <2>1 DEF sysctl_doproc
    <3>3. ASSUME NEW e \in listed', joined'[e.by] # NULL, Unreaped(e.of)'
          PROVE  joined'[e.of] = joined'[e.by]
      <4>1. PICK q \in Listable : PidInZone(owner[t], q)
                                  /\ e = [by |-> owner[t], of |-> q]
        BY <3>2
      <4>2. q \in Procs /\ Unreaped(q)
        BY <3>2, <3>3, <4>1 DEF Listable, Unreaped, vars, procs
      <4> QED BY <3>1, <3>2, <3>3, <4>1, <4>2, SamePointerSameZone
    <3> QED BY <3>3 DEF LiveListingInZone
  <2>2. ASSUME NEW t \in Threads,
               sys_kill(t) \/ killpg1(t, TRUE) \/ killpg1(t, FALSE)
        PROVE  LiveListingInZone'
    BY <2>2 DEF sys_kill, killpg1, Post, LiveListingInZone
  <2>3. CASE RegistryMove
    BY <2>3 DEF RegistryMove, LiveListingInZone
  <2>4. CASE UNCHANGED <<vars, viewVars>>
    BY <2>4 DEF viewVars, vars, procs, LiveListingInZone, Unreaped
  <2> QED BY <2>1, <2>2, <2>3, <2>4 DEF INext
<1> QED BY <1>1, <1>2, IsolationReads, InvariantCorrect, JoinedInvariant, PTL
        DEF ISpec

-----------------------------------------------------------------------------
(* Staying in a zone.                                                      *)

\* No call that begins in user mode unseals a live process: the check of
\* zone_enter stops its threads, new threads start in user mode, and fork1
\* stores only zones.
LEMMA SealedCall ==
  ASSUME TypeOK, ThreadsOk, NEW t \in Threads, Call(t),
         NEW p \in Procs, Sealed(p), stat'[p] = "run"
  PROVE  Sealed(p)' /\ (p \notin StalePr => ps_zone'[p] = ps_zone[p])
<1> USE DEF TypeOK, Goto, Return, locals, registry, lock, procs
<1>1. CASE \/ CreateStart(t) \/ DestroyStart(t) \/ ListStart(t) \/ NameStart(t)
           \/ DropRoot(t)
  BY <1>1 DEF CreateStart, DestroyStart, ListStart, NameStart, DropRoot,
              Sealed, ThreadsOf
<1>2. CASE EnterStart(t)
  <2>1. owner[t] # p
    BY <1>2 DEF EnterStart, Permitted, is_process_global, Sealed
  <2> QED BY <1>2, <2>1 DEF EnterStart, Sealed, ThreadsOf
<1>3. ASSUME CopyZone(owner[t]), owner[t] \in Procs
      PROVE  ps_zone'[p] # NULL /\ (p \notin StalePr => ps_zone'[p] = ps_zone[p])
  BY <1>3 DEF CopyZone, is_process_global, Sealed
<1>4. CASE ForkStart(t)
  <2>1. owner[t] \in Procs
    BY <1>4 DEF ForkStart, ThreadsOk
  <2>2. PICK q \in Procs, u \in FreeThreads :
          stat[q] = "free" /\ owner' = [owner EXCEPT ![u] = q]
    BY <1>4 DEF ForkStart
  <2>3. q # p
    BY <2>2 DEF Sealed
  <2>4. \A v \in ThreadsOf(p)' : v \in ThreadsOf(p)
    BY <2>2, <2>3 DEF ThreadsOf, FreeThreads
  <2>5. \A v \in ThreadsOf(p)' : pc'[v] # "enter_lock"
    BY <1>4, <2>4 DEF ForkStart, Sealed, ThreadsOf
  <2> QED BY <1>3, <1>4, <2>1, <2>5 DEF ForkStart, Sealed
<1>5. CASE ForkThread(t)
  <2>1. owner[t] \in Procs
    BY <1>5 DEF ForkThread, ThreadsOk
  <2>2. PICK u \in FreeThreads :
          owner' = [owner EXCEPT ![u] = owner[t]] /\ pc' = [pc EXCEPT ![u] = "user"]
    BY <1>5 DEF ForkThread
  <2>3. \A v \in ThreadsOf(p)' : pc'[v] # "enter_lock"
    BY <2>2 DEF ThreadsOf, FreeThreads, Sealed
  <2> QED BY <1>3, <1>5, <2>1, <2>3 DEF ForkThread, Sealed
<1>6. CASE ThreadExit(t)
  BY <1>6, ProcsAssumption DEF ThreadExit, Sealed, ThreadsOf
<1>7. CASE Exit(t)
  <2>1. /\ ps_zone' = ps_zone
        /\ \A v \in Threads : pc'[v] = "enter_lock" => pc[v] = "enter_lock"
        /\ \A v \in Threads : owner'[v] = p => owner[v] = p
    BY <1>7, ProcsAssumption DEF Exit
  <2> QED BY <2>1 DEF Sealed, ThreadsOf
<1> QED BY <1>1, <1>2, <1>4, <1>5, <1>6, <1>7 DEF Call

\* Nor does a step in the kernel: a thread that enters belongs to a process
\* that is not sealed, and process_new zeroes the zone of an embryo only.
LEMMA SealedKernel ==
  ASSUME TypeOK, ThreadsOk, NEW t \in Threads, TakeLock(t) \/ Proceed(t),
         NEW p \in Procs, Sealed(p), stat'[p] = "run"
  PROVE  Sealed(p)' /\ ps_zone'[p] = ps_zone[p]
<1> USE DEF TypeOK, Goto, Return, locals, registry, lock, procs
<1>1. CASE EnterLock(t)
  <2>1. pc[t] = "enter_lock" /\ owner[t] # p
    BY <1>1 DEF EnterLock, Sealed, ThreadsOf
  <2>2. ps_zone'[p] = ps_zone[p]
    BY <1>1, <2>1 DEF EnterLock
  <2> QED BY <1>1, <2>2 DEF EnterLock, Sealed, ThreadsOf
<1>2. CASE ForkNew(t)
  <2>1. child[t] # p
    BY <1>2 DEF ForkNew, ThreadsOk, Sealed
  <2>2. \A v \in Threads : pc'[v] = "enter_lock" => pc[v] = "enter_lock"
    BY <1>2 DEF ForkNew
  <2> QED BY <1>2, <2>1, <2>2 DEF ForkNew, Sealed, ThreadsOf
<1>3. CASE \/ CreateRefused(t) \/ DestroyRefused(t) \/ EnterRefused(t)
           \/ ListRefused(t) \/ NameRefused(t)
  BY <1>3 DEF CreateRefused, DestroyRefused, EnterRefused, ListRefused,
              NameRefused, Sealed, ThreadsOf
<1>4. CASE \/ CreateLock(t) \/ DestroyLock(t) \/ ListLock(t) \/ NameLock(t)
  BY <1>4 DEF CreateLock, DestroyLock, ListLock, NameLock, Sealed, ThreadsOf
<1>5. CASE CreateInsert(t) \/ ListOut(t) \/ NameOut(t)
  BY <1>5 DEF CreateInsert, ListOut, NameOut, Sealed, ThreadsOf
<1> QED BY <1>1, <1>2, <1>3, <1>4, <1>5 DEF TakeLock, Proceed

(* Whatever its threads and all other processes do, a running process that *)
(* is in a zone and has no thread past the check of zone_enter never gets  *)
(* out of the zones again, never enters another one, and changes its zone  *)
(* only if fork1's uninitialised pr hits it.                               *)
THEOREM SealedForGood == Spec => StaysSealed
<1>1. Init => TypeOK /\ ThreadsOk
  BY TypeInit, ThreadsInit
<1>2. TypeOK /\ ThreadsOk /\ [Next]_vars => (TypeOK /\ ThreadsOk)'
  BY TypeStep, ThreadsStep
<1>3. TypeOK /\ ThreadsOk /\ [Next]_vars =>
        [\A p \in Procs :
           Sealed(p) /\ stat'[p] = "run"
           => /\ Sealed(p)'
              /\ p \notin StalePr => ps_zone'[p] = ps_zone[p]]_vars
  <2> SUFFICES ASSUME TypeOK, ThreadsOk, Next, NEW p \in Procs,
                      Sealed(p), stat'[p] = "run"
               PROVE  Sealed(p)' /\ (p \notin StalePr => ps_zone'[p] = ps_zone[p])
    OBVIOUS
  <2>1. CASE \E t \in Threads : Call(t)
    BY <2>1, SealedCall
  <2>2. CASE \E t \in Threads : TakeLock(t) \/ Proceed(t)
    BY <2>2, SealedKernel
  <2>3. CASE \E q \in Procs : Reap(q) \/ Wait(q)
    BY <2>3 DEF Reap, Wait, Sealed, ThreadsOf, TypeOK, registry, lock, locals
  <2> QED BY <2>1, <2>2, <2>3 DEF Next
<1> QED BY <1>1, <1>2, <1>3, PTL DEF Spec, StaysSealed
=============================================================================
