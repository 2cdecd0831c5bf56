------------------------------- MODULE Zones -------------------------------
(***************************************************************************)
(* The zone registry of OpenBSD/Zone_isolation: the five zone system calls *)
(* of sys/kern/zones.c and the places of fork1, process_new, exit1, the    *)
(* reaper and wait4 that take part in counting the processes of a zone.    *)
(*                                                                         *)
(* System calls run under the kernel lock, which a thread gives up only    *)
(* where it sleeps: an action is the code between two such points.  The    *)
(* sleep points are rw_enter on zone_rwlock, malloc(M_WAITOK), pool_get    *)
(* and the copies from and to user space.                                  *)
(***************************************************************************)
EXTENDS Integers, FiniteSets

CONSTANTS
  Nodes,           \* addresses malloc may return for a struct zone_node
  NULL,            \* the null pointer
  Names,           \* zone names a caller may pass
  NoName,          \* the content of a name buffer nobody filled
  Procs,           \* slots of process_pool (at most maxprocess)
  NoProc,          \* "owns no process"
  Threads,         \* slots of proc_pool (at most maxthread)
  NoThread,        \* "no thread"
  Boot,            \* the process each thread belongs to at boot, or NoProc
  InitProc,        \* process 1, which never exits
  MaxZones,        \* MAXZONES
  IdMin, IdMax,    \* the range of zoneid_t (int)
  CountMax,        \* UINT_MAX, the largest value of ps_total
  StalePr,         \* process structures the uninitialised pr of fork1 may hit
  TotalBound,      \* bound on ps_total, for model checking
  ThreadsPerProc   \* bound on the threads of one process, for model checking

Ids == IdMin..IdMax
Stats == {"free", "idl", "run", "dead", "deadnz", "zombie"}
Pcs == {"user", "idl", "create_lock", "create_insert", "destroy_lock",
        "enter_lock", "list_lock", "list_all", "list_own", "name_lock",
        "name_out", "fork_new"}

ASSUME NodesAssumption == NULL \notin Nodes /\ NULL \notin Ids
ASSUME NodesFinite == /\ IsFiniteSet(Nodes)
                      /\ MaxZones \in Nat /\ MaxZones <= Cardinality(Nodes)
ASSUME NamesAssumption == NoName \notin Names
ASSUME ProcsAssumption == /\ NoProc \notin Procs
                          /\ IsFiniteSet(Procs)
                          /\ InitProc \in Procs
                          /\ StalePr \subseteq Procs
ASSUME ThreadsAssumption == /\ NoThread \notin Threads
                            /\ Boot \in [Threads -> Procs \cup {NoProc}]
                            /\ \E t \in Threads : Boot[t] = InitProc
ASSUME WidthAssumption == /\ IdMin \in Int /\ IdMax \in Int
                          /\ IdMin <= 1 /\ 1 <= IdMax
                          /\ IdMax - IdMin >= MaxZones
                          /\ CountMax \in Nat \ {0}
                          /\ TotalBound \in Nat /\ ThreadsPerProc \in Nat

VARIABLES
  tree,                 \* the nodes in the red-black tree `head`
  zone_id, zone_name, ps_total,   \* the fields of each struct zone_node
  zoneid_head,          \* next candidate id
  current_zones_total,  \* number of zones
  writer, readers,      \* holders of zone_rwlock
  ps_zone,              \* zone pointer of each process structure
  stat,                 \* where each process structure is in its life
  is_root,              \* whether ps_ucred->cr_uid is 0
  owner,                \* process of each thread slot
  pc,                   \* where each thread is
  buffer,               \* zone_create: the name copied in
  zn,                   \* zone_name: the node found under the lock
  kernel_zones,         \* zone_list: the size of zoneid_array
  child                 \* fork1: the process slot of the child

registry == <<tree, zone_id, zone_name, zoneid_head, current_zones_total>>
lock == <<writer, readers>>
procs == <<stat, is_root, owner>>
locals == <<buffer, zn, kernel_zones, child>>
vars == <<registry, ps_total, lock, ps_zone, procs, pc, locals>>

-----------------------------------------------------------------------------
(* Searches, checks and the arithmetic of the counters.                    *)

is_process_global(p) == ps_zone[p] = NULL
is_process_root(p) == is_root[p]

NodesNamed(name) == {n \in tree : zone_name[n] = name}
NodesWithId(id) == {n \in tree : zone_id[n] = id}
UsedIds == {zone_id[n] : n \in tree}

\* What create and destroy ask of the counters before they act.
Full == current_zones_total >= MaxZones
DestroyableOffByOne(n) == ps_total[n] <= 1
Destroyable(n) == ps_total[n] = 0

\* zoneid_t is an int: incrementing the largest one wraps to the smallest.
NextId(id) == IF id = IdMax THEN IdMin ELSE id + 1

\* The ids generate_zoneid tries before it reaches id, starting at zoneid_head.
PassedIds(id) == IF zoneid_head <= id THEN zoneid_head..(id - 1)
                 ELSE (zoneid_head..IdMax) \cup (IdMin..(id - 1))

generate_zoneid(id) ==
  /\ id \notin UsedIds
  /\ PassedIds(id) \subseteq UsedIds
  /\ zoneid_head' = NextId(id)

Inc(x) == IF x = CountMax THEN 0 ELSE x + 1
Dec(x) == IF x = 0 THEN CountMax ELSE x - 1

\* atomic_inc_int and atomic_dec_int on the ps_total of node n.
CountInForgotten(n) == UNCHANGED ps_total
CountIn(n) == ps_total' = [ps_total EXCEPT ![n] = Inc(@)]
CountOut(n) == ps_total' = [ps_total EXCEPT ![n] = Dec(@)]

\* The processes whose reaping will decrement the count of node n.
Unreaped(p) == stat[p] \in {"run", "dead", "deadnz"}
Members(n) == {p \in Procs : Unreaped(p) /\ ps_zone[p] = n}

Goto(t, at) == pc' = [pc EXCEPT ![t] = at]
Return(t) == Goto(t, "user")

-----------------------------------------------------------------------------
(* zone_rwlock, the kernel's reader/writer lock.                           *)

LockFree == writer = NoThread /\ readers = {}
rw_enter_writeUnlocked(t) == UNCHANGED lock
rw_enter_write(t) == writer' = t /\ UNCHANGED readers
rw_exit_write == writer' = NoThread /\ UNCHANGED readers
rw_enter_readUnlocked(t) == UNCHANGED lock
rw_enter_read(t) == readers' = readers \cup {t} /\ UNCHANGED writer
rw_exit_readForgotten(t) == UNCHANGED lock
rw_exit_read(t) == readers' = readers \ {t} /\ UNCHANGED writer

Init ==
  /\ tree = {}
  /\ zone_id = [n \in Nodes |-> 0]
  /\ zone_name = [n \in Nodes |-> NoName]
  /\ ps_total = [n \in Nodes |-> 0]
  /\ zoneid_head = 1
  /\ current_zones_total = 0
  /\ writer = NoThread /\ readers = {}
  /\ ps_zone = [p \in Procs |-> NULL]
  /\ stat = [p \in Procs |-> IF \E t \in Threads : Boot[t] = p
                             THEN "run" ELSE "free"]
  /\ is_root = [p \in Procs |-> TRUE]
  /\ owner = Boot
  /\ pc = [t \in Threads |-> IF Boot[t] = NoProc THEN "idl" ELSE "user"]
  /\ buffer = [t \in Threads |-> NoName]
  /\ zn = [t \in Threads |-> NULL]
  /\ kernel_zones = [t \in Threads |-> 0]
  /\ child = [t \in Threads |-> NoProc]

-----------------------------------------------------------------------------
(* The system calls.  A call that fails before it sleeps changes nothing   *)
(* and is no step.  The zone id and the size a caller passes are chosen    *)
(* where they are first used, under the lock.                              *)

\* The check create, destroy and enter make before they ask for the lock.
PermittedAnyZone(t) == is_process_root(owner[t])
Permitted(t) == is_process_global(owner[t]) /\ is_process_root(owner[t])

CreateStart(t) ==
  /\ pc[t] = "user"
  /\ Permitted(t)
  /\ \E name \in Names : buffer' = [buffer EXCEPT ![t] = name]
  /\ Goto(t, "create_lock")
  /\ UNCHANGED <<registry, ps_total, lock, ps_zone, procs, zn, kernel_zones, child>>

\* EEXIST and ERANGE.
CreateRefused(t) ==
  /\ pc[t] = "create_lock" /\ LockFree
  /\ \/ NodesNamed(buffer[t]) # {}
     \/ Full
  /\ buffer' = [buffer EXCEPT ![t] = NoName]
  /\ Return(t)
  /\ UNCHANGED <<registry, ps_total, lock, ps_zone, procs, zn, kernel_zones, child>>

\* The node's malloc may sleep, holding the lock.
CreateLock(t) ==
  /\ pc[t] = "create_lock" /\ LockFree
  /\ NodesNamed(buffer[t]) = {}
  /\ ~Full
  /\ rw_enter_write(t)
  /\ Goto(t, "create_insert")
  /\ UNCHANGED <<registry, ps_total, ps_zone, procs, locals>>

CreateInsert(t) ==
  /\ pc[t] = "create_insert"
  /\ \E n \in Nodes \ tree, id \in Ids :
       /\ generate_zoneid(id)
       /\ zone_id' = [zone_id EXCEPT ![n] = id]
       /\ zone_name' = [zone_name EXCEPT ![n] = buffer[t]]
       /\ ps_total' = [ps_total EXCEPT ![n] = 0]
       /\ tree' = tree \cup {n}
  /\ current_zones_total' = current_zones_total + 1
  /\ rw_exit_write
  /\ buffer' = [buffer EXCEPT ![t] = NoName]
  /\ Return(t)
  /\ UNCHANGED <<ps_zone, procs, zn, kernel_zones, child>>

DestroyStart(t) ==
  /\ pc[t] = "user"
  /\ Permitted(t)
  /\ Goto(t, "destroy_lock")
  /\ UNCHANGED <<registry, ps_total, lock, ps_zone, procs, locals>>

\* ESRCH and EBUSY.
DestroyRefused(t) ==
  /\ pc[t] = "destroy_lock" /\ LockFree
  /\ \E id \in Ids : \A n \in NodesWithId(id) : ~Destroyable(n)
  /\ Return(t)
  /\ UNCHANGED <<registry, ps_total, lock, ps_zone, procs, locals>>

DestroyLock(t) ==
  /\ pc[t] = "destroy_lock" /\ LockFree
  /\ \E id \in Ids : \E n \in NodesWithId(id) :
       /\ Destroyable(n)
       /\ tree' = tree \ {n}
  /\ current_zones_total' = current_zones_total - 1
  /\ Return(t)
  /\ UNCHANGED <<zone_id, zone_name, zoneid_head, ps_total, lock, ps_zone, procs, locals>>

EnterStart(t) ==
  /\ pc[t] = "user"
  /\ Permitted(t)
  /\ Goto(t, "enter_lock")
  /\ UNCHANGED <<registry, ps_total, lock, ps_zone, procs, locals>>

\* ESRCH.
EnterRefused(t) ==
  /\ pc[t] = "enter_lock" /\ LockFree
  /\ \E id \in Ids : NodesWithId(id) = {}
  /\ Return(t)
  /\ UNCHANGED <<registry, ps_total, lock, ps_zone, procs, locals>>

EnterLock(t) ==
  /\ pc[t] = "enter_lock" /\ LockFree
  /\ \E id \in Ids : \E n \in NodesWithId(id) :
       /\ ps_total[n] < TotalBound
       /\ ps_zone' = [ps_zone EXCEPT ![owner[t]] = n]
       /\ CountIn(n)
  /\ Return(t)
  /\ UNCHANGED <<registry, lock, procs, locals>>

ListStart(t) ==
  /\ pc[t] = "user"
  /\ Goto(t, "list_lock")
  /\ UNCHANGED <<registry, ps_total, lock, ps_zone, procs, locals>>

\* ERANGE.
ListRefused(t) ==
  /\ pc[t] = "list_lock" /\ writer = NoThread
  /\ \E user_nzs \in 0..MaxZones :
       IF is_process_global(owner[t]) THEN user_nzs < current_zones_total
       ELSE user_nzs = 0
  /\ Return(t)
  /\ UNCHANGED <<registry, ps_total, lock, ps_zone, procs, locals>>

\* The malloc of zoneid_array may sleep, holding the lock.
ListLock(t) ==
  /\ pc[t] = "list_lock" /\ writer = NoThread
  /\ rw_enter_read(t)
  /\ \/ /\ is_process_global(owner[t])
        /\ kernel_zones' = [kernel_zones EXCEPT ![t] = current_zones_total]
        /\ Goto(t, "list_all")
     \/ /\ ~is_process_global(owner[t])
        /\ kernel_zones' = [kernel_zones EXCEPT ![t] = 1]
        /\ Goto(t, "list_own")
  /\ UNCHANGED <<registry, ps_total, ps_zone, procs, buffer, zn, child>>

\* The ids are written and copied out; EFAULT returns the same way.
ListOut(t) ==
  /\ pc[t] \in {"list_all", "list_own"}
  /\ rw_exit_read(t)
  /\ kernel_zones' = [kernel_zones EXCEPT ![t] = 0]
  /\ Return(t)
  /\ UNCHANGED <<registry, ps_total, ps_zone, procs, buffer, zn, child>>

NameStart(t) ==
  /\ pc[t] = "user"
  /\ Goto(t, "name_lock")
  /\ UNCHANGED <<registry, ps_total, lock, ps_zone, procs, locals>>

\* sys_zone_name shows node n to process p.
Visible(p, n) == ~is_process_global(p) => zone_id[ps_zone[p]] = zone_id[n]

\* ESRCH.
NameRefused(t) ==
  /\ pc[t] = "name_lock" /\ writer = NoThread
  /\ \E id \in Ids : \A n \in NodesWithId(id) : ~Visible(owner[t], n)
  /\ Return(t)
  /\ UNCHANGED <<registry, ps_total, lock, ps_zone, procs, locals>>

\* copyoutstr may sleep, holding the lock.
NameLock(t) ==
  /\ pc[t] = "name_lock" /\ writer = NoThread
  /\ \E id \in Ids : \E n \in NodesWithId(id) :
       /\ Visible(owner[t], n)
       /\ zn' = [zn EXCEPT ![t] = n]
  /\ rw_enter_read(t)
  /\ Goto(t, "name_out")
  /\ UNCHANGED <<registry, ps_total, ps_zone, procs, buffer, kernel_zones, child>>

NameOut(t) ==
  /\ pc[t] = "name_out"
  /\ rw_exit_read(t)
  /\ zn' = [zn EXCEPT ![t] = NULL]
  /\ Return(t)
  /\ UNCHANGED <<registry, ps_total, ps_zone, procs, buffer, kernel_zones, child>>

-----------------------------------------------------------------------------
(* Processes and threads.                                                  *)

FreeThreads == {u \in Threads : owner[u] = NoProc}
ThreadsOf(p) == {u \in Threads : owner[u] = p}

\* fork1 counts the new process or thread in the zone of its parent p, and
\* stores that zone through pr before pr has a value: the store lands in
\* memory of no consequence or in some process structure.
CopyZone(p) ==
  \/ /\ is_process_global(p)
     /\ UNCHANGED <<ps_zone, ps_total>>
  \/ /\ ~is_process_global(p)
     /\ ps_total[ps_zone[p]] < TotalBound
     /\ CountIn(ps_zone[p])
     /\ \/ UNCHANGED ps_zone
        \/ \E pr \in StalePr : ps_zone' = [ps_zone EXCEPT ![pr] = ps_zone[p]]

\* fork1 up to the pool_get of process_new, which may sleep.  The slots are
\* the ones nprocesses and nthreads reserve; the credentials are already
\* copied.
ForkStart(t) ==
  /\ pc[t] = "user"
  /\ \E q \in Procs, u \in FreeThreads :
       /\ stat[q] = "free"
       /\ stat' = [stat EXCEPT ![q] = "idl"]
       /\ owner' = [owner EXCEPT ![u] = q]
       /\ child' = [child EXCEPT ![t] = q]
       /\ is_root' = [is_root EXCEPT ![q] = is_root[owner[t]]]
  /\ CopyZone(owner[t])
  /\ Goto(t, "fork_new")
  /\ UNCHANGED <<registry, lock, buffer, zn, kernel_zones>>

\* process_new zeroes the child's ps_zone, which lies between ps_startzero
\* and ps_endzero; then the child runs.
ForkNew(t) ==
  /\ pc[t] = "fork_new"
  /\ ps_zone' = [ps_zone EXCEPT ![child[t]] = NULL]
  /\ stat' = [stat EXCEPT ![child[t]] = "run"]
  /\ pc' = [u \in Threads |-> IF u = t \/ owner[u] = child[t]
                              THEN "user" ELSE pc[u]]
  /\ child' = [child EXCEPT ![t] = NoProc]
  /\ UNCHANGED <<registry, ps_total, lock, is_root, owner, buffer, zn,
                 kernel_zones>>

\* fork1 with FORK_THREAD.
ForkThread(t) ==
  /\ pc[t] = "user"
  /\ Cardinality(ThreadsOf(owner[t])) < ThreadsPerProc
  /\ \E u \in FreeThreads :
       /\ owner' = [owner EXCEPT ![u] = owner[t]]
       /\ Goto(u, "user")
  /\ CopyZone(owner[t])
  /\ UNCHANGED <<registry, lock, stat, is_root, locals>>

\* exit1 with EXIT_THREAD in a process of several threads.
ThreadExit(t) ==
  /\ pc[t] = "user"
  /\ ThreadsOf(owner[t]) # {t}
  /\ owner' = [owner EXCEPT ![t] = NoProc]
  /\ Goto(t, "idl")
  /\ UNCHANGED <<registry, ps_total, lock, ps_zone, stat, is_root, locals>>

\* exit1 of the whole process: single_thread_set waits for its other threads
\* to leave the kernel.  The process keeps its zone until it is reaped.
Exit(t) ==
  /\ pc[t] = "user"
  /\ owner[t] # InitProc
  /\ \A u \in ThreadsOf(owner[t]) : pc[u] = "user"
  /\ \E d \in {"dead", "deadnz"} : stat' = [stat EXCEPT ![owner[t]] = d]
  /\ pc' = [u \in Threads |-> IF owner[u] = owner[t] THEN "idl" ELSE pc[u]]
  /\ owner' = [u \in Threads |-> IF owner[u] = owner[t] THEN NoProc
                                 ELSE owner[u]]
  /\ UNCHANGED <<registry, ps_total, lock, ps_zone, is_root, locals>>

\* The reaper takes the process out of the count of its zone; ps_zone stays.
Reap(p) ==
  /\ \/ stat[p] = "dead" /\ stat' = [stat EXCEPT ![p] = "zombie"]
     \/ stat[p] = "deadnz" /\ stat' = [stat EXCEPT ![p] = "free"]
  /\ \/ is_process_global(p) /\ UNCHANGED ps_total
     \/ ~is_process_global(p) /\ CountOut(ps_zone[p])
  /\ UNCHANGED <<registry, lock, ps_zone, is_root, owner, pc, locals>>

\* wait4 by the parent, or by init: process_zap frees the structure.
Wait(p) ==
  /\ stat[p] = "zombie"
  /\ stat' = [stat EXCEPT ![p] = "free"]
  /\ UNCHANGED <<registry, ps_total, lock, ps_zone, is_root, owner, pc, locals>>

\* setuid(2), outside this repository: root is given up for good.
DropRoot(t) ==
  /\ pc[t] = "user"
  /\ is_root' = [is_root EXCEPT ![owner[t]] = FALSE]
  /\ UNCHANGED <<registry, ps_total, lock, ps_zone, stat, owner, pc, locals>>

-----------------------------------------------------------------------------
TakeLock(t) ==
  \/ CreateRefused(t) \/ CreateLock(t)
  \/ DestroyRefused(t) \/ DestroyLock(t)
  \/ EnterRefused(t) \/ EnterLock(t)
  \/ ListRefused(t) \/ ListLock(t)
  \/ NameRefused(t) \/ NameLock(t)

\* The steps a thread takes in the kernel without waiting for another.
Proceed(t) == CreateInsert(t) \/ ListOut(t) \/ NameOut(t) \/ ForkNew(t)

\* The steps that begin in user mode.
Call(t) ==
  \/ CreateStart(t) \/ DestroyStart(t) \/ EnterStart(t)
  \/ ListStart(t) \/ NameStart(t)
  \/ ForkStart(t) \/ ForkThread(t) \/ ThreadExit(t) \/ Exit(t) \/ DropRoot(t)

Next ==
  \/ \E t \in Threads : Call(t) \/ TakeLock(t) \/ Proceed(t)
  \/ \E p \in Procs : Reap(p) \/ Wait(p)

Spec == Init /\ [][Next]_vars

\* A thread in the kernel is scheduled; a thread waiting for zone_rwlock gets
\* it if it is released often enough; the reaper runs.
Fairness ==
  /\ \A t \in Threads : WF_vars(Proceed(t)) /\ SF_vars(TakeLock(t))
  /\ \A p \in Procs : WF_vars(Reap(p))

-----------------------------------------------------------------------------
TypeOK ==
  /\ tree \subseteq Nodes
  /\ zone_id \in [Nodes -> Int]
  /\ zone_name \in [Nodes -> Names \cup {NoName}]
  /\ ps_total \in [Nodes -> 0..CountMax]
  /\ zoneid_head \in Ids
  /\ current_zones_total \in Int
  /\ writer \in Threads \cup {NoThread} /\ readers \subseteq Threads
  /\ ps_zone \in [Procs -> Nodes \cup {NULL}]
  /\ stat \in [Procs -> Stats]
  /\ is_root \in [Procs -> BOOLEAN]
  /\ owner \in [Threads -> Procs \cup {NoProc}]
  /\ pc \in [Threads -> Pcs]
  /\ buffer \in [Threads -> Names \cup {NoName}]
  /\ zn \in [Threads -> Nodes \cup {NULL}]
  /\ kernel_zones \in [Threads -> Int]
  /\ child \in [Threads -> Procs \cup {NoProc}]

\* No node is counted for fewer processes than will still be uncounted from
\* it: every fork, thread creation and entry that makes a process a member
\* raises ps_total before the reaper lowers it (zones.c, kern_fork.c 357-360,
\* kern_exit.c 458-461).
CountCoversMembers ==
  \A n \in tree : Cardinality(Members(n)) <= ps_total[n]

\* The zone of a process that is not yet reaped is in the tree: zone_destroy
\* never frees a node the kernel will still follow from ps_zone.
NoDangling == \A p \in Procs : Unreaped(p) => ps_zone[p] \in tree \cup {NULL}

\* No two zones have one name, although zone_create sleeps in malloc between
\* its search and its insertion.
UniqueNames ==
  \A m, n \in tree : zone_name[m] = zone_name[n] => m = n

\* No two zones have one id, even after zoneid_head has wrapped.
UniqueIds == \A m, n \in tree : zone_id[m] = zone_id[n] => m = n

\* current_zones_total counts the tree, which zone_list relies on to size its
\* array, and never passes MAXZONES.
TotalExact ==
  current_zones_total = Cardinality(tree) /\ current_zones_total <= MaxZones

\* The registry is sound although zone_create and zone_destroy sleep, ids wrap
\* and nodes are reused: names and ids tell zones apart, the total is exact
\* (zones.c 85-160 and 163-196).
RegistryOK == UniqueNames /\ UniqueIds /\ TotalExact

\* What a system call took hold of before it slept is still there when it
\* wakes up: the named node, the size of the id array, the caller's own zone.
HeldAcrossSleep ==
  \A t \in Threads :
    /\ pc[t] = "name_out" => zn[t] \in tree
    /\ pc[t] = "list_all" => kernel_zones[t] = Cardinality(tree)
    /\ pc[t] = "list_own" => ps_zone[owner[t]] \in tree

\* A live process in a zone none of whose threads is past the check of
\* zone_enter and still waits for the lock.
Sealed(p) ==
  /\ stat[p] = "run" /\ ps_zone[p] # NULL
  /\ \A t \in ThreadsOf(p) : pc[t] # "enter_lock"

\* Threads that passed the check of zone_enter together may move their process
\* from zone to zone (zones.c 206-217), but once they are through, it is sealed
\* in for good: no call, fork or new thread makes a sealed process global or
\* lets it enter again, and its zone changes only if the stray store of fork1
\* (kern_fork.c 358) hits it.
StaysSealed ==
  [][\A p \in Procs :
       Sealed(p) /\ stat'[p] = "run"
       => /\ Sealed(p)'
          /\ p \notin StalePr => ps_zone'[p] = ps_zone[p]]_vars

\* Every zone system call, and every fork, returns.
SyscallReturns ==
  \A t \in Threads : pc[t] \notin {"user", "idl"} ~> pc[t] = "user"

-----------------------------------------------------------------------------
(* The inductive strengthening of the invariants above.                    *)

\* A thread outside SIDL runs in a live process, a thread slot in use belongs
\* to a live or embryonic one, and each fork in flight has its own embryo.
ThreadsOk ==
  /\ \A t \in Threads : pc[t] # "idl" => owner[t] \in Procs /\ stat[owner[t]] = "run"
  /\ \A t \in Threads : owner[t] \in Procs => stat[owner[t]] \in {"run", "idl"}
  /\ \A t \in Threads : pc[t] = "fork_new"
                         => child[t] \in Procs /\ stat[child[t]] = "idl"
  /\ \A t, u \in Threads : /\ pc[t] = "fork_new" /\ pc[u] = "fork_new"
                            /\ child[t] = child[u]
                            => t = u

\* Who sleeps with zone_rwlock held is recorded in it, and a writer excludes
\* every other holder.
LockOk ==
  /\ writer # NoThread => readers = {}
  /\ \A t \in Threads : pc[t] = "create_insert" => writer = t
  /\ \A t \in Threads : pc[t] \in {"list_all", "list_own", "name_out"} => t \in readers

\* A creator between its checks and its insertion: both checks still hold.
CreatorOk ==
  /\ \A n \in tree : zone_id[n] \in Ids /\ zone_name[n] \in Names
  /\ \A t \in Threads :
       /\ pc[t] \in {"create_lock", "create_insert"} => buffer[t] \in Names
       /\ pc[t] = "create_insert" => NodesNamed(buffer[t]) = {} /\ ~Full

\* A caller that zone_list found outside the global zone is still outside it.
ListerOk ==
  \A t \in Threads : pc[t] = "list_own" => ~is_process_global(owner[t])

IInv ==
  /\ TypeOK /\ ThreadsOk /\ LockOk /\ CreatorOk /\ ListerOk
  /\ CountCoversMembers /\ NoDangling
  /\ UniqueNames /\ UniqueIds /\ TotalExact /\ HeldAcrossSleep
=============================================================================
