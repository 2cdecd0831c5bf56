--------------------------- MODULE ZoneIsolation ---------------------------
(***************************************************************************)
(* Who can signal and who can see whom across zones: cansignal, sys_kill   *)
(* and killpg1 of sys/kern/kern_sig.c and sysctl_doproc of kern_sysctl.c,  *)
(* running beside the registry of Zones.  All processes are of one session *)
(* and one process group, and belong to root or to one ordinary user.      *)
(***************************************************************************)
EXTENDS Zones

VARIABLES
  joined,     \* history: the id of the zone each process last joined, or NULL
  delivered,  \* the signals the last step posted: records [from, to, by]
  listed      \* the entries the last step returned: records [by, of]

viewVars == <<joined, delivered, listed>>

IInit == /\ Init
         /\ joined = [p \in Procs |-> NULL]
         /\ delivered = {} /\ listed = {}

-----------------------------------------------------------------------------
\* The uid comparisons of cansignal, after its zone test.
SameUser(p, q) == is_root[p] = is_root[q]

\* sigcont: the signal is SIGCONT, which is allowed within a session.
cansignal(p, q, sigcont) ==
  IF ps_zone[p] # ps_zone[q] /\ ps_zone[p] = NULL
  THEN is_root[p]
  ELSE is_root[p] \/ p = q \/ SameUser(p, q) \/ sigcont

\* The zone test of sys_kill for a positive pid.
PidInZoneUnchecked(p, q) == TRUE
PidInZone(p, q) == is_process_global(p) \/ ps_zone[p] = ps_zone[q]

\* Processes pfind and allprocess still hold.
Running == {q \in Procs : stat[q] = "run"}

Post(p, targets, by) ==
  /\ delivered' = {[from |-> p, to |-> q, by |-> by] : q \in targets}
  /\ listed' = {}
  /\ UNCHANGED <<vars, joined>>

\* kill(pid): ESRCH and EPERM post nothing.
sys_kill(t) ==
  /\ pc[t] = "user"
  /\ \E q \in Running, sigcont \in BOOLEAN :
       /\ PidInZone(owner[t], q)
       /\ cansignal(owner[t], q, sigcont)
       /\ Post(owner[t], {q}, "pid")

\* kill(-1) leaves the caller and init out, kill(0) and kill(-pgid) init.
killpg1(t, all) ==
  /\ pc[t] = "user"
  /\ \E sigcont \in BOOLEAN :
       LET targets == {q \in Running \ {InitProc} :
                         /\ ~(all /\ q = owner[t])
                         /\ cansignal(owner[t], q, sigcont)}
       IN Post(owner[t], targets, "group")

\* sysctl_doproc walks allprocess, then zombprocess, which a process enters
\* in exit1; PS_NOZOMBIE ones are on neither.
Listable == {q \in Procs : stat[q] \in {"run", "dead", "zombie"}}

sysctl_doproc(t) ==
  /\ pc[t] = "user"
  /\ LET p == owner[t]
     IN listed' = {[by |-> p, of |-> q] :
                     q \in {r \in Listable : PidInZone(p, r)}}
  /\ delivered' = {}
  /\ UNCHANGED <<vars, joined>>

\* A step of the registry, with the history of zones joined.
RegistryMove ==
  /\ Next
  /\ joined' = [p \in Procs |-> IF ps_zone'[p] = ps_zone[p] THEN joined[p]
                                ELSE IF ps_zone'[p] = NULL THEN NULL
                                ELSE zone_id[ps_zone'[p]]]
  /\ delivered' = {} /\ listed' = {}

INext ==
  \/ RegistryMove
  \/ \E t \in Threads :
       \/ sys_kill(t) \/ sysctl_doproc(t)
       \/ killpg1(t, TRUE) \/ killpg1(t, FALSE)

ISpec == IInit /\ [][INext]_<<vars, viewVars>>

\* The registry's fairness: nobody has to send a signal or list anything.
IFairSpec == ISpec /\ Fairness

-----------------------------------------------------------------------------
\* The zone test compares pointers; it is right because the pointer of a
\* process that is not reaped still stands for the zone it joined.  So a
\* process in a zone signals by pid only processes of that very zone
\* (kern_sig.c 612-614).
PidSignalsStayInZone ==
  \A s \in delivered :
    s.by = "pid" /\ joined[s.from] # NULL => joined[s.to] = joined[s.from]

\* A process in a zone is shown, among the processes not yet reaped, only
\* those of that very zone (kern_sysctl.c 1385-1390).
LiveListingInZone ==
  \A e \in listed :
    joined[e.by] # NULL /\ Unreaped(e.of) => joined[e.of] = joined[e.by]

\* README.txt of Zone_isolation: "signals cannot cross zones".
SignalsStayInZone ==
  \A s \in delivered : joined[s.from] # NULL => joined[s.to] = joined[s.from]
=============================================================================
