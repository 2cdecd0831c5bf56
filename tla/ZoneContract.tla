---------------------------- MODULE ZoneContract ----------------------------
(***************************************************************************)
(* What the zone registry promises, without nodes, locks or counters: a    *)
(* bounded set of zones in which ids and names are unique, processes that  *)
(* belong only to zones that exist, and zones that go away only when no    *)
(* process belongs to them any more.                                       *)
(***************************************************************************)
EXTENDS Integers, FiniteSets

CONSTANTS Ids, Names, Procs, MaxZones, Nowhere

VARIABLES
  zones,    \* the existing zones, pairs <<id, name>>
  inzone    \* the id of the zone each process belongs to, or Nowhere

Init == zones = {} /\ inzone = [p \in Procs |-> Nowhere]

Create ==
  /\ Cardinality(zones) < MaxZones
  /\ \E id \in Ids, name \in Names :
       /\ \A z \in zones : z[1] # id /\ z[2] # name
       /\ zones' = zones \cup {<<id, name>>}
  /\ UNCHANGED inzone

Destroy ==
  /\ \E z \in zones :
       /\ \A p \in Procs : inzone[p] # z[1]
       /\ zones' = zones \ {z}
  /\ UNCHANGED inzone

\* A process joins a zone, from outside or from another one.
Join(p) ==
  /\ \E z \in zones : inzone' = [inzone EXCEPT ![p] = z[1]]
  /\ UNCHANGED zones

\* A process that is dead and reaped is in no zone.
Leave(p) ==
  /\ inzone' = [inzone EXCEPT ![p] = Nowhere]
  /\ UNCHANGED zones

Next == Create \/ Destroy \/ \E p \in Procs : Join(p) \/ Leave(p)

Spec == Init /\ [][Next]_<<zones, inzone>>
=============================================================================
