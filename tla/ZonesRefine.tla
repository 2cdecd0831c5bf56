---------------------------- MODULE ZonesRefine ----------------------------
(***************************************************************************)
(* Zones implements ZoneContract: a zone is a node of the tree, and a      *)
(* process belongs to a zone from the moment its ps_zone is set until it   *)
(* is reaped.                                                              *)
(***************************************************************************)
EXTENDS Zones

ZoneOf(n) == <<zone_id[n], zone_name[n]>>
zonesImpl == {ZoneOf(n) : n \in tree}
InZone(p) == IF Unreaped(p) /\ ps_zone[p] # NULL THEN zone_id[ps_zone[p]] ELSE NULL
inzoneImpl == [p \in Procs |-> InZone(p)]

Contract == INSTANCE ZoneContract
              WITH zones <- zonesImpl, inzone <- inzoneImpl, Nowhere <- NULL

\* Every execution of the registry (zones.c with the fork, exit and reaper
\* code that counts processes) is one the contract allows: in particular no
\* zone is destroyed while a process that is not yet reaped belongs to it.
KeepsContract == Contract!Spec
=============================================================================
