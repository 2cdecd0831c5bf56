-------------------------- MODULE MCZoneIsolation --------------------------
(* Instances of ZoneIsolation for TLC.                                     *)
EXTENDS ZoneIsolation

CONSTANTS init, sh, t1, t2, t3

\* init and a shell, one thread each.
MCBoot == [t \in Threads |-> IF t = t1 THEN init
                             ELSE IF t = t2 THEN sh ELSE NoProc]
MCStale == {sh}
MCIdMin == 0
=============================================================================
