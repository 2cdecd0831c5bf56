------------------------------ MODULE MCZones ------------------------------
(* Instances of Zones for TLC: a machine with init and one root process.   *)
EXTENDS ZonesRefine, TLC

CONSTANTS init, sh, t1, t2, t3

\* init alone, one thread; everything else is forked.
MCBootInit == [t \in Threads |-> IF t = t1 THEN init ELSE NoProc]
MCStale == {sh}
MCIdMin == 0

\* Node addresses, names and free process slots are interchangeable.
Symmetric == Permutations(Nodes) \cup Permutations(Names)
               \cup Permutations(Procs \ {init, sh})
=============================================================================
