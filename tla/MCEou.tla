------------------------------- MODULE MCEou -------------------------------
(* Instances of Eou for TLC.                                               *)
EXTENDS Eou, TLC

\* The sums of generate_tun_id and generate_softc_id for small addresses.
MCTunId == [p \in Paths |-> 5]
MCSoftcId == [pv \in Paths \X VNets |-> 5 + 11 * pv[2]]

Symmetric == Permutations(Ifs)
=============================================================================
