----------------------------- MODULE MCGame499 -----------------------------
(* Instances of Game499 for TLC.                                           *)
EXTENDS Game499

\* A cheap, a middling and the highest bid.
MCFewBids == {[value |-> 4, suit |-> "S"], [value |-> 8, suit |-> "D"],
              [value |-> 9, suit |-> "H"]}
============================================================================
