------------------------------ MODULE MCTricks ------------------------------
(* Instances of Tricks for TLC: nine cards, two of eight to a hand.        *)
EXTENDS Tricks

Card(s, v) == [value |-> v, suit |-> s]
Line(shuffle) == [k \in 1..8 |-> Card(<<"S", "C", "H">>[1 + (shuffle[k] % 3)],
                                      2 + (shuffle[k] \div 3))]
\* Mixed hands; hands of one suit; one player without the suit of the others.
MCDecks == {Line(<<0, 5, 1, 3, 7, 2, 6, 4>>),
            Line(<<0, 1, 2, 4, 3, 7, 5, 6>>),
            Line(<<0, 3, 1, 2, 7, 5, 4, 8>>)}
=============================================================================
