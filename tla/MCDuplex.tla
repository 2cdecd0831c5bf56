------------------------------ MODULE MCDuplex ------------------------------
(* Instances of Duplex for TLC.                                            *)
EXTENDS Duplex, TLC

\* 'a' at one station, 'b' at the other
MCOneKey == <<{{0, 5, 6}}, {{1, 5, 6}}>>
MCStations == {1, 2}
MCPeer == <<2, 1>>

\* Every half of a character with up to two flipped bits is decoded to
\* itself or refused.
ASSUME HalvesDecoded ==
  \A half \in SUBSET (4..7), flip \in Noise :
    LET d == DecodeHalf(Xor(EncodeHalf(half), flip))
    IN  d.err \/ d.half = half
=============================================================================
