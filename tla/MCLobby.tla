------------------------------ MODULE MCLobby ------------------------------
(* Instances of Lobby for TLC, with tables of two.                         *)
EXTENDS Lobby

\* Enough clients to fill two tables.
MCClients == 1..4
============================================================================
