------------------------------ MODULE MCPlayers ------------------------------
(* Players with interchangeable threads and names.                         *)
EXTENDS Players, TLC

Symmetric == Permutations(Threads) \cup Permutations(Names)
=============================================================================
