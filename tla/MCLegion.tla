------------------------------ MODULE MCLegion ------------------------------
(* Legion with interchangeable daemon names.                               *)
EXTENDS Legion, TLC

Symmetric == Permutations(Names)
=============================================================================
