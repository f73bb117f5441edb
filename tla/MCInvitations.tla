---------------------------- MODULE MCInvitations ----------------------------
(* Small instances of the invitations for TLC. *)
EXTENDS Invitations, TLC

(* Clients and invitation objects are interchangeable.                     *)
Symmetric == Permutations(Clients) \cup Permutations(Invs)
=============================================================================
