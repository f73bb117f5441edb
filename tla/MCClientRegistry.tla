-------------------------- MODULE MCClientRegistry --------------------------
(* Small instances of the client registry for TLC. *)
EXTENDS ClientRegistry, TLC

(* Connections, descriptors and names are interchangeable.                 *)
Symmetric == Permutations(Conns) \cup Permutations(Fds) \cup Permutations(Names)
=============================================================================
