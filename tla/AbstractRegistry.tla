-------------------------- MODULE AbstractRegistry --------------------------
(***************************************************************************)
(* What the client registry of Jeux promises (client_registry.h): a        *)
(* bounded set of clients.  Clients enter and leave one at a time, the set *)
(* never holds more than MAX_CLIENTS of them, and a wait for the empty     *)
(* registry returns only when the set is empty.                            *)
(***************************************************************************)
EXTENDS FiniteSets, Naturals

CONSTANTS Conns,        \* the connections the server ever accepts
          MAX_CLIENTS   \* client_registry.h: MAX_CLIENTS

VARIABLES members,      \* the registered clients
          drained       \* creg_wait_for_empty has returned

avars == <<members, drained>>

AInit ==
    /\ members = {}
    /\ drained = FALSE

Register(c) ==
    /\ c \notin members
    /\ Cardinality(members) < MAX_CLIENTS
    /\ members' = members \cup {c}
    /\ UNCHANGED drained

Unregister(c) ==
    /\ c \in members
    /\ members' = members \ {c}
    /\ UNCHANGED drained

WaitForEmpty ==
    /\ members = {}
    /\ drained' = TRUE
    /\ UNCHANGED members

ANext ==
    \/ \E c \in Conns : Register(c) \/ Unregister(c)
    \/ WaitForEmpty

ASpec == AInit /\ [][ANext]_avars
=============================================================================
