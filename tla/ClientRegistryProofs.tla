------------------------ MODULE ClientRegistryProofs ------------------------
(***************************************************************************)
(* The client registry's safety, for any number of connections and any     *)
(* MAX_CLIENTS: mutual exclusion, the exact list of clients, the counting  *)
(* of places, the unreachable error returns, and that the registry         *)
(* implements AbstractRegistry.                                            *)
(***************************************************************************)
EXTENDS ClientRegistry, FiniteSetTheorems, TLAPS

(* Descriptors: open exactly while the thread runs, and never shared.      *)
FdsDistinct ==
    /\ \A c \in Conns : fd[c] = None <=> pc[c] \in Outside
    /\ \A c, d \in Conns : fd[c] = fd[d] /\ fd[c] # None => c = d

(* RegistryExact entry by entry, which is how the steps preserve it.       *)
Entries ==
    /\ \A i \in 0 .. Listed - 1 : connections[i] \in Registered
    /\ \A c \in Registered : \E i \in 0 .. Listed - 1 : connections[i] = c
    /\ \A i, j \in 0 .. Listed - 1 : connections[i] = connections[j] => i = j

(* What the locals of a thread in the middle of an operation stand for.    *)
Locals ==
    \A c \in Conns :
        /\ c \in Registered /\ pc[c] # "swap" => refs[c] = 1
        /\ pc[c] = "swap" => idx[c] \in 0 .. count - 1 /\ connections[idx[c]] = c
        /\ pc[c] = "shrink" => count > 0 /\ connections[count - 1] \in Conns
        /\ pc[c] \in {"deref", "found"} =>
             /\ ptr[c] \in Conns
             /\ idx[c] \in Slots
             /\ connections[idx[c]] \in Conns

(* The threads whose V(cli) has not been taken back by their P(cli).       *)
CliHolders == {c \in Conns : pc[c] \in {"serve", "cliP"} \cup InScan}

(* The counters count: count the clients, cli the tokens, pin the places.  *)
Counters ==
    /\ Cardinality(Registered) = Listed
    /\ cli = Cardinality(CliHolders)
    /\ PinAccounting

IInv == TypeOK /\ MutualExclusion /\ FdsDistinct /\ Entries /\ Locals /\ Counters

-----------------------------------------------------------------------------
(* Sets of threads are finite; one thread leaves such a set.               *)
LEMMA FiniteThreads ==
    ASSUME NEW S \in SUBSET Conns
    PROVE  IsFiniteSet(S) /\ Cardinality(S) \in Nat
BY RegistryAssumption, FS_Subset, FS_CardinalityType

(* One thread enters or leaves a set of threads.                           *)
LEMMA OneMore ==
    ASSUME NEW S \in SUBSET Conns, NEW T \in SUBSET Conns, NEW c \in Conns,
           c \notin S, T = S \cup {c}
    PROVE  Cardinality(T) = Cardinality(S) + 1
BY FiniteThreads, FS_AddElement

LEMMA OneLess ==
    ASSUME NEW S \in SUBSET Conns, NEW T \in SUBSET Conns, NEW c \in Conns,
           c \in S, T = S \ {c}
    PROVE  Cardinality(T) = Cardinality(S) - 1
BY FiniteThreads, FS_RemoveElement

(* Replacing an entry by the last one and dropping the last removes that   *)
(* entry and no other from a list without duplicates.                      *)
LEMMA SwapRemove ==
    ASSUME NEW N \in Nat, NEW S, NEW f \in [0 .. N - 1 -> S], NEW n \in 1 .. N,
           NEW k \in 0 .. n - 1, \A i, j \in 0 .. n - 1 : f[i] = f[j] => i = j,
           NEW g, g = [f EXCEPT ![k] = f[n - 1]]
    PROVE  /\ \A i, j \in 0 .. n - 2 : g[i] = g[j] => i = j
           /\ \A i \in 0 .. n - 2 : g[i] # f[k] /\ \E j \in 0 .. n - 1 : g[i] = f[j]
           /\ \A j \in 0 .. n - 1 : f[j] # f[k] => \E i \in 0 .. n - 2 : g[i] = f[j]
<1>1. g[k] = f[n - 1] /\ \A i \in 0 .. n - 1 : i # k => g[i] = f[i]
  OBVIOUS
<1>2. \A i \in 0 .. n - 2 : g[i] # f[k] /\ \E j \in 0 .. n - 1 : g[i] = f[j]
  <2> SUFFICES ASSUME NEW i \in 0 .. n - 2
               PROVE  g[i] # f[k] /\ \E j \in 0 .. n - 1 : g[i] = f[j]
    OBVIOUS
  <2>1. CASE i = k
    BY <2>1, <1>1
  <2>2. CASE i # k
    BY <2>2, <1>1
  <2> QED
    BY <2>1, <2>2
<1>3. \A i, j \in 0 .. n - 2 : g[i] = g[j] => i = j
  BY <1>1
<1>4. ASSUME NEW j \in 0 .. n - 1, f[j] # f[k]
      PROVE  \E i \in 0 .. n - 2 : g[i] = f[j]
  <2>1. CASE j = n - 1
    <3>1. k \in 0 .. n - 2 /\ g[k] = f[j]
      BY <1>1, <1>4, <2>1
    <3> QED
      BY <3>1
  <2>2. CASE j # n - 1
    <3>1. j \in 0 .. n - 2 /\ g[j] = f[j]
      BY <1>1, <1>4, <2>2
    <3> QED
      BY <3>1
  <2> QED
    BY <2>1, <2>2
<1> QED
  BY <1>2, <1>3, <1>4

(* Every entry below count is a client, the spare one included.            *)
LEMMA EntriesAreClients ==
    ASSUME IInv
    PROVE  \A i \in 0 .. count - 1 : connections[i] \in Conns
<1> SUFFICES ASSUME NEW i \in 0 .. count - 1 PROVE connections[i] \in Conns
  OBVIOUS
<1>1. CASE i \in 0 .. Listed - 1
  BY <1>1 DEF IInv, Entries, Registered
<1>2. CASE i \notin 0 .. Listed - 1
  BY <1>2, RegistryAssumption DEF IInv, TypeOK, Listed, Locals
<1> QED
  BY <1>1, <1>2

(* While nobody is between the swap and the decrement, Listed is count.    *)
LEMMA AllListed ==
    ASSUME IInv, \/ mutex = 1
                 \/ main \in {"shut", "spin"}
                 \/ \E c \in Conns : pc[c] \in {"reg", "unreg", "swap"}
    PROVE  Listed = count
BY DEF IInv, MutualExclusion, InMutex, MainInMutex, Listed

(* creg_unregister finds exactly the client's own entry.                   *)
LEMMA FindsItself ==
    ASSUME IInv, NEW c \in Conns, pc[c] = "unreg"
    PROVE  \E i \in 0 .. count - 1 : connections[i] = c /\ Matches(c) = {i}
<1>1. Listed = count
  BY AllListed
<1>2. PICK i \in 0 .. count - 1 : connections[i] = c
  BY <1>1 DEF IInv, Entries, Registered
<1>3. fd[c] # None
  BY DEF IInv, FdsDistinct, Outside
<1>4. ASSUME NEW j \in 0 .. count - 1, fd[connections[j]] = fd[c]
      PROVE  j = i
  <2>1. connections[j] \in Conns
    BY EntriesAreClients
  <2>2. connections[j] = c
    BY <2>1, <1>3, <1>4 DEF IInv, FdsDistinct
  <2> QED
    BY <2>2, <1>1, <1>2 DEF IInv, Entries
<1>5. Matches(c) = {i}
  BY <1>2, <1>4 DEF Matches
<1> QED
  BY <1>2, <1>5

(* A thread that was let in finds a place in connections[].                *)
LEMMA RoomForOne ==
    ASSUME IInv, NEW c \in Conns, pc[c] = "reg"
    PROVE  count < MAX_CLIENTS
<1>1. Listed = count
  BY AllListed
<1> DEFINE R == Registered \cup {c}
<1>2. c \notin Registered /\ Registered \subseteq Conns /\ R \subseteq PinHolders
  BY DEF Registered, InScan, PinHolders
<1>3. PinHolders \subseteq Conns
  BY DEF PinHolders, Registered
<1>4. Cardinality(R) = Cardinality(Registered) + 1
  BY <1>2, OneMore
<1>5. Cardinality(R) <= Cardinality(PinHolders)
  BY <1>2, <1>3, FiniteThreads, FS_Subset
<1> HIDE DEF R
<1>6. Cardinality(PinHolders) \in Nat
  BY <1>3, FiniteThreads
<1>7. pin \in Nat /\ count \in Nat /\ pin + Cardinality(PinHolders) <= MAX_CLIENTS
  BY RegistryAssumption DEF IInv, TypeOK, Counters, PinAccounting
<1> QED
  BY <1>1, <1>4, <1>5, <1>6, <1>7, RegistryAssumption DEF IInv, Counters

-----------------------------------------------------------------------------
LEMMA InitIInv == Init => IInv
<1> SUFFICES ASSUME Init PROVE IInv
  OBVIOUS
<1> USE RegistryAssumption DEF Init
<1>1. TypeOK
  BY DEF TypeOK, Slots, Points, Outside, InRegister, InScan, InUnregister,
         MainPoints, Ops
<1>2. MutualExclusion
  BY DEF MutualExclusion, InMutex, MainInMutex
<1>3. FdsDistinct
  BY DEF FdsDistinct, Outside
<1>4. Entries
  BY DEF Entries, Listed, Registered, InScan
<1>5. Locals
  BY DEF Locals, Registered, InScan
<1>6. Registered = {} /\ CliHolders = {} /\ PinHolders = {} /\ Listed = 0
  BY DEF Registered, CliHolders, PinHolders, Listed, InScan
<1>7. Counters
  BY <1>6, FS_EmptySet DEF Counters, PinAccounting
<1> QED
  BY <1>1, <1>2, <1>3, <1>4, <1>5, <1>7 DEF IInv

(* A step that changes neither the array nor who is registered.            *)
LEMMA EntriesStable ==
    ASSUME Entries, UNCHANGED <<count, connections>>, Registered' = Registered,
           Listed' = Listed
    PROVE  Entries'
BY DEF Entries

(* Every step preserves the invariant: one case for each action.           *)
LEMMA NextIInv == IInv /\ [Next]_vars => IInv'
<1> SUFFICES ASSUME IInv, [Next]_vars PROVE IInv'
  OBVIOUS
<1> USE RegistryAssumption
<1> USE DEF vars, regVars, semVars, cliVars, scanVars, Goto, GotoMain, Slots,
            Points, Outside, InRegister, InScan, InUnregister, MainPoints, Ops
<1> Registered \subseteq Conns /\ CliHolders \subseteq Conns /\ PinHolders \subseteq Conns
  BY DEF Registered, CliHolders, PinHolders
<1> Registered' \subseteq Conns /\ CliHolders' \subseteq Conns /\ PinHolders' \subseteq Conns
  BY DEF Registered, CliHolders, PinHolders
<1> Listed \in Int /\ pin \in Nat /\ cli \in Nat
  BY DEF IInv, TypeOK, Listed
<1>1. ASSUME NEW c \in Conns, Accept(c) PROVE IInv'
  <2> USE <1>1 DEF Accept
  <2>1. /\ Registered' = Registered
        /\ CliHolders' = CliHolders
        /\ PinHolders' = PinHolders
    BY DEF IInv, TypeOK, Registered, CliHolders, PinHolders
  <2>2. Listed' = Listed
    BY DEF IInv, TypeOK, Listed
  <2>3. TypeOK'
    BY DEF IInv, TypeOK, Locals, Registered
  <2>4. MutualExclusion'
    BY DEF IInv, TypeOK, MutualExclusion, InMutex, MainInMutex
  <2>5. FdsDistinct'
    BY DEF IInv, TypeOK, FdsDistinct
  <2>6. Entries'
    BY <2>1, <2>2, EntriesStable DEF IInv
  <2>7. Locals'
    BY DEF IInv, TypeOK, Registered, Locals, MutualExclusion, InMutex
  <2>8. Counters'
    BY <2>1, <2>2, FiniteThreads DEF IInv, Counters, PinAccounting
  <2> QED
    BY <2>3, <2>4, <2>5, <2>6, <2>7, <2>8 DEF IInv
<1>2. ASSUME NEW c \in Conns, PeerCloses(c) PROVE IInv'
  <2> USE <1>2 DEF PeerCloses
  <2>1. /\ Registered' = Registered
        /\ CliHolders' = CliHolders
        /\ PinHolders' = PinHolders
    BY DEF IInv, TypeOK, Registered, CliHolders, PinHolders
  <2>2. Listed' = Listed
    BY DEF IInv, TypeOK, Listed
  <2>3. TypeOK'
    BY DEF IInv, TypeOK, Locals, Registered
  <2>4. MutualExclusion'
    BY DEF IInv, TypeOK, MutualExclusion, InMutex, MainInMutex
  <2>5. FdsDistinct'
    BY DEF IInv, TypeOK, FdsDistinct
  <2>6. Entries'
    BY <2>1, <2>2, EntriesStable DEF IInv
  <2>7. Locals'
    BY DEF IInv, TypeOK, Registered, Locals, MutualExclusion, InMutex
  <2>8. Counters'
    BY <2>1, <2>2, FiniteThreads DEF IInv, Counters, PinAccounting
  <2> QED
    BY <2>3, <2>4, <2>5, <2>6, <2>7, <2>8 DEF IInv
<1>3. ASSUME NEW c \in Conns, RegisterPin(c) PROVE IInv'
  <2> USE <1>3 DEF RegisterPin
  <2>1. /\ Registered' = Registered
        /\ CliHolders' = CliHolders
        /\ c \notin PinHolders /\ PinHolders' = PinHolders \cup {c}
    BY DEF IInv, TypeOK, Registered, CliHolders, PinHolders
  <2>2. Listed' = Listed
    BY DEF IInv, TypeOK, Listed
  <2>3. TypeOK'
    BY DEF IInv, TypeOK, Locals, Registered
  <2>4. MutualExclusion'
    BY DEF IInv, TypeOK, MutualExclusion, InMutex, MainInMutex
  <2>5. FdsDistinct'
    BY DEF IInv, TypeOK, FdsDistinct
  <2>6. Entries'
    BY <2>1, <2>2, EntriesStable DEF IInv
  <2>7. Locals'
    BY DEF IInv, TypeOK, Registered, Locals, MutualExclusion, InMutex
  <2>8. Counters'
    BY <2>1, <2>2, FiniteThreads, OneMore DEF IInv, Counters, PinAccounting
  <2> QED
    BY <2>3, <2>4, <2>5, <2>6, <2>7, <2>8 DEF IInv
<1>4. ASSUME NEW c \in Conns, RegisterLock(c) PROVE IInv'
  <2> USE <1>4 DEF RegisterLock
  <2>1. /\ Registered' = Registered
        /\ CliHolders' = CliHolders
        /\ PinHolders' = PinHolders
    BY DEF IInv, TypeOK, Registered, CliHolders, PinHolders
  <2>2. Listed' = Listed
    BY DEF IInv, TypeOK, Listed
  <2>3. TypeOK'
    BY DEF IInv, TypeOK, Locals, Registered
  <2>4. MutualExclusion'
    BY DEF IInv, TypeOK, MutualExclusion, InMutex, MainInMutex
  <2>5. FdsDistinct'
    BY DEF IInv, TypeOK, FdsDistinct
  <2>6. Entries'
    BY <2>1, <2>2, EntriesStable DEF IInv
  <2>7. Locals'
    BY DEF IInv, TypeOK, Registered, Locals, MutualExclusion, InMutex
  <2>8. Counters'
    BY <2>1, <2>2, FiniteThreads DEF IInv, Counters, PinAccounting
  <2> QED
    BY <2>3, <2>4, <2>5, <2>6, <2>7, <2>8 DEF IInv
<1>5. ASSUME NEW c \in Conns, RegisterFails(c) PROVE IInv'
  <2> USE <1>5 DEF RegisterFails
  <2>a. MallocFails
    BY RoomForOne DEF IInv, TypeOK
  <2>1. /\ Registered' = Registered
        /\ CliHolders' = CliHolders
        /\ c \in PinHolders /\ PinHolders' = PinHolders \ {c}
    BY DEF IInv, TypeOK, Registered, CliHolders, PinHolders
  <2>2. Listed' = Listed
    BY DEF IInv, TypeOK, Listed
  <2>3. TypeOK'
    BY DEF IInv, TypeOK, Locals, Registered
  <2>4. MutualExclusion'
    BY DEF IInv, TypeOK, MutualExclusion, InMutex, MainInMutex
  <2>5. FdsDistinct'
    BY DEF IInv, TypeOK, FdsDistinct
  <2>6. Entries'
    BY <2>1, <2>2, EntriesStable DEF IInv
  <2>7. Locals'
    BY DEF IInv, TypeOK, Registered, Locals, MutualExclusion, InMutex
  <2>8. Counters'
    BY <2>a, <2>1, <2>2, FiniteThreads, OneLess DEF IInv, Counters, PinAccounting
  <2> QED
    BY <2>3, <2>4, <2>5, <2>6, <2>7, <2>8 DEF IInv
<1>6. ASSUME NEW c \in Conns, RegisterStore(c) PROVE IInv'
  <2> USE <1>6 DEF RegisterStore
  <2>1. /\ c \notin Registered /\ Registered' = Registered \cup {c}
        /\ CliHolders' = CliHolders
        /\ PinHolders' = PinHolders
    BY DEF IInv, TypeOK, Registered, CliHolders, PinHolders
  <2>2. Listed = count /\ Listed' = count + 1
    BY AllListed DEF IInv, TypeOK, MutualExclusion, InMutex, Listed
  <2>3. TypeOK'
    BY DEF IInv, TypeOK, Locals, Registered
  <2>4. MutualExclusion'
    BY DEF IInv, TypeOK, MutualExclusion, InMutex, MainInMutex
  <2>5. FdsDistinct'
    BY DEF IInv, TypeOK, FdsDistinct
  <2>6. Entries'
    BY <2>1, <2>2 DEF IInv, TypeOK, Entries
  <2>7. Locals'
    BY DEF IInv, TypeOK, Registered, Locals, MutualExclusion, InMutex
  <2>8. Counters'
    BY <2>1, <2>2, FiniteThreads, OneMore DEF IInv, Counters, PinAccounting
  <2> QED
    BY <2>3, <2>4, <2>5, <2>6, <2>7, <2>8 DEF IInv
<1>7. ASSUME NEW c \in Conns, RegisterDone(c) PROVE IInv'
  <2> USE <1>7 DEF RegisterDone
  <2>1. /\ Registered' = Registered
        /\ c \notin CliHolders /\ CliHolders' = CliHolders \cup {c}
        /\ PinHolders' = PinHolders
    BY DEF IInv, TypeOK, Registered, CliHolders, PinHolders
  <2>2. Listed' = Listed
    BY DEF IInv, TypeOK, Listed
  <2>3. TypeOK'
    BY DEF IInv, TypeOK, Locals, Registered
  <2>4. MutualExclusion'
    BY DEF IInv, TypeOK, MutualExclusion, InMutex, MainInMutex
  <2>5. FdsDistinct'
    BY DEF IInv, TypeOK, FdsDistinct
  <2>6. Entries'
    BY <2>1, <2>2, EntriesStable DEF IInv
  <2>7. Locals'
    BY DEF IInv, TypeOK, Registered, Locals, MutualExclusion, InMutex
  <2>8. Counters'
    BY <2>1, <2>2, FiniteThreads, OneMore DEF IInv, Counters, PinAccounting
  <2> QED
    BY <2>3, <2>4, <2>5, <2>6, <2>7, <2>8 DEF IInv
<1>8. ASSUME NEW c \in Conns, NEW what \in Ops, NEW name \in Names \cup {None},
             Request(c, what, name)
      PROVE  IInv'
  <2> USE <1>8 DEF Request
  <2>1. /\ Registered' = Registered
        /\ CliHolders' = CliHolders
        /\ PinHolders' = PinHolders
    BY DEF IInv, TypeOK, Registered, CliHolders, PinHolders
  <2>2. Listed' = Listed
    BY DEF IInv, TypeOK, Listed
  <2>3. TypeOK'
    BY DEF IInv, TypeOK, Locals, Registered, LoggedIn
  <2>4. MutualExclusion'
    BY DEF IInv, TypeOK, MutualExclusion, InMutex, MainInMutex
  <2>5. FdsDistinct'
    BY DEF IInv, TypeOK, FdsDistinct
  <2>6. Entries'
    BY <2>1, <2>2, EntriesStable DEF IInv
  <2>7. Locals'
    BY DEF IInv, TypeOK, Registered, Locals, MutualExclusion, InMutex
  <2>8. Counters'
    BY <2>1, <2>2, FiniteThreads DEF IInv, Counters, PinAccounting
  <2> QED
    BY <2>3, <2>4, <2>5, <2>6, <2>7, <2>8 DEF IInv
<1>9. ASSUME NEW c \in Conns, ScanLoad(c) PROVE IInv'
  <2> USE <1>9 DEF ScanLoad
  <2>1. /\ Registered' = Registered
        /\ CliHolders' = CliHolders
        /\ PinHolders' = PinHolders
    BY DEF IInv, TypeOK, Registered, CliHolders, PinHolders
  <2>2. Listed' = Listed
    BY DEF IInv, TypeOK, Listed
  <2>3. TypeOK'
    BY DEF IInv, TypeOK, Locals, Registered
  <2>4. MutualExclusion'
    BY DEF IInv, TypeOK, MutualExclusion, InMutex, MainInMutex
  <2>5. FdsDistinct'
    BY DEF IInv, TypeOK, FdsDistinct
  <2>6. Entries'
    BY <2>1, <2>2, EntriesStable DEF IInv
  <2>7. Locals'
    BY EntriesAreClients DEF IInv, TypeOK, Registered, Locals, MutualExclusion, InMutex
  <2>8. Counters'
    BY <2>1, <2>2, FiniteThreads DEF IInv, Counters, PinAccounting
  <2> QED
    BY <2>3, <2>4, <2>5, <2>6, <2>7, <2>8 DEF IInv
<1>10. ASSUME NEW c \in Conns, ScanEnd(c) PROVE IInv'
  <2> USE <1>10 DEF ScanEnd
  <2>1. /\ Registered' = Registered
        /\ CliHolders' = CliHolders
        /\ PinHolders' = PinHolders
    BY DEF IInv, TypeOK, Registered, CliHolders, PinHolders
  <2>2. Listed' = Listed
    BY DEF IInv, TypeOK, Listed
  <2>3. TypeOK'
    BY DEF IInv, TypeOK, Locals, Registered
  <2>4. MutualExclusion'
    BY DEF IInv, TypeOK, MutualExclusion, InMutex, MainInMutex
  <2>5. FdsDistinct'
    BY DEF IInv, TypeOK, FdsDistinct
  <2>6. Entries'
    BY <2>1, <2>2, EntriesStable DEF IInv
  <2>7. Locals'
    BY DEF IInv, TypeOK, Registered, Locals, MutualExclusion, InMutex
  <2>8. Counters'
    BY <2>1, <2>2, FiniteThreads DEF IInv, Counters, PinAccounting
  <2> QED
    BY <2>3, <2>4, <2>5, <2>6, <2>7, <2>8 DEF IInv
<1>11. ASSUME NEW c \in Conns, ScanDeref(c) PROVE IInv'
  <2> USE <1>11 DEF ScanDeref
  <2>1. /\ Registered' = Registered
        /\ CliHolders' = CliHolders
        /\ PinHolders' = PinHolders
    BY DEF IInv, TypeOK, Registered, CliHolders, PinHolders
  <2>2. Listed' = Listed
    BY DEF IInv, TypeOK, Listed
  <2>3. TypeOK'
    BY DEF IInv, TypeOK, Locals, Registered, PlayersRead
  <2>4. MutualExclusion'
    BY DEF IInv, TypeOK, MutualExclusion, InMutex, MainInMutex
  <2>5. FdsDistinct'
    BY DEF IInv, TypeOK, FdsDistinct
  <2>6. Entries'
    BY <2>1, <2>2, EntriesStable DEF IInv
  <2>7. Locals'
    BY DEF IInv, TypeOK, Registered, Locals, MutualExclusion, InMutex
  <2>8. Counters'
    BY <2>1, <2>2, FiniteThreads DEF IInv, Counters, PinAccounting
  <2> QED
    BY <2>3, <2>4, <2>5, <2>6, <2>7, <2>8 DEF IInv
<1>12. ASSUME NEW c \in Conns, LookupReturn(c) PROVE IInv'
  <2> USE <1>12 DEF LookupReturn
  <2>1. /\ Registered' = Registered
        /\ CliHolders' = CliHolders
        /\ PinHolders' = PinHolders
    BY DEF IInv, TypeOK, Registered, CliHolders, PinHolders
  <2>2. Listed' = Listed
    BY DEF IInv, TypeOK, Listed
  <2>3. TypeOK'
    BY DEF IInv, TypeOK, Locals, Registered
  <2>4. MutualExclusion'
    BY DEF IInv, TypeOK, MutualExclusion, InMutex, MainInMutex
  <2>5. FdsDistinct'
    BY DEF IInv, TypeOK, FdsDistinct
  <2>6. Entries'
    BY <2>1, <2>2, EntriesStable DEF IInv
  <2>7. Locals'
    BY DEF IInv, TypeOK, Registered, Locals, MutualExclusion, InMutex
  <2>8. Counters'
    BY <2>1, <2>2, FiniteThreads DEF IInv, Counters, PinAccounting
  <2> QED
    BY <2>3, <2>4, <2>5, <2>6, <2>7, <2>8 DEF IInv
<1>13. ASSUME NEW c \in Conns, ListReturn(c) PROVE IInv'
  <2> USE <1>13 DEF ListReturn
  <2>1. /\ Registered' = Registered
        /\ CliHolders' = CliHolders
        /\ PinHolders' = PinHolders
    BY DEF IInv, TypeOK, Registered, CliHolders, PinHolders
  <2>2. Listed' = Listed
    BY DEF IInv, TypeOK, Listed
  <2>3. TypeOK'
    BY DEF IInv, TypeOK, Locals, Registered
  <2>4. MutualExclusion'
    BY DEF IInv, TypeOK, MutualExclusion, InMutex, MainInMutex
  <2>5. FdsDistinct'
    BY DEF IInv, TypeOK, FdsDistinct
  <2>6. Entries'
    BY <2>1, <2>2, EntriesStable DEF IInv
  <2>7. Locals'
    BY DEF IInv, TypeOK, Registered, Locals, MutualExclusion, InMutex
  <2>8. Counters'
    BY <2>1, <2>2, FiniteThreads DEF IInv, Counters, PinAccounting
  <2> QED
    BY <2>3, <2>4, <2>5, <2>6, <2>7, <2>8 DEF IInv
<1>14. ASSUME NEW c \in Conns, Login(c) PROVE IInv'
  <2> USE <1>14 DEF Login
  <2>1. /\ Registered' = Registered
        /\ CliHolders' = CliHolders
        /\ PinHolders' = PinHolders
    BY DEF IInv, TypeOK, Registered, CliHolders, PinHolders
  <2>2. Listed' = Listed
    BY DEF IInv, TypeOK, Listed
  <2>3. TypeOK'
    BY DEF IInv, TypeOK, Locals, Registered
  <2>4. MutualExclusion'
    BY DEF IInv, TypeOK, MutualExclusion, InMutex, MainInMutex
  <2>5. FdsDistinct'
    BY DEF IInv, TypeOK, FdsDistinct
  <2>6. Entries'
    BY <2>1, <2>2, EntriesStable DEF IInv
  <2>7. Locals'
    BY DEF IInv, TypeOK, Registered, Locals, MutualExclusion, InMutex
  <2>8. Counters'
    BY <2>1, <2>2, FiniteThreads DEF IInv, Counters, PinAccounting
  <2> QED
    BY <2>3, <2>4, <2>5, <2>6, <2>7, <2>8 DEF IInv
<1>15. ASSUME NEW c \in Conns, Logout(c) PROVE IInv'
  <2> USE <1>15 DEF Logout
  <2>1. /\ Registered' = Registered
        /\ CliHolders' = CliHolders
        /\ PinHolders' = PinHolders
    BY DEF IInv, TypeOK, Registered, CliHolders, PinHolders
  <2>2. Listed' = Listed
    BY DEF IInv, TypeOK, Listed
  <2>3. TypeOK'
    BY DEF IInv, TypeOK, Locals, Registered
  <2>4. MutualExclusion'
    BY DEF IInv, TypeOK, MutualExclusion, InMutex, MainInMutex
  <2>5. FdsDistinct'
    BY DEF IInv, TypeOK, FdsDistinct
  <2>6. Entries'
    BY <2>1, <2>2, EntriesStable DEF IInv
  <2>7. Locals'
    BY DEF IInv, TypeOK, Registered, Locals, MutualExclusion, InMutex
  <2>8. Counters'
    BY <2>1, <2>2, FiniteThreads DEF IInv, Counters, PinAccounting
  <2> QED
    BY <2>3, <2>4, <2>5, <2>6, <2>7, <2>8 DEF IInv
<1>16. ASSUME NEW c \in Conns, UnregisterCli(c) PROVE IInv'
  <2> USE <1>16 DEF UnregisterCli
  <2>1. /\ Registered' = Registered
        /\ c \in CliHolders /\ CliHolders' = CliHolders \ {c}
        /\ PinHolders' = PinHolders
    BY DEF IInv, TypeOK, Registered, CliHolders, PinHolders
  <2>2. Listed' = Listed
    BY DEF IInv, TypeOK, Listed
  <2>3. TypeOK'
    BY DEF IInv, TypeOK, Locals, Registered
  <2>4. MutualExclusion'
    BY DEF IInv, TypeOK, MutualExclusion, InMutex, MainInMutex
  <2>5. FdsDistinct'
    BY DEF IInv, TypeOK, FdsDistinct
  <2>6. Entries'
    BY <2>1, <2>2, EntriesStable DEF IInv
  <2>7. Locals'
    BY DEF IInv, TypeOK, Registered, Locals, MutualExclusion, InMutex
  <2>8. Counters'
    BY <2>1, <2>2, FiniteThreads, OneLess DEF IInv, Counters, PinAccounting
  <2> QED
    BY <2>3, <2>4, <2>5, <2>6, <2>7, <2>8 DEF IInv
<1>17. ASSUME NEW c \in Conns, UnregisterLock(c) PROVE IInv'
  <2> USE <1>17 DEF UnregisterLock
  <2>1. /\ Registered' = Registered
        /\ CliHolders' = CliHolders
        /\ PinHolders' = PinHolders
    BY DEF IInv, TypeOK, Registered, CliHolders, PinHolders
  <2>2. Listed' = Listed
    BY DEF IInv, TypeOK, Listed
  <2>3. TypeOK'
    BY DEF IInv, TypeOK, Locals, Registered
  <2>4. MutualExclusion'
    BY DEF IInv, TypeOK, MutualExclusion, InMutex, MainInMutex
  <2>5. FdsDistinct'
    BY DEF IInv, TypeOK, FdsDistinct
  <2>6. Entries'
    BY <2>1, <2>2, EntriesStable DEF IInv
  <2>7. Locals'
    BY DEF IInv, TypeOK, Registered, Locals, MutualExclusion, InMutex
  <2>8. Counters'
    BY <2>1, <2>2, FiniteThreads DEF IInv, Counters, PinAccounting
  <2> QED
    BY <2>3, <2>4, <2>5, <2>6, <2>7, <2>8 DEF IInv
<1>18. ASSUME NEW c \in Conns, UnregisterFind(c) PROVE IInv'
  <2> USE <1>18 DEF UnregisterFind
  <2>a. PICK k \in 0 .. count - 1 : connections[k] = c /\ Matches(c) = {k}
    BY FindsItself
  <2>b. /\ pc' = [pc EXCEPT ![c] = "swap"]
        /\ idx' = [idx EXCEPT ![c] = k]
        /\ refs' = [refs EXCEPT ![c] = @ - 1]
    BY <2>a
  <2> USE <2>a, <2>b
  <2>1. /\ Registered' = Registered
        /\ CliHolders' = CliHolders
        /\ PinHolders' = PinHolders
    BY DEF IInv, TypeOK, Registered, CliHolders, PinHolders
  <2>2. Listed' = Listed
    BY DEF IInv, TypeOK, Listed
  <2>3. TypeOK'
    BY DEF IInv, TypeOK, Locals, Registered
  <2>4. MutualExclusion'
    BY DEF IInv, TypeOK, MutualExclusion, InMutex, MainInMutex
  <2>5. FdsDistinct'
    BY DEF IInv, TypeOK, FdsDistinct
  <2>6. Entries'
    BY <2>1, <2>2, EntriesStable DEF IInv
  <2>7. Locals'
    BY DEF IInv, TypeOK, Registered, Locals, MutualExclusion, InMutex
  <2>8. Counters'
    BY <2>1, <2>2, FiniteThreads DEF IInv, Counters, PinAccounting
  <2> QED
    BY <2>3, <2>4, <2>5, <2>6, <2>7, <2>8 DEF IInv
<1>19. ASSUME NEW c \in Conns, UnregisterSwap(c) PROVE IInv'
  <2> USE <1>19 DEF UnregisterSwap
  <2>1. /\ c \in Registered /\ Registered' = Registered \ {c}
        /\ CliHolders' = CliHolders
        /\ PinHolders' = PinHolders
    BY DEF IInv, TypeOK, Registered, CliHolders, PinHolders
  <2>2. Listed = count /\ Listed' = count - 1
    BY AllListed DEF IInv, TypeOK, Listed
  <2>3. TypeOK'
    BY DEF IInv, TypeOK, Locals, Registered
  <2>4. MutualExclusion'
    BY DEF IInv, TypeOK, MutualExclusion, InMutex, MainInMutex
  <2>5. FdsDistinct'
    BY DEF IInv, TypeOK, FdsDistinct
  <2>6. Entries'
    <3>1. idx[c] \in 0 .. count - 1 /\ connections[idx[c]] = c
      BY DEF IInv, Locals
    <3>2. /\ count \in 1 .. MAX_CLIENTS /\ MAX_CLIENTS \in Nat
          /\ connections \in [0 .. MAX_CLIENTS - 1 -> Conns \cup {None}]
      BY <3>1 DEF IInv, TypeOK
    <3>3. \A i, j \in 0 .. count - 1 : connections[i] = connections[j] => i = j
      BY <2>2 DEF IInv, Entries
    <3>4. connections' = [connections EXCEPT ![idx[c]] = connections[count - 1]]
      OBVIOUS
    <3>5. /\ \A i, j \in 0 .. count - 2 : connections'[i] = connections'[j] => i = j
          /\ \A i \in 0 .. count - 2 :
               connections'[i] # c /\ \E j \in 0 .. count - 1 : connections'[i] = connections[j]
          /\ \A j \in 0 .. count - 1 :
               connections[j] # c => \E i \in 0 .. count - 2 : connections'[i] = connections[j]
      <4> HIDE <1>19 DEF UnregisterSwap
      <4> QED
        BY <3>1, <3>2, <3>3, <3>4, SwapRemove
    <3>6. /\ \A i \in 0 .. count - 1 : connections[i] \in Registered
          /\ \A d \in Registered : \E i \in 0 .. count - 1 : connections[i] = d
      BY <2>2 DEF IInv, Entries
    <3>7. 0 .. Listed' - 1 = 0 .. count - 2
      BY <2>2, <3>2
    <3> HIDE <1>19 DEF UnregisterSwap
    <3>8. \A i \in 0 .. count - 2 : connections'[i] \in Registered'
      BY <2>1, <3>5, <3>6
    <3>9. \A d \in Registered' : \E i \in 0 .. count - 2 : connections'[i] = d
      BY <2>1, <3>5, <3>6
    <3> QED
      BY <3>5, <3>7, <3>8, <3>9 DEF Entries
  <2>7. Locals'
    BY EntriesAreClients DEF IInv, TypeOK, Registered, Locals, MutualExclusion, InMutex
  <2>8. Counters'
    BY <2>1, <2>2, FiniteThreads, OneLess DEF IInv, Counters, PinAccounting
  <2> QED
    BY <2>3, <2>4, <2>5, <2>6, <2>7, <2>8 DEF IInv
<1>20. ASSUME NEW c \in Conns, UnregisterShrink(c) PROVE IInv'
  <2> USE <1>20 DEF UnregisterShrink
  <2>1. /\ Registered' = Registered
        /\ CliHolders' = CliHolders
        /\ PinHolders' = PinHolders
    BY DEF IInv, TypeOK, Registered, CliHolders, PinHolders
  <2>2. Listed = count - 1 /\ Listed' = count - 1
    BY DEF IInv, TypeOK, MutualExclusion, InMutex, Listed
  <2>3. TypeOK'
    BY DEF IInv, TypeOK, Locals, Registered
  <2>4. MutualExclusion'
    BY DEF IInv, TypeOK, MutualExclusion, InMutex, MainInMutex
  <2>5. FdsDistinct'
    BY DEF IInv, TypeOK, FdsDistinct
  <2>6. Entries'
    BY <2>1, <2>2 DEF IInv, TypeOK, Entries, Locals
  <2>7. Locals'
    BY DEF IInv, TypeOK, Registered, Locals, MutualExclusion, InMutex
  <2>8. Counters'
    BY <2>1, <2>2, FiniteThreads DEF IInv, Counters, PinAccounting
  <2> QED
    BY <2>3, <2>4, <2>5, <2>6, <2>7, <2>8 DEF IInv
<1>21. ASSUME NEW c \in Conns, UnregisterDone(c) PROVE IInv'
  <2> USE <1>21 DEF UnregisterDone
  <2>1. /\ Registered' = Registered
        /\ CliHolders' = CliHolders
        /\ c \in PinHolders /\ PinHolders' = PinHolders \ {c}
    BY DEF IInv, TypeOK, Registered, CliHolders, PinHolders
  <2>2. Listed' = Listed
    BY DEF IInv, TypeOK, Listed
  <2>0. pin + 1 <= MAX_CLIENTS
    BY FS_EmptySet, FiniteThreads, <2>1 DEF IInv, Counters, PinAccounting
  <2>3. TypeOK'
    BY <2>0 DEF IInv, TypeOK, Locals, Registered
  <2>4. MutualExclusion'
    BY DEF IInv, TypeOK, MutualExclusion, InMutex, MainInMutex
  <2>5. FdsDistinct'
    BY DEF IInv, TypeOK, FdsDistinct
  <2>6. Entries'
    BY <2>1, <2>2, EntriesStable DEF IInv
  <2>7. Locals'
    BY DEF IInv, TypeOK, Registered, Locals, MutualExclusion, InMutex
  <2>8. Counters'
    BY <2>1, <2>2, FiniteThreads, OneLess DEF IInv, Counters, PinAccounting
  <2> QED
    BY <2>3, <2>4, <2>5, <2>6, <2>7, <2>8 DEF IInv
<1>22. ASSUME NEW c \in Conns, Close(c) PROVE IInv'
  <2> USE <1>22 DEF Close
  <2>1. /\ Registered' = Registered
        /\ CliHolders' = CliHolders
        /\ PinHolders' = PinHolders
    BY DEF IInv, TypeOK, Registered, CliHolders, PinHolders
  <2>2. Listed' = Listed
    BY DEF IInv, TypeOK, Listed
  <2>3. TypeOK'
    BY DEF IInv, TypeOK, Locals, Registered
  <2>4. MutualExclusion'
    BY DEF IInv, TypeOK, MutualExclusion, InMutex, MainInMutex
  <2>5. FdsDistinct'
    BY DEF IInv, TypeOK, FdsDistinct
  <2>6. Entries'
    BY <2>1, <2>2, EntriesStable DEF IInv
  <2>7. Locals'
    BY DEF IInv, TypeOK, Registered, Locals, MutualExclusion, InMutex
  <2>8. Counters'
    BY <2>1, <2>2, FiniteThreads DEF IInv, Counters, PinAccounting
  <2> QED
    BY <2>3, <2>4, <2>5, <2>6, <2>7, <2>8 DEF IInv
<1>23. CASE ReceiveSighup
  <2> USE <1>23 DEF ReceiveSighup
  <2>1. /\ Registered' = Registered
        /\ CliHolders' = CliHolders
        /\ PinHolders' = PinHolders
    BY DEF IInv, TypeOK, Registered, CliHolders, PinHolders
  <2>2. Listed' = Listed
    BY DEF IInv, TypeOK, Listed
  <2>3. TypeOK'
    BY DEF IInv, TypeOK, Locals, Registered
  <2>4. MutualExclusion'
    BY DEF IInv, TypeOK, MutualExclusion, InMutex, MainInMutex
  <2>5. FdsDistinct'
    BY DEF IInv, TypeOK, FdsDistinct
  <2>6. Entries'
    BY <2>1, <2>2, EntriesStable DEF IInv
  <2>7. Locals'
    BY DEF IInv, TypeOK, Registered, Locals, MutualExclusion, InMutex
  <2>8. Counters'
    BY <2>1, <2>2, FiniteThreads DEF IInv, Counters, PinAccounting
  <2> QED
    BY <2>3, <2>4, <2>5, <2>6, <2>7, <2>8 DEF IInv
<1>24. CASE ShutdownLock
  <2> USE <1>24 DEF ShutdownLock
  <2>1. /\ Registered' = Registered
        /\ CliHolders' = CliHolders
        /\ PinHolders' = PinHolders
    BY DEF IInv, TypeOK, Registered, CliHolders, PinHolders
  <2>2. Listed' = Listed
    BY DEF IInv, TypeOK, Listed
  <2>3. TypeOK'
    BY DEF IInv, TypeOK, Locals, Registered
  <2>4. MutualExclusion'
    BY DEF IInv, TypeOK, MutualExclusion, InMutex, MainInMutex
  <2>5. FdsDistinct'
    BY DEF IInv, TypeOK, FdsDistinct
  <2>6. Entries'
    BY <2>1, <2>2, EntriesStable DEF IInv
  <2>7. Locals'
    BY DEF IInv, TypeOK, Registered, Locals, MutualExclusion, InMutex
  <2>8. Counters'
    BY <2>1, <2>2, FiniteThreads DEF IInv, Counters, PinAccounting
  <2> QED
    BY <2>3, <2>4, <2>5, <2>6, <2>7, <2>8 DEF IInv
<1>25. CASE creg_shutdown_all
  <2> USE <1>25 DEF creg_shutdown_all
  <2>1. /\ Registered' = Registered
        /\ CliHolders' = CliHolders
        /\ PinHolders' = PinHolders
    BY DEF IInv, TypeOK, Registered, CliHolders, PinHolders
  <2>2. Listed' = Listed
    BY DEF IInv, TypeOK, Listed
  <2>3. TypeOK'
    BY EntriesAreClients DEF IInv, TypeOK, Locals, Registered
  <2>4. MutualExclusion'
    BY DEF IInv, TypeOK, MutualExclusion, InMutex, MainInMutex
  <2>5. FdsDistinct'
    BY DEF IInv, TypeOK, FdsDistinct
  <2>6. Entries'
    BY <2>1, <2>2, EntriesStable DEF IInv
  <2>7. Locals'
    BY DEF IInv, TypeOK, Registered, Locals, MutualExclusion, InMutex
  <2>8. Counters'
    BY <2>1, <2>2, FiniteThreads DEF IInv, Counters, PinAccounting
  <2> QED
    BY <2>3, <2>4, <2>5, <2>6, <2>7, <2>8 DEF IInv
<1>26. CASE WaitLock
  <2> USE <1>26 DEF WaitLock
  <2>1. /\ Registered' = Registered
        /\ CliHolders' = CliHolders
        /\ PinHolders' = PinHolders
    BY DEF IInv, TypeOK, Registered, CliHolders, PinHolders
  <2>2. Listed' = Listed
    BY DEF IInv, TypeOK, Listed
  <2>3. TypeOK'
    BY DEF IInv, TypeOK, Locals, Registered
  <2>4. MutualExclusion'
    BY DEF IInv, TypeOK, MutualExclusion, InMutex, MainInMutex
  <2>5. FdsDistinct'
    BY DEF IInv, TypeOK, FdsDistinct
  <2>6. Entries'
    BY <2>1, <2>2, EntriesStable DEF IInv
  <2>7. Locals'
    BY DEF IInv, TypeOK, Registered, Locals, MutualExclusion, InMutex
  <2>8. Counters'
    BY <2>1, <2>2, FiniteThreads DEF IInv, Counters, PinAccounting
  <2> QED
    BY <2>3, <2>4, <2>5, <2>6, <2>7, <2>8 DEF IInv
<1>27. CASE creg_wait_for_empty
  <2> USE <1>27 DEF creg_wait_for_empty
  <2>1. /\ Registered' = Registered
        /\ CliHolders' = CliHolders
        /\ PinHolders' = PinHolders
    BY DEF IInv, TypeOK, Registered, CliHolders, PinHolders
  <2>2. Listed' = Listed
    BY DEF IInv, TypeOK, Listed
  <2>3. TypeOK'
    BY DEF IInv, TypeOK, Locals, Registered
  <2>4. MutualExclusion'
    BY DEF IInv, TypeOK, MutualExclusion, InMutex, MainInMutex
  <2>5. FdsDistinct'
    BY DEF IInv, TypeOK, FdsDistinct
  <2>6. Entries'
    BY <2>1, <2>2, EntriesStable DEF IInv
  <2>7. Locals'
    BY DEF IInv, TypeOK, Registered, Locals, MutualExclusion, InMutex
  <2>8. Counters'
    BY <2>1, <2>2, FiniteThreads DEF IInv, Counters, PinAccounting
  <2> QED
    BY <2>3, <2>4, <2>5, <2>6, <2>7, <2>8 DEF IInv
<1>28. CASE creg_fini
  <2> USE <1>28 DEF creg_fini
  <2>1. /\ Registered' = Registered
        /\ CliHolders' = CliHolders
        /\ PinHolders' = PinHolders
    BY DEF IInv, TypeOK, Registered, CliHolders, PinHolders
  <2>2. Listed' = Listed
    BY DEF IInv, TypeOK, Listed
  <2>3. TypeOK'
    BY DEF IInv, TypeOK, Locals, Registered
  <2>4. MutualExclusion'
    BY DEF IInv, TypeOK, MutualExclusion, InMutex, MainInMutex
  <2>5. FdsDistinct'
    BY DEF IInv, TypeOK, FdsDistinct
  <2>6. Entries'
    BY <2>1, <2>2, EntriesStable DEF IInv
  <2>7. Locals'
    BY DEF IInv, TypeOK, Registered, Locals, MutualExclusion, InMutex
  <2>8. Counters'
    BY <2>1, <2>2, FiniteThreads DEF IInv, Counters, PinAccounting
  <2> QED
    BY <2>3, <2>4, <2>5, <2>6, <2>7, <2>8 DEF IInv
<1>29. CASE UNCHANGED vars
  <2>1. Registered' = Registered /\ CliHolders' = CliHolders /\ PinHolders' = PinHolders
    BY <1>29 DEF Registered, CliHolders, PinHolders
  <2>2. Listed' = Listed
    BY <1>29 DEF Listed
  <2>3. TypeOK' /\ MutualExclusion' /\ FdsDistinct'
    BY <1>29 DEF IInv, TypeOK, MutualExclusion, InMutex, MainInMutex, FdsDistinct
  <2>4. Locals'
    BY <1>29, <2>1 DEF IInv, Locals
  <2>5. Entries' /\ Counters'
    BY <1>29, <2>1, <2>2, EntriesStable DEF IInv, Counters, PinAccounting
  <2> QED
    BY <2>3, <2>4, <2>5 DEF IInv
<1> QED
  BY <1>1, <1>2, <1>3, <1>4, <1>5, <1>6, <1>7, <1>8, <1>9, <1>10, <1>11, <1>12, <1>13, <1>14, <1>15, <1>16, <1>17, <1>18, <1>19, <1>20, <1>21, <1>22, <1>23, <1>24, <1>25, <1>26, <1>27, <1>28, <1>29
     DEF Next, Client, Registration, Scan, Unregistration, Terminate, Finished

-----------------------------------------------------------------------------
(* The inductive invariant holds in every reachable state of the registry. *)
THEOREM Invariance == Spec => []IInv
BY InitIInv, NextIInv, PTL DEF Spec

(* Every variable of the registry, its clients and threads keeps its type; *)
(* in particular count stays within connections[], and no semaphore goes   *)
(* above its initial value.                                                *)
THEOREM TypeCorrect == Spec => []TypeOK
<1>1. IInv => TypeOK
  BY DEF IInv
<1> QED
  BY <1>1, Invariance, PTL

(* creg_register, creg_unregister, creg_shutdown_all and                   *)
(* creg_wait_for_empty exclude each other.                                 *)
THEOREM MutexExcludes == Spec => []MutualExclusion
<1>1. IInv => MutualExclusion
  BY DEF IInv
<1> QED
  BY <1>1, Invariance, PTL

(* connections[0 .. count-1] lists every registered client exactly once.   *)
THEOREM RegistryIsExact == Spec => []RegistryExact
<1>1. IInv => RegistryExact
  BY DEF IInv, Entries, RegistryExact
<1> QED
  BY <1>1, Invariance, PTL

(* No place of the MAX_CLIENTS is handed out twice or gained.              *)
THEOREM PlacesCounted == Spec => []PinAccounting
<1>1. IInv => PinAccounting
  BY DEF IInv, Counters
<1> QED
  BY <1>1, Invariance, PTL

(* The error returns at lines 47 and 78, which keep the mutex, are not     *)
(* reached, and a client removes its own entry only.                       *)
THEOREM ErrorReturnsUnreached == Spec => []NoEarlyReturn
<1>1. ASSUME IInv PROVE NoEarlyReturn
  <2> SUFFICES ASSUME NEW c \in Conns
               PROVE  /\ pc[c] = "reg" => count < MAX_CLIENTS
                      /\ pc[c] = "unreg" => \E i \in Matches(c) : Matches(c) = {i}
                      /\ pc[c] = "swap" => idx[c] < count /\ connections[idx[c]] = c
    BY DEF NoEarlyReturn
  <2>1. pc[c] = "reg" => count < MAX_CLIENTS
    BY <1>1, RoomForOne
  <2>2. pc[c] = "unreg" => \E i \in Matches(c) : Matches(c) = {i}
    BY <1>1, FindsItself
  <2>3. pc[c] = "swap" => idx[c] < count /\ connections[idx[c]] = c
    BY <1>1 DEF IInv, TypeOK, Locals
  <2> QED
    BY <2>1, <2>2, <2>3
<1> QED
  BY <1>1, Invariance, PTL

(* creg_unregister passes P(cli) without waiting.                          *)
THEOREM CliNeverWaits == Spec => []UnregisterNeverWaits
<1>1. ASSUME IInv PROVE UnregisterNeverWaits
  <2> SUFFICES ASSUME NEW c \in Conns, pc[c] = "cliP" PROVE cli > 0
    BY DEF UnregisterNeverWaits
  <2>1. c \in CliHolders /\ CliHolders \subseteq Conns
    BY DEF CliHolders
  <2>2. IsFiniteSet(CliHolders) /\ Cardinality(CliHolders) \in Nat
    BY <2>1, FiniteThreads
  <2>3. Cardinality(CliHolders) # 0
    BY <2>1, <2>2, FS_EmptySet
  <2> QED
    BY <1>1, <2>2, <2>3 DEF IInv, Counters
<1> QED
  BY <1>1, Invariance, PTL

(* The lock-free scans read initialised entries only.                      *)
THEOREM ScansSeeClients == Spec => []ScanSeesClients
<1>1. IInv => ScanSeesClients
  BY DEF IInv, Locals, ScanSeesClients
<1> QED
  BY <1>1, Invariance, PTL

-----------------------------------------------------------------------------
(* What USERS has still to list lies ahead of it: in entries that are      *)
(* listed and that its index has not passed, the loaded one included.      *)
Ahead(c) ==
    missed[c] # {} =>
        /\ pc[c] \in {"scan", "deref"} /\ op[c] = "users"
        /\ \A d \in missed[c] : \E i \in idx[c] .. Listed - 1 : connections[i] = d
        /\ pc[c] = "deref" => ptr[c] = connections[idx[c]]

Unseen == \A c \in Conns : Ahead(c)

(* The listed entries stay, others may be added.                           *)
EntriesStay ==
    /\ Listed' \in Int /\ Listed <= Listed'
    /\ \A i \in 0 .. Listed - 1 : connections'[i] = connections[i]

(* The walk of thread c is over, or goes on as it was.                     *)
WalkStays(c) ==
    /\ missed'[c] \subseteq missed[c]
    /\ missed'[c] # {} => /\ pc'[c] = pc[c] /\ op'[c] = op[c]
                          /\ idx'[c] = idx[c] /\ ptr'[c] = ptr[c]

(* Who is ahead of a walk stays so while the walk and the entries stay.    *)
LEMMA AheadStays ==
    ASSUME IInv, NEW c \in Conns, Ahead(c), EntriesStay, WalkStays(c)
    PROVE  Ahead(c)'
<1> SUFFICES ASSUME missed'[c] # {} PROVE Ahead(c)'
  BY DEF Ahead
<1>1. /\ missed[c] # {} /\ missed'[c] \subseteq missed[c] /\ pc'[c] = pc[c] /\ op'[c] = op[c]
      /\ idx'[c] = idx[c] /\ ptr'[c] = ptr[c] /\ idx[c] \in Nat /\ Listed \in Int
  BY RegistryAssumption DEF WalkStays, IInv, TypeOK, Listed
<1>2. \A d \in missed[c] : \E i \in idx[c] .. Listed - 1 : connections[i] = d
  BY <1>1 DEF Ahead
<1>3. \A d \in missed'[c] : \E i \in idx'[c] .. Listed' - 1 : connections'[i] = d
  <2> SUFFICES ASSUME NEW d \in missed'[c]
               PROVE  \E i \in idx[c] .. Listed' - 1 : connections'[i] = d
    BY <1>1
  <2>1. PICK i : i \in idx[c] .. Listed - 1 /\ connections[i] = d
    BY <1>1, <1>2
  <2>2. i \in 0 .. Listed - 1 /\ i \in idx[c] .. Listed' - 1
    <3>1. PICK m \in Int, n \in Int : m = Listed /\ n = Listed' /\ m <= n
      BY <1>1 DEF EntriesStay
    <3>2. PICK k \in Nat : k = idx[c]
      BY <1>1
    <3>3. i \in k .. m - 1
      BY <2>1, <3>1, <3>2
    <3>4. i \in Int /\ k <= i /\ i <= m - 1
      BY <3>3
    <3>5. 0 <= i /\ i <= n - 1
      <4>1. m \in Int /\ n \in Int /\ m <= n /\ k \in Int /\ 0 <= k
        BY <3>1
      <4>2. ASSUME NEW x \in Int, NEW y \in Int, NEW z \in Int, NEW w \in Int,
                   y <= z, 0 <= w, w <= x, x <= y - 1
            PROVE  0 <= x /\ x <= z - 1
        BY <4>2
      <4> QED
        BY <3>4, <4>1, <4>2
    <3>6. i \in 0 .. m - 1 /\ i \in k .. n - 1
      BY <3>4, <3>5
    <3> QED
      BY <3>1, <3>2, <3>6
  <2> QED
    BY <2>1, <2>2 DEF EntriesStay
<1>4. idx[c] \in 0 .. Listed - 1
  BY <1>1, <1>2
<1> QED
  BY <1>1, <1>3, <1>4 DEF Ahead, EntriesStay

(* A step of a thread that is not in a walk of its own.                    *)
Elsewhere(c) ==
    /\ pc[c] \notin {"scan", "deref"}
    /\ \A d \in Conns : d # c => /\ pc'[d] = pc[d] /\ op'[d] = op[d]
                                 /\ idx'[d] = idx[d] /\ ptr'[d] = ptr[d]
    /\ \A d \in Conns : missed'[d] \subseteq missed[d]

(* What the listing has not passed yet, under the steps of others and its  *)
(* own.                                                                    *)
LEMMA UnseenElsewhere ==
    ASSUME IInv, Unseen, NEW c \in Conns, Elsewhere(c), EntriesStay
    PROVE  Unseen'
<1>1. missed[c] = {}
  BY DEF Unseen, Ahead, Elsewhere
<1>2. ASSUME NEW d \in Conns PROVE WalkStays(d)
  BY <1>1 DEF Elsewhere, WalkStays
<1> QED
  BY <1>2, AheadStays DEF Unseen

(* A step of a thread in its walk; it changes nothing the others see.      *)
Walks(c) ==
    /\ \A d \in Conns : d # c => /\ pc'[d] = pc[d] /\ op'[d] = op[d] /\ idx'[d] = idx[d]
                                 /\ ptr'[d] = ptr[d] /\ missed'[d] = missed[d]

LEMMA UnseenWalks ==
    ASSUME IInv, Unseen, NEW c \in Conns, Walks(c), EntriesStay, Ahead(c)'
    PROVE  Unseen'
<1>1. ASSUME NEW d \in Conns, d # c PROVE WalkStays(d)
  BY <1>1 DEF Walks, WalkStays
<1> QED
  BY <1>1, AheadStays DEF Unseen

LEMMA NextUnseen == IInv /\ Unseen /\ [Next]_vars => Unseen'
<1> SUFFICES ASSUME IInv, Unseen, [Next]_vars PROVE Unseen'
  OBVIOUS
<1> USE RegistryAssumption
<1> USE DEF vars, regVars, semVars, cliVars, scanVars, Goto, GotoMain
<1>t. /\ Listed \in Int /\ count \in Nat /\ \A c \in Conns : idx[c] \in Nat
      /\ pc \in [Conns -> Points] /\ idx \in [Conns -> 0 .. MAX_CLIENTS]
      /\ ptr \in [Conns -> Conns \cup {None}] /\ op \in [Conns -> Ops]
      /\ missed \in [Conns -> SUBSET Conns]
      /\ connections \in [Slots -> Conns \cup {None}]
  BY DEF IInv, TypeOK, Listed
<1>s. ASSUME UNCHANGED <<count, connections>>,
             (\E c \in Conns : pc'[c] = "shrink") <=> (\E c \in Conns : pc[c] = "shrink")
      PROVE  EntriesStay
  BY <1>t, <1>s DEF EntriesStay, Listed
<1>0. CASE UNCHANGED <<regVars, scanVars, pc>>
  BY <1>0 DEF Unseen, Ahead, Listed
<1>1. ASSUME NEW c \in Conns,
             \/ Accept(c) \/ RegisterPin(c) \/ RegisterLock(c) \/ RegisterFails(c)
             \/ RegisterDone(c) \/ LookupReturn(c) \/ ListReturn(c) \/ Login(c) \/ Logout(c)
             \/ UnregisterCli(c) \/ UnregisterLock(c) \/ UnregisterFind(c)
             \/ UnregisterDone(c) \/ Close(c)
      PROVE  Unseen'
  <2>1. /\ pc[c] \notin {"scan", "deref", "shrink"} /\ pc'[c] # "shrink"
        /\ \A d \in Conns : d # c => pc'[d] = pc[d]
        /\ UNCHANGED <<count, connections>>
    BY <1>t, <1>1 DEF Accept, RegisterPin, RegisterLock, RegisterFails, RegisterDone,
         LookupReturn, ListReturn, Login, Logout, UnregisterCli, UnregisterLock,
         UnregisterFind, UnregisterDone, Close
  <2>2. /\ \A d \in Conns : d # c => op'[d] = op[d] /\ idx'[d] = idx[d] /\ ptr'[d] = ptr[d]
        /\ \A d \in Conns : missed'[d] \subseteq missed[d]
    BY <1>t, <1>1 DEF Accept, RegisterPin, RegisterLock, RegisterFails, RegisterDone,
         LookupReturn, ListReturn, Login, Logout, UnregisterCli, UnregisterLock,
         UnregisterFind, UnregisterDone, Close
  <2>3. EntriesStay
    BY <1>s, <2>1
  <2> QED
    BY <2>1, <2>2, <2>3, UnseenElsewhere DEF Elsewhere
<1>2. ASSUME NEW c \in Conns, RegisterStore(c) PROVE Unseen'
  <2>1. /\ pc[c] = "reg" /\ pc'[c] = "cliV" /\ \A d \in Conns : d # c => pc'[d] = pc[d]
        /\ count' = count + 1 /\ connections' = [connections EXCEPT ![count] = c]
        /\ UNCHANGED <<idx, ptr, op, missed>>
    BY <1>t, <1>2 DEF RegisterStore
  <2>2. Listed = count /\ ~\E d \in Conns : pc[d] = "shrink"
    BY <2>1, AllListed DEF IInv, MutualExclusion, InMutex
  <2>3. Listed' = count + 1
    BY <2>1, <2>2 DEF Listed
  <2>4. EntriesStay
    BY <1>t, <2>1, <2>2, <2>3 DEF EntriesStay, Slots, IInv, TypeOK
  <2> QED
    BY <2>1, <2>4, UnseenElsewhere DEF Elsewhere
<1>3. ASSUME NEW c \in Conns, UnregisterSwap(c) PROVE Unseen'
  <2>1. \A d \in Conns : missed'[d] = {}
    BY <1>3 DEF UnregisterSwap
  <2> QED
    BY <2>1 DEF Unseen, Ahead
<1>4. ASSUME NEW c \in Conns, UnregisterShrink(c) PROVE Unseen'
  <2>1. /\ pc[c] = "shrink" /\ pc'[c] = "pinV" /\ \A d \in Conns : d # c => pc'[d] = pc[d]
        /\ count' = count - 1 /\ UNCHANGED <<connections, idx, ptr, op, missed>>
    BY <1>t, <1>4 DEF UnregisterShrink
  <2>2. \A d \in Conns : d # c => pc[d] # "shrink"
    BY <2>1 DEF IInv, MutualExclusion, InMutex
  <2>3. Listed = count - 1 /\ Listed' = count'
    BY <2>1, <2>2 DEF Listed
  <2>4. EntriesStay
    BY <1>t, <2>1, <2>3 DEF EntriesStay
  <2> QED
    BY <2>1, <2>4, UnseenElsewhere DEF Elsewhere
<1>5. ASSUME NEW c \in Conns, NEW what \in Ops, NEW name, Request(c, what, name) PROVE Unseen'
  <2>1. /\ pc[c] = "serve" /\ pc'[c] = "scan" /\ op'[c] = what /\ idx'[c] = 0
        /\ missed'[c] = (IF what = "users" THEN LoggedIn ELSE {})
        /\ UNCHANGED <<count, connections>> /\ Walks(c)
    BY <1>t, <1>5 DEF Request, Walks
  <2>2. EntriesStay
    BY <1>s, <2>1 DEF Walks
  <2>3. Listed' = Listed
    BY <2>1 DEF Listed, Walks
  <2>4. \A d \in LoggedIn : \E i \in 0 .. Listed - 1 : connections[i] = d
    BY DEF LoggedIn, IInv, Entries
  <2>5. Ahead(c)'
    BY <2>1, <2>3, <2>4 DEF Ahead
  <2> QED
    BY <2>1, <2>2, <2>5, UnseenWalks
<1>6. ASSUME NEW c \in Conns, ScanLoad(c) PROVE Unseen'
  <2>1. /\ pc[c] = "scan" /\ pc'[c] = "deref" /\ ptr'[c] = connections[idx[c]]
        /\ op'[c] = op[c] /\ idx'[c] = idx[c] /\ missed'[c] = missed[c]
        /\ UNCHANGED <<count, connections>> /\ Walks(c)
    BY <1>t, <1>6 DEF ScanLoad, Walks
  <2>2. EntriesStay
    BY <1>s, <2>1 DEF Walks
  <2>3. Listed' = Listed
    BY <2>1 DEF Listed, Walks
  <2>4. Ahead(c)'
    BY <2>1, <2>3 DEF Unseen, Ahead
  <2> QED
    BY <2>1, <2>2, <2>4, UnseenWalks
<1>7. ASSUME NEW c \in Conns, ScanEnd(c) PROVE Unseen'
  <2>1. /\ pc[c] = "scan" /\ pc'[c] \in {"login", "serve", "listed"} /\ count <= idx[c]
        /\ missed' = missed /\ UNCHANGED <<count, connections>> /\ Walks(c)
    BY <1>t, <1>7 DEF ScanEnd, Walks, Ops
  <2>2. EntriesStay
    BY <1>s, <2>1 DEF Walks
  <2>3. Listed <= count
    BY <1>t DEF Listed
  <2>4. missed[c] = {}
    BY <1>t, <2>1, <2>3 DEF Unseen, Ahead
  <2>5. Ahead(c)'
    BY <2>1, <2>4 DEF Ahead
  <2> QED
    BY <2>1, <2>2, <2>5, UnseenWalks
<1>8. ASSUME NEW c \in Conns, ScanDeref(c) PROVE Unseen'
  <2>1. /\ pc[c] = "deref" /\ pc'[c] \in {"found", "scan"} /\ op'[c] = op[c]
        /\ op[c] = "users" => pc'[c] = "scan" /\ idx'[c] = idx[c] + 1
        /\ missed'[c] = missed[c] \ {ptr[c]}
        /\ UNCHANGED <<count, connections>> /\ Walks(c)
    BY <1>t, <1>8 DEF ScanDeref, Walks
  <2>2. EntriesStay
    BY <1>s, <2>1 DEF Walks
  <2>3. Listed' = Listed
    BY <2>1 DEF Listed, Walks
  <2>4. ASSUME missed'[c] # {}
        PROVE  /\ op[c] = "users"
               /\ \A d \in missed'[c] : \E i \in idx[c] + 1 .. Listed - 1 : connections[i] = d
    <3>1. /\ op[c] = "users" /\ ptr[c] = connections[idx[c]]
          /\ \A d \in missed[c] : \E i \in idx[c] .. Listed - 1 : connections[i] = d
      BY <2>1, <2>4 DEF Unseen, Ahead
    <3>2. ASSUME NEW d \in missed'[c]
          PROVE  \E i \in idx[c] + 1 .. Listed - 1 : connections[i] = d
      <4>1. PICK i \in idx[c] .. Listed - 1 : connections[i] = d
        BY <2>1, <3>1
      <4>2. i # idx[c]
        BY <2>1, <3>1, <4>1
      <4>3. i \in idx[c] + 1 .. Listed - 1
        BY <1>t, <4>2
      <4> QED
        BY <4>1, <4>3
    <3> QED
      BY <3>1, <3>2
  <2>5. Ahead(c)'
    BY <2>1, <2>3, <2>4 DEF Ahead
  <2> QED
    BY <2>1, <2>2, <2>5, UnseenWalks
<1>9. ASSUME NEW c \in Conns, PeerCloses(c) PROVE Unseen'
  BY <1>0, <1>9 DEF PeerCloses
<1>10. CASE ReceiveSighup \/ Terminate \/ Finished \/ UNCHANGED vars
  BY <1>0, <1>10 DEF ReceiveSighup, Terminate, ShutdownLock, creg_shutdown_all, WaitLock,
       creg_wait_for_empty, creg_fini, Finished
<1>11. ASSUME NEW c \in Conns, Client(c) PROVE Unseen'
  BY <1>1, <1>5, <1>9, <1>11 DEF Client, Ops
<1> QED
  BY <1>1, <1>2, <1>3, <1>4, <1>6, <1>7, <1>8, <1>10, <1>11
     DEF Next, Registration, Scan, Unregistration

(* creg_all_players walks connections[] without the mutex and yet lists    *)
(* every client that is logged in throughout, as long as no entry is moved *)
(* meanwhile.                                                              *)
THEOREM UsersListsAll == Spec => []AllPlayersListed
<1>1. Init => Unseen
  BY DEF Init, Unseen, Ahead
<1>2. Unseen => AllPlayersListed
  BY DEF Unseen, Ahead, AllPlayersListed
<1> QED
  BY <1>1, <1>2, Invariance, NextUnseen, PTL DEF Spec

-----------------------------------------------------------------------------
(* Refinement: the set of entries changes only as AbstractRegistry allows. *)
Members == {connections[i] : i \in 0 .. count - 1}

(* While nobody is in the middle of a removal the entries are the          *)
(* registered clients.                                                     *)
LEMMA MembersRegistered ==
    ASSUME IInv, Listed = count
    PROVE  Members = Registered
BY DEF IInv, Entries, Members

(* The step at which a client leaves the abstract set.                     *)
LEMMA SwapRefines ==
    ASSUME IInv, IInv', NEW c \in Conns, UnregisterSwap(c)
    PROVE  UNCHANGED Members \/ (c \in Members /\ Members' = Members \ {c})
<1>1. idx[c] \in 0 .. count - 1 /\ connections[idx[c]] = c
  BY DEF UnregisterSwap, Goto, IInv, Locals
<1>2. Listed = count
  BY AllListed DEF UnregisterSwap, Goto
<1>3. /\ count \in 1 .. MAX_CLIENTS /\ MAX_CLIENTS \in Nat
      /\ connections \in [0 .. MAX_CLIENTS - 1 -> Conns \cup {None}]
  BY <1>1, RegistryAssumption DEF IInv, TypeOK, Slots
<1>4. /\ connections' = [connections EXCEPT ![idx[c]] = connections[count - 1]]
      /\ count' = count
  BY DEF UnregisterSwap
<1>5. \A i, j \in 0 .. count - 1 : connections[i] = connections[j] => i = j
  BY <1>2 DEF IInv, Entries
<1>6. CASE idx[c] = count - 1
  <2>1. connections' = connections
    BY <1>3, <1>4, <1>6
  <2> QED
    BY <2>1, <1>4 DEF Members
<1>7. CASE idx[c] # count - 1
  <2>1. /\ connections'[idx[c]] = connections[count - 1]
        /\ \A i \in 0 .. count - 1 : i # idx[c] => connections'[i] = connections[i]
    BY <1>1, <1>3, <1>4
  <2>2. c \in Members /\ Members' \subseteq Members
    BY <1>1, <1>3, <1>4, <2>1 DEF Members
  <2>3. \A i \in 0 .. count - 1 : connections'[i] # c
    BY <1>1, <1>3, <1>5, <1>7, <2>1
  <2>4. ASSUME NEW d \in Members \ {c} PROVE d \in Members'
    <3>1. PICK i \in 0 .. count - 1 : connections[i] = d
      BY DEF Members
    <3>2. connections'[i] = d
      BY <3>1, <2>1, <1>1
    <3> QED
      BY <3>2, <1>4 DEF Members
  <2> QED
    BY <2>2, <2>3, <2>4, <1>4 DEF Members
<1> QED
  BY <1>6, <1>7

LEMMA ShrinkRefines ==
    ASSUME IInv, IInv', NEW c \in Conns, UnregisterShrink(c)
    PROVE  UNCHANGED Members \/ \E d \in Conns : d \in Members /\ Members' = Members \ {d}
<1>1. count \in 1 .. MAX_CLIENTS /\ MAX_CLIENTS \in Nat
  BY RegistryAssumption DEF UnregisterShrink, Goto, IInv, TypeOK, Locals
<1>2. count' = count - 1 /\ connections' = connections
  BY DEF UnregisterShrink
<1> DEFINE d == connections[count - 1]
<1>3. d \in Conns /\ d \in Members
  BY <1>1, EntriesAreClients DEF Members
<1>4. Members = Members' \cup {d}
  BY <1>1, <1>2 DEF Members
<1> QED
  BY <1>3, <1>4

(* The registry implements the bounded set of clients.                     *)
THEOREM RegistryImplementsAbstract == Spec => ImplementsAbstract
<1>1. Init => Abstract!AInit
  BY DEF Init, Abstract!AInit
<1>2. ASSUME IInv, IInv', [Next]_vars PROVE [Abstract!ANext]_(Abstract!avars)
  <2> DEFINE drained == main \in {"fini", "exited"}
  <2>1. ASSUME UNCHANGED Members, UNCHANGED drained
        PROVE  [Abstract!ANext]_(Abstract!avars)
    BY <2>1 DEF Members, Abstract!avars
  <2>2. ASSUME UNCHANGED drained, NEW d \in Conns, d \in Members, Members' = Members \ {d}
        PROVE  [Abstract!ANext]_(Abstract!avars)
    BY <2>2 DEF Members, Abstract!ANext, Abstract!Unregister
  <2>3. CASE UNCHANGED regVars /\ UNCHANGED drained
    BY <2>1, <2>3 DEF regVars, Members
  <2>4. ASSUME NEW c \in Conns, RegisterStore(c)
        PROVE  [Abstract!ANext]_(Abstract!avars)
    <3>1. Listed = count
      BY <1>2, <2>4, AllListed DEF RegisterStore, Goto
    <3>2. Members = Registered /\ count < MAX_CLIENTS /\ count \in Nat
      BY <1>2, <2>4, <3>1, MembersRegistered, RoomForOne, RegistryAssumption
         DEF RegisterStore, Goto, IInv, TypeOK
    <3>3. Cardinality(Members) < MAX_CLIENTS
      BY <1>2, <3>1, <3>2 DEF IInv, Counters
    <3>4. c \notin Members
      BY <2>4, <3>2 DEF RegisterStore, Goto, Registered, InScan
    <3>5. connections \in [0 .. MAX_CLIENTS - 1 -> Conns \cup {None}]
      BY <1>2 DEF IInv, TypeOK, Slots
    <3>6. Members' = Members \cup {c}
      BY <2>4, <3>2, <3>5, RegistryAssumption DEF RegisterStore, Members
    <3>7. UNCHANGED drained
      BY <2>4 DEF RegisterStore
    <3>8. Abstract!Cardinality(Members) = Cardinality(Members)
      BY DEF Cardinality, Abstract!Cardinality
    <3>9. Abstract!Register(c)
      BY <3>3, <3>4, <3>6, <3>7, <3>8 DEF Members, Abstract!Register
    <3> QED
      BY <3>9 DEF Abstract!ANext
  <2>5. ASSUME NEW c \in Conns, UnregisterSwap(c)
        PROVE  [Abstract!ANext]_(Abstract!avars)
    <3>1. UNCHANGED drained
      BY <2>5 DEF UnregisterSwap
    <3> QED
      BY <2>5, <3>1, <1>2, SwapRefines, <2>1, <2>2
  <2>6. ASSUME NEW c \in Conns, UnregisterShrink(c)
        PROVE  [Abstract!ANext]_(Abstract!avars)
    <3>1. UNCHANGED drained
      BY <2>6 DEF UnregisterShrink
    <3> QED
      BY <2>6, <3>1, <1>2, ShrinkRefines, <2>1, <2>2
  <2>7. CASE creg_wait_for_empty
    <3>1. count = 0 /\ UNCHANGED Members
      BY <2>7, <1>2 DEF creg_wait_for_empty, regVars, Members, IInv, TypeOK
    <3>2. Members = {} /\ drained' = TRUE
      BY <2>7, <3>1 DEF creg_wait_for_empty, GotoMain, Members
    <3> QED
      BY <3>1, <3>2 DEF Members, Abstract!ANext, Abstract!WaitForEmpty
  <2>8. ASSUME NEW c \in Conns, Client(c) \/ Scan(c)
        PROVE  UNCHANGED regVars /\ UNCHANGED drained
    BY <2>8 DEF Client, Scan, Accept, PeerCloses, Request, ScanLoad, ScanEnd,
                ScanDeref, LookupReturn, ListReturn, Login
  <2>9. ASSUME NEW c \in Conns,
               \/ RegisterPin(c) \/ RegisterLock(c) \/ RegisterFails(c)
               \/ RegisterDone(c) \/ Logout(c) \/ UnregisterCli(c)
               \/ UnregisterLock(c) \/ UnregisterFind(c) \/ UnregisterDone(c)
               \/ Close(c)
        PROVE  UNCHANGED regVars /\ UNCHANGED drained
    BY <2>9 DEF RegisterPin, RegisterLock, RegisterFails, RegisterDone, Logout,
                UnregisterCli, UnregisterLock, UnregisterFind, UnregisterDone, Close
  <2>10. ASSUME \/ ReceiveSighup \/ ShutdownLock \/ creg_shutdown_all
                \/ WaitLock \/ creg_fini
         PROVE  UNCHANGED regVars /\ UNCHANGED drained
    BY <2>10 DEF ReceiveSighup, ShutdownLock, creg_shutdown_all, WaitLock,
                 creg_fini, GotoMain
  <2>11. CASE UNCHANGED vars
    BY <2>3, <2>11 DEF vars
  <2> HIDE DEF drained
  <2> QED
    BY <1>2, <2>3, <2>4, <2>5, <2>6, <2>7, <2>8, <2>9, <2>10, <2>11
       DEF Next, Registration, Unregistration, Terminate, Finished
<1> QED
  BY <1>1, <1>2, Invariance, PTL DEF Spec, ImplementsAbstract, Abstract!ASpec
=============================================================================
