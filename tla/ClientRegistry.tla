--------------------------- MODULE ClientRegistry ---------------------------
(***************************************************************************)
(* The client registry of the Jeux server (hw5/src/client_registry.c), the *)
(* part of CLIENT it manages (client.c: creation, reference count, login,  *)
(* logout) and the server's start and shutdown (main.c).                   *)
(*                                                                         *)
(* Every accepted connection is served by one thread; connection, thread   *)
(* and CLIENT object are identified by one element of Conns.  A step is    *)
(* the code between two points where another thread can interfere: a       *)
(* semaphore operation, or a read or write of shared memory made without   *)
(* holding the registry's mutex.                                           *)
(*                                                                         *)
(* The service loop that calls the registry (jeux_client_service) ships as *)
(* an object file; its actions are modelled from the calls it makes.       *)
(***************************************************************************)
EXTENDS FiniteSets, Integers

CONSTANTS Conns,        \* the connections that are ever accepted
          Fds,          \* descriptor numbers, reused after close()
          Names,        \* user names
          MAX_CLIENTS,  \* client_registry.h
          MallocFails,  \* may malloc() return NULL in client_create?
          Sighup,       \* may the server receive SIGHUP?
          Scans,        \* may threads LOGIN, look up and list players?
          None          \* the NULL pointer

ASSUME RegistryAssumption ==
    /\ MAX_CLIENTS \in Nat \ {0}
    /\ MallocFails \in BOOLEAN
    /\ Sighup \in BOOLEAN
    /\ Scans \in BOOLEAN
    /\ None \notin Conns \cup Fds \cup Names
    /\ IsFiniteSet(Conns)

VARIABLES
    count, connections,     \* CLIENT_REGISTRY: count, connections[]
    mutex, pin, cli,        \* CLIENT_REGISTRY: the three semaphores
    refs, fd, player,       \* CLIENT: count, fd, player (None: logged out)
    pc,                     \* where each service thread is
    main,                   \* where the main thread is
    idx, ptr,               \* locals of a thread: loop index, loaded pointer
    op, want,               \* why it scans the registry, and for which name
    missed,                 \* history: see ScanLoad
    eof,                    \* connections whose EOF is readable
    finalized               \* outcome of creg_fini

regVars  == <<count, connections>>
semVars  == <<mutex, pin, cli>>
cliVars  == <<refs, fd, player>>
scanVars == <<idx, ptr, op, want, missed>>
vars == <<regVars, semVars, cliVars, pc, main, scanVars, eof, finalized>>

Slots == 0 .. MAX_CLIENTS - 1

(* Program points of a service thread.                                     *)
Outside     == {"none", "done"}
InRegister  == {"pin", "regMutex", "reg", "cliV"}
InScan      == {"scan", "deref", "found", "listed", "login"}
InUnregister == {"cliP", "unregMutex", "unreg", "swap", "shrink", "pinV"}
Points == Outside \cup InRegister \cup {"serve", "close"} \cup InScan
                  \cup InUnregister
MainPoints == {"accept", "shutMutex", "shut", "waitMutex", "spin", "fini",
               "exited"}
Ops == {"login", "invite", "users"}

(* The threads that own the registry's mutex, by their program point.      *)
InMutex == {c \in Conns : pc[c] \in {"reg", "unreg", "swap", "shrink"}}
MainInMutex == main \in {"shut", "spin"}

(* The clients whose registration has been made and not been undone.       *)
Registered == {c \in Conns :
                 pc[c] \in {"cliV", "serve", "cliP", "unregMutex", "unreg",
                            "swap"} \cup InScan}

TypeOK ==
    /\ count \in 0 .. MAX_CLIENTS
    /\ connections \in [Slots -> Conns \cup {None}]
    /\ mutex \in 0 .. 1
    /\ pin \in 0 .. MAX_CLIENTS
    /\ cli \in Nat
    /\ refs \in [Conns -> 0 .. 1]
    /\ fd \in [Conns -> Fds \cup {None}]
    /\ player \in [Conns -> Names \cup {None}]
    /\ pc \in [Conns -> Points]
    /\ main \in MainPoints
    /\ idx \in [Conns -> 0 .. MAX_CLIENTS]
    /\ ptr \in [Conns -> Conns \cup {None}]
    /\ op \in [Conns -> Ops]
    /\ want \in [Conns -> Names \cup {None}]
    /\ missed \in [Conns -> SUBSET Conns]
    /\ eof \subseteq Conns
    /\ finalized \in {"no", "freed", "refused"}

(* creg_init, before main enters its accept loop.                          *)
Init ==
    /\ count = 0
    /\ connections = [i \in Slots |-> None]
    /\ mutex = 1
    /\ pin = MAX_CLIENTS
    /\ cli = 0
    /\ refs = [c \in Conns |-> 0]
    /\ fd = [c \in Conns |-> None]
    /\ player = [c \in Conns |-> None]
    /\ pc = [c \in Conns |-> "none"]
    /\ main = "accept"
    /\ idx = [c \in Conns |-> 0]
    /\ ptr = [c \in Conns |-> None]
    /\ op = [c \in Conns |-> "login"]
    /\ want = [c \in Conns |-> None]
    /\ missed = [c \in Conns |-> {}]
    /\ eof = {}
    /\ finalized = "no"

Goto(c, from, to) ==
    /\ main # "exited"
    /\ pc[c] = from
    /\ pc' = [pc EXCEPT ![c] = to]

-----------------------------------------------------------------------------
(* main.c: accept a connection and start its thread.  The descriptor is    *)
(* any number that is not open.                                            *)
Accept(c) ==
    /\ main = "accept"
    /\ Goto(c, "none", "pin")
    /\ \E f \in Fds \ {fd[d] : d \in Conns} : fd' = [fd EXCEPT ![c] = f]
    /\ UNCHANGED <<regVars, semVars, refs, player, main, scanVars, eof,
                   finalized>>

(* The peer closes its end, or main has shut down the socket's read side.  *)
PeerCloses(c) ==
    /\ main # "exited"
    /\ pc[c] \notin Outside
    /\ c \notin eof
    /\ eof' = eof \cup {c}
    /\ UNCHANGED <<regVars, semVars, cliVars, pc, main, scanVars, finalized>>

(* Mutant: the registration takes no place from pin.                       *)
RegisterPinUncounted(c) ==
    /\ Goto(c, "pin", "regMutex")
    /\ UNCHANGED <<regVars, semVars, cliVars, main, scanVars, eof, finalized>>

(* creg_register: P(pin), P(mutex).                                        *)
RegisterPin(c) ==
    /\ pin > 0
    /\ Goto(c, "pin", "regMutex")
    /\ pin' = pin - 1
    /\ UNCHANGED <<regVars, mutex, cli, cliVars, main, scanVars, eof,
                   finalized>>

RegisterLock(c) ==
    /\ mutex = 1
    /\ Goto(c, "regMutex", "reg")
    /\ mutex' = 0
    /\ UNCHANGED <<regVars, pin, cli, cliVars, main, scanVars, eof,
                   finalized>>

(* The registry is full or malloc fails: NULL is returned with the mutex   *)
(* held, and the service closes the connection.                            *)
RegisterFails(c) ==
    /\ count = MAX_CLIENTS \/ MallocFails
    /\ Goto(c, "reg", "close")
    /\ UNCHANGED <<regVars, semVars, cliVars, main, scanVars, eof, finalized>>

(* client_create, the store into connections[], V(mutex).                  *)
RegisterStore(c) ==
    /\ count # MAX_CLIENTS
    /\ Goto(c, "reg", "cliV")
    /\ refs' = [refs EXCEPT ![c] = 1]
    /\ connections' = [connections EXCEPT ![count] = c]
    /\ count' = count + 1
    /\ mutex' = 1
    /\ UNCHANGED <<pin, cli, fd, player, main, scanVars, eof, finalized>>

(* Mutant: V(cli) is forgotten.                                            *)
RegisterDoneSilent(c) ==
    /\ Goto(c, "cliV", "serve")
    /\ UNCHANGED <<regVars, semVars, cliVars, main, scanVars, eof, finalized>>

RegisterDone(c) ==
    /\ Goto(c, "cliV", "serve")
    /\ cli' = cli + 1
    /\ UNCHANGED <<regVars, mutex, pin, cliVars, main, scanVars, eof,
                   finalized>>

-----------------------------------------------------------------------------
(* The commands that scan the registry, all without its mutex: LOGIN       *)
(* (client_login calls creg_lookup), INVITE (creg_lookup) and USERS        *)
(* (creg_all_players).  A scan reads count and connections[i], then        *)
(* follows the pointer, and so on.                                         *)
LoggedIn == {d \in Registered : player[d] # None}

Request(c, what, name) ==
    /\ Scans
    /\ c \notin eof
    /\ (player[c] = None) <=> (what = "login")
    /\ Goto(c, "serve", "scan")
    /\ op' = [op EXCEPT ![c] = what]
    /\ want' = [want EXCEPT ![c] = name]
    /\ idx' = [idx EXCEPT ![c] = 0]
    /\ missed' = [missed EXCEPT ![c] = IF what = "users" THEN LoggedIn ELSE {}]
    /\ UNCHANGED <<regVars, semVars, cliVars, main, ptr, eof, finalized>>

(* Mutant: the loop runs to i <= count.                                    *)
ScanLoadOffByOne(c) ==
    /\ idx[c] <= count /\ idx[c] \in Slots
    /\ Goto(c, "scan", "deref")
    /\ ptr' = [ptr EXCEPT ![c] = connections[idx[c]]]
    /\ UNCHANGED <<regVars, semVars, cliVars, main, idx, op, want, missed,
                   eof, finalized>>

(* USERS keeps in missed[c] the clients that were logged in when it began, *)
(* have been so since, and have not been listed: what is left at the end   *)
(* was overlooked.  When an entry is moved the account is closed, for then *)
(* clients can be overlooked.  (A history variable: the code has no        *)
(* counterpart.)                                                           *)
ScanLoad(c) ==
    /\ idx[c] < count
    /\ Goto(c, "scan", "deref")
    /\ ptr' = [ptr EXCEPT ![c] = connections[idx[c]]]
    /\ UNCHANGED <<regVars, semVars, cliVars, main, idx, op, want, missed,
                   eof, finalized>>

(* Mutant: the walk ends one entry early.                                  *)
ScanEndEarly(c) ==
    /\ idx[c] + 1 >= count
    /\ Goto(c, "scan", CASE op[c] = "login"  -> "login"
                         [] op[c] = "invite" -> "serve"
                         [] op[c] = "users"  -> "listed")
    /\ idx' = [idx EXCEPT ![c] = 0]
    /\ ptr' = [ptr EXCEPT ![c] = None]
    /\ UNCHANGED <<regVars, semVars, cliVars, main, op, want, missed, eof,
                   finalized>>

ScanEnd(c) ==
    /\ idx[c] >= count
    /\ Goto(c, "scan", CASE op[c] = "login"  -> "login"
                         [] op[c] = "invite" -> "serve"
                         [] op[c] = "users"  -> "listed")
    /\ idx' = [idx EXCEPT ![c] = 0]
    /\ ptr' = [ptr EXCEPT ![c] = None]
    /\ UNCHANGED <<regVars, semVars, cliVars, main, op, want, missed, eof,
                   finalized>>

(* client_get_player and strcmp on the loaded pointer.  What is read from  *)
(* a freed CLIENT is arbitrary.                                            *)
PlayersRead(d) == IF refs[d] = 0 THEN Names \cup {None} ELSE {player[d]}

ScanDeref(c) ==
    /\ pc[c] = "deref"
    /\ \E p \in PlayersRead(ptr[c]) :
         LET match == op[c] # "users" /\ p = want[c]
         IN  /\ Goto(c, "deref", IF match THEN "found" ELSE "scan")
             /\ idx' = [idx EXCEPT ![c] = IF match THEN @ ELSE @ + 1]
    /\ missed' = [missed EXCEPT ![c] = @ \ {ptr[c]}]
    /\ UNCHANGED <<regVars, semVars, cliVars, main, ptr, op, want, eof,
                   finalized>>

(* creg_lookup's return reads connections[i] a second time.  LOGIN fails   *)
(* whatever it finds there; INVITE goes on with that client.  The scan's   *)
(* locals are dead then.                                                   *)
LookupReturn(c) ==
    /\ Goto(c, "found", "serve")
    /\ idx' = [idx EXCEPT ![c] = 0]
    /\ ptr' = [ptr EXCEPT ![c] = None]
    /\ UNCHANGED <<regVars, semVars, cliVars, main, op, want, missed, eof,
                   finalized>>

ListReturn(c) ==
    /\ Goto(c, "listed", "serve")
    /\ missed' = [missed EXCEPT ![c] = {}]
    /\ UNCHANGED <<regVars, semVars, cliVars, main, idx, ptr, op, want, eof,
                   finalized>>

(* client_login after a lookup that found nobody.                          *)
Login(c) ==
    /\ Goto(c, "login", "serve")
    /\ player' = [player EXCEPT ![c] = want[c]]
    /\ UNCHANGED <<regVars, semVars, refs, fd, main, scanVars, eof, finalized>>

-----------------------------------------------------------------------------
(* At EOF the service logs the client out and unregisters it.  The client  *)
(* holds no invitations in this module.                                    *)
Logout(c) ==
    /\ c \in eof
    /\ Goto(c, "serve", "cliP")
    /\ player' = [player EXCEPT ![c] = None]
    /\ op' = [op EXCEPT ![c] = "login"]
    /\ want' = [want EXCEPT ![c] = None]
    /\ missed' = [d \in Conns |-> missed[d] \ {c}]
    /\ UNCHANGED <<regVars, semVars, refs, fd, main, idx, ptr, eof, finalized>>

(* creg_unregister: P(cli), P(mutex).                                      *)
UnregisterCli(c) ==
    /\ cli > 0
    /\ Goto(c, "cliP", "unregMutex")
    /\ cli' = cli - 1
    /\ UNCHANGED <<regVars, mutex, pin, cliVars, main, scanVars, eof,
                   finalized>>

UnregisterLock(c) ==
    /\ mutex = 1
    /\ Goto(c, "unregMutex", "unreg")
    /\ mutex' = 0
    /\ UNCHANGED <<regVars, pin, cli, cliVars, main, scanVars, eof,
                   finalized>>

(* The entries that carry the client's descriptor.                         *)
Matches(c) == {i \in 0 .. count - 1 : fd[connections[i]] = fd[c]}

(* The first matching entry is taken out: client_unref drops the           *)
(* registry's reference and frees the client.  With no match -1 is         *)
(* returned while the mutex is held.                                       *)
UnregisterFind(c) ==
    /\ IF Matches(c) = {}
       THEN /\ Goto(c, "unreg", "close")
            /\ UNCHANGED <<idx, refs>>
       ELSE /\ Goto(c, "unreg", "swap")
            /\ \E i \in Matches(c) :
                 /\ \A j \in Matches(c) : i <= j
                 /\ idx' = [idx EXCEPT ![c] = i]
            /\ refs' = [refs EXCEPT ![c] = @ - 1]
    /\ UNCHANGED <<regVars, semVars, fd, player, main, ptr, op, want,
                   missed, eof, finalized>>

(* Mutant: the entry is not replaced by the last one.                      *)
UnregisterNoSwap(c) ==
    /\ Goto(c, "swap", "shrink")
    /\ idx' = [idx EXCEPT ![c] = 0]
    /\ UNCHANGED <<regVars, semVars, cliVars, main, ptr, op, want, missed,
                   eof, finalized>>

UnregisterSwap(c) ==
    /\ Goto(c, "swap", "shrink")
    /\ connections' = [connections EXCEPT ![idx[c]] = connections[count - 1]]
    /\ idx' = [idx EXCEPT ![c] = 0]
    /\ missed' = [d \in Conns |-> {}]
    /\ UNCHANGED <<count, semVars, cliVars, main, ptr, op, want, eof,
                   finalized>>

(* Mutant: V(mutex) is forgotten.                                          *)
UnregisterShrinkLocked(c) ==
    /\ Goto(c, "shrink", "pinV")
    /\ count' = count - 1
    /\ UNCHANGED <<connections, semVars, cliVars, main, scanVars, eof,
                   finalized>>

UnregisterShrink(c) ==
    /\ Goto(c, "shrink", "pinV")
    /\ count' = count - 1
    /\ mutex' = 1
    /\ UNCHANGED <<connections, pin, cli, cliVars, main, scanVars, eof,
                   finalized>>

(* Mutant: V(pin) is forgotten.                                            *)
UnregisterDoneSilent(c) ==
    /\ Goto(c, "pinV", "close")
    /\ UNCHANGED <<regVars, semVars, cliVars, main, scanVars, eof, finalized>>

UnregisterDone(c) ==
    /\ Goto(c, "pinV", "close")
    /\ pin' = pin + 1
    /\ UNCHANGED <<regVars, mutex, cli, cliVars, main, scanVars, eof,
                   finalized>>

(* The service closes the descriptor and the thread ends.                  *)
Close(c) ==
    /\ Goto(c, "close", "done")
    /\ fd' = [fd EXCEPT ![c] = None]
    /\ UNCHANGED <<regVars, semVars, refs, player, main, scanVars, eof,
                   finalized>>

-----------------------------------------------------------------------------
(* main.c: SIGHUP runs terminate() on the main thread: creg_shutdown_all,  *)
(* creg_wait_for_empty (a loop that holds the mutex while count > 0),      *)
(* creg_fini, preg_fini, exit.                                             *)
GotoMain(from, to) ==
    /\ main = from
    /\ main' = to

ReceiveSighup ==
    /\ Sighup
    /\ GotoMain("accept", "shutMutex")
    /\ UNCHANGED <<regVars, semVars, cliVars, pc, scanVars, eof, finalized>>

ShutdownLock ==
    /\ mutex = 1
    /\ GotoMain("shutMutex", "shut")
    /\ mutex' = 0
    /\ UNCHANGED <<regVars, pin, cli, cliVars, pc, scanVars, eof, finalized>>

creg_shutdown_all ==
    /\ GotoMain("shut", "waitMutex")
    /\ eof' = eof \cup {connections[i] : i \in 0 .. count - 1}
    /\ mutex' = 1
    /\ UNCHANGED <<regVars, pin, cli, cliVars, pc, scanVars, finalized>>

(* Mutant: creg_wait_for_empty does not take the mutex.                    *)
WaitUnlocked ==
    /\ GotoMain("waitMutex", "spin")
    /\ UNCHANGED <<regVars, semVars, cliVars, pc, scanVars, eof, finalized>>

WaitLock ==
    /\ mutex = 1
    /\ GotoMain("waitMutex", "spin")
    /\ mutex' = 0
    /\ UNCHANGED <<regVars, pin, cli, cliVars, pc, scanVars, eof, finalized>>

(* Mutant: the loop on count is left out.                                  *)
WaitReturnsAtOnce ==
    /\ GotoMain("spin", "fini")
    /\ mutex' = 1
    /\ UNCHANGED <<regVars, pin, cli, cliVars, pc, scanVars, eof, finalized>>

creg_wait_for_empty ==
    /\ ~(count > 0)
    /\ GotoMain("spin", "fini")
    /\ mutex' = 1
    /\ UNCHANGED <<regVars, pin, cli, cliVars, pc, scanVars, eof, finalized>>

creg_fini ==
    /\ GotoMain("fini", "exited")
    /\ finalized' = IF count # 0 THEN "refused" ELSE "freed"
    /\ UNCHANGED <<regVars, semVars, cliVars, pc, scanVars, eof>>

-----------------------------------------------------------------------------
Scan(c) ==
    \/ ScanLoad(c) \/ ScanEnd(c) \/ ScanDeref(c)
    \/ LookupReturn(c) \/ ListReturn(c) \/ Login(c)

Registration(c) ==
    \/ RegisterPin(c) \/ RegisterLock(c) \/ RegisterStore(c)
    \/ RegisterFails(c) \/ RegisterDone(c)

Unregistration(c) ==
    \/ Logout(c) \/ UnregisterCli(c) \/ UnregisterLock(c)
    \/ UnregisterFind(c) \/ UnregisterSwap(c) \/ UnregisterShrink(c)
    \/ UnregisterDone(c) \/ Close(c)

Client(c) ==
    \/ Accept(c) \/ PeerCloses(c)
    \/ Request(c, "users", None)
    \/ \E n \in Names : Request(c, "login", n) \/ Request(c, "invite", n)

Terminate ==
    \/ ShutdownLock \/ creg_shutdown_all \/ WaitLock
    \/ creg_wait_for_empty \/ creg_fini

(* All connections have been served, or the process has exited.            *)
Finished ==
    /\ main = "exited" \/ \A c \in Conns : pc[c] = "done"
    /\ UNCHANGED vars

Next ==
    \/ \E c \in Conns : Client(c) \/ Registration(c) \/ Scan(c)
                                  \/ Unregistration(c)
    \/ ReceiveSighup
    \/ Terminate
    \/ Finished

Spec == Init /\ [][Next]_vars

(* Every thread that can run eventually does: the kernel schedules all of  *)
(* them.  Nothing is assumed of the peers or of who wins a semaphore.      *)
Fairness ==
    /\ \A c \in Conns : WF_vars(Registration(c) \/ Scan(c)
                                                \/ Unregistration(c))
    /\ WF_vars(Terminate)

FairSpec == Spec /\ Fairness

-----------------------------------------------------------------------------
(* At most one thread is between P(mutex) and V(mutex), main's shutdown    *)
(* included, and while the semaphore is up there is none.                  *)
MutualExclusion ==
    /\ \A c, d \in InMutex : c = d
    /\ MainInMutex => InMutex = {}
    /\ mutex = 1 => InMutex = {} /\ ~MainInMutex

(* connections[0 .. count-1] is an exact, duplicate-free list of the       *)
(* registered clients, whatever the order in which threads come and go;    *)
(* between the swap and the decrement of count its last entry is spare.    *)
Listed == IF \E c \in Conns : pc[c] = "shrink" THEN count - 1 ELSE count

RegistryExact ==
    /\ \A i, j \in 0 .. Listed - 1 :
         connections[i] = connections[j] => i = j
    /\ {connections[i] : i \in 0 .. Listed - 1} = Registered

(* Admission: the pin semaphore and the threads that have been let in and  *)
(* have not given their place back add up to MAX_CLIENTS.  Only a          *)
(* registration that fails loses a place, and none is ever gained.         *)
PinHolders == {c \in Conns : pc[c] \in {"regMutex", "reg", "shrink", "pinV"}}
                \cup Registered

PinAccounting ==
    /\ pin + Cardinality(PinHolders) <= MAX_CLIENTS
    /\ ~MallocFails => pin + Cardinality(PinHolders) = MAX_CLIENTS

(* The error returns that leave the mutex held are not reached unless      *)
(* malloc fails: a thread let in by pin finds the registry not full (line  *)
(* 45), and a thread that unregisters finds its own entry (line 76) and no *)
(* other, although descriptor numbers are reused.                          *)
NoEarlyReturn ==
    \A c \in Conns :
        /\ pc[c] = "reg" => count < MAX_CLIENTS
        /\ pc[c] = "unreg" => \E i \in Matches(c) : Matches(c) = {i}
        /\ pc[c] = "swap" => idx[c] < count /\ connections[idx[c]] = c

(* creg_unregister never waits in P(cli): the token its own registration   *)
(* put there cannot have been taken by another thread for good.            *)
UnregisterNeverWaits == \A c \in Conns : pc[c] = "cliP" => cli > 0

(* A scan without the mutex never loads or returns a NULL or unwritten     *)
(* entry, although the registry shrinks under it.                          *)
ScanSeesClients ==
    \A c \in Conns :
        pc[c] \in {"deref", "found"} =>
            /\ ptr[c] \in Conns
            /\ idx[c] \in Slots
            /\ connections[idx[c]] \in Conns

(* USERS misses nobody unless somebody leaves meanwhile: a client that is  *)
(* logged in from the beginning of creg_all_players to its end is listed,  *)
(* although clients register and log in while the array is walked.         *)
AllPlayersListed == \A c \in Conns : pc[c] = "listed" => missed[c] = {}

(* The registry implements the bounded set of AbstractRegistry.            *)
Abstract == INSTANCE AbstractRegistry WITH
                members <- {connections[i] : i \in 0 .. count - 1},
                drained <- main \in {"fini", "exited"}

ImplementsAbstract == Abstract!ASpec

(* A served client whose connection has ended is unregistered and its      *)
(* thread ends.                                                            *)
ServiceEnds ==
    \A c \in Conns : c \in eof /\ pc[c] # "pin" ~> pc[c] = "done"

(* No place is lost: if every client that is served closes its connection  *)
(* in the end, every connection that waits in P(pin) is let in, however    *)
(* registrations and removals overlap.                                     *)
AdmissionProceeds ==
    (\A d \in Conns : pc[d] = "serve" ~> d \in eof)
        => \A c \in Conns : pc[c] = "pin" ~> pc[c] # "pin"

-----------------------------------------------------------------------------
(* What the headers and a test promise and the code does not keep.         *)

(* creg_wait_for_empty: once the count can drop to zero "the function will *)
(* return"; after SIGHUP the server terminates.                            *)
ShutdownCompletes == main = "shutMutex" ~> main = "exited"
=============================================================================
