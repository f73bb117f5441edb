----------------------------- MODULE Invitations -----------------------------
(***************************************************************************)
(* Invitations and games of the Jeux server: hw5/src/invitation.c and the  *)
(* operations of hw5/src/client.c that work on invitations, each run by    *)
(* the service thread of the client that asked for it.                     *)
(*                                                                         *)
(* A thread is identified with its client; every client has logged in as a *)
(* player of its own.  A step is the code between two semaphore waits, or  *)
(* between an unlocked read and the place where its result is used.        *)
(* A packet is a send step under the receiver's mutex.  The GAME object    *)
(* (game.o) is external: a game is in progress, or has a result.           *)
(***************************************************************************)
EXTENDS Integers, Sequences, FiniteSets

CONSTANTS Clients,      \* logged-in clients, one thread each
          Invs,         \* the INVITATION objects that can be allocated
          Ops,          \* the requests the clients make
          SendFails,    \* may a packet fail to be sent?
          None

AllOps == {"invite", "revoke", "decline", "accept", "resign", "move", "logout"}

ASSUME InvitationsAssumption ==
    /\ Ops \subseteq AllOps
    /\ SendFails \in BOOLEAN
    /\ None \notin Clients \cup Invs

VARIABLES
    src, tgt, first,    \* INVITATION: source, target, who has the first role
    state, game, cnt,   \*   state, number of its current GAME (0: NULL), count
    imutex,             \*   mutex
    result,             \* the games of an invitation, in order of creation
    stuck,              \* history: clients left locked by a failed ENDED
    list, cmutex, refs, \* CLIENT: invs[0 .. inv_count-1], mutex, count
    pmutex,             \* PLAYER: mutex
    pc, op, inv, peer,  \* a thread: where it is, request, client->invs[id],
    gm, win, nxt,       \*   other client; game and winner read; logout's i
    undefined           \* what was used after free() or as NULL, or "no"

invVars == <<src, tgt, first, state, game, cnt, imutex, result>>
objVars == <<list, cmutex, refs>>
thVars  == <<pc, op, inv, peer, gm, win, nxt>>
vars == <<invVars, stuck, objVars, pmutex, thVars, undefined>>

Games == 1 .. 2         \* source and target can each create one
Outcomes == {"none", "playing", "first", "second", "draw"}
Starts == {"revoke", "decline", "accept", "resign", "move"}
Points == Starts \cup {"idle", "addSrc", "addTgt", "send", "close", "accepted",
                       "set", "unref", "moved", "winner", "over", "end1", "end2",
                       "ended", "rem1", "rem1Held", "rem2", "rem2Held", "post1",
                       "post2", "release", "logout", "unregister", "gone"}

TypeOK ==
    /\ src \in [Invs -> Clients \cup {None}]
    /\ tgt \in [Invs -> Clients \cup {None}]
    /\ first \in [Invs -> Clients \cup {None}]
    /\ state \in [Invs -> {"open", "accepted", "closed"}]
    /\ game \in [Invs -> {0} \cup Games]
    /\ cnt \in [Invs -> 0 .. 3]
    /\ imutex \in [Invs -> 0 .. 1]
    /\ result \in [Invs -> [Games -> Outcomes]]
    /\ stuck \subseteq Clients
    /\ list \in [Clients -> Seq(Invs)]
    /\ cmutex \in [Clients -> 0 .. 1]
    /\ refs \in [Clients -> Nat]
    /\ pmutex \in [Clients -> 0 .. 1]
    /\ pc \in [Clients -> Points]
    /\ op \in [Clients -> AllOps]
    /\ inv \in [Clients -> Invs \cup {None}]
    /\ peer \in [Clients -> Clients \cup {None}]
    /\ gm \in [Clients -> {0} \cup Games]
    /\ win \in [Clients -> {"none", "first", "second"}]
    /\ nxt \in [Clients -> Nat]
    /\ undefined \in {"no", "invitation", "client", "player"}

(* The clients are registered (the registry holds one reference to each)   *)
(* and logged in, and nobody has invited anybody.                          *)
Init ==
    /\ src = [i \in Invs |-> None]
    /\ tgt = [i \in Invs |-> None]
    /\ first = [i \in Invs |-> None]
    /\ state = [i \in Invs |-> "open"]
    /\ game = [i \in Invs |-> 0]
    /\ cnt = [i \in Invs |-> 0]
    /\ imutex = [i \in Invs |-> 1]
    /\ result = [i \in Invs |-> [g \in Games |-> "none"]]
    /\ stuck = {}
    /\ list = [c \in Clients |-> <<>>]
    /\ cmutex = [c \in Clients |-> 1]
    /\ refs = [c \in Clients |-> 1]
    /\ pmutex = [c \in Clients |-> 1]
    /\ pc = [c \in Clients |-> "idle"]
    /\ op = [c \in Clients |-> "invite"]
    /\ inv = [c \in Clients |-> None]
    /\ peer = [c \in Clients |-> None]
    /\ gm = [c \in Clients |-> 0]
    /\ win = [c \in Clients |-> "none"]
    /\ nxt = [c \in Clients |-> 0]
    /\ undefined = "no"

-----------------------------------------------------------------------------
Listed(x) == {list[x][n] : n \in DOMAIN list[x]}

Other(c, i) == IF src[i] = c THEN tgt[i] ELSE src[i]

Freed(i) == src[i] # None /\ cnt[i] = 0

(* Mutant: invitations are told apart by their state.                      *)
SameState(i, j) == state[i] = state[j]

(* client_remove_invitation's test: the two invitations have the same      *)
(* GAME pointer, NULL included.                                            *)
SameGame(i, j) == IF i = j THEN TRUE ELSE game[i] = 0 /\ game[j] = 0

(* The index of the first entry of x's list that passes it.                *)
Match(x, i) == CHOOSE n \in DOMAIN list[x] :
                  /\ SameGame(i, list[x][n])
                  /\ \A m \in 1 .. n - 1 : ~SameGame(i, list[x][m])

(* The list a removal works on: first the requester's, then the peer's.    *)
Victim(c) == IF pc[c] \in {"rem1", "rem1Held"} THEN c ELSE peer[c]

(* The invitations and clients a thread's next step dereferences.          *)
InvsRead(c) ==
    CASE pc[c] \in Starts \cup {"addSrc", "addTgt", "close", "set", "unref"}
           -> {inv[c]}
      [] pc[c] \in {"rem1Held", "rem2Held"}
           -> {inv[c]} \cup {list[Victim(c)][n] : n \in 1 .. Match(Victim(c), inv[c])}
      [] pc[c] = "logout"
           -> {list[c][n] : n \in {nxt[c] + 1} \cap DOMAIN list[c]}
      [] OTHER -> {}

ClientsRead(c) ==
    CASE pc[c] \in {"idle", "logout", "unregister", "addSrc", "unref", "resign",
                    "end2", "rem1", "rem1Held"}           -> {c}
      [] pc[c] \in {"addTgt", "send", "release", "moved", "end1", "rem2",
                    "rem2Held"}                           -> {peer[c]}
      [] pc[c] \in {"ended", "post1"}                     -> {c, peer[c]}
      [] pc[c] = "accept"                                 -> {c, src[inv[c]]}
      [] pc[c] \in {"revoke", "decline", "move"}          -> {c, Other(c, inv[c])}
      [] pc[c] = "close" /\ gm[c] # 0                     -> {c, peer[c]}
      [] OTHER                                            -> {}

DanglingInv(c) == \E i \in InvsRead(c) : Freed(i)
DanglingClient(c) == \E d \in ClientsRead(c) : refs[d] = 0
NullPlayer(c) == pc[c] = "post1" /\ op[peer[c]] = "logout"

(* Using freed memory, or the player of a client that has logged out       *)
(* (NULL), is undefined: nothing is said of what follows.                  *)
UseUndefined(c) ==
    /\ undefined = "no"
    /\ \/ DanglingInv(c) /\ undefined' = "invitation"
       \/ DanglingClient(c) /\ undefined' = "client"
       \/ NullPlayer(c) /\ undefined' = "player"
    /\ UNCHANGED <<invVars, stuck, objVars, pmutex, thVars>>

At(c, point) ==
    /\ undefined = "no"
    /\ pc[c] = point
    /\ ~DanglingInv(c) /\ ~DanglingClient(c) /\ ~NullPlayer(c)
    /\ UNCHANGED undefined

Goto(c, point) == pc' = [pc EXCEPT ![c] = point]

(* The operation returns.  A request is answered; in client_logout a       *)
(* failure ends the loop and a success continues it; INVITE still has to   *)
(* drop a reference to the target.                                         *)
ReturnPoint(c, ok) ==
    CASE op[c] = "logout" -> IF ok THEN "logout" ELSE "unregister"
      [] op[c] = "invite" -> "release"
      [] OTHER            -> "idle"

Return(c, ok) ==
    /\ Goto(c, ReturnPoint(c, ok))
    /\ nxt' = [nxt EXCEPT ![c] = IF op[c] = "logout" /\ ok THEN @ + 1 ELSE 0]
    /\ inv' = [inv EXCEPT ![c] = None]
    /\ peer' = [peer EXCEPT ![c] = IF op[c] = "invite" THEN @ ELSE None]
    /\ gm' = [gm EXCEPT ![c] = 0]
    /\ win' = [win EXCEPT ![c] = "none"]
    /\ UNCHANGED op

Step(c, point) == Goto(c, point) /\ UNCHANGED <<op, inv, peer, gm, win, nxt>>

Role(c, i) == IF first[i] = c THEN "first" ELSE "second"
Rival(role) == IF role = "first" THEN "second" ELSE "first"
Playing(i) == game[i] # 0 /\ result[i][game[i]] = "playing"

-----------------------------------------------------------------------------
(* INVITE.  inv_create takes a reference to both clients, unless they are  *)
(* the same, which is an error.                                            *)
Invite(c, t) ==
    /\ "invite" \in Ops
    /\ At(c, "idle")
    /\ op' = [op EXCEPT ![c] = "invite"]
    /\ peer' = [peer EXCEPT ![c] = t]
    /\ IF c = t
       THEN /\ Goto(c, "release")
            /\ UNCHANGED <<invVars, inv, refs>>
       ELSE /\ cmutex[c] = 1 /\ cmutex[t] = 1
            /\ \E i \in Invs, f \in {c, t} :
                 /\ src[i] = None
                 /\ src' = [src EXCEPT ![i] = c]
                 /\ tgt' = [tgt EXCEPT ![i] = t]
                 /\ first' = [first EXCEPT ![i] = f]
                 /\ cnt' = [cnt EXCEPT ![i] = 1]
                 /\ inv' = [inv EXCEPT ![c] = i]
            /\ refs' = [d \in Clients |-> IF d \in {c, t} THEN refs[d] + 1
                                                         ELSE refs[d]]
            /\ Goto(c, "addSrc")
            /\ UNCHANGED <<state, game, imutex, result>>
    /\ UNCHANGED <<stuck, list, cmutex, pmutex, gm, win, nxt>>

(* Mutant: two references are taken for one entry.                         *)
AddWithTwoRefs(x, i) ==
    /\ cmutex[x] = 1 /\ imutex[i] = 1
    /\ list' = [list EXCEPT ![x] = Append(@, i)]
    /\ cnt' = [cnt EXCEPT ![i] = @ + 2]
    /\ UNCHANGED <<cmutex, refs, src, tgt, first, state, game, imutex, result>>

(* client_add_invitation: append, and inv_ref.                             *)
client_add_invitation(x, i) ==
    /\ cmutex[x] = 1 /\ imutex[i] = 1
    /\ list' = [list EXCEPT ![x] = Append(@, i)]
    /\ cnt' = [cnt EXCEPT ![i] = @ + 1]
    /\ UNCHANGED <<cmutex, refs, src, tgt, first, state, game, imutex, result>>

(* Mutant: the source's list is passed over.                               *)
AddToTargetTwice(c) ==
    /\ At(c, "addSrc")
    /\ client_add_invitation(peer[c], inv[c])
    /\ Step(c, "addTgt")
    /\ UNCHANGED <<stuck, pmutex>>

AddToSource(c) ==
    /\ At(c, "addSrc")
    /\ client_add_invitation(c, inv[c])
    /\ Step(c, "addTgt")
    /\ UNCHANGED <<stuck, pmutex>>

AddToTarget(c) ==
    /\ At(c, "addTgt")
    /\ client_add_invitation(peer[c], inv[c])
    /\ Step(c, "send")
    /\ UNCHANGED <<stuck, pmutex>>

(* The packet that tells the peer of the request, under the peer's mutex.  *)
(* An INVITED packet that cannot be sent takes the invitation back.        *)
Send(c) ==
    /\ At(c, "send")
    /\ cmutex[peer[c]] = 1
    /\ \/ /\ op[c] = "accept" /\ Step(c, "unref")
       \/ /\ op[c] # "accept" /\ Return(c, TRUE)
       \/ /\ SendFails
          /\ IF op[c] = "invite" THEN Step(c, "rem1") ELSE Return(c, FALSE)
    /\ UNCHANGED <<invVars, stuck, objVars, pmutex>>

(* After INVITE the service drops the reference that creg_lookup is        *)
(* documented to take; client_unref frees the client at zero.              *)
ReleaseTarget(c) ==
    /\ At(c, "release")
    /\ cmutex[peer[c]] = 1
    /\ refs' = [refs EXCEPT ![peer[c]] = @ - 1]
    /\ peer' = [peer EXCEPT ![c] = None]
    /\ Goto(c, "idle")
    /\ UNCHANGED <<invVars, stuck, list, cmutex, pmutex, op, inv, gm, win, nxt>>

-----------------------------------------------------------------------------
(* A request on an invitation of the client's list.  The id has been       *)
(* assigned by the server: 0 .. inv_count - 1.                             *)
Request(c, what) ==
    /\ what \in Ops \cap Starts
    /\ At(c, "idle")
    /\ \E i \in Listed(c) :
         inv' = [inv EXCEPT ![c] = i]
    /\ op' = [op EXCEPT ![c] = what]
    /\ Goto(c, what)
    /\ UNCHANGED <<invVars, stuck, objVars, pmutex, peer, gm, win, nxt>>

(* client_revoke_invitation up to inv_close, client_decline_invitation     *)
(* likewise: the requester must be the source (the target) and the         *)
(* invitation be in the peer's list and without a game, all read without a *)
(* lock.                                                                   *)
Withdraw(c, what, owner, x) ==
    /\ At(c, what)
    /\ IF owner = c /\ game[inv[c]] = 0 /\ inv[c] \in Listed(x)
       THEN /\ Goto(c, "close")
            /\ peer' = [peer EXCEPT ![c] = x]
            /\ UNCHANGED <<op, inv, gm, win, nxt>>
       ELSE Return(c, FALSE)
    /\ UNCHANGED <<invVars, stuck, objVars, pmutex>>

Revoke(c) == Withdraw(c, "revoke", src[inv[c]], tgt[inv[c]])
Decline(c) == Withdraw(c, "decline", tgt[inv[c]], src[inv[c]])

(* Mutant: the game is not looked at again under the mutex.                *)
CloseUnchecked(c) ==
    LET i == inv[c]
    IN  /\ At(c, "close")
        /\ imutex[i] = 1
        /\ state[i] # "closed"
        /\ state' = [state EXCEPT ![i] = "closed"]
        /\ Step(c, "rem1")
        /\ UNCHANGED <<src, tgt, first, game, cnt, imutex, result, stuck,
                       objVars, pmutex>>

(* inv_close under the invitation's mutex; resigning names a role, revoke  *)
(* and decline do not.  An invitation that is already closed makes it      *)
(* return without V(mutex).                                                *)
inv_close(c) ==
    LET i == inv[c]
        resigning == gm[c] # 0
    IN  /\ At(c, "close")
        /\ imutex[i] = 1
        /\ IF state[i] = "closed"
           THEN /\ imutex' = [imutex EXCEPT ![i] = 0]
                /\ Return(c, FALSE)
                /\ UNCHANGED <<state, result>>
           ELSE IF ~resigning /\ Playing(i)
           THEN /\ Return(c, FALSE)
                /\ UNCHANGED <<imutex, state, result>>
           ELSE /\ state' = [state EXCEPT ![i] = "closed"]
                /\ result' = IF Playing(i)
                             THEN [result EXCEPT ![i][game[i]] = Rival(Role(c, i))]
                             ELSE result
                /\ Step(c, "rem1")
                /\ UNCHANGED imutex
        /\ UNCHANGED <<src, tgt, first, game, cnt, stuck, objVars, pmutex>>

(* client_accept_invitation: anybody who has the invitation in its list    *)
(* may accept; inv_accept tests the state before it takes the mutex.       *)
Accept(c) ==
    /\ At(c, "accept")
    /\ IF state[inv[c]] = "open" /\ inv[c] \in Listed(src[inv[c]])
       THEN /\ Goto(c, "set")
            /\ peer' = [peer EXCEPT ![c] = src[inv[c]]]
            /\ UNCHANGED <<op, inv, gm, win, nxt>>
       ELSE Return(c, FALSE)
    /\ UNCHANGED <<invVars, stuck, objVars, pmutex>>

inv_accept(c) ==
    LET i == inv[c]
        g == game[i] + 1
    IN  /\ At(c, "set")
        /\ imutex[i] = 1
        /\ state' = [state EXCEPT ![i] = "accepted"]
        /\ game' = [game EXCEPT ![i] = g]
        /\ result' = [result EXCEPT ![i][g] = "playing"]
        /\ Step(c, "send")
        /\ UNCHANGED <<src, tgt, first, cnt, imutex, stuck, objVars, pmutex>>

(* The accepting client gives up the creator's reference.                  *)
AcceptUnref(c) ==
    /\ At(c, "unref")
    /\ imutex[inv[c]] = 1
    /\ cnt' = [cnt EXCEPT ![inv[c]] = @ - 1]
    /\ Return(c, TRUE)
    /\ UNCHANGED <<src, tgt, first, state, game, imutex, result, stuck,
                   objVars, pmutex>>

(* client_resign_game: game_resign fails on a game that is over.           *)
Resign(c) ==
    LET i == inv[c]
    IN  /\ At(c, "resign")
        /\ IF Playing(i)
           THEN /\ result' = [result EXCEPT ![i][game[i]] = Rival(Role(c, i))]
                /\ gm' = [gm EXCEPT ![c] = game[i]]
                /\ peer' = [peer EXCEPT ![c] = Other(c, i)]
                /\ Goto(c, "close")
                /\ UNCHANGED <<op, inv, win, nxt>>
           ELSE Return(c, FALSE) /\ UNCHANGED result
        /\ UNCHANGED <<src, tgt, first, state, game, cnt, imutex, stuck,
                       objVars, pmutex>>

-----------------------------------------------------------------------------
(* client_remove_invitation: under the client's mutex find the entry with  *)
(* the same game and inv_unref it.  The entry stays in the array.          *)
RemoveLock(c, point, held) ==
    /\ At(c, point)
    /\ cmutex[Victim(c)] = 1
    /\ cmutex' = [cmutex EXCEPT ![Victim(c)] = 0]
    /\ Step(c, held)
    /\ UNCHANGED <<invVars, stuck, list, refs, pmutex>>

(* What follows the second removal.                                        *)
Removed(c) ==
    CASE op[c] = "invite" -> Return(c, FALSE)
      [] op[c] = "move"   -> Step(c, "post1")
      [] OTHER            -> Step(c, "send")

(* Mutant: V(client->mutex) is forgotten.                                  *)
RemoveStillLocked(c, held) ==
    LET x == Victim(c)
        i == list[x][Match(x, inv[c])]
    IN  /\ At(c, held)
        /\ imutex[i] = 1
        /\ cnt' = [cnt EXCEPT ![i] = @ - 1]
        /\ IF held = "rem1Held" THEN Step(c, "rem2") ELSE Removed(c)
        /\ UNCHANGED <<src, tgt, first, state, game, imutex, result, stuck,
                       objVars, pmutex>>

RemoveUnref(c, held) ==
    LET x == Victim(c)
        i == list[x][Match(x, inv[c])]
    IN  /\ At(c, held)
        /\ imutex[i] = 1
        /\ cnt' = [cnt EXCEPT ![i] = @ - 1]
        /\ cmutex' = [cmutex EXCEPT ![x] = 1]
        /\ IF held = "rem1Held" THEN Step(c, "rem2") ELSE Removed(c)
        /\ UNCHANGED <<src, tgt, first, state, game, imutex, result, stuck,
                       list, refs, pmutex>>

RemoveInvitation(c) ==
    \/ RemoveLock(c, "rem1", "rem1Held") \/ RemoveUnref(c, "rem1Held")
    \/ RemoveLock(c, "rem2", "rem2Held") \/ RemoveUnref(c, "rem2Held")

-----------------------------------------------------------------------------
(* client_make_move: the move is legal or not, and may end the game.       *)
Move(c) ==
    LET i == inv[c]
    IN  /\ At(c, "move")
        /\ \/ /\ Return(c, FALSE)
              /\ UNCHANGED result
           \/ /\ Playing(i)
              /\ \E r \in {"playing", "draw", Role(c, i)} :
                   result' = [result EXCEPT ![i][game[i]] = r]
              /\ gm' = [gm EXCEPT ![c] = game[i]]
              /\ peer' = [peer EXCEPT ![c] = Other(c, i)]
              /\ Goto(c, "moved")
              /\ UNCHANGED <<op, inv, win, nxt>>
        /\ UNCHANGED <<src, tgt, first, state, game, cnt, imutex, stuck,
                       objVars, pmutex>>

(* The MOVED packet; then the winner is read, and whether the game is      *)
(* over: another thread may have moved or resigned meanwhile.              *)
SendMoved(c) ==
    /\ At(c, "moved")
    /\ cmutex[peer[c]] = 1
    /\ \/ Step(c, "winner")
       \/ SendFails /\ Return(c, FALSE)
    /\ UNCHANGED <<invVars, stuck, objVars, pmutex>>

ReadWinner(c) ==
    LET r == result[inv[c]][gm[c]]
    IN  /\ At(c, "winner")
        /\ win' = [win EXCEPT ![c] = IF r \in {"first", "second"} THEN r ELSE "none"]
        /\ Goto(c, "over")
        /\ UNCHANGED <<invVars, stuck, objVars, pmutex, op, inv, peer, gm, nxt>>

CheckOver(c) ==
    /\ At(c, "over")
    /\ IF result[inv[c]][gm[c]] = "playing" THEN Return(c, TRUE) ELSE Step(c, "end1")
    /\ UNCHANGED <<invVars, stuck, objVars, pmutex>>

(* P(other->mutex), P(client->mutex), the two ENDED packets.  A packet     *)
(* that cannot be sent releases only one of the two.                       *)
EndLock(c, point, x, then) ==
    /\ At(c, point)
    /\ cmutex[x] = 1
    /\ cmutex' = [cmutex EXCEPT ![x] = 0]
    /\ Step(c, then)
    /\ UNCHANGED <<invVars, stuck, list, refs, pmutex>>

SendEnded(c) ==
    /\ At(c, "ended")
    /\ \/ /\ cmutex' = [cmutex EXCEPT ![c] = 1, ![peer[c]] = 1]
          /\ Step(c, "rem1")
          /\ UNCHANGED stuck
       \/ /\ SendFails
          /\ \E x \in {c, peer[c]} :
               /\ cmutex' = [cmutex EXCEPT ![x] = 1]
               /\ stuck' = stuck \cup ({c, peer[c]} \ {x})
          /\ Return(c, FALSE)
    /\ UNCHANGED <<invVars, list, refs, pmutex>>

(* The role the ENDED packets name: the peer's if it won, else the mover's. *)
EndedRole(c) ==
    IF win[c] = Role(peer[c], inv[c]) THEN Role(peer[c], inv[c]) ELSE Role(c, inv[c])

(* Mutant: the players are passed in the wrong order.                      *)
SecondGoesFirst(c) ==
    IF win[c] = "none" \/ Role(c, inv[c]) = "second" THEN c ELSE peer[c]

(* player_post_result(player1, player2, code): the first role's player is  *)
(* player1, except that a draw passes the mover first.  The code is 0 for  *)
(* a draw and else the number of the winner.                               *)
Player1(c) == IF win[c] = "none" \/ Role(c, inv[c]) = "first" THEN c ELSE peer[c]
Player2(c) == IF Player1(c) = c THEN peer[c] ELSE c

ResultCode(c) == CASE win[c] = "first" -> 1 [] win[c] = "second" -> 2 [] OTHER -> 0

Credited(c) == CASE ResultCode(c) = 1 -> Player1(c)
                 [] ResultCode(c) = 2 -> Player2(c)
                 [] OTHER             -> None

PostLock(c) ==
    /\ At(c, "post1")
    /\ pmutex[Player1(c)] = 1
    /\ pmutex' = [pmutex EXCEPT ![Player1(c)] = 0]
    /\ Step(c, "post2")
    /\ UNCHANGED <<invVars, stuck, objVars>>

player_post_result(c) ==
    /\ At(c, "post2")
    /\ pmutex[Player2(c)] = 1
    /\ pmutex' = [pmutex EXCEPT ![Player1(c)] = 1]
    /\ Return(c, TRUE)
    /\ UNCHANGED <<invVars, stuck, objVars>>

MoveOn(c) ==
    \/ Move(c) \/ SendMoved(c) \/ ReadWinner(c) \/ CheckOver(c)
    \/ EndLock(c, "end1", peer[c], "end2") \/ EndLock(c, "end2", c, "ended")
    \/ SendEnded(c) \/ PostLock(c) \/ player_post_result(c)

-----------------------------------------------------------------------------
(* client_logout: the player is given up under the client's mutex, then go *)
(* through the list and revoke, decline or resign what has not ended.      *)
Logout(c) ==
    /\ "logout" \in Ops
    /\ At(c, "idle")
    /\ cmutex[c] = 1
    /\ op' = [op EXCEPT ![c] = "logout"]
    /\ Goto(c, "logout")
    /\ UNCHANGED <<invVars, stuck, objVars, pmutex, inv, peer, gm, win, nxt>>

LogoutNext(c) ==
    /\ At(c, "logout")
    /\ IF nxt[c] = Len(list[c])
       THEN Goto(c, "unregister") /\ UNCHANGED <<inv, nxt>>
       ELSE LET i == list[c][nxt[c] + 1]
            IN  IF game[i] # 0 /\ ~Playing(i)
                THEN /\ nxt' = [nxt EXCEPT ![c] = @ + 1]
                     /\ UNCHANGED <<inv, pc>>
                ELSE /\ inv' = [inv EXCEPT ![c] = i]
                     /\ Goto(c, CASE Playing(i) -> "resign"
                                  [] ~Playing(i) /\ src[i] = c -> "revoke"
                                  [] OTHER -> "decline")
                     /\ UNCHANGED nxt
    /\ UNCHANGED <<invVars, stuck, objVars, pmutex, op, peer, gm, win>>

(* creg_unregister drops the registry's reference; the thread ends.        *)
Unregister(c) ==
    /\ At(c, "unregister")
    /\ cmutex[c] = 1
    /\ refs' = [refs EXCEPT ![c] = @ - 1]
    /\ Goto(c, "gone")
    /\ UNCHANGED <<invVars, stuck, list, cmutex, pmutex, op, inv, peer, gm, win,
                   nxt>>

-----------------------------------------------------------------------------
(* A thread goes on with what it is doing.                                 *)
Work(c) ==
    \/ AddToSource(c) \/ AddToTarget(c) \/ Send(c) \/ ReleaseTarget(c)
    \/ Revoke(c) \/ Decline(c) \/ inv_close(c) \/ Accept(c) \/ inv_accept(c)
    \/ AcceptUnref(c) \/ Resign(c) \/ RemoveInvitation(c) \/ MoveOn(c)
    \/ LogoutNext(c) \/ Unregister(c) \/ UseUndefined(c)

Ask(c) ==
    \/ \E t \in Clients : Invite(c, t)
    \/ \E what \in Starts : Request(c, what)
    \/ Logout(c)

Next == \E c \in Clients : Ask(c) \/ Work(c)

Spec == Init /\ [][Next]_vars

-----------------------------------------------------------------------------
(* An OPEN invitation has no game and an ACCEPTED one has; a CLOSED one    *)
(* never has a game in progress, although revoke and decline look at the   *)
(* game before inv_close takes the mutex.                                  *)
StateMatchesGame ==
    \A i \in Invs :
        /\ state[i] = "open" => game[i] = 0
        /\ state[i] = "accepted" => game[i] # 0
        /\ state[i] = "closed" => ~Playing(i)

(* The clients and players whose mutex a thread holds, by where it is.     *)
HeldClients(c) ==
    CASE pc[c] = "rem1Held"             -> {c}
      [] pc[c] \in {"rem2Held", "end2"} -> {peer[c]}
      [] pc[c] = "ended"                -> {c, peer[c]}
      [] OTHER                          -> {}

HeldPlayers(c) == IF pc[c] = "post2" THEN {Player1(c)} ELSE {}

(* A client's or player's mutex is held by at most one thread, and by one  *)
(* whenever it is down: no path of any operation forgets to release it,    *)
(* except client_make_move when an ENDED packet cannot be sent.  The mutex *)
(* of an invitation is lost only by closing it a second time               *)
(* (invitation.c:147), never while it is open or its game goes on.         *)
MutexesAccounted ==
    /\ \A i \in Invs : imutex[i] = 0 => state[i] = "closed" /\ ~Playing(i)
    /\ \A x \in Clients :
          /\ \A c, d \in Clients :
               x \in HeldClients(c) /\ x \in HeldClients(d) => c = d
          /\ \A c, d \in Clients :
               x \in HeldPlayers(c) /\ x \in HeldPlayers(d) => c = d
          /\ cmutex[x] = 0 <=> x \in stuck \/ \E c \in Clients : x \in HeldClients(c)
          /\ pmutex[x] = 0 <=> \E c \in Clients : x \in HeldPlayers(c)

(* The peer of a request always has the invitation in its own list, once:  *)
(* the "does not exist" errors of revoke, decline, accept, resign and move *)
(* cannot occur, and a target never sees an invitation its source lacks.   *)
PeersShareInvitations ==
    /\ \A c \in Clients : \A i \in Listed(c) :
         /\ c \in {src[i], tgt[i]}
         /\ i \in Listed(src[i])
         /\ Cardinality({n \in DOMAIN list[c] : list[c][n] = i}) = 1
    /\ \A c \in Clients :
         pc[c] \in {"close", "set", "rem1", "rem2", "moved"} /\ peer[c] # None =>
            inv[c] \in Listed(c) \cap Listed(peer[c])

(* When a game ends, by resignation or by a move, the invitation that is   *)
(* removed from either list is the one with that game.                     *)
Removes(c) == list[Victim(c)][Match(Victim(c), inv[c])]

GameRemovalHitsOwn ==
    \A c \in Clients :
        pc[c] \in {"rem1Held", "rem2Held"} /\ gm[c] # 0 => Removes(c) = inv[c]

(* The client that is credited with a won game, in the ENDED packets and   *)
(* in the ratings, is the one whose role the game's result names, whether  *)
(* it won by its own move, by its peer's resignation, or its peer moved    *)
(* on while the MOVED packet was sent; and no drawn game is credited to    *)
(* anybody, however often its end is announced.                            *)
Ending == {"end1", "end2", "ended", "rem1", "rem1Held", "rem2", "rem2Held",
           "post1", "post2"}

WinnerCredited ==
    \A c \in Clients :
        pc[c] \in Ending /\ Credited(c) # None =>
            /\ Role(Credited(c), inv[c]) = result[inv[c]][gm[c]]
            /\ EndedRole(c) = result[inv[c]][gm[c]]

-----------------------------------------------------------------------------
(* What the header promises and the code does not keep.                    *)

(* "An invitation that is declined by its target or revoked by its source  *)
(* transitions to the CLOSED state", and only an OPEN one is accepted.     *)
ClosedIsFinal ==
    [][\A i \in Invs : state[i] = "closed" => state'[i] = "closed"]_vars

(* "The result of the game is posted in order to update both players'      *)
(* ratings": what client_make_move posts is the game's result, so a game   *)
(* that somebody won is not posted as a draw.                              *)
PostedAsPlayed ==
    \A c \in Clients :
        pc[c] \in {"post1", "post2"} =>
            (ResultCode(c) = 0 <=> result[inv[c]][gm[c]] = "draw")
=============================================================================
