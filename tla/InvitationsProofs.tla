-------------------------- MODULE InvitationsProofs --------------------------
(***************************************************************************)
(* The invitations of any number of clients, in every interleaving of      *)
(* their threads and with packets that fail: who lists an invitation, what *)
(* its state says of its game, which game a removal hits, who holds which  *)
(* mutex.                                                                  *)
(***************************************************************************)
EXTENDS Invitations, LeastElement, FiniteSetTheorems

(* The two halves of TypeOK: the shared objects and the threads' locals.   *)
ObjTypes ==
    /\ src \in [Invs -> Clients \cup {None}]
    /\ tgt \in [Invs -> Clients \cup {None}]
    /\ first \in [Invs -> Clients \cup {None}]
    /\ state \in [Invs -> {"open", "accepted", "closed"}]
    /\ game \in [Invs -> {0} \cup Games]
    /\ cnt \in [Invs -> 0 .. 3]
    /\ imutex \in [Invs -> 0 .. 1]
    /\ result \in [Invs -> [Games -> Outcomes]]
    /\ stuck \subseteq Clients
    /\ list \in [Clients -> Seq(Invs)]
    /\ cmutex \in [Clients -> 0 .. 1]
    /\ refs \in [Clients -> Nat]
    /\ pmutex \in [Clients -> 0 .. 1]
    /\ undefined \in {"no", "invitation", "client", "player"}

ThreadTypes ==
    /\ pc \in [Clients -> Points]
    /\ op \in [Clients -> AllOps]
    /\ inv \in [Clients -> Invs \cup {None}]
    /\ peer \in [Clients -> Clients \cup {None}]
    /\ gm \in [Clients -> {0} \cup Games]
    /\ win \in [Clients -> {"none", "first", "second"}]
    /\ nxt \in [Clients -> Nat]

(* Where a thread has an invitation, where it has a peer, and where the    *)
(* peer is the other party of the invitation.                              *)
HasInv == Points \ {"idle", "logout", "unregister", "gone", "release"}
HasPeer == Points \ (Starts \cup {"idle", "logout", "unregister", "gone"})
Facing == {"close", "moved", "winner", "over", "end1", "end2", "ended", "rem1",
           "rem1Held", "rem2", "rem2Held", "post1", "post2"}

Allocated ==
    \A i \in Invs : src[i] # None =>
        /\ src[i] \in Clients /\ tgt[i] \in Clients /\ src[i] # tgt[i]
        /\ first[i] \in {src[i], tgt[i]}

(* An invitation is listed by its two parties only, once by each, and by   *)
(* the target only after the source; the source works on it while its      *)
(* target does not list it.                                                *)
Lists ==
    /\ \A c \in Clients : \A i \in Listed(c) :
         /\ src[i] # None /\ c \in {src[i], tgt[i]}
         /\ i \in Listed(src[i])
         /\ i \in Listed(tgt[i]) \/ (pc[src[i]] = "addTgt" /\ inv[src[i]] = i)
    /\ \A c \in Clients : \A m, n \in DOMAIN list[c] :
         list[c][m] = list[c][n] => m = n

(* What a thread's locals stand for, whatever the others did since they    *)
(* were set.                                                               *)
Locals(c) ==
    /\ pc[c] \in HasInv =>
         inv[c] \in Invs /\ src[inv[c]] # None /\ gm[c] <= game[inv[c]]
    /\ pc[c] \notin HasInv => inv[c] = None /\ gm[c] = 0 /\ win[c] = "none"
    /\ pc[c] \in HasInv \ {"addSrc"} => inv[c] \in Listed(c)
    /\ pc[c] \in HasPeer => peer[c] \in Clients
    /\ pc[c] \notin HasPeer => peer[c] = None
    /\ pc[c] \in Facing \/ (pc[c] = "send" /\ op[c] # "accept") =>
         peer[c] = Other(c, inv[c]) /\ inv[c] \in Listed(peer[c])
    /\ pc[c] \in {"moved", "winner"} \/ win[c] # "none" => gm[c] # 0
    /\ pc[c] \in Starts => win[c] = "none"

Requested(c) ==
    /\ pc[c] \in {"accept", "set"} => op[c] = "accept"
    /\ pc[c] = "set" => peer[c] = src[inv[c]]
    /\ pc[c] \in Starts => op[c] # "invite"
    /\ pc[c] = "idle" => op[c] # "logout"
    /\ pc[c] = "release" => op[c] = "invite"
    /\ pc[c] = "logout" => op[c] = "logout"
    /\ nxt[c] <= Len(list[c])
    /\ op[c] = "logout" /\ pc[c] \notin {"logout", "unregister", "gone"} =>
         nxt[c] < Len(list[c])

(* INVITE gives the new invitation its three references.                   *)
Adding(c) ==
    /\ pc[c] \in {"addSrc", "addTgt"} =>
         op[c] = "invite" /\ src[inv[c]] = c /\ tgt[inv[c]] = peer[c]
    /\ pc[c] = "addSrc" =>
         cnt[inv[c]] <= 1 /\ \A x \in Clients : inv[c] \notin Listed(x)
    /\ pc[c] = "addTgt" => cnt[inv[c]] <= 2 /\ inv[c] \notin Listed(peer[c])

ThreadOK(c) == Locals(c) /\ Requested(c) /\ Adding(c)
Threads == \A c \in Clients : ThreadOK(c)

(* The threads that are about to accept an invitation that was open.       *)
Sets(c, i) == pc[c] = "set" /\ inv[c] = i

Accepts ==
    \A i \in Invs :
        /\ game[i] # 0 => \A c, d \in Clients : Sets(c, i) /\ Sets(d, i) => c = d
        /\ game[i] = 2 => \A c \in Clients : ~Sets(c, i)

(* The winner a thread has read remains the game's result.                 *)
WinnerKept ==
    \A c \in Clients : win[c] # "none" => result[inv[c]][gm[c]] = win[c]

(* The three parts of MutexesAccounted; a mutex that was left locked is    *)
(* nobody's.                                                               *)
InvMutexes == \A i \in Invs : imutex[i] = 0 => state[i] = "closed"

ClientMutexes ==
    \A x \in Clients :
        /\ \A c, d \in Clients : x \in HeldClients(c) /\ x \in HeldClients(d) => c = d
        /\ \A c \in Clients : x \in HeldClients(c) => x \notin stuck
        /\ cmutex[x] = 0 <=> x \in stuck \/ \E c \in Clients : x \in HeldClients(c)

PlayerMutexes ==
    \A x \in Clients :
        /\ \A c, d \in Clients : x \in HeldPlayers(c) /\ x \in HeldPlayers(d) => c = d
        /\ pmutex[x] = 0 <=> \E c \in Clients : x \in HeldPlayers(c)

IInv ==
    /\ ObjTypes /\ ThreadTypes /\ Allocated /\ Lists /\ Threads
    /\ StateMatchesGame /\ Accepts /\ WinnerKept
    /\ InvMutexes /\ ClientMutexes /\ PlayerMutexes

-----------------------------------------------------------------------------
(* Only the thread c moves.                                                *)
Only(c) ==
    \A d \in Clients : d # c =>
        /\ pc'[d] = pc[d] /\ op'[d] = op[d] /\ inv'[d] = inv[d]
        /\ peer'[d] = peer[d] /\ gm'[d] = gm[d] /\ win'[d] = win[d]
        /\ nxt'[d] = nxt[d]

SameData(c) ==
    /\ op'[c] = op[c] /\ inv'[c] = inv[c] /\ peer'[c] = peer[c]
    /\ gm'[c] = gm[c] /\ win'[c] = win[c] /\ nxt'[c] = nxt[c]

(* A step or a return changes the variables of one thread.                 *)
LEMMA StepOnly ==
    ASSUME ThreadTypes, NEW c \in Clients, NEW point \in Points, Step(c, point)
    PROVE  ThreadTypes' /\ Only(c) /\ pc'[c] = point /\ SameData(c)
BY DEF ThreadTypes, Step, Goto, Only, SameData

(* What a thread's variables are when its operation has returned.          *)
Returned(c, ok) ==
    /\ pc'[c] = ReturnPoint(c, ok) /\ op'[c] = op[c] /\ inv'[c] = None
    /\ peer'[c] = (IF op[c] = "invite" THEN peer[c] ELSE None)
    /\ gm'[c] = 0 /\ win'[c] = "none"
    /\ nxt'[c] = (IF op[c] = "logout" /\ ok THEN nxt[c] + 1 ELSE 0)

LEMMA ReturnOnly ==
    ASSUME ThreadTypes, NEW c \in Clients, NEW ok \in BOOLEAN, Return(c, ok)
    PROVE  ThreadTypes' /\ Only(c) /\ Returned(c, ok)
<1>1. ReturnPoint(c, ok) \in Points
  BY DEF ReturnPoint, Points
<1>2. /\ pc' = [pc EXCEPT ![c] = ReturnPoint(c, ok)] /\ op' = op
      /\ nxt' = [nxt EXCEPT ![c] = IF op[c] = "logout" /\ ok THEN nxt[c] + 1 ELSE 0]
      /\ inv' = [inv EXCEPT ![c] = None]
      /\ peer' = [peer EXCEPT ![c] = IF op[c] = "invite" THEN peer[c] ELSE None]
      /\ gm' = [gm EXCEPT ![c] = 0]
      /\ win' = [win EXCEPT ![c] = "none"]
  BY DEF Return, Goto
<1>3. ThreadTypes'
  BY <1>1, <1>2 DEF ThreadTypes
<1>4. Only(c)
  BY <1>2 DEF ThreadTypes, Only
<1>5. Returned(c, ok)
  BY <1>2 DEF ThreadTypes, Returned
<1> QED
  BY <1>3, <1>4, <1>5

(* The counters of an invitation are numbers.                              *)
LEMMA Numbers ==
    ASSUME ObjTypes
    PROVE  \A i \in Invs : game[i] \in Nat /\ game[i] <= 2 /\ cnt[i] \in Nat /\ cnt[i] <= 3
<1>1. \A i \in Invs : game[i] \in {0} \cup Games /\ cnt[i] \in 0 .. 3
  BY DEF ObjTypes
<1> QED
  BY <1>1 DEF Games

(* The invitations and the lists stay as they are, games only advance and  *)
(* references are only dropped.                                            *)
SameLists ==
    /\ UNCHANGED <<src, tgt, first, list>>
    /\ \A i \in Invs : game[i] <= game'[i] /\ cnt'[i] <= cnt[i]

(* What a step keeps of the lists, the mutexes, the winners and the        *)
(* accepts when it leaves their variables alone.                           *)
LEMMA ListsKept ==
    ASSUME IInv, NEW c \in Clients, Only(c), SameLists, pc[c] # "addTgt",
           ObjTypes', ThreadOK(c)'
    PROVE  Allocated' /\ Lists' /\ Threads'
<1> USE DEF IInv
<1>1. /\ UNCHANGED <<src, tgt, first, list>>
      /\ \A x \in Clients : Listed(x)' = Listed(x)
  BY DEF SameLists, Listed
<1>2. Allocated'
  BY <1>1 DEF Allocated
<1>3. \A d \in Clients : \A i \in Listed(d) :
        i \in Invs /\ src[i] \in Clients /\ tgt[i] \in Clients
  BY DEF Lists, Allocated, Listed, ObjTypes
<1>4. Lists'
  <2>1. \A d \in Clients : \A i \in Listed(d) :
          pc[src[i]] = "addTgt" /\ inv[src[i]] = i =>
             pc'[src[i]] = "addTgt" /\ inv'[src[i]] = i
    BY <1>3 DEF Only
  <2> QED
    BY <1>1, <1>3, <2>1 DEF Lists
<1>5. ASSUME NEW d \in Clients, d # c
      PROVE  ThreadOK(d)'
  <2>1. /\ pc'[d] = pc[d] /\ op'[d] = op[d] /\ inv'[d] = inv[d]
        /\ peer'[d] = peer[d] /\ gm'[d] = gm[d] /\ win'[d] = win[d]
        /\ nxt'[d] = nxt[d]
    BY <1>5 DEF Only
  <2>2. ThreadOK(d) /\ gm[d] \in Nat /\ nxt[d] \in Nat
    BY DEF Threads, ThreadTypes, Games
  <2>3. \A i \in Invs : /\ game[i] \in Nat /\ game'[i] \in Nat /\ game[i] <= game'[i]
                        /\ cnt[i] \in Nat /\ cnt'[i] \in Nat /\ cnt'[i] <= cnt[i]
    <3>1. \A i \in Invs : game[i] \in {0} \cup Games /\ cnt[i] \in 0 .. 3
      BY DEF ObjTypes
    <3>2. \A i \in Invs : game'[i] \in {0} \cup Games /\ cnt'[i] \in 0 .. 3
      BY DEF ObjTypes
    <3> QED
      BY <3>1, <3>2 DEF SameLists, Games
  <2>4. Locals(d)'
    <3>1. Other(d, inv[d])' = Other(d, inv[d])
      BY <1>1, <2>1 DEF Other
    <3>2. pc[d] \in HasInv => gm[d] <= game'[inv[d]]
      BY <2>2, <2>3 DEF ThreadOK, Locals
    <3>3. peer[d] \in Clients => Listed(peer[d])' = Listed(peer[d])
      BY <1>1, <2>1 DEF Listed
    <3>4. pc[d] \in Facing \/ (pc[d] = "send" /\ op[d] # "accept") => peer[d] \in Clients
      BY <2>2 DEF ThreadOK, Locals, Facing, HasPeer, Points, Starts
    <3> QED
      BY <1>1, <2>1, <2>2, <3>1, <3>2, <3>3, <3>4 DEF ThreadOK, Locals
  <2>5. Requested(d)'
    BY <1>1, <2>1, <2>2 DEF ThreadOK, Requested
  <2>6. Adding(d)'
    <3>1. pc[d] \in {"addSrc", "addTgt"} => inv[d] \in Invs /\ peer[d] \in Clients
      BY <2>2 DEF ThreadOK, Locals, HasInv, HasPeer, Points, Starts
    <3> QED
      BY <1>1, <2>1, <2>2, <2>3, <3>1 DEF ThreadOK, Adding
  <2> QED
    BY <2>4, <2>5, <2>6 DEF ThreadOK
<1> QED
  BY <1>2, <1>4, <1>5 DEF Threads

(* An operation on an invitation returns.                                  *)
LEMMA Returns ==
    ASSUME IInv, NEW c \in Clients, NEW ok \in BOOLEAN, Returned(c, ok),
           SameLists, pc[c] \in HasInv \ {"addSrc", "addTgt"}
    PROVE  /\ ThreadOK(c)'
           /\ pc'[c] \in {"idle", "release", "logout", "unregister"}
<1> USE DEF IInv
<1>1. /\ pc'[c] = ReturnPoint(c, ok) /\ op'[c] = op[c] /\ inv'[c] = None
      /\ peer'[c] = (IF op[c] = "invite" THEN peer[c] ELSE None)
      /\ gm'[c] = 0 /\ win'[c] = "none"
      /\ nxt'[c] = (IF op[c] = "logout" /\ ok THEN nxt[c] + 1 ELSE 0)
      /\ list' = list
  BY DEF Returned, SameLists
<1>2. ThreadOK(c) /\ nxt[c] \in Nat /\ pc[c] \in Points
  BY DEF Threads, ThreadTypes
<1>3. /\ pc'[c] \in {"idle", "release", "logout", "unregister"}
      /\ pc'[c] = "idle" => op[c] \notin {"logout", "invite"}
      /\ pc'[c] = "release" <=> op[c] = "invite"
      /\ op[c] = "logout" => pc'[c] \in {"logout", "unregister"}
      /\ pc'[c] = "logout" => op[c] = "logout"
  BY <1>1 DEF ReturnPoint
<1>4. pc'[c] \notin HasInv /\ (pc'[c] \in HasPeer <=> pc'[c] = "release")
  BY <1>3 DEF HasInv, HasPeer, Points, Starts
<1>5. op[c] = "invite" => peer[c] \in Clients
  BY <1>2 DEF ThreadOK, Locals, Requested, HasInv, HasPeer
<1>6. Locals(c)'
  <2>1. pc'[c] \notin Facing /\ pc'[c] # "send" /\ pc'[c] \notin Starts
    BY <1>3 DEF Facing, Starts
  <2> QED
    BY <1>1, <1>3, <1>4, <1>5, <2>1 DEF Locals
<1>7. Requested(c)'
  <2>1. Len(list[c]) \in Nat
    BY DEF ObjTypes
  <2>2. op[c] = "logout" => nxt[c] < Len(list[c])
    BY <1>2 DEF ThreadOK, Requested, HasInv
  <2>3. nxt'[c] <= Len(list[c])
    BY <1>1, <1>2, <2>1, <2>2
  <2> QED
    BY <1>1, <1>3, <2>3 DEF Requested, Starts
<1>8. Adding(c)'
  BY <1>3 DEF Adding
<1> QED
  BY <1>3, <1>6, <1>7, <1>8 DEF ThreadOK

(* Where a thread holds a client's or a player's mutex.                    *)
HoldsClient == {"rem1Held", "rem2Held", "end2", "ended"}

LEMMA ClientMutexesKept ==
    ASSUME IInv, NEW c \in Clients, Only(c), UNCHANGED <<cmutex, stuck>>,
           pc[c] \notin HoldsClient, pc'[c] \notin HoldsClient
    PROVE  ClientMutexes'
<1>1. HeldClients(c) = {} /\ HeldClients(c)' = {}
  BY DEF HeldClients, HoldsClient
<1>2. \A d \in Clients : HeldClients(d)' = HeldClients(d)
  BY <1>1 DEF HeldClients, Only
<1> QED
  BY <1>2 DEF IInv, ClientMutexes

LEMMA PlayerMutexesKept ==
    ASSUME IInv, NEW c \in Clients, Only(c), UNCHANGED <<pmutex, first>>,
           pc[c] # "post2", pc'[c] # "post2"
    PROVE  PlayerMutexes'
<1>1. HeldPlayers(c) = {} /\ HeldPlayers(c)' = {}
  BY DEF HeldPlayers
<1>2. \A d \in Clients : HeldPlayers(d)' = HeldPlayers(d)
  BY <1>1 DEF HeldPlayers, Only, Player1, Role
<1> QED
  BY <1>2 DEF IInv, PlayerMutexes

(* A winner that was read stays the winner: results only change while the  *)
(* game is in progress.                                                    *)
ResultsStand ==
    \A i \in Invs : \A g \in Games :
        g <= game[i] /\ result[i][g] \in {"first", "second"} =>
            result'[i][g] = result[i][g]

LEMMA WinnersKept ==
    ASSUME IInv, NEW c \in Clients, Only(c), ResultsStand,
           win'[c] # "none" => result'[inv'[c]][gm'[c]] = win'[c]
    PROVE  WinnerKept'
<1> USE DEF IInv
<1>1. ASSUME NEW d \in Clients, d # c, win[d] # "none"
      PROVE  result'[inv[d]][gm[d]] = win[d]
  <2>1. /\ inv[d] \in Invs /\ gm[d] \in Games /\ gm[d] <= game[inv[d]]
        /\ win[d] \in {"first", "second"}
    BY <1>1 DEF Threads, ThreadOK, Locals, ThreadTypes
  <2>2. result[inv[d]][gm[d]] = win[d]
    BY <1>1 DEF WinnerKept
  <2> QED
    BY <2>1, <2>2 DEF ResultsStand
<1> QED
  BY <1>1 DEF WinnerKept, Only

LEMMA AcceptsKept ==
    ASSUME IInv, NEW c \in Clients, Only(c), game' = game,
           pc'[c] = "set" => game[inv'[c]] = 0
    PROVE  Accepts'
BY DEF IInv, Accepts, Sets, Only

(* A step of c that takes and releases no mutex and leaves the invitations *)
(* and the lists alone.                                                    *)
LEMMA QuietStep ==
    ASSUME IInv, NEW c \in Clients, ThreadTypes', Only(c), ThreadOK(c)',
           UNCHANGED <<invVars, stuck, list, cmutex, pmutex>>,
           refs' \in [Clients -> Nat], undefined' \in {"no", "invitation", "client", "player"},
           pc[c] \notin HoldsClient \cup {"addTgt", "post2"},
           pc'[c] \notin HoldsClient \cup {"post2"},
           pc'[c] = "set" => game[inv'[c]] = 0,
           win'[c] # "none" => result[inv'[c]][gm'[c]] = win'[c]
    PROVE  IInv'
<1>1. UNCHANGED <<src, tgt, first, state, game, cnt, imutex, result, stuck, list,
                  cmutex, pmutex>>
  BY DEF invVars
<1>2. ObjTypes'
  BY <1>1 DEF IInv, ObjTypes
<1>3. SameLists
  BY <1>1, Numbers DEF IInv, SameLists
<1>4. Allocated' /\ Lists' /\ Threads'
  BY <1>2, <1>3, ListsKept
<1>5. StateMatchesGame' /\ InvMutexes'
  BY <1>1 DEF IInv, StateMatchesGame, InvMutexes, Playing
<1>6. Accepts' /\ WinnerKept'
  <2>1. ResultsStand
    BY <1>1 DEF ResultsStand
  <2> QED
    BY <1>1, <2>1, WinnersKept, AcceptsKept
<1>7. ClientMutexes' /\ PlayerMutexes'
  BY <1>1, ClientMutexesKept, PlayerMutexesKept
<1> QED
  BY <1>2, <1>4, <1>5, <1>6, <1>7 DEF IInv

(* A thread that goes on to point with the same invitation and peer.       *)
MayFollow(c, point) ==
    /\ pc[c] \in (HasInv \cap HasPeer) \ {"addSrc", "addTgt"}
    /\ point \in (HasInv \cap HasPeer) \ {"addSrc", "addTgt", "set"}
    /\ point \in Facing \/ (point = "send" /\ op[c] # "accept") =>
         pc[c] \in Facing \/ (pc[c] = "send" /\ op[c] # "accept")
    /\ point \in {"moved", "winner"} => pc[c] = "moved"

(* A thread that goes on to a point with what it knows.                    *)
LEMMA Proceeds ==
    ASSUME IInv, NEW c \in Clients, NEW point \in Points, pc'[c] = point, SameData(c),
           SameLists, ObjTypes', MayFollow(c, point)
    PROVE  ThreadOK(c)'
<1>1. /\ pc'[c] = point /\ op'[c] = op[c] /\ inv'[c] = inv[c] /\ peer'[c] = peer[c]
      /\ gm'[c] = gm[c] /\ win'[c] = win[c] /\ nxt'[c] = nxt[c]
  BY DEF SameData
<1>2. ThreadOK(c) /\ gm[c] \in Nat
  BY DEF IInv, Threads, ThreadTypes, Games
<1>3. /\ inv[c] \in Listed(c) /\ inv[c] \in Invs /\ src[inv[c]] # None
      /\ gm[c] <= game[inv[c]] /\ peer[c] \in Clients
      /\ win[c] # "none" => gm[c] # 0
  BY <1>2 DEF ThreadOK, Locals, MayFollow
<1>4. gm[c] <= game'[inv[c]]
  <2>1. game[inv[c]] \in Nat /\ game'[inv[c]] \in Nat /\ game[inv[c]] <= game'[inv[c]]
    <3>1. game[inv[c]] \in {0} \cup Games /\ game'[inv[c]] \in {0} \cup Games
      BY <1>3 DEF IInv, ObjTypes
    <3> QED
      BY <1>3, <3>1 DEF SameLists, Games
  <2> QED
    BY <1>2, <1>3, <2>1
<1>5. /\ Listed(c)' = Listed(c) /\ Listed(peer[c])' = Listed(peer[c])
      /\ Other(c, inv[c])' = Other(c, inv[c]) /\ src' = src /\ list' = list
  BY <1>1 DEF SameLists, Listed, Other
<1>6. Locals(c)'
  <2>1. point \in Facing \/ (point = "send" /\ op[c] # "accept") =>
          peer[c] = Other(c, inv[c]) /\ inv[c] \in Listed(peer[c])
    BY <1>2 DEF MayFollow, ThreadOK, Locals
  <2>2. point \in {"moved", "winner"} => gm[c] # 0
    BY <1>2 DEF MayFollow, ThreadOK, Locals
  <2>3. point \in HasInv /\ point \in HasPeer /\ point \notin Starts
    BY DEF MayFollow, HasPeer
  <2> QED
    BY <1>1, <1>3, <1>4, <1>5, <2>1, <2>2, <2>3 DEF Locals
<1>7. Requested(c)'
  <2>1. /\ point \notin {"accept", "set", "idle", "release", "logout"} /\ point \notin Starts
        /\ pc[c] \notin {"logout", "unregister", "gone"}
    BY DEF MayFollow, HasInv, HasPeer, Starts
  <2> QED
    BY <1>1, <1>2, <1>5, <2>1 DEF ThreadOK, Requested
<1>8. Adding(c)'
  BY <1>1 DEF Adding, MayFollow
<1> QED
  BY <1>6, <1>7, <1>8 DEF ThreadOK

Quiet == UNCHANGED <<invVars, stuck, objVars, pmutex, undefined>>

(* A quiet step changes no object: it returns, or goes to another point.   *)
LEMMA QuietReturn ==
    ASSUME IInv, NEW c \in Clients, NEW ok \in BOOLEAN, Return(c, ok), Quiet,
           pc[c] \in HasInv \ (HoldsClient \cup {"addSrc", "addTgt", "post2"})
    PROVE  IInv'
<1>1. /\ UNCHANGED <<invVars, stuck, list, cmutex, pmutex>> /\ SameLists
      /\ refs' \in [Clients -> Nat] /\ undefined' \in {"no", "invitation", "client", "player"}
  BY Numbers DEF Quiet, IInv, ObjTypes, objVars, SameLists, invVars
<1>2. ThreadTypes' /\ Only(c) /\ Returned(c, ok)
  BY ReturnOnly DEF IInv
<1>3. /\ ThreadOK(c)' /\ pc'[c] \in {"idle", "release", "logout", "unregister"}
  BY <1>1, <1>2, Returns
<1>4. win'[c] = "none"
  BY <1>2 DEF Returned
<1> QED
  BY <1>1, <1>2, <1>3, <1>4, QuietStep DEF HoldsClient

LEMMA QuietGo ==
    ASSUME IInv, NEW c \in Clients, NEW point \in Points, Step(c, point), Quiet,
           MayFollow(c, point), pc[c] \notin HoldsClient \cup {"post2"},
           point \notin HoldsClient \cup {"post2"}
    PROVE  IInv'
<1>1. /\ UNCHANGED <<invVars, stuck, list, cmutex, pmutex>> /\ SameLists
      /\ refs' \in [Clients -> Nat] /\ undefined' \in {"no", "invitation", "client", "player"}
  BY Numbers DEF Quiet, IInv, ObjTypes, objVars, SameLists, invVars
<1>2. ThreadTypes' /\ Only(c) /\ pc'[c] = point /\ SameData(c)
  BY StepOnly DEF IInv
<1>3. ObjTypes'
  BY <1>1 DEF IInv, ObjTypes, invVars
<1>4. ThreadOK(c)'
  BY <1>1, <1>2, <1>3, Proceeds
<1>5. win'[c] # "none" => result[inv'[c]][gm'[c]] = win'[c]
  BY <1>2 DEF IInv, WinnerKept, SameData
<1> QED
  BY <1>1, <1>2, <1>4, <1>5, QuietStep DEF MayFollow

-----------------------------------------------------------------------------
(* From here on one lemma per operation, first the quiet steps.            *)
LEMMA SendInv ==
    ASSUME IInv, NEW c \in Clients, Send(c)
    PROVE  IInv'
<1>1. pc[c] = "send" /\ Quiet
  BY DEF Send, At, Quiet
<1>2. pc[c] \in HasInv \ (HoldsClient \cup {"addSrc", "addTgt", "post2"})
  BY <1>1 DEF HasInv, HoldsClient, Points
<1>3. ASSUME NEW ok \in BOOLEAN, Return(c, ok) PROVE IInv'
  BY <1>1, <1>2, <1>3, QuietReturn
<1>4. ASSUME NEW point \in Points, Step(c, point),
             point = "unref" \/ (point = "rem1" /\ op[c] = "invite")
      PROVE  IInv'
  <2>1. MayFollow(c, point) /\ point \notin HoldsClient \cup {"post2"}
    BY <1>1, <1>4 DEF MayFollow, HasInv, HasPeer, Facing, Points, Starts, HoldsClient
  <2> QED
    BY <1>1, <1>2, <1>4, <2>1, QuietGo
<1>5. "unref" \in Points /\ "rem1" \in Points
  BY DEF Points
<1> QED
  BY <1>3, <1>4, <1>5 DEF Send

LEMMA SendMovedInv ==
    ASSUME IInv, NEW c \in Clients, SendMoved(c)
    PROVE  IInv'
<1>1. pc[c] = "moved" /\ Quiet
  BY DEF SendMoved, At, Quiet
<1>2. pc[c] \in HasInv \ (HoldsClient \cup {"addSrc", "addTgt", "post2"})
  BY <1>1 DEF HasInv, HoldsClient, Points
<1>3. ASSUME Return(c, FALSE) PROVE IInv'
  BY <1>1, <1>2, <1>3, QuietReturn
<1>4. ASSUME Step(c, "winner") PROVE IInv'
  <2>1. MayFollow(c, "winner") /\ "winner" \notin HoldsClient \cup {"post2"} /\ "winner" \in Points
    BY <1>1 DEF MayFollow, HasInv, HasPeer, Facing, Points, Starts, HoldsClient
  <2> QED
    BY <1>1, <1>2, <1>4, <2>1, QuietGo
<1> QED
  BY <1>3, <1>4 DEF SendMoved

LEMMA CheckOverInv ==
    ASSUME IInv, NEW c \in Clients, CheckOver(c)
    PROVE  IInv'
<1>1. pc[c] = "over" /\ Quiet
  BY DEF CheckOver, At, Quiet
<1>2. pc[c] \in HasInv \ (HoldsClient \cup {"addSrc", "addTgt", "post2"})
  BY <1>1 DEF HasInv, HoldsClient, Points
<1>3. ASSUME Return(c, TRUE) PROVE IInv'
  BY <1>1, <1>2, <1>3, QuietReturn
<1>4. ASSUME Step(c, "end1") PROVE IInv'
  <2>1. MayFollow(c, "end1") /\ "end1" \notin HoldsClient \cup {"post2"} /\ "end1" \in Points
    BY <1>1 DEF MayFollow, HasInv, HasPeer, Facing, Points, Starts, HoldsClient
  <2> QED
    BY <1>1, <1>2, <1>4, <2>1, QuietGo
<1> QED
  BY <1>3, <1>4 DEF CheckOver

LEMMA ReadWinnerInv ==
    ASSUME IInv, NEW c \in Clients, ReadWinner(c)
    PROVE  IInv'
<1> DEFINE r == result[inv[c]][gm[c]]
<1>1. /\ pc[c] = "winner" /\ undefined' = undefined
      /\ win' = [win EXCEPT ![c] = IF r \in {"first", "second"} THEN r ELSE "none"]
      /\ pc' = [pc EXCEPT ![c] = "over"]
      /\ UNCHANGED <<invVars, stuck, objVars, pmutex, op, inv, peer, gm, nxt>>
  BY DEF ReadWinner, At, Goto
<1>2. /\ UNCHANGED <<invVars, stuck, list, cmutex, pmutex>>
      /\ refs' \in [Clients -> Nat] /\ undefined' \in {"no", "invitation", "client", "player"}
  BY <1>1 DEF IInv, ObjTypes, objVars
<1>3. ThreadTypes' /\ Only(c) /\ pc'[c] = "over" /\ (win'[c] # "none" => win'[c] = r)
  BY <1>1 DEF IInv, ThreadTypes, Points, Only
<1> HIDE DEF r
<1>4. ThreadOK(c)
  BY DEF IInv, Threads
<1>5. Locals(c)'
  <2>1. /\ inv[c] \in Listed(c) /\ inv[c] \in Listed(peer[c])
        /\ inv[c] \in Invs /\ src[inv[c]] # None /\ gm[c] <= game[inv[c]]
        /\ peer[c] \in Clients /\ peer[c] = Other(c, inv[c]) /\ gm[c] # 0
    BY <1>1, <1>4 DEF ThreadOK, Locals, HasInv, HasPeer, Points, Starts, Facing
  <2>2. /\ Listed(c)' = Listed(c) /\ Listed(peer[c])' = Listed(peer[c])
        /\ Other(c, inv[c])' = Other(c, inv[c])
        /\ UNCHANGED <<src, game, inv, gm, peer>>
    BY <1>1, <1>2 DEF Listed, Other, invVars
  <2>3. pc'[c] \in HasInv /\ pc'[c] \in HasPeer /\ pc'[c] \notin Starts
    BY <1>3 DEF HasInv, HasPeer, Points, Starts
  <2> QED
    BY <1>3, <2>1, <2>2, <2>3 DEF Locals
<1>6. Requested(c)' /\ Adding(c)'
  BY <1>1, <1>2, <1>3, <1>4 DEF ThreadOK, Requested, Adding, Starts
<1>7. win'[c] # "none" => result[inv'[c]][gm'[c]] = win'[c]
  BY <1>1, <1>3 DEF r
<1> QED
  BY <1>1, <1>2, <1>3, <1>5, <1>6, <1>7, QuietStep DEF ThreadOK, HoldsClient

LEMMA ReleaseTargetInv ==
    ASSUME IInv, NEW c \in Clients, ReleaseTarget(c)
    PROVE  IInv'
<1>1. /\ pc[c] = "release" /\ undefined' = undefined
      /\ refs' = [refs EXCEPT ![peer[c]] = refs[peer[c]] - 1]
      /\ peer' = [peer EXCEPT ![c] = None]
      /\ pc' = [pc EXCEPT ![c] = "idle"]
      /\ UNCHANGED <<invVars, stuck, list, cmutex, pmutex, op, inv, gm, win, nxt>>
  BY DEF ReleaseTarget, At, Goto
<1>4. ThreadOK(c)
  BY DEF IInv, Threads
<1>a. refs[peer[c]] # 0 /\ peer[c] \in Clients
  <2>1. ClientsRead(c) = {peer[c]} /\ ~DanglingClient(c)
    BY <1>1 DEF ClientsRead, ReleaseTarget, At
  <2>2. peer[c] \in Clients
    BY <1>1, <1>4 DEF ThreadOK, Locals, HasPeer, Points, Starts
  <2> QED
    BY <2>1, <2>2 DEF DanglingClient
<1>2. /\ UNCHANGED <<invVars, stuck, list, cmutex, pmutex>>
      /\ refs' \in [Clients -> Nat] /\ undefined' \in {"no", "invitation", "client", "player"}
  BY <1>1, <1>a DEF IInv, ObjTypes
<1>3. ThreadTypes' /\ Only(c) /\ pc'[c] = "idle" /\ peer'[c] = None
  BY <1>1 DEF IInv, ThreadTypes, Points, Only
<1>b. inv[c] = None /\ gm[c] = 0 /\ win[c] = "none"
  BY <1>1, <1>4 DEF ThreadOK, Locals, HasInv
<1>5. Locals(c)'
  BY <1>1, <1>3, <1>b DEF Locals, HasInv, HasPeer, Facing, Starts
<1>6. Requested(c)' /\ Adding(c)'
  BY <1>1, <1>3, <1>4 DEF ThreadOK, Requested, Adding, Starts
<1>7. win'[c] # "none" => result[inv'[c]][gm'[c]] = win'[c]
  BY <1>1, <1>b
<1> QED
  BY <1>1, <1>2, <1>3, <1>5, <1>6, <1>7, QuietStep DEF ThreadOK, HoldsClient

LEMMA RequestInv ==
    ASSUME IInv, NEW c \in Clients, NEW what \in Starts, Request(c, what)
    PROVE  IInv'
<1>0. PICK j \in Listed(c) : inv' = [inv EXCEPT ![c] = j]
  BY DEF Request
<1>1. /\ pc[c] = "idle" /\ undefined' = undefined
      /\ op' = [op EXCEPT ![c] = what] /\ pc' = [pc EXCEPT ![c] = what]
      /\ UNCHANGED <<invVars, stuck, objVars, pmutex, peer, gm, win, nxt>>
  BY DEF Request, At, Goto
<1>2. /\ UNCHANGED <<invVars, stuck, list, cmutex, pmutex>>
      /\ refs' \in [Clients -> Nat] /\ undefined' \in {"no", "invitation", "client", "player"}
  BY <1>1 DEF IInv, ObjTypes, objVars
<1>a. j \in Invs /\ src[j] # None
  BY DEF IInv, Lists, ObjTypes, Listed
<1>3. ThreadTypes' /\ Only(c) /\ pc'[c] = what /\ op'[c] = what /\ inv'[c] = j
  BY <1>0, <1>1, <1>a DEF IInv, ThreadTypes, Points, Starts, AllOps, Only
<1>4. ThreadOK(c)
  BY DEF IInv, Threads
<1>b. gm[c] = 0 /\ win[c] = "none" /\ peer[c] = None
  BY <1>1, <1>4 DEF ThreadOK, Locals, HasInv, HasPeer
<1>5. Locals(c)'
  <2>1. Listed(c)' = Listed(c) /\ UNCHANGED <<src, game, gm, win, peer>>
    BY <1>1, <1>2 DEF Listed, invVars
  <2>2. 0 <= game[j]
    BY <1>a, Numbers DEF IInv
  <2>3. what \in HasInv /\ what \notin HasPeer /\ what \notin Facing
        /\ what \notin {"addSrc", "send", "moved", "winner"}
    BY DEF HasInv, HasPeer, Facing, Points, Starts
  <2> QED
    BY <1>3, <1>a, <1>b, <2>1, <2>2, <2>3 DEF Locals
<1>6. Requested(c)' /\ Adding(c)'
  BY <1>1, <1>2, <1>3, <1>4 DEF ThreadOK, Requested, Adding, Starts
<1>7. win'[c] # "none" => result[inv'[c]][gm'[c]] = win'[c]
  BY <1>1, <1>b
<1>8. what \notin HoldsClient \cup {"post2", "set"}
  BY DEF HoldsClient, Starts
<1> QED
  BY <1>1, <1>2, <1>3, <1>5, <1>6, <1>7, <1>8, QuietStep DEF ThreadOK, HoldsClient

(* The peer that revoke, decline and accept find.                          *)
LEMMA FindsPeer ==
    ASSUME IInv, NEW c \in Clients, NEW x \in Clients, NEW point \in {"close", "set"},
           pc[c] \in Starts, pc' = [pc EXCEPT ![c] = point],
           peer' = [peer EXCEPT ![c] = x],
           UNCHANGED <<invVars, stuck, objVars, pmutex, op, inv, gm, win, nxt, undefined>>,
           inv[c] \in Listed(x),
           point = "close" => x = Other(c, inv[c]),
           point = "set" => x = src[inv[c]] /\ game[inv[c]] = 0 /\ op[c] = "accept"
    PROVE  IInv'
<1>1. /\ UNCHANGED <<src, tgt, list, game>> /\ UNCHANGED <<invVars, stuck, list, cmutex, pmutex>>
      /\ refs' \in [Clients -> Nat] /\ undefined' \in {"no", "invitation", "client", "player"}
  BY DEF IInv, ObjTypes, objVars, invVars
<1>2. ThreadTypes' /\ Only(c) /\ pc'[c] = point /\ peer'[c] = x
  BY DEF IInv, ThreadTypes, Points, Starts, Only
<1>3. ThreadOK(c)
  BY DEF IInv, Threads
<1>4. /\ inv[c] \in Listed(c) /\ inv[c] \in Invs /\ src[inv[c]] # None
      /\ gm[c] <= game[inv[c]] /\ (win[c] # "none" => gm[c] # 0)
  BY <1>3 DEF ThreadOK, Locals, HasInv, Points, Starts
<1>5. Locals(c)'
  <2>1. Listed(c)' = Listed(c) /\ Listed(peer[c])' = Listed(x) /\ Other(c, inv[c])' = Other(c, inv[c])
    BY <1>1, <1>2 DEF Listed, Other
  <2>2. point \in HasInv /\ point \in HasPeer /\ (point \in Facing <=> point = "close")
        /\ point \notin {"addSrc", "send", "moved", "winner"} /\ point \notin Starts
    BY DEF HasInv, HasPeer, Facing, Points, Starts
  <2> QED
    BY <1>1, <1>2, <1>4, <2>1, <2>2 DEF Locals
<1>6. Requested(c)' /\ Adding(c)'
  BY <1>1, <1>2, <1>3 DEF ThreadOK, Requested, Adding, Starts
<1>7. win'[c] # "none" => result[inv'[c]][gm'[c]] = win'[c]
  BY DEF IInv, WinnerKept
<1> QED
  BY <1>1, <1>2, <1>5, <1>6, <1>7, QuietStep DEF ThreadOK, HoldsClient, Starts

LEMMA WithdrawInv ==
    ASSUME IInv, NEW c \in Clients, Revoke(c) \/ Decline(c)
    PROVE  IInv'
<1>1. /\ pc[c] \in {"revoke", "decline"} /\ undefined' = undefined
      /\ UNCHANGED <<invVars, stuck, objVars, pmutex>>
  BY DEF Revoke, Decline, Withdraw, At
<1>2. ThreadOK(c) /\ pc[c] \in HasInv \ (HoldsClient \cup {"addSrc", "addTgt", "post2"})
      /\ pc[c] \in Starts
  BY <1>1 DEF IInv, Threads, HasInv, Points, Starts, HoldsClient
<1>3. /\ inv[c] \in Invs /\ src[inv[c]] \in Clients /\ tgt[inv[c]] \in Clients
      /\ src[inv[c]] # tgt[inv[c]]
  BY <1>2 DEF IInv, ThreadOK, Locals, Allocated
<1>4. ASSUME Return(c, FALSE) PROVE IInv'
  BY <1>1, <1>2, <1>4, QuietReturn DEF Quiet
<1>5. ASSUME NEW x \in Clients, x = Other(c, inv[c]), inv[c] \in Listed(x), Goto(c, "close"),
             peer' = [peer EXCEPT ![c] = x], UNCHANGED <<op, inv, gm, win, nxt>>
      PROVE  IInv'
  BY <1>1, <1>2, <1>5, FindsPeer DEF Goto
<1>6. CASE Revoke(c)
  BY <1>3, <1>4, <1>5, <1>6 DEF Revoke, Withdraw, Other
<1>7. CASE Decline(c)
  BY <1>3, <1>4, <1>5, <1>7 DEF Decline, Withdraw, Other
<1> QED
  BY <1>6, <1>7

LEMMA AcceptInv ==
    ASSUME IInv, NEW c \in Clients, Accept(c)
    PROVE  IInv'
<1>1. /\ pc[c] = "accept" /\ undefined' = undefined
      /\ UNCHANGED <<invVars, stuck, objVars, pmutex>>
  BY DEF Accept, At
<1>2. ThreadOK(c) /\ pc[c] \in HasInv \ (HoldsClient \cup {"addSrc", "addTgt", "post2"})
      /\ pc[c] \in Starts /\ op[c] = "accept"
  BY <1>1 DEF IInv, Threads, ThreadOK, Requested, HasInv, Points, Starts, HoldsClient
<1>3. inv[c] \in Invs /\ src[inv[c]] \in Clients
  BY <1>2 DEF IInv, ThreadOK, Locals, Allocated
<1>4. ASSUME Return(c, FALSE) PROVE IInv'
  BY <1>1, <1>2, <1>4, QuietReturn DEF Quiet
<1>5. ASSUME NEW x \in Clients, x = src[inv[c]], inv[c] \in Listed(x), state[inv[c]] = "open",
             Goto(c, "set"), peer' = [peer EXCEPT ![c] = x], UNCHANGED <<op, inv, gm, win, nxt>>
      PROVE  IInv'
  <2>1. game[inv[c]] = 0
    BY <1>3, <1>5 DEF IInv, StateMatchesGame
  <2> QED
    BY <1>1, <1>2, <1>5, <2>1, FindsPeer DEF Goto
<1> QED
  BY <1>3, <1>4, <1>5 DEF Accept

LEMMA LogoutInv ==
    ASSUME IInv, NEW c \in Clients, Logout(c)
    PROVE  IInv'
<1>1. /\ pc[c] = "idle" /\ undefined' = undefined
      /\ op' = [op EXCEPT ![c] = "logout"] /\ pc' = [pc EXCEPT ![c] = "logout"]
      /\ UNCHANGED <<invVars, stuck, objVars, pmutex, inv, peer, gm, win, nxt>>
  BY DEF Logout, At, Goto
<1>2. /\ UNCHANGED <<invVars, stuck, list, cmutex, pmutex>>
      /\ refs' \in [Clients -> Nat] /\ undefined' \in {"no", "invitation", "client", "player"}
  BY <1>1 DEF IInv, ObjTypes, objVars
<1>3. ThreadTypes' /\ Only(c) /\ pc'[c] = "logout" /\ op'[c] = "logout"
  BY <1>1 DEF IInv, ThreadTypes, Points, AllOps, Only
<1>4. ThreadOK(c)
  BY DEF IInv, Threads
<1>b. inv[c] = None /\ gm[c] = 0 /\ win[c] = "none" /\ peer[c] = None
  BY <1>1, <1>4 DEF ThreadOK, Locals, HasInv, HasPeer
<1>5. Locals(c)'
  BY <1>1, <1>3, <1>b DEF Locals, HasInv, HasPeer, Facing, Starts
<1>6. Requested(c)' /\ Adding(c)'
  BY <1>1, <1>2, <1>3, <1>4 DEF ThreadOK, Requested, Adding, Starts
<1>7. win'[c] # "none" => result[inv'[c]][gm'[c]] = win'[c]
  BY <1>1, <1>b
<1> QED
  BY <1>1, <1>2, <1>3, <1>5, <1>6, <1>7, QuietStep DEF ThreadOK, HoldsClient

LEMMA LogoutNextInv ==
    ASSUME IInv, NEW c \in Clients, LogoutNext(c)
    PROVE  IInv'
<1>1. /\ pc[c] = "logout" /\ undefined' = undefined
      /\ UNCHANGED <<invVars, stuck, objVars, pmutex, op, peer, gm, win>>
  BY DEF LogoutNext, At
<1>2. /\ UNCHANGED <<invVars, stuck, list, cmutex, pmutex>>
      /\ refs' \in [Clients -> Nat] /\ undefined' \in {"no", "invitation", "client", "player"}
  BY <1>1 DEF IInv, ObjTypes, objVars
<1>4. ThreadOK(c) /\ nxt[c] \in Nat /\ nxt[c] <= Len(list[c]) /\ Len(list[c]) \in Nat
      /\ list[c] \in Seq(Invs)
  BY DEF IInv, Threads, ThreadTypes, ObjTypes, ThreadOK, Requested
<1>b. inv[c] = None /\ gm[c] = 0 /\ win[c] = "none" /\ peer[c] = None
  BY <1>1, <1>4 DEF ThreadOK, Locals, HasInv, HasPeer
<1>7. win'[c] # "none" => result[inv'[c]][gm'[c]] = win'[c]
  BY <1>1, <1>b
<1>c. ASSUME pc' = [pc EXCEPT ![c] = "unregister"], UNCHANGED <<inv, nxt>> PROVE IInv'
  <2>1. ThreadTypes' /\ Only(c) /\ pc'[c] = "unregister"
    BY <1>1, <1>c DEF IInv, ThreadTypes, Points, Only
  <2>2. Locals(c)'
    BY <1>1, <1>b, <1>c, <2>1 DEF Locals, HasInv, HasPeer, Facing, Starts
  <2>3. Requested(c)' /\ Adding(c)'
    BY <1>1, <1>2, <1>4, <1>c, <2>1 DEF ThreadOK, Requested, Adding, Starts
  <2> QED
    BY <1>1, <1>2, <1>7, <2>1, <2>2, <2>3, QuietStep DEF ThreadOK, HoldsClient
<1>d. ASSUME nxt[c] # Len(list[c]), nxt' = [nxt EXCEPT ![c] = nxt[c] + 1], UNCHANGED <<inv, pc>>
      PROVE  IInv'
  <2>1. ThreadTypes' /\ Only(c) /\ pc'[c] = "logout" /\ nxt'[c] = nxt[c] + 1
    BY <1>1, <1>d DEF IInv, ThreadTypes, Only
  <2>2. Locals(c)'
    BY <1>1, <1>b, <1>d, <2>1 DEF Locals, HasInv, HasPeer, Facing, Starts
  <2>3. Requested(c)' /\ Adding(c)'
    <3>1. nxt'[c] <= Len(list[c])
      BY <1>4, <1>d, <2>1
    <3> QED
      BY <1>1, <1>2, <1>4, <2>1, <3>1 DEF ThreadOK, Requested, Adding, Starts
  <2> QED
    BY <1>1, <1>2, <1>7, <2>1, <2>2, <2>3, QuietStep DEF ThreadOK, HoldsClient
<1>e. ASSUME nxt[c] # Len(list[c]), NEW j, j = list[c][nxt[c] + 1],
             NEW point \in {"resign", "revoke", "decline"},
             inv' = [inv EXCEPT ![c] = j], pc' = [pc EXCEPT ![c] = point], UNCHANGED nxt
      PROVE  IInv'
  <2>1. nxt[c] + 1 \in DOMAIN list[c] /\ nxt[c] < Len(list[c])
    BY <1>4, <1>e
  <2>2. j \in Listed(c)
    BY <1>e, <2>1 DEF Listed
  <2>3. j \in Invs /\ src[j] # None
    BY <2>2 DEF IInv, Lists, ObjTypes, Listed
  <2>4. ThreadTypes' /\ Only(c) /\ pc'[c] = point /\ inv'[c] = j
    BY <1>1, <1>e, <2>3 DEF IInv, ThreadTypes, Points, Starts, Only
  <2>5. Locals(c)'
    <3>1. Listed(c)' = Listed(c) /\ UNCHANGED <<src, game, gm, win, peer>>
      BY <1>1, <1>2 DEF Listed, invVars
    <3>2. 0 <= game[j]
      BY <2>3, Numbers DEF IInv
    <3>3. point \in HasInv /\ point \notin HasPeer /\ point \notin Facing
          /\ point \notin {"addSrc", "send", "moved", "winner"}
      BY DEF HasInv, HasPeer, Facing, Points, Starts
    <3> QED
      BY <1>b, <2>2, <2>3, <2>4, <3>1, <3>2, <3>3 DEF Locals
  <2>6. Requested(c)' /\ Adding(c)'
    <3>1. op[c] # "invite"
      BY <1>1, <1>4 DEF ThreadOK, Requested
    <3> QED
      BY <1>1, <1>2, <1>4, <1>e, <2>1, <2>4, <3>1 DEF ThreadOK, Requested, Adding, Starts
  <2> QED
    BY <1>1, <1>2, <1>7, <2>4, <2>5, <2>6, QuietStep DEF ThreadOK, HoldsClient
<1> QED
  <2>1. CASE nxt[c] = Len(list[c])
    BY <1>c, <2>1 DEF LogoutNext, Goto
  <2>2. CASE nxt[c] # Len(list[c])
    <3> DEFINE j == list[c][nxt[c] + 1]
    <3>1. CASE game[j] # 0 /\ ~Playing(j)
      BY <1>d, <2>2, <3>1 DEF LogoutNext
    <3>2. CASE ~(game[j] # 0 /\ ~Playing(j))
      <4>1. /\ inv' = [inv EXCEPT ![c] = j] /\ UNCHANGED nxt
            /\ \E point \in {"resign", "revoke", "decline"} : pc' = [pc EXCEPT ![c] = point]
        BY <2>2, <3>2 DEF LogoutNext, Goto
      <4> HIDE DEF j
      <4>2. PICK point \in {"resign", "revoke", "decline"} : pc' = [pc EXCEPT ![c] = point]
        BY <4>1
      <4> QED
        BY <1>e, <2>2, <4>1, <4>2 DEF j
    <3> QED
      BY <3>1, <3>2
  <2> QED
    BY <2>1, <2>2

LEMMA UnregisterInv ==
    ASSUME IInv, NEW c \in Clients, Unregister(c)
    PROVE  IInv'
<1>1. /\ pc[c] = "unregister" /\ undefined' = undefined
      /\ refs' = [refs EXCEPT ![c] = refs[c] - 1]
      /\ pc' = [pc EXCEPT ![c] = "gone"]
      /\ UNCHANGED <<invVars, stuck, list, cmutex, pmutex, op, inv, peer, gm, win, nxt>>
  BY DEF Unregister, At, Goto
<1>4. ThreadOK(c)
  BY DEF IInv, Threads
<1>a. refs[c] # 0
  BY <1>1 DEF ClientsRead, Unregister, At, DanglingClient
<1>2. /\ UNCHANGED <<invVars, stuck, list, cmutex, pmutex>>
      /\ refs' \in [Clients -> Nat] /\ undefined' \in {"no", "invitation", "client", "player"}
  BY <1>1, <1>a DEF IInv, ObjTypes
<1>3. ThreadTypes' /\ Only(c) /\ pc'[c] = "gone"
  BY <1>1 DEF IInv, ThreadTypes, Points, Only
<1>b. inv[c] = None /\ gm[c] = 0 /\ win[c] = "none" /\ peer[c] = None
  BY <1>1, <1>4 DEF ThreadOK, Locals, HasInv, HasPeer
<1>5. Locals(c)'
  BY <1>1, <1>3, <1>b DEF Locals, HasInv, HasPeer, Facing, Starts
<1>6. Requested(c)' /\ Adding(c)'
  BY <1>1, <1>3, <1>4 DEF ThreadOK, Requested, Adding, Starts
<1>7. win'[c] # "none" => result[inv'[c]][gm'[c]] = win'[c]
  BY <1>1, <1>b
<1> QED
  BY <1>1, <1>2, <1>3, <1>5, <1>6, <1>7, QuietStep DEF ThreadOK, HoldsClient

-----------------------------------------------------------------------------
(* Steps that change the state of an invitation, its game or its count, or *)
(* that take or release a mutex.                                           *)
SameWin(c) == inv'[c] = inv[c] /\ gm'[c] = gm[c] /\ win'[c] = win[c]

(* Steps that do change an object.                                         *)
LEMMA LoudStep ==
    ASSUME IInv, NEW c \in Clients, ObjTypes', ThreadTypes', Only(c), ThreadOK(c)',
           SameLists, pc[c] # "addTgt", ResultsStand,
           win'[c] = "none" \/ SameWin(c),
           StateMatchesGame', InvMutexes', Accepts', ClientMutexes', PlayerMutexes'
    PROVE  IInv'
<1>1. Allocated' /\ Lists' /\ Threads'
  BY ListsKept
<1>2. win'[c] # "none" => result'[inv'[c]][gm'[c]] = win'[c]
  <2> SUFFICES ASSUME win[c] # "none", SameWin(c) PROVE result'[inv[c]][gm[c]] = win[c]
    BY DEF SameWin
  <2>1. /\ inv[c] \in Invs /\ gm[c] \in Games /\ gm[c] <= game[inv[c]]
        /\ win[c] \in {"first", "second"}
    BY DEF IInv, Threads, ThreadOK, Locals, ThreadTypes
  <2>2. result[inv[c]][gm[c]] = win[c]
    BY DEF IInv, WinnerKept
  <2> QED
    BY <2>1, <2>2 DEF ResultsStand
<1>3. WinnerKept'
  BY <1>2, WinnersKept
<1> QED
  BY <1>1, <1>3 DEF IInv

LEMMA MutexesKept ==
    ASSUME IInv, NEW c \in Clients, Only(c), UNCHANGED <<cmutex, stuck, pmutex, first>>,
           pc[c] \notin HoldsClient \cup {"post2"}, pc'[c] \notin HoldsClient \cup {"post2"}
    PROVE  ClientMutexes' /\ PlayerMutexes'
BY ClientMutexesKept, PlayerMutexesKept

(* The other party of an invitation that a thread works on lists it too.   *)
LEMMA OtherLists ==
    ASSUME IInv, NEW c \in Clients, pc[c] \in HasInv \ {"addSrc", "addTgt"}
    PROVE  /\ inv[c] \in Invs /\ inv[c] \in Listed(c) /\ src[inv[c]] # None
           /\ c \in {src[inv[c]], tgt[inv[c]]}
           /\ src[inv[c]] \in Clients /\ tgt[inv[c]] \in Clients
           /\ src[inv[c]] # tgt[inv[c]]
           /\ Other(c, inv[c]) \in Clients /\ Other(c, inv[c]) # c
           /\ inv[c] \in Listed(Other(c, inv[c]))
<1>1. inv[c] \in Invs /\ inv[c] \in Listed(c) /\ src[inv[c]] # None
  BY DEF IInv, Threads, ThreadOK, Locals
<1>2. /\ c \in {src[inv[c]], tgt[inv[c]]}
      /\ inv[c] \in Listed(src[inv[c]])
      /\ inv[c] \in Listed(tgt[inv[c]]) \/ pc[src[inv[c]]] = "addTgt"
  BY <1>1 DEF IInv, Lists
<1>3. /\ src[inv[c]] \in Clients /\ tgt[inv[c]] \in Clients
      /\ src[inv[c]] # tgt[inv[c]]
  BY <1>1 DEF IInv, Allocated
<1> QED
  BY <1>1, <1>2, <1>3 DEF Other

(* A game gets its result.                                                 *)
LEMMA ResultAssigned ==
    ASSUME ObjTypes, NEW j \in Invs, NEW g \in Games, NEW w \in Outcomes,
           result' = [result EXCEPT ![j][g] = w]
    PROVE  /\ result' \in [Invs -> [Games -> Outcomes]]
           /\ result'[j][g] = w
           /\ \A i \in Invs : \A h \in Games : i # j \/ h # g => result'[i][h] = result[i][h]
<1>1. result \in [Invs -> [Games -> Outcomes]] /\ result[j] \in [Games -> Outcomes]
  BY DEF ObjTypes
<1>2. result' = [result EXCEPT ![j] = [result[j] EXCEPT ![g] = w]]
  OBVIOUS
<1> QED
  BY <1>1, <1>2

(* The operations that change an object.                                   *)
LEMMA inv_closeInv ==
    ASSUME IInv, NEW c \in Clients, inv_close(c)
    PROVE  IInv'
<1>0. PICK j : j = inv[c]
  OBVIOUS
<1>1. /\ pc[c] = "close" /\ undefined' = undefined /\ imutex[j] = 1
      /\ UNCHANGED <<src, tgt, first, game, cnt, stuck, objVars, pmutex>>
  BY <1>0 DEF inv_close, At
<1>2. ThreadTypes /\ ObjTypes /\ pc[c] \in HasInv \ (HoldsClient \cup {"addSrc", "addTgt", "post2"})
  BY <1>1 DEF IInv, HasInv, Points, HoldsClient
<1>3. j \in Invs
  BY <1>0, <1>2, OtherLists
<1>4. SameLists /\ UNCHANGED <<cmutex, stuck, pmutex, first>>
  BY <1>1, <1>2, Numbers DEF SameLists, objVars
<1>5. CASE state[j] = "closed"
  <2>1. imutex' = [imutex EXCEPT ![j] = 0] /\ Return(c, FALSE) /\ UNCHANGED <<state, result>>
    BY <1>0, <1>5 DEF inv_close
  <2>2. ThreadTypes' /\ Only(c) /\ Returned(c, FALSE)
    BY <1>2, <2>1, ReturnOnly
  <2>3. ThreadOK(c)' /\ pc'[c] \in {"idle", "release", "logout", "unregister"}
    BY <1>2, <1>4, <2>2, Returns
  <2>4. ObjTypes'
    BY <1>1, <1>2, <1>3, <2>1 DEF ObjTypes, objVars
  <2>5. StateMatchesGame' /\ ResultsStand
    BY <1>1, <2>1 DEF IInv, StateMatchesGame, Playing, ResultsStand
  <2>6. InvMutexes'
    BY <1>2, <1>3, <1>5, <2>1 DEF IInv, InvMutexes, ObjTypes
  <2>7. Accepts'
    BY <1>1, <2>2, <2>3, AcceptsKept
  <2>8. ClientMutexes' /\ PlayerMutexes'
    BY <1>2, <1>4, <2>2, <2>3, MutexesKept DEF HoldsClient
  <2>9. win'[c] = "none"
    BY <2>2 DEF Returned
  <2> QED
    BY <1>1, <1>4, <2>2, <2>3, <2>4, <2>5, <2>6, <2>7, <2>8, <2>9, LoudStep
<1>6. CASE state[j] # "closed" /\ gm[c] = 0 /\ Playing(j)
  <2>1. Return(c, FALSE) /\ UNCHANGED <<imutex, state, result>>
    BY <1>0, <1>6 DEF inv_close
  <2>2. Quiet
    BY <1>1, <2>1 DEF Quiet, invVars
  <2> QED
    BY <1>2, <2>1, <2>2, QuietReturn
<1>7. CASE state[j] # "closed" /\ ~(gm[c] = 0 /\ Playing(j))
  <2>1. /\ state' = [state EXCEPT ![j] = "closed"]
        /\ result' = IF Playing(j)
                     THEN [result EXCEPT ![j][game[j]] = Rival(Role(c, j))]
                     ELSE result
        /\ Step(c, "rem1") /\ UNCHANGED imutex
    BY <1>0, <1>7 DEF inv_close
  <2>2. ThreadTypes' /\ Only(c) /\ pc'[c] = "rem1" /\ SameData(c)
    BY <1>2, <2>1, StepOnly DEF Points
  <2>a. PICK w : w = Rival(Role(c, j)) /\ w \in {"first", "second"}
    BY DEF Rival
  <2>b. /\ result' \in [Invs -> [Games -> Outcomes]]
        /\ Playing(j) => result'[j][game[j]] = w
        /\ \A i \in Invs : \A g \in Games :
             result'[i][g] = result[i][g] \/ (i = j /\ g = game[j] /\ Playing(j))
    <3>1. CASE Playing(j)
      <4>1. game[j] \in Games
        BY <1>2, <1>3, <3>1 DEF ObjTypes, Playing
      <4>2. PICK g \in Games : g = game[j]
        BY <4>1
      <4>3. result' = [result EXCEPT ![j][g] = w] /\ w \in Outcomes
        BY <2>1, <2>a, <3>1, <4>2 DEF Outcomes
      <4>4. /\ result' \in [Invs -> [Games -> Outcomes]] /\ result'[j][g] = w
            /\ \A i \in Invs : \A h \in Games : i # j \/ h # g => result'[i][h] = result[i][h]
        BY ZenonT(40), <1>2, <1>3, <4>3, ResultAssigned
      <4> QED
        BY <3>1, <4>2, <4>4
    <3>2. CASE ~Playing(j)
      BY <1>2, <2>1, <3>2 DEF ObjTypes
    <3> QED
      BY <3>1, <3>2
  <2>4. ObjTypes'
    BY <1>1, <1>2, <1>3, <2>1, <2>b DEF ObjTypes, objVars
  <2>3. ThreadOK(c)'
    <3>1. MayFollow(c, "rem1") /\ "rem1" \in Points
      BY <1>1 DEF MayFollow, HasInv, HasPeer, Facing, Points, Starts
    <3> QED
      BY <1>4, <2>2, <2>4, <3>1, Proceeds
  <2>5. StateMatchesGame'
    <3>1. ASSUME NEW i \in Invs, i # j
          PROVE  state'[i] = state[i] /\ game'[i] = game[i] /\ (Playing(i)' => Playing(i))
      <4>1. game[i] # 0 => game[i] \in Games
        BY <1>2 DEF ObjTypes
      <4> QED
        BY <1>1, <1>2, <2>1, <2>b, <3>1, <4>1 DEF Playing, ObjTypes
    <3>2. state'[j] = "closed" /\ ~Playing(j)'
      BY <1>1, <1>2, <1>3, <2>1, <2>a, <2>b DEF Playing, ObjTypes
    <3> QED
      BY <3>1, <3>2 DEF IInv, StateMatchesGame
  <2>c. ResultsStand
    BY <2>b DEF ResultsStand, Playing
  <2>6. InvMutexes'
    BY <1>1, <1>2, <1>3, <2>1 DEF IInv, InvMutexes, ObjTypes
  <2>7. Accepts'
    BY <1>1, <2>2, AcceptsKept
  <2>8. ClientMutexes' /\ PlayerMutexes'
    BY <1>2, <1>4, <2>2, MutexesKept DEF HoldsClient
  <2>9. SameWin(c)
    BY <2>2 DEF SameData, SameWin
  <2> QED
    BY <1>1, <1>4, <2>2, <2>3, <2>4, <2>5, <2>6, <2>7, <2>8, <2>9, <2>c, LoudStep
<1> QED
  BY <1>5, <1>6, <1>7

LEMMA inv_acceptInv ==
    ASSUME IInv, NEW c \in Clients, inv_accept(c)
    PROVE  IInv'
<1>0. PICK j, g : j = inv[c] /\ g = game[j] + 1
  OBVIOUS
<1>1. /\ pc[c] = "set" /\ undefined' = undefined /\ imutex[j] = 1
      /\ state' = [state EXCEPT ![j] = "accepted"]
      /\ game' = [game EXCEPT ![j] = g]
      /\ result' = [result EXCEPT ![j][g] = "playing"]
      /\ Step(c, "send")
      /\ UNCHANGED <<src, tgt, first, cnt, imutex, stuck, objVars, pmutex>>
  BY <1>0 DEF inv_accept, At
<1>2. ThreadTypes /\ ObjTypes /\ ThreadOK(c)
      /\ pc[c] \in HasInv \ (HoldsClient \cup {"addSrc", "addTgt", "post2"})
  BY <1>1 DEF IInv, Threads, HasInv, Points, HoldsClient
<1>3. j \in Invs
  BY <1>0, <1>2, OtherLists
<1>4. game[j] \in {0, 1} /\ g \in Games /\ g > game[j]
  <2>1. game[j] \in {0} \cup Games /\ game[j] # 2
    BY <1>0, <1>1, <1>2, <1>3 DEF IInv, Accepts, Sets, ObjTypes
  <2> QED
    BY <1>0, <2>1 DEF Games
<1>5. /\ result' \in [Invs -> [Games -> Outcomes]]
      /\ \A i \in Invs : \A h \in Games : i # j \/ h # g => result'[i][h] = result[i][h]
  BY <1>1, <1>2, <1>3, <1>4, ResultAssigned DEF Outcomes
<1>6. ObjTypes'
  BY <1>1, <1>2, <1>3, <1>4, <1>5 DEF ObjTypes, objVars
<1>7. SameLists /\ UNCHANGED <<cmutex, stuck, pmutex, first>>
  <2>1. \A i \in Invs : game[i] <= game'[i] /\ cnt'[i] <= cnt[i]
    BY <1>1, <1>2, <1>3, <1>4, Numbers DEF ObjTypes, Games
  <2> QED
    BY <1>1, <2>1 DEF SameLists, objVars
<1>8. ThreadTypes' /\ Only(c) /\ pc'[c] = "send" /\ SameData(c)
  BY <1>1, <1>2, StepOnly DEF Points
<1>9. ThreadOK(c)'
  <2>1. MayFollow(c, "send") /\ "send" \in Points
    BY <1>1, <1>2 DEF MayFollow, HasInv, HasPeer, Facing, Points, Starts, ThreadOK, Requested
  <2> QED
    BY <1>6, <1>7, <1>8, <2>1, Proceeds
<1>a. ResultsStand
  <2>1. \A i \in Invs : game[i] \in Nat
    BY <1>2, Numbers
  <2> QED
    BY <1>3, <1>4, <1>5, <2>1 DEF ResultsStand, Games
<1>b. StateMatchesGame' /\ InvMutexes'
  <2>1. ASSUME NEW i \in Invs, i # j
        PROVE  state'[i] = state[i] /\ game'[i] = game[i] /\ (Playing(i)' => Playing(i))
    <3>1. game[i] # 0 => game[i] \in Games
      BY <1>2 DEF ObjTypes
    <3> QED
      BY <1>1, <1>2, <1>5, <2>1, <3>1 DEF Playing, ObjTypes
  <2>2. state'[j] = "accepted" /\ game'[j] # 0
    BY <1>1, <1>2, <1>3, <1>4 DEF ObjTypes, Games
  <2> QED
    BY <1>1, <2>1, <2>2 DEF IInv, StateMatchesGame, InvMutexes
<1>c. Accepts'
  <2>1. \A d \in Clients : pc[d] = "set" /\ inv[d] = j => d \in {src[j], tgt[j]}
    <3>1. \A d \in Clients : pc[d] = "set" => pc[d] \in HasInv \ {"addSrc", "addTgt"}
      BY DEF HasInv, Points
    <3> QED
      BY <3>1, OtherLists
  <2>2. \A d \in Clients : \A i \in Invs : Sets(d, i)' => Sets(d, i) /\ d # c
    BY <1>8 DEF Sets, Only
  <2>3. Sets(c, j)
    BY <1>0, <1>1 DEF Sets
  <2>4. \A i \in Invs : i # j => game'[i] = game[i]
    BY <1>1, <1>2, <1>3 DEF ObjTypes
  <2>5. game'[j] = game[j] + 1
    BY <1>0, <1>1, <1>2, <1>3 DEF ObjTypes
  <2>6. ASSUME NEW d \in Clients, NEW e \in Clients, Sets(d, j)', Sets(e, j)'
        PROVE  d = e
    BY <1>0, <1>1, <1>3, <2>1, <2>2, <2>6 DEF Sets
  <2>7. ASSUME game'[j] = 2, NEW d \in Clients, Sets(d, j)'
        PROVE  FALSE
    <3>1. game[j] # 0
      BY <1>4, <2>5, <2>7
    <3> QED
      BY <1>3, <2>2, <2>3, <2>7, <3>1 DEF IInv, Accepts
  <2> QED
    BY <2>2, <2>4, <2>6, <2>7 DEF IInv, Accepts
<1>d. ClientMutexes' /\ PlayerMutexes'
  BY <1>2, <1>7, <1>8, MutexesKept DEF HoldsClient
<1>e. SameWin(c)
  BY <1>8 DEF SameData, SameWin
<1> QED
  BY <1>1, <1>6, <1>7, <1>8, <1>9, <1>a, <1>b, <1>c, <1>d, <1>e, LoudStep

(* game_resign and game_apply_move: the game in progress gets a result, or *)
(* goes on.                                                                *)
LEMMA Plays ==
    ASSUME IInv, NEW c \in Clients, pc[c] \in {"resign", "move"},
           NEW j, j = inv[c], Playing(j), NEW w \in Outcomes,
           result' = [result EXCEPT ![j][game[j]] = w],
           gm' = [gm EXCEPT ![c] = game[j]],
           peer' = [peer EXCEPT ![c] = Other(c, j)],
           NEW point \in {"close", "moved"}, Goto(c, point),
           UNCHANGED <<op, inv, win, nxt, undefined>>,
           UNCHANGED <<src, tgt, first, state, game, cnt, imutex, stuck, objVars, pmutex>>
    PROVE  IInv'
<1>1. ThreadTypes /\ ObjTypes /\ ThreadOK(c)
      /\ pc[c] \in HasInv \ (HoldsClient \cup {"addSrc", "addTgt", "post2"})
  BY DEF IInv, Threads, HasInv, Points, Starts, HoldsClient
<1>2. /\ j \in Invs /\ j \in Listed(c) /\ src[j] # None
      /\ Other(c, j) \in Clients /\ j \in Listed(Other(c, j))
  BY <1>1, OtherLists
<1>3. PICK g \in Games : g = game[j]
  BY <1>1, <1>2 DEF ObjTypes, Playing
<1>4. /\ result' \in [Invs -> [Games -> Outcomes]] /\ result'[j][g] = w
      /\ \A i \in Invs : \A h \in Games : i # j \/ h # g => result'[i][h] = result[i][h]
  <2>1. PICK k \in Invs : k = j
    BY <1>2
  <2> DEFINE f == [result[k] EXCEPT ![g] = w]
  <2>2. /\ result \in [Invs -> [Games -> Outcomes]] /\ result[k] \in [Games -> Outcomes]
        /\ result' = [result EXCEPT ![k] = f]
    BY <1>1, <1>3, <2>1 DEF ObjTypes
  <2>3. /\ f \in [Games -> Outcomes] /\ f[g] = w
        /\ \A h \in Games : h # g => f[h] = result[k][h]
    BY <2>2
  <2> HIDE DEF f
  <2>4. result'[k] = f /\ \A i \in Invs : i # k => result'[i] = result[i]
    BY <2>2
  <2>5. result' \in [Invs -> [Games -> Outcomes]]
    BY <2>2, <2>3
  <2> QED
    BY <2>1, <2>3, <2>4, <2>5
<1>5. ObjTypes'
  BY <1>1, <1>4 DEF ObjTypes, objVars
<1>6. SameLists /\ UNCHANGED <<cmutex, stuck, pmutex, first>>
  BY <1>1, Numbers DEF SameLists, objVars
<1>7. ThreadTypes' /\ Only(c) /\ pc'[c] = point /\ gm'[c] = g /\ peer'[c] = Other(c, j)
  BY <1>1, <1>2, <1>3 DEF ThreadTypes, Only, Goto, Points, Starts
<1>8. win[c] = "none"
  BY <1>1 DEF ThreadOK, Locals, Starts
<1>9. Locals(c)'
  <2>1. /\ Listed(c)' = Listed(c) /\ Listed(peer[c])' = Listed(Other(c, j))
        /\ Other(c, inv[c])' = Other(c, j)
    BY <1>6, <1>7 DEF Listed, Other, SameLists
  <2>2. g \in Nat /\ g # 0 /\ g <= g
    BY DEF Games
  <2>3. point \in HasInv /\ point \in HasPeer /\ point \notin Starts
    BY DEF HasInv, HasPeer, Points, Starts
  <2> QED
    BY <1>2, <1>3, <1>7, <1>8, <2>1, <2>2, <2>3 DEF Locals
<1>a. Requested(c)' /\ Adding(c)'
  BY <1>1, <1>6, <1>7 DEF ThreadOK, Requested, Adding, Starts, SameLists
<1>b. ResultsStand
  BY <1>2, <1>3, <1>4 DEF ResultsStand, Playing
<1>c. StateMatchesGame' /\ InvMutexes'
  <2>1. ASSUME NEW i \in Invs, i # j
        PROVE  Playing(i)' => Playing(i)
    <3>1. game[i] # 0 => game[i] \in Games
      BY <1>1 DEF ObjTypes
    <3> QED
      BY <1>4, <2>1, <3>1 DEF Playing
  <2>2. state[j] # "closed"
    BY <1>2 DEF IInv, StateMatchesGame
  <2> QED
    BY <2>1, <2>2 DEF IInv, StateMatchesGame, InvMutexes
<1>d. Accepts'
  BY <1>7, AcceptsKept
<1>e. ClientMutexes' /\ PlayerMutexes'
  BY <1>1, <1>6, <1>7, MutexesKept DEF HoldsClient
<1>f. win'[c] = "none" /\ ThreadOK(c)' /\ pc[c] # "addTgt"
  BY <1>8, <1>9, <1>a DEF ThreadOK
<1> QED
  BY <1>5, <1>6, <1>7, <1>b, <1>c, <1>d, <1>e, <1>f, LoudStep

LEMMA ResignInv ==
    ASSUME IInv, NEW c \in Clients, Resign(c)
    PROVE  IInv'
<1>1. /\ pc[c] = "resign"
      /\ UNCHANGED <<src, tgt, first, state, game, cnt, imutex, stuck, objVars, pmutex, undefined>>
  BY DEF Resign, At
<1>2. ASSUME Return(c, FALSE), UNCHANGED result PROVE IInv'
  <2>1. pc[c] \in HasInv \ (HoldsClient \cup {"addSrc", "addTgt", "post2"}) /\ Quiet
    BY <1>1, <1>2 DEF HasInv, Points, Starts, HoldsClient, Quiet, invVars
  <2> QED
    BY <1>2, <2>1, QuietReturn
<1>3. CASE Playing(inv[c])
  <2>1. PICK j, w : j = inv[c] /\ w = Rival(Role(c, j))
    OBVIOUS
  <2>2. w \in Outcomes
    BY <2>1 DEF Rival, Outcomes
  <2>3. /\ result' = [result EXCEPT ![j][game[j]] = w]
        /\ gm' = [gm EXCEPT ![c] = game[j]]
        /\ peer' = [peer EXCEPT ![c] = Other(c, j)]
        /\ Goto(c, "close") /\ UNCHANGED <<op, inv, win, nxt>>
    BY <1>3, <2>1 DEF Resign
  <2> QED
    BY <1>1, <1>3, <2>1, <2>2, <2>3, Plays
<1> QED
  BY <1>2, <1>3 DEF Resign

LEMMA MoveInv ==
    ASSUME IInv, NEW c \in Clients, Move(c)
    PROVE  IInv'
<1>1. /\ pc[c] = "move"
      /\ UNCHANGED <<src, tgt, first, state, game, cnt, imutex, stuck, objVars, pmutex, undefined>>
  BY DEF Move, At
<1>2. ASSUME Return(c, FALSE), UNCHANGED result PROVE IInv'
  <2>1. pc[c] \in HasInv \ (HoldsClient \cup {"addSrc", "addTgt", "post2"}) /\ Quiet
    BY <1>1, <1>2 DEF HasInv, Points, Starts, HoldsClient, Quiet, invVars
  <2> QED
    BY <1>2, <2>1, QuietReturn
<1>3. ASSUME NEW j, j = inv[c], Playing(j), NEW w \in {"playing", "draw", Role(c, j)},
             result' = [result EXCEPT ![j][game[j]] = w],
             gm' = [gm EXCEPT ![c] = game[j]],
             peer' = [peer EXCEPT ![c] = Other(c, j)],
             Goto(c, "moved"), UNCHANGED <<op, inv, win, nxt>>
      PROVE  IInv'
  <2>1. w \in Outcomes
    BY DEF Role, Outcomes
  <2> QED
    BY <1>1, <1>3, <2>1, Plays
<1> QED
  BY <1>2, <1>3 DEF Move

(* inv_unref, when the thread goes on or returns.                          *)
LEMMA Unrefs ==
    ASSUME IInv, NEW c \in Clients, NEW j \in Invs, cnt[j] # 0,
           cnt' = [cnt EXCEPT ![j] = cnt[j] - 1],
           UNCHANGED <<src, tgt, first, state, game, imutex, result, list, refs, pmutex, undefined>>,
           stuck' \subseteq Clients, cmutex' \in [Clients -> 0 .. 1],
           pc[c] \in (HasInv \cap HasPeer) \ {"addSrc", "addTgt", "post2"},
           \/ \E ok \in BOOLEAN : Return(c, ok)
           \/ \E point \in Points \ {"post2"} : Step(c, point) /\ MayFollow(c, point),
           ClientMutexes'
    PROVE  IInv'
<1>1. ThreadTypes /\ ObjTypes /\ cnt[j] \in 1 .. 3
  <2>1. ThreadTypes /\ ObjTypes /\ cnt[j] \in 0 .. 3
    BY DEF IInv, ObjTypes
  <2> QED
    BY <2>1
<1>2. ObjTypes'
  BY <1>1 DEF ObjTypes
<1>3. SameLists
  <2>1. \A i \in Invs : game[i] \in Nat /\ cnt[i] \in Nat /\ cnt'[i] <= cnt[i]
    BY <1>1, Numbers DEF ObjTypes
  <2> QED
    BY <2>1 DEF SameLists
<1>4. StateMatchesGame' /\ InvMutexes' /\ ResultsStand
  BY DEF IInv, StateMatchesGame, InvMutexes, ResultsStand, Playing
<1>5. ASSUME NEW ok \in BOOLEAN, Return(c, ok) PROVE IInv'
  <2>1. ThreadTypes' /\ Only(c) /\ Returned(c, ok)
    BY <1>1, <1>5, ReturnOnly
  <2>2. ThreadOK(c)' /\ pc'[c] \in {"idle", "release", "logout", "unregister"}
    BY <1>3, <2>1, Returns
  <2>3. Accepts' /\ PlayerMutexes'
    BY <2>1, <2>2, AcceptsKept, PlayerMutexesKept
  <2>4. win'[c] = "none"
    BY <2>1 DEF Returned
  <2> QED
    BY <1>2, <1>3, <1>4, <2>1, <2>2, <2>3, <2>4, LoudStep
<1>6. ASSUME NEW point \in Points \ {"post2"}, Step(c, point), MayFollow(c, point) PROVE IInv'
  <2>1. ThreadTypes' /\ Only(c) /\ pc'[c] = point /\ SameData(c)
    BY <1>1, <1>6, StepOnly
  <2>2. ThreadOK(c)'
    BY <1>2, <1>3, <1>6, <2>1, Proceeds
  <2>3. Accepts' /\ PlayerMutexes'
    BY <1>6, <2>1, AcceptsKept, PlayerMutexesKept DEF MayFollow
  <2>4. SameWin(c)
    BY <2>1 DEF SameData, SameWin
  <2> QED
    BY <1>2, <1>3, <1>4, <2>1, <2>2, <2>3, <2>4, LoudStep
<1> QED
  BY <1>5, <1>6

LEMMA AcceptUnrefInv ==
    ASSUME IInv, NEW c \in Clients, AcceptUnref(c)
    PROVE  IInv'
<1>0. PICK j : j = inv[c]
  OBVIOUS
<1>1. /\ pc[c] = "unref"
      /\ cnt' = [cnt EXCEPT ![j] = cnt[j] - 1] /\ Return(c, TRUE)
      /\ UNCHANGED <<src, tgt, first, state, game, imutex, result, stuck, objVars, pmutex, undefined>>
  BY <1>0 DEF AcceptUnref, At
<1>2. pc[c] \in (HasInv \cap HasPeer) \ (HoldsClient \cup {"addSrc", "addTgt", "post2"})
  BY <1>1 DEF HasInv, HasPeer, Points, Starts, HoldsClient
<1>3. j \in Invs /\ src[j] # None
  BY <1>0, <1>2, OtherLists
<1>4. cnt[j] # 0
  <2>1. InvsRead(c) = {j} /\ ~DanglingInv(c)
    BY <1>0, <1>1 DEF InvsRead, AcceptUnref, At
  <2> QED
    BY <1>3, <2>1 DEF DanglingInv, Freed
<1>5. stuck' \subseteq Clients /\ cmutex' \in [Clients -> 0 .. 1] /\ UNCHANGED <<cmutex, stuck, list, refs>>
  BY <1>1 DEF IInv, ObjTypes, objVars
<1>6. ClientMutexes'
  <2>1. Only(c) /\ Returned(c, TRUE)
    BY <1>1, ReturnOnly DEF IInv
  <2>2. pc'[c] \notin HoldsClient
    BY <2>1 DEF Returned, ReturnPoint, HoldsClient
  <2> QED
    BY <1>2, <1>5, <2>1, <2>2, ClientMutexesKept
<1> QED
  BY <1>1, <1>2, <1>3, <1>4, <1>5, <1>6, Unrefs

-----------------------------------------------------------------------------
(* P and V on a client's mutex.                                            *)
LEMMA Acquires ==
    ASSUME IInv, NEW c \in Clients, Only(c), NEW x \in Clients, cmutex[x] = 1,
           cmutex' = [cmutex EXCEPT ![x] = 0], UNCHANGED stuck,
           HeldClients(c)' = HeldClients(c) \cup {x}
    PROVE  ClientMutexes'
<1>1. \A d \in Clients : d # c => HeldClients(d)' = HeldClients(d)
  BY DEF HeldClients, Only
<1>2. x \notin stuck /\ \A d \in Clients : x \notin HeldClients(d)
  BY DEF IInv, ClientMutexes
<1>3. cmutex'[x] = 0 /\ \A y \in Clients : y # x => cmutex'[y] = cmutex[y]
  BY DEF IInv, ObjTypes
<1> QED
  BY <1>1, <1>2, <1>3 DEF IInv, ClientMutexes

(* The mutexes in left stay locked for ever.                               *)
LEMMA Releases ==
    ASSUME IInv, NEW c \in Clients, Only(c), NEW freed, NEW left,
           HeldClients(c) = freed \cup left, freed \cap left = {},
           HeldClients(c)' = {}, stuck' = stuck \cup left,
           \A y \in Clients : cmutex'[y] = IF y \in freed THEN 1 ELSE cmutex[y]
    PROVE  ClientMutexes'
<1>1. \A d \in Clients : d # c => HeldClients(d)' = HeldClients(d)
  BY DEF HeldClients, Only
<1>2. \A y \in HeldClients(c) \cap Clients :
        y \notin stuck /\ cmutex[y] = 0 /\ \A d \in Clients : d # c => y \notin HeldClients(d)
  BY DEF IInv, ClientMutexes
<1>3. ASSUME NEW y \in Clients
      PROVE  cmutex'[y] = 0 <=> y \in stuck' \/ \E d \in Clients : y \in HeldClients(d)'
  <2>1. cmutex[y] = 0 <=> y \in stuck \/ \E d \in Clients : y \in HeldClients(d)
    BY DEF IInv, ClientMutexes
  <2> QED
    BY <1>1, <1>2, <2>1
<1>4. ASSUME NEW y \in Clients, NEW d \in Clients, y \in HeldClients(d)'
      PROVE  y \notin stuck' /\ d # c /\ y \in HeldClients(d)
  BY <1>1, <1>2, <1>4 DEF IInv, ClientMutexes
<1> QED
  BY <1>3, <1>4 DEF IInv, ClientMutexes

(* A thread takes the mutex of x and goes on.                              *)
LEMMA TakesMutex ==
    ASSUME IInv, NEW c \in Clients, NEW x \in Clients, NEW point \in Points \ {"post2"},
           cmutex[x] = 1, cmutex' = [cmutex EXCEPT ![x] = 0], Step(c, point),
           MayFollow(c, point), pc[c] # "post2",
           HeldClients(c)' = HeldClients(c) \cup {x},
           UNCHANGED <<invVars, stuck, list, refs, pmutex, undefined>>
    PROVE  IInv'
<1>1. ThreadTypes /\ ObjTypes
  BY DEF IInv
<1>2. UNCHANGED <<src, tgt, first, state, game, cnt, imutex, result>>
  BY DEF invVars
<1>3. ObjTypes'
  BY <1>1, <1>2 DEF ObjTypes
<1>4. SameLists
  BY <1>1, <1>2, Numbers DEF SameLists
<1>5. StateMatchesGame' /\ InvMutexes' /\ ResultsStand
  BY <1>2 DEF IInv, StateMatchesGame, InvMutexes, ResultsStand, Playing
<1>6. ThreadTypes' /\ Only(c) /\ pc'[c] = point /\ SameData(c)
  BY <1>1, StepOnly
<1>7. ThreadOK(c)'
  BY <1>3, <1>4, <1>6, Proceeds
<1>8. Accepts' /\ PlayerMutexes'
  BY <1>2, <1>6, AcceptsKept, PlayerMutexesKept DEF MayFollow
<1>9. SameWin(c) /\ pc[c] # "addTgt"
  BY <1>6 DEF SameData, SameWin, MayFollow
<1>a. ClientMutexes'
  BY <1>6, Acquires
<1> QED
  BY <1>3, <1>4, <1>5, <1>6, <1>7, <1>8, <1>9, <1>a, LoudStep

LEMMA RemoveLockInv ==
    ASSUME IInv, NEW c \in Clients,
           RemoveLock(c, "rem1", "rem1Held") \/ RemoveLock(c, "rem2", "rem2Held")
    PROVE  IInv'
<1>1. PICK point \in {"rem1", "rem2"}, held \in {"rem1Held", "rem2Held"} :
        /\ point = "rem1" <=> held = "rem1Held"
        /\ RemoveLock(c, point, held)
  OBVIOUS
<1>2. PICK x : x = Victim(c)
  OBVIOUS
<1>3. /\ pc[c] = point /\ cmutex[x] = 1 /\ cmutex' = [cmutex EXCEPT ![x] = 0]
      /\ Step(c, held) /\ UNCHANGED <<invVars, stuck, list, refs, pmutex, undefined>>
  BY <1>1, <1>2 DEF RemoveLock, At
<1>4. MayFollow(c, held) /\ held \in Points \ {"post2"}
  BY <1>1, <1>3 DEF MayFollow, HasInv, HasPeer, Facing, Points, Starts
<1>5. peer[c] \in Clients
  BY <1>4 DEF IInv, Threads, ThreadOK, Locals, MayFollow
<1>6. x \in Clients /\ x = IF held = "rem1Held" THEN c ELSE peer[c]
  BY <1>1, <1>2, <1>3, <1>5 DEF Victim
<1>7. pc'[c] = held /\ peer'[c] = peer[c]
  BY <1>3, <1>4, StepOnly DEF IInv, SameData
<1>8. HeldClients(c)' = HeldClients(c) \cup {x}
  BY <1>1, <1>3, <1>6, <1>7 DEF HeldClients
<1> QED
  BY <1>3, <1>4, <1>6, <1>8, TakesMutex

LEMMA EndLockInv ==
    ASSUME IInv, NEW c \in Clients,
           EndLock(c, "end1", peer[c], "end2") \/ EndLock(c, "end2", c, "ended")
    PROVE  IInv'
<1>1. PICK point, then, x :
        /\ point \in {"end1", "end2"} /\ then \in {"end2", "ended"}
        /\ point = "end1" <=> then = "end2"
        /\ x = IF then = "end2" THEN peer[c] ELSE c
        /\ EndLock(c, point, x, then)
  OBVIOUS
<1>3. /\ pc[c] = point /\ cmutex[x] = 1 /\ cmutex' = [cmutex EXCEPT ![x] = 0]
      /\ Step(c, then) /\ UNCHANGED <<invVars, stuck, list, refs, pmutex, undefined>>
  BY <1>1 DEF EndLock, At
<1>4. MayFollow(c, then) /\ then \in Points \ {"post2"}
  BY <1>1, <1>3 DEF MayFollow, HasInv, HasPeer, Facing, Points, Starts
<1>5. peer[c] \in Clients
  BY <1>4 DEF IInv, Threads, ThreadOK, Locals, MayFollow
<1>6. x \in Clients
  BY <1>1, <1>5
<1>7. pc'[c] = then /\ peer'[c] = peer[c]
  BY <1>3, <1>4, StepOnly DEF IInv, SameData
<1>8. HeldClients(c)' = HeldClients(c) \cup {x}
  BY <1>1, <1>3, <1>6, <1>7 DEF HeldClients
<1> QED
  BY <1>1, <1>3, <1>4, <1>6, <1>8, TakesMutex

(* The entry client_remove_invitation finds: there is one.                 *)
LEMMA MatchFound ==
    ASSUME IInv, NEW x \in Clients, NEW j, j \in Listed(x)
    PROVE  /\ Match(x, j) \in DOMAIN list[x]
           /\ SameGame(j, list[x][Match(x, j)])
<1> DEFINE fits == {n \in DOMAIN list[x] : SameGame(j, list[x][n])}
<1>1. list[x] \in Seq(Invs) /\ DOMAIN list[x] = 1 .. Len(list[x]) /\ Len(list[x]) \in Nat
  BY DEF IInv, ObjTypes
<1>2. fits \in SUBSET Nat /\ fits # {}
  BY <1>1 DEF Listed, SameGame
<1>3. PICK n \in fits : \A m \in fits : n <= m
  <2> HIDE DEF fits
  <2> QED
    BY <1>2, Least
<1>4. n \in DOMAIN list[x] /\ SameGame(j, list[x][n])
      /\ \A m \in 1 .. n - 1 : ~SameGame(j, list[x][m])
  BY <1>1, <1>3
<1> QED
  BY <1>4 DEF Match

LEMMA RemoveUnrefInv ==
    ASSUME IInv, NEW c \in Clients, NEW held \in {"rem1Held", "rem2Held"}, RemoveUnref(c, held)
    PROVE  IInv'
<1>0. PICK x, j : x = Victim(c) /\ j = list[x][Match(x, inv[c])]
  OBVIOUS
<1>1. /\ pc[c] = held /\ cnt' = [cnt EXCEPT ![j] = cnt[j] - 1]
      /\ cmutex' = [cmutex EXCEPT ![x] = 1]
      /\ IF held = "rem1Held" THEN Step(c, "rem2") ELSE Removed(c)
      /\ UNCHANGED <<src, tgt, first, state, game, imutex, result, stuck, list, refs, pmutex, undefined>>
  BY <1>0 DEF RemoveUnref, At
<1>2. /\ pc[c] \in (HasInv \cap HasPeer) \ {"addSrc", "addTgt", "post2"}
      /\ pc[c] \in Facing
  BY <1>1 DEF HasInv, HasPeer, Points, Starts, Facing
<1>3. /\ peer[c] \in Clients /\ inv[c] \in Listed(c) /\ inv[c] \in Listed(peer[c])
  BY <1>2 DEF IInv, Threads, ThreadOK, Locals
<1>4. x \in Clients /\ inv[c] \in Listed(x) /\ HeldClients(c) = {x}
  BY <1>0, <1>1, <1>3 DEF Victim, HeldClients
<1>5. /\ Match(x, inv[c]) \in DOMAIN list[x] /\ list[x] \in Seq(Invs)
  BY <1>4, MatchFound DEF IInv, ObjTypes
<1>6. j \in Invs /\ j \in Listed(x) /\ src[j] # None
  <2>1. j \in Listed(x)
    BY <1>0, <1>5 DEF Listed
  <2> QED
    BY <1>0, <1>4, <1>5, <2>1 DEF IInv, Lists
<1>7. cnt[j] # 0
  <2>1. j \in InvsRead(c)
    <3>1. Match(x, inv[c]) \in 1 .. Match(x, inv[c])
      BY <1>5
    <3>2. InvsRead(c) = {inv[c]} \cup {list[x][n] : n \in 1 .. Match(x, inv[c])}
      BY <1>0, <1>1 DEF InvsRead, Starts
    <3> QED
      BY <1>0, <3>1, <3>2
  <2>2. ~DanglingInv(c)
    BY DEF RemoveUnref, At
  <2> QED
    BY <1>6, <2>1, <2>2 DEF DanglingInv, Freed
<1>8. /\ stuck' \subseteq Clients /\ cmutex' \in [Clients -> 0 .. 1]
      /\ \A y \in Clients : cmutex'[y] = IF y \in {x} THEN 1 ELSE cmutex[y]
  BY <1>1, <1>4 DEF IInv, ObjTypes
<1>9. ASSUME Only(c), pc'[c] \notin HoldsClient PROVE ClientMutexes'
  <2>1. HeldClients(c)' = {}
    BY <1>9 DEF HeldClients, HoldsClient
  <2>2. HeldClients(c) = {x} \cup {} /\ {x} \cap {} = {} /\ stuck' = stuck \cup {}
    BY <1>1, <1>4
  <2> QED
    BY <1>8, <1>9, <2>1, <2>2, Releases
<1>a. ASSUME NEW ok \in BOOLEAN, Return(c, ok) PROVE IInv'
  <2>1. Only(c) /\ Returned(c, ok)
    BY <1>a, ReturnOnly DEF IInv
  <2>2. ClientMutexes'
    BY <1>9, <2>1 DEF Returned, ReturnPoint, HoldsClient
  <2> QED
    BY <1>1, <1>2, <1>6, <1>7, <1>8, <1>a, <2>2, Unrefs
<1>b. ASSUME NEW point \in {"rem2", "post1", "send"}, Step(c, point) PROVE IInv'
  <2>1. MayFollow(c, point) /\ point \in Points \ {"post2"} /\ point \notin HoldsClient
    BY <1>2 DEF MayFollow, HasInv, HasPeer, Facing, Points, Starts, HoldsClient
  <2>2. Only(c) /\ pc'[c] = point
    BY <1>b, <2>1, StepOnly DEF IInv
  <2>3. ClientMutexes'
    BY <1>9, <2>1, <2>2
  <2> QED
    BY <1>1, <1>2, <1>6, <1>7, <1>8, <1>b, <2>1, <2>3, Unrefs
<1> QED
  BY <1>1, <1>a, <1>b DEF Removed

(* A thread takes or releases mutexes only, and goes on or returns.        *)
LEMMA LockStep ==
    ASSUME IInv, NEW c \in Clients, UNCHANGED <<invVars, list, refs, undefined>>,
           stuck' \subseteq Clients, cmutex' \in [Clients -> 0 .. 1],
           pmutex' \in [Clients -> 0 .. 1],
           pc[c] \in (HasInv \cap HasPeer) \ {"addSrc", "addTgt"},
           \/ \E ok \in BOOLEAN : Return(c, ok)
           \/ \E point \in Points : Step(c, point) /\ MayFollow(c, point),
           ClientMutexes', PlayerMutexes'
    PROVE  IInv'
<1>1. ThreadTypes /\ ObjTypes
  BY DEF IInv
<1>2. UNCHANGED <<src, tgt, first, state, game, cnt, imutex, result>>
  BY DEF invVars
<1>3. ObjTypes'
  BY <1>1, <1>2 DEF ObjTypes
<1>4. SameLists
  BY <1>1, <1>2, Numbers DEF SameLists
<1>5. StateMatchesGame' /\ InvMutexes' /\ ResultsStand
  BY <1>2 DEF IInv, StateMatchesGame, InvMutexes, ResultsStand, Playing
<1>6. ASSUME NEW ok \in BOOLEAN, Return(c, ok) PROVE IInv'
  <2>1. ThreadTypes' /\ Only(c) /\ Returned(c, ok)
    BY <1>1, <1>6, ReturnOnly
  <2>2. ThreadOK(c)' /\ pc'[c] \in {"idle", "release", "logout", "unregister"}
    BY <1>4, <2>1, Returns
  <2>3. Accepts'
    BY <1>2, <2>1, <2>2, AcceptsKept
  <2>4. win'[c] = "none"
    BY <2>1 DEF Returned
  <2> QED
    BY <1>3, <1>4, <1>5, <2>1, <2>2, <2>3, <2>4, LoudStep
<1>7. ASSUME NEW point \in Points, Step(c, point), MayFollow(c, point) PROVE IInv'
  <2>1. ThreadTypes' /\ Only(c) /\ pc'[c] = point /\ SameData(c)
    BY <1>1, <1>7, StepOnly
  <2>2. ThreadOK(c)'
    BY <1>3, <1>4, <1>7, <2>1, Proceeds
  <2>3. Accepts'
    BY <1>2, <1>7, <2>1, AcceptsKept DEF MayFollow
  <2>4. SameWin(c)
    BY <2>1 DEF SameData, SameWin
  <2> QED
    BY <1>3, <1>4, <1>5, <2>1, <2>2, <2>3, <2>4, LoudStep
<1> QED
  BY <1>6, <1>7

LEMMA SendEndedInv ==
    ASSUME IInv, NEW c \in Clients, SendEnded(c)
    PROVE  IInv'
<1>1. pc[c] = "ended" /\ UNCHANGED <<invVars, list, refs, pmutex, undefined>>
  BY DEF SendEnded, At
<1>2. /\ pc[c] \in (HasInv \cap HasPeer) \ {"addSrc", "addTgt"} /\ pc[c] \in Facing
      /\ pc[c] # "post2" /\ first' = first
  BY <1>1 DEF HasInv, HasPeer, Points, Starts, Facing, invVars
<1>3. peer[c] \in Clients /\ peer[c] # c
  BY <1>2, OtherLists DEF IInv, Threads, ThreadOK, Locals
<1>4. HeldClients(c) = {c, peer[c]}
  BY <1>1 DEF HeldClients
<1>5. ObjTypes /\ ThreadTypes
  BY DEF IInv
<1>6. CASE cmutex' = [cmutex EXCEPT ![c] = 1, ![peer[c]] = 1] /\ Step(c, "rem1") /\ UNCHANGED stuck
  <2>1. MayFollow(c, "rem1") /\ "rem1" \in Points
    BY <1>2 DEF MayFollow, HasInv, HasPeer, Points, Starts
  <2>2. Only(c) /\ pc'[c] = "rem1"
    BY <1>5, <1>6, <2>1, StepOnly
  <2>3. /\ stuck' \subseteq Clients /\ cmutex' \in [Clients -> 0 .. 1] /\ pmutex' \in [Clients -> 0 .. 1]
        /\ \A y \in Clients : cmutex'[y] = IF y \in {c, peer[c]} THEN 1 ELSE cmutex[y]
    <3>1. PICK x \in Clients : x = peer[c]
      BY <1>3
    <3>2. PICK f : f = [cmutex EXCEPT ![c] = 1]
      OBVIOUS
    <3>3. cmutex' = [f EXCEPT ![x] = 1]
      BY <1>6, <3>1, <3>2
    <3>4. /\ f \in [Clients -> 0 .. 1]
          /\ \A y \in Clients : f[y] = IF y = c THEN 1 ELSE cmutex[y]
      BY <1>5, <3>2 DEF ObjTypes
    <3>5. /\ cmutex' \in [Clients -> 0 .. 1]
          /\ \A y \in Clients : cmutex'[y] = IF y = x THEN 1 ELSE f[y]
      BY <3>3, <3>4
    <3> QED
      BY <1>1, <1>5, <1>6, <3>1, <3>4, <3>5 DEF ObjTypes
  <2>4. /\ HeldClients(c) = {c, peer[c]} \cup {} /\ {c, peer[c]} \cap {} = {}
        /\ HeldClients(c)' = {} /\ stuck' = stuck \cup {}
    BY <1>4, <1>6, <2>2 DEF HeldClients
  <2>5. ClientMutexes'
    BY <2>2, <2>3, <2>4, Releases
  <2>6. PlayerMutexes'
    BY <1>1, <1>2, <2>2, PlayerMutexesKept
  <2> QED
    BY <1>1, <1>2, <1>6, <2>1, <2>3, <2>5, <2>6, LockStep
<1>7. ASSUME NEW x \in {c, peer[c]}, cmutex' = [cmutex EXCEPT ![x] = 1],
             stuck' = stuck \cup ({c, peer[c]} \ {x}), Return(c, FALSE)
      PROVE  IInv'
  <2>1. Only(c) /\ Returned(c, FALSE)
    BY <1>5, <1>7, ReturnOnly
  <2>2. pc'[c] \in {"idle", "release", "logout", "unregister"}
    BY <2>1 DEF Returned, ReturnPoint
  <2>3. /\ stuck' \subseteq Clients /\ cmutex' \in [Clients -> 0 .. 1] /\ pmutex' \in [Clients -> 0 .. 1]
        /\ \A y \in Clients : cmutex'[y] = IF y \in {x} THEN 1 ELSE cmutex[y]
    BY <1>1, <1>3, <1>5, <1>7 DEF ObjTypes
  <2>4. /\ HeldClients(c) = {x} \cup ({c, peer[c]} \ {x}) /\ {x} \cap ({c, peer[c]} \ {x}) = {}
        /\ HeldClients(c)' = {}
    <3>1. HeldClients(c)' = {}
      BY <2>2 DEF HeldClients
    <3> QED
      BY <1>4, <1>7, <3>1
  <2>5. ClientMutexes'
    BY <1>7, <2>1, <2>3, <2>4, Releases
  <2>6. PlayerMutexes'
    BY <1>1, <1>2, <2>1, <2>2, PlayerMutexesKept
  <2> QED
    BY <1>1, <1>2, <1>7, <2>3, <2>5, <2>6, LockStep
<1> QED
  BY <1>6, <1>7 DEF SendEnded

LEMMA PostLockInv ==
    ASSUME IInv, NEW c \in Clients, PostLock(c)
    PROVE  IInv'
<1>0. PICK x : x = Player1(c)
  OBVIOUS
<1>1. /\ pc[c] = "post1" /\ pmutex[x] = 1 /\ pmutex' = [pmutex EXCEPT ![x] = 0]
      /\ Step(c, "post2") /\ UNCHANGED <<invVars, stuck, objVars, undefined>>
  BY <1>0 DEF PostLock, At
<1>2. /\ pc[c] \in (HasInv \cap HasPeer) \ {"addSrc", "addTgt"} /\ pc[c] \in Facing
      /\ MayFollow(c, "post2") /\ "post2" \in Points
  BY <1>1 DEF MayFollow, HasInv, HasPeer, Points, Starts, Facing
<1>3. peer[c] \in Clients /\ x \in Clients
  BY <1>0, <1>2 DEF IInv, Threads, ThreadOK, Locals, Player1
<1>4. ObjTypes /\ ThreadTypes
  BY DEF IInv
<1>5. Only(c) /\ pc'[c] = "post2" /\ SameData(c)
  BY <1>1, <1>2, <1>4, StepOnly
<1>6. UNCHANGED <<first, list, refs, cmutex, stuck>>
  BY <1>1 DEF invVars, objVars
<1>7. PlayerMutexes'
  <2>1. HeldPlayers(c)' = {x} /\ HeldPlayers(c) = {}
    BY <1>0, <1>1, <1>5, <1>6 DEF HeldPlayers, Player1, Role, SameData
  <2>2. \A d \in Clients : d # c => HeldPlayers(d)' = HeldPlayers(d)
    BY <1>5, <1>6 DEF HeldPlayers, Only, Player1, Role
  <2>3. \A d \in Clients : x \notin HeldPlayers(d)
    BY <1>1, <1>3 DEF IInv, PlayerMutexes
  <2>4. pmutex'[x] = 0 /\ \A y \in Clients : y # x => pmutex'[y] = pmutex[y]
    BY <1>1, <1>3, <1>4 DEF ObjTypes
  <2> QED
    BY <2>1, <2>2, <2>3, <2>4 DEF IInv, PlayerMutexes
<1>8. ClientMutexes'
  BY <1>1, <1>5, <1>6, ClientMutexesKept DEF HoldsClient
<1>9. stuck' \subseteq Clients /\ cmutex' \in [Clients -> 0 .. 1] /\ pmutex' \in [Clients -> 0 .. 1]
  BY <1>1, <1>3, <1>4, <1>6 DEF ObjTypes
<1> QED
  BY <1>1, <1>2, <1>6, <1>7, <1>8, <1>9, LockStep

LEMMA player_post_resultInv ==
    ASSUME IInv, NEW c \in Clients, player_post_result(c)
    PROVE  IInv'
<1>0. PICK x : x = Player1(c)
  OBVIOUS
<1>1. /\ pc[c] = "post2" /\ pmutex' = [pmutex EXCEPT ![x] = 1]
      /\ Return(c, TRUE) /\ UNCHANGED <<invVars, stuck, objVars, undefined>>
  BY <1>0 DEF player_post_result, At
<1>2. /\ pc[c] \in (HasInv \cap HasPeer) \ {"addSrc", "addTgt"} /\ pc[c] \in Facing
  BY <1>1 DEF HasInv, HasPeer, Points, Starts, Facing
<1>3. peer[c] \in Clients /\ x \in Clients
  BY <1>0, <1>2 DEF IInv, Threads, ThreadOK, Locals, Player1
<1>4. ObjTypes /\ ThreadTypes
  BY DEF IInv
<1>5. Only(c) /\ Returned(c, TRUE)
  BY <1>1, <1>4, ReturnOnly
<1>a. pc'[c] \in {"idle", "release", "logout", "unregister"}
  BY <1>5 DEF Returned, ReturnPoint
<1>6. UNCHANGED <<first, list, refs, cmutex, stuck>>
  BY <1>1 DEF invVars, objVars
<1>7. PlayerMutexes'
  <2>1. HeldPlayers(c)' = {} /\ HeldPlayers(c) = {x}
    BY <1>0, <1>1, <1>a DEF HeldPlayers
  <2>2. \A d \in Clients : d # c => HeldPlayers(d)' = HeldPlayers(d)
    BY <1>5, <1>6 DEF HeldPlayers, Only, Player1, Role
  <2>3. \A d \in Clients : d # c => x \notin HeldPlayers(d)
    BY <1>3, <2>1 DEF IInv, PlayerMutexes
  <2>4. pmutex'[x] = 1 /\ \A y \in Clients : y # x => pmutex'[y] = pmutex[y]
    BY <1>1, <1>3, <1>4 DEF ObjTypes
  <2> QED
    BY <2>1, <2>2, <2>3, <2>4 DEF IInv, PlayerMutexes
<1>8. ClientMutexes'
  BY <1>1, <1>5, <1>6, <1>a, ClientMutexesKept DEF HoldsClient
<1>9. stuck' \subseteq Clients /\ cmutex' \in [Clients -> 0 .. 1] /\ pmutex' \in [Clients -> 0 .. 1]
  BY <1>1, <1>3, <1>4, <1>6 DEF ObjTypes
<1> QED
  BY <1>1, <1>2, <1>6, <1>7, <1>8, <1>9, LockStep

-----------------------------------------------------------------------------
(* One list grows by the invitation the source works on.                   *)
Grows(x, j) == list' = [list EXCEPT ![x] = Append(list[x], j)]

(* client_add_invitation: one list gets one entry.                         *)
LEMMA ListGrows ==
    ASSUME ObjTypes, NEW x \in Clients, NEW j \in Invs, Grows(x, j)
    PROVE  /\ list' \in [Clients -> Seq(Invs)]
           /\ Listed(x)' = Listed(x) \cup {j}
           /\ \A y \in Clients : y # x => Listed(y)' = Listed(y) /\ list'[y] = list[y]
           /\ \A y \in Clients : Len(list[y]) \in Nat /\ Len(list'[y]) \in Nat
                                 /\ Len(list[y]) <= Len(list'[y])
           /\ j \notin Listed(x) /\ (\A m, n \in DOMAIN list[x] : list[x][m] = list[x][n] => m = n)
                => \A m, n \in DOMAIN list'[x] : list'[x][m] = list'[x][n] => m = n
<1> DEFINE old == list[x]
           new == Append(old, j)
<1>1. /\ old \in Seq(Invs) /\ new \in Seq(Invs) /\ Len(new) = Len(old) + 1 /\ Len(old) \in Nat
      /\ \A n \in DOMAIN old : n \in DOMAIN new /\ new[n] = old[n]
      /\ \A n \in DOMAIN new : n \in DOMAIN old \/ n = Len(old) + 1
      /\ Len(old) + 1 \in DOMAIN new /\ new[Len(old) + 1] = j
  BY DEF ObjTypes
<1>2. list' = [list EXCEPT ![x] = new]
  BY DEF Grows
<1> HIDE DEF new
<1>3. list'[x] = new /\ list' \in [Clients -> Seq(Invs)]
      /\ \A y \in Clients : y # x => list'[y] = list[y]
  BY <1>1, <1>2 DEF ObjTypes
<1>4. Listed(x)' = Listed(x) \cup {j}
  BY <1>1, <1>3 DEF Listed
<1>5. \A y \in Clients : y # x => Listed(y)' = Listed(y) /\ list'[y] = list[y]
  BY <1>3 DEF Listed
<1>6. \A y \in Clients : Len(list[y]) \in Nat /\ Len(list'[y]) \in Nat
                        /\ Len(list[y]) <= Len(list'[y])
  <2>1. \A y \in Clients : Len(list[y]) \in Nat /\ Len(list'[y]) \in Nat
    BY <1>3 DEF ObjTypes
  <2> QED
    BY <1>1, <1>3, <2>1
<1>7. ASSUME j \notin Listed(x), \A m, n \in DOMAIN list[x] : list[x][m] = list[x][n] => m = n,
             NEW m \in DOMAIN list'[x], NEW n \in DOMAIN list'[x], list'[x][m] = list'[x][n]
      PROVE  m = n
  <2>1. \A k \in DOMAIN old : old[k] # j
    BY <1>7 DEF Listed
  <2> QED
    BY <1>1, <1>3, <1>7, <2>1
<1> QED
  BY <1>3, <1>4, <1>5, <1>6, <1>7

LEMMA AddInv ==
    ASSUME IInv, NEW c \in Clients, AddToSource(c) \/ AddToTarget(c)
    PROVE  IInv'
<1>0. PICK j : j = inv[c]
  OBVIOUS
<1> DEFINE Adds(x, point) ==
        /\ pc[c] = (IF point = "addTgt" THEN "addSrc" ELSE "addTgt")
        /\ x = (IF point = "addTgt" THEN c ELSE peer[c])
        /\ list' = [list EXCEPT ![x] = Append(list[x], j)]
        /\ cnt' = [cnt EXCEPT ![j] = cnt[j] + 1]
        /\ Step(c, point)
        /\ UNCHANGED <<cmutex, refs, src, tgt, first, state, game, imutex, result, stuck, pmutex,
                       undefined>>
<1>01. AddToSource(c) => Adds(c, "addTgt")
  BY <1>0 DEF AddToSource, At, client_add_invitation
<1>02. AddToTarget(c) => Adds(peer[c], "send")
  BY <1>0 DEF AddToTarget, At, client_add_invitation
<1>03. PICK x : \E point \in {"addTgt", "send"} : Adds(x, point)
  BY <1>01, <1>02
<1>04. PICK point \in {"addTgt", "send"} : Adds(x, point)
  BY <1>03
<1>1. /\ j = inv[c] /\ undefined' = undefined
      /\ pc[c] = (IF point = "addTgt" THEN "addSrc" ELSE "addTgt")
      /\ x = (IF point = "addTgt" THEN c ELSE peer[c])
      /\ list' = [list EXCEPT ![x] = Append(list[x], j)]
      /\ cnt' = [cnt EXCEPT ![j] = cnt[j] + 1]
      /\ Step(c, point)
      /\ UNCHANGED <<cmutex, refs, src, tgt, first, state, game, imutex, result, stuck, pmutex>>
  BY <1>0, <1>04
<1> HIDE DEF Adds
<1>2. ObjTypes /\ ThreadTypes /\ ThreadOK(c)
  BY DEF IInv, Threads
<1>3. /\ j \in Invs /\ peer[c] \in Clients /\ op[c] = "invite" /\ src[j] = c /\ tgt[j] = peer[c]
      /\ src[j] # None /\ gm[c] <= game[j]
  BY <1>1, <1>2 DEF ThreadOK, Locals, Adding, HasInv, HasPeer, Points, Starts
<1>4. x \in Clients /\ c # peer[c]
  BY <1>1, <1>3 DEF IInv, Allocated
<1>5. /\ cnt[j] \in Nat /\ cnt[j] <= IF point = "addTgt" THEN 1 ELSE 2
      /\ j \notin Listed(x)
      /\ point = "addTgt" => j \notin Listed(peer[c])
      /\ point = "send" => j \in Listed(c)
  BY <1>1, <1>2, <1>3, Numbers DEF ThreadOK, Adding, Locals, HasInv, Points
<1>6. /\ list' \in [Clients -> Seq(Invs)]
      /\ Listed(x)' = Listed(x) \cup {j}
      /\ \A y \in Clients : y # x => Listed(y)' = Listed(y) /\ list'[y] = list[y]
      /\ \A y \in Clients : Len(list[y]) \in Nat /\ Len(list'[y]) \in Nat
                            /\ Len(list[y]) <= Len(list'[y])
      /\ \A m, n \in DOMAIN list'[x] : list'[x][m] = list'[x][n] => m = n
  <2>1. \A m, n \in DOMAIN list[x] : list[x][m] = list[x][n] => m = n
    BY <1>4 DEF IInv, Lists
  <2>2. Grows(x, j)
    BY <1>1 DEF Grows
  <2>3. x \in Clients /\ j \in Invs /\ j \notin Listed(x)
    BY <1>3, <1>4, <1>5
  <2> QED
    BY <1>2, <2>1, <2>2, <2>3, ListGrows
<1>7. ThreadTypes' /\ Only(c) /\ pc'[c] = point /\ SameData(c)
  BY <1>1, <1>2, StepOnly DEF Points
<1>8. /\ cnt' \in [Invs -> 0 .. 3] /\ cnt'[j] = cnt[j] + 1
      /\ \A i \in Invs : i # j => cnt'[i] = cnt[i]
  <2>1. cnt[j] + 1 \in 0 .. 3
    BY <1>5
  <2>2. cnt \in [Invs -> 0 .. 3] /\ j \in Invs
    BY <1>2, <1>3 DEF ObjTypes
  <2> QED
    BY <1>1, <2>1, <2>2
<1>9. ObjTypes'
  BY <1>1, <1>2, <1>6, <1>8 DEF ObjTypes
<1>a. Allocated'
  BY <1>1 DEF IInv, Allocated
<1>b. Lists'
  <2>1. \A d \in Clients : \A i \in Listed(d) : i \in Invs /\ src[i] \in Clients /\ tgt[i] \in Clients
    BY <1>2 DEF IInv, Lists, Allocated, Listed, ObjTypes
  <2>2. \A d \in Clients : \A i \in Listed(d)' : i \in Listed(d) \/ (i = j /\ d = x)
    BY <1>6
  <2>3. \A d \in Clients : \A i \in Listed(d) : i \in Listed(d)'
    BY <1>6
  <2>4. ASSUME NEW d \in Clients, NEW i \in Listed(d)', i # j
        PROVE  /\ src[i] # None /\ d \in {src[i], tgt[i]} /\ i \in Listed(src[i])'
               /\ i \in Listed(tgt[i])' \/ (pc'[src[i]] = "addTgt" /\ inv'[src[i]] = i)
    <3>1. i \in Listed(d)
      BY <2>2, <2>4
    <3>2. /\ src[i] # None /\ d \in {src[i], tgt[i]} /\ i \in Listed(src[i])
          /\ i \in Listed(tgt[i]) \/ (pc[src[i]] = "addTgt" /\ inv[src[i]] = i)
      BY <3>1 DEF IInv, Lists
    <3>3. pc[src[i]] = "addTgt" /\ inv[src[i]] = i => src[i] # c
      BY <1>1, <2>4
    <3>4. src[i] \in Clients /\ tgt[i] \in Clients
      BY <2>1, <3>1
    <3>5. i \in Listed(src[i])' /\ (i \in Listed(tgt[i]) => i \in Listed(tgt[i])')
      BY <1>1, <2>3, <3>2, <3>4
    <3> QED
      BY <1>7, <3>2, <3>3, <3>4, <3>5 DEF Only
  <2>5. /\ src[j] # None /\ x \in {src[j], tgt[j]} /\ j \in Listed(c)'
        /\ j \in Listed(peer[c])' \/ (pc'[c] = "addTgt" /\ inv'[c] = j)
    <3>1. j \in Listed(x)'
      BY <1>6
    <3>2. CASE point = "addTgt"
      BY <1>1, <1>3, <1>7, <3>1, <3>2 DEF SameData
    <3>3. CASE point = "send"
      <4>1. x = peer[c] /\ j \in Listed(c)
        BY <1>1, <1>5, <3>3
      <4>2. Listed(c)' = Listed(c)
        BY <1>4, <1>6, <4>1
      <4>3. Listed(peer[c])' = Listed(x)'
        BY <1>7, <4>1 DEF SameData, Listed
      <4> QED
        BY <1>3, <3>1, <4>1, <4>2, <4>3
    <3> QED
      BY <3>2, <3>3
  <2>6. ASSUME NEW d \in Clients, j \in Listed(d)' PROVE d \in {src[j], tgt[j]}
    <3>1. j \in Listed(d) => d \in {src[j], tgt[j]}
      BY DEF IInv, Lists
    <3> QED
      BY <1>6, <2>5, <2>6, <3>1
  <2>7. \A d \in Clients : \A m, n \in DOMAIN list'[d] : list'[d][m] = list'[d][n] => m = n
    BY <1>6 DEF IInv, Lists
  <2>8. Listed(src[j])' = Listed(c)' /\ Listed(tgt[j])' = Listed(peer[c])'
    BY <1>1, <1>3, <1>7 DEF Listed, SameData
  <2> QED
    BY <1>1, <1>3, <1>7, <2>4, <2>5, <2>6, <2>7, <2>8 DEF Lists, SameData
<1>c. Threads'
  <2>1. ASSUME NEW d \in Clients, d # c PROVE ThreadOK(d)'
    <3>1. /\ pc'[d] = pc[d] /\ op'[d] = op[d] /\ inv'[d] = inv[d]
          /\ peer'[d] = peer[d] /\ gm'[d] = gm[d] /\ win'[d] = win[d]
          /\ nxt'[d] = nxt[d] /\ ThreadOK(d) /\ nxt[d] \in Nat
      BY <1>2, <1>7, <2>1 DEF Only, IInv, Threads, ThreadTypes
    <3>2. \A y \in Clients : Listed(y) \subseteq Listed(y)'
      BY <1>6
    <3>3. Locals(d)'
      <4>1. Other(d, inv[d])' = Other(d, inv[d])
        BY <1>1, <3>1 DEF Other
      <4>2. pc[d] \in Facing \/ (pc[d] = "send" /\ op[d] # "accept") => inv[d] \in Listed(peer[d])'
        <5>1. pc[d] \in Facing \/ (pc[d] = "send" /\ op[d] # "accept") =>
                peer[d] \in Clients /\ inv[d] \in Listed(peer[d])
          BY <3>1 DEF ThreadOK, Locals, Facing, HasPeer, Points, Starts
        <5>2. PICK y : y = peer[d]
          OBVIOUS
        <5>3. Listed(peer[d])' = Listed(y)'
          BY <3>1, <5>2 DEF Listed
        <5> QED
          BY <3>2, <5>1, <5>2, <5>3
      <4> QED
        BY <1>1, <3>1, <3>2, <4>1, <4>2 DEF ThreadOK, Locals
    <3>4. Requested(d)'
      <4>1. nxt[d] <= Len(list'[d]) /\ (nxt[d] < Len(list[d]) => nxt[d] < Len(list'[d]))
        BY <1>6, <3>1 DEF ThreadOK, Requested
      <4> QED
        BY <1>1, <3>1, <4>1 DEF ThreadOK, Requested
    <3>5. Adding(d)'
      <4>1. pc[d] \in {"addSrc", "addTgt"} =>
              inv[d] \in Invs /\ inv[d] # j /\ peer[d] \in Clients
        BY <1>3, <2>1, <3>1 DEF ThreadOK, Locals, Adding, HasInv, HasPeer, Points, Starts
      <4>2. \A y \in Clients : \A i : i # j /\ i \in Listed(y)' => i \in Listed(y)
        BY <1>6
      <4>3. PICK y : y = peer[d]
        OBVIOUS
      <4>4. Listed(peer[d])' = Listed(y)'
        BY <3>1, <4>3 DEF Listed
      <4> QED
        BY <1>1, <1>8, <3>1, <4>1, <4>2, <4>3, <4>4 DEF ThreadOK, Adding
    <3> QED
      BY <3>3, <3>4, <3>5 DEF ThreadOK
  <2>2. ThreadOK(c)'
    <3>1. /\ pc'[c] = point /\ op'[c] = op[c] /\ inv'[c] = j /\ peer'[c] = peer[c] /\ gm'[c] = gm[c]
          /\ win'[c] = win[c] /\ nxt'[c] = nxt[c] /\ nxt[c] \in Nat
          /\ UNCHANGED <<src, tgt, game>>
      BY <1>1, <1>2, <1>7 DEF SameData, ThreadTypes
    <3>2. PICK y : y = peer[c]
      OBVIOUS
    <3>3. Listed(peer[c])' = Listed(y)'
      BY <3>1, <3>2 DEF Listed
    <3>4. j \in Listed(c)' /\ (point = "send" => j \in Listed(y)') /\ (point = "addTgt" => j \notin Listed(y)')
      <4>1. j \in Listed(x)'
        BY <1>6
      <4>2. CASE point = "addTgt"
        <5>1. x = c /\ y # x /\ y \in Clients
          BY <1>1, <1>3, <1>4, <3>2, <4>2
        <5>2. Listed(y)' = Listed(y)
          BY <1>6, <5>1
        <5> QED
          BY <1>5, <3>2, <4>1, <4>2, <5>1, <5>2
      <4>3. CASE point = "send"
        <5>1. x = y /\ c # x
          BY <1>1, <1>4, <3>2, <4>3
        <5>2. Listed(c)' = Listed(c)
          BY <1>6, <5>1
        <5> QED
          BY <1>5, <4>1, <4>3, <5>1, <5>2
      <4> QED
        BY <4>2, <4>3
    <3>5. Locals(c)'
      <4>1. Other(c, inv[c])' = peer[c]
        BY <1>3, <3>1 DEF Other
      <4>2. point \in HasInv /\ point \in HasPeer /\ point \notin Starts /\ point \notin Facing
            /\ point \notin {"moved", "winner"}
        BY DEF HasInv, HasPeer, Points, Starts, Facing
      <4>3. win[c] # "none" => gm[c] # 0
        BY <1>2 DEF ThreadOK, Locals
      <4> QED
        BY <1>3, <3>1, <3>2, <3>3, <3>4, <4>1, <4>2, <4>3 DEF Locals
    <3>6. Requested(c)'
      <4>1. nxt[c] <= Len(list'[c])
        BY <1>2, <1>6, <3>1 DEF ThreadOK, Requested
      <4> QED
        BY <1>3, <3>1, <4>1 DEF Requested, Starts
    <3>7. Adding(c)'
      <4>1. point = "addTgt" => cnt'[j] <= 2
        BY <1>5, <1>8
      <4> QED
        BY <1>3, <3>1, <3>2, <3>3, <3>4, <4>1 DEF Adding
    <3> QED
      BY <3>5, <3>6, <3>7 DEF ThreadOK
  <2> QED
    BY <2>1, <2>2 DEF Threads
<1>d. StateMatchesGame' /\ InvMutexes' /\ ResultsStand
  BY <1>1 DEF IInv, StateMatchesGame, InvMutexes, ResultsStand, Playing
<1>e. Accepts' /\ WinnerKept'
  <2>1. win'[c] # "none" => result'[inv'[c]][gm'[c]] = win'[c]
    BY <1>1, <1>7 DEF IInv, WinnerKept, SameData
  <2> QED
    BY <1>1, <1>7, <1>d, <2>1, AcceptsKept, WinnersKept
<1>f. ClientMutexes' /\ PlayerMutexes'
  BY <1>1, <1>7, MutexesKept DEF HoldsClient
<1> QED
  BY <1>7, <1>9, <1>a, <1>b, <1>c, <1>d, <1>e, <1>f DEF IInv

LEMMA InviteSelfInv ==
    ASSUME IInv, NEW c \in Clients, Invite(c, c)
    PROVE  IInv'
<1>1. /\ pc[c] = "idle" /\ undefined' = undefined
      /\ op' = [op EXCEPT ![c] = "invite"] /\ peer' = [peer EXCEPT ![c] = c]
      /\ pc' = [pc EXCEPT ![c] = "release"]
      /\ UNCHANGED <<invVars, inv, refs, stuck, list, cmutex, pmutex, gm, win, nxt>>
  BY DEF Invite, At, Goto
<1>2. /\ UNCHANGED <<invVars, stuck, list, cmutex, pmutex>>
      /\ refs' \in [Clients -> Nat] /\ undefined' \in {"no", "invitation", "client", "player"}
  BY <1>1 DEF IInv, ObjTypes
<1>3. ThreadTypes' /\ Only(c) /\ pc'[c] = "release" /\ op'[c] = "invite" /\ peer'[c] = c
  BY <1>1 DEF IInv, ThreadTypes, Points, AllOps, Only
<1>4. ThreadOK(c)
  BY DEF IInv, Threads
<1>5. inv[c] = None /\ gm[c] = 0 /\ win[c] = "none"
  BY <1>1, <1>4 DEF ThreadOK, Locals, HasInv
<1>6. Locals(c)'
  BY <1>1, <1>3, <1>5 DEF Locals, HasInv, HasPeer, Facing, Starts, Points
<1>7. Requested(c)' /\ Adding(c)'
  BY <1>1, <1>3, <1>4 DEF ThreadOK, Requested, Adding, Starts
<1>8. win'[c] # "none" => result[inv'[c]][gm'[c]] = win'[c]
  BY <1>1, <1>5
<1> QED
  BY <1>1, <1>2, <1>3, <1>6, <1>7, <1>8, QuietStep DEF ThreadOK, HoldsClient

(* A new invitation is one that no list and no thread knows.               *)
LEMMA Unknown ==
    ASSUME IInv, NEW i \in Invs, src[i] = None
    PROVE  /\ \A d \in Clients : i \notin Listed(d)
           /\ \A d \in Clients : pc[d] \in HasInv => inv[d] # i
<1>1. \A d \in Clients : i \notin Listed(d)
  BY DEF IInv, Lists
<1>2. \A d \in Clients : pc[d] \in HasInv => inv[d] # i
  BY DEF IInv, Threads, ThreadOK, Locals
<1> QED
  BY <1>1, <1>2

LEMMA InviteOtherInv ==
    ASSUME IInv, NEW c \in Clients, NEW t \in Clients, c # t, Invite(c, t)
    PROVE  IInv'
<1>1. /\ pc[c] = "idle" /\ undefined' = undefined
      /\ op' = [op EXCEPT ![c] = "invite"] /\ peer' = [peer EXCEPT ![c] = t]
      /\ pc' = [pc EXCEPT ![c] = "addSrc"]
      /\ refs' = [d \in Clients |-> IF d \in {c, t} THEN refs[d] + 1 ELSE refs[d]]
      /\ UNCHANGED <<state, game, imutex, result, stuck, list, cmutex, pmutex, gm, win, nxt>>
  BY DEF Invite, At, Goto
<1>2. PICK i \in Invs, f \in {c, t} :
        /\ src[i] = None
        /\ src' = [src EXCEPT ![i] = c]
        /\ tgt' = [tgt EXCEPT ![i] = t]
        /\ first' = [first EXCEPT ![i] = f]
        /\ cnt' = [cnt EXCEPT ![i] = 1]
        /\ inv' = [inv EXCEPT ![c] = i]
  BY DEF Invite
<1>3. ObjTypes /\ ThreadTypes /\ ThreadOK(c) /\ f \in Clients
  BY DEF IInv, Threads
<1>4. /\ \A d \in Clients : i \notin Listed(d)
      /\ \A d \in Clients : pc[d] \in HasInv => inv[d] # i
  BY <1>2, Unknown
<1>5. /\ src' \in [Invs -> Clients \cup {None}] /\ src'[i] = c
      /\ tgt' \in [Invs -> Clients \cup {None}] /\ tgt'[i] = t
      /\ first' \in [Invs -> Clients \cup {None}] /\ first'[i] \in {c, t}
      /\ \A j \in Invs : j # i => /\ src'[j] = src[j] /\ tgt'[j] = tgt[j] /\ first'[j] = first[j]
  BY <1>2, <1>3 DEF ObjTypes
<1>6. /\ cnt' \in [Invs -> 0 .. 3] /\ cnt'[i] = 1
      /\ \A j \in Invs : j # i => cnt'[j] = cnt[j]
  BY <1>2, <1>3 DEF ObjTypes
<1>7. refs' \in [Clients -> Nat]
  BY <1>1, <1>3 DEF ObjTypes
<1>8. ObjTypes'
  BY <1>1, <1>3, <1>5, <1>6, <1>7 DEF ObjTypes
<1>9. /\ ThreadTypes' /\ Only(c) /\ pc'[c] = "addSrc" /\ op'[c] = "invite" /\ peer'[c] = t
      /\ inv'[c] = i
  BY <1>1, <1>2, <1>3 DEF ThreadTypes, Points, AllOps, Only
<1>a. gm[c] = 0 /\ win[c] = "none"
  BY <1>1, <1>3 DEF ThreadOK, Locals, HasInv
<1>b. None \notin Clients
  BY InvitationsAssumption
<1>c. \A d \in Clients : Listed(d)' = Listed(d)
  BY <1>1 DEF Listed
<1>d. Allocated'
  BY <1>5 DEF IInv, Allocated
<1>e. Lists'
  <2>1. ASSUME NEW d \in Clients, NEW j \in Listed(d)
        PROVE  /\ j \in Invs /\ j # i /\ src'[j] = src[j] /\ tgt'[j] = tgt[j]
               /\ src[j] \in Clients /\ tgt[j] \in Clients
    <3>1. j \in Invs /\ j # i
      BY <1>3, <1>4 DEF Listed, ObjTypes
    <3>2. src[j] # None
      BY DEF IInv, Lists
    <3> QED
      BY <1>5, <3>1, <3>2 DEF IInv, Allocated
  <2>2. ASSUME NEW d \in Clients, NEW j \in Listed(d)
        PROVE  /\ src'[j] # None /\ d \in {src'[j], tgt'[j]}
               /\ j \in Listed(src[j]) /\ src'[j] = src[j] /\ tgt'[j] = tgt[j]
               /\ j \in Listed(tgt[j]) \/ (pc'[src[j]] = "addTgt" /\ inv'[src[j]] = j)
    <3>1. /\ src[j] # None /\ d \in {src[j], tgt[j]} /\ j \in Listed(src[j])
          /\ j \in Listed(tgt[j]) \/ (pc[src[j]] = "addTgt" /\ inv[src[j]] = j)
      BY DEF IInv, Lists
    <3>2. pc[src[j]] = "addTgt" /\ inv[src[j]] = j => pc'[src[j]] = "addTgt" /\ inv'[src[j]] = j
      BY <1>1, <1>9, <2>1 DEF Only
    <3> QED
      BY <2>1, <3>1, <3>2
  <2>3. ASSUME NEW d \in Clients, NEW j \in Listed(d)
        PROVE  Listed(src[j])' = Listed(src[j]) /\ Listed(tgt[j])' = Listed(tgt[j])
    <3>1. src'[j] = src[j] /\ tgt'[j] = tgt[j] /\ list' = list
      BY <1>1, <2>1
    <3> QED
      BY <3>1 DEF Listed
  <2> QED
    BY <1>1, <1>c, <2>1, <2>2, <2>3 DEF IInv, Lists
<1>f. Threads'
  <2>1. ASSUME NEW d \in Clients, d # c PROVE ThreadOK(d)'
    <3>1. /\ pc'[d] = pc[d] /\ op'[d] = op[d] /\ inv'[d] = inv[d]
          /\ peer'[d] = peer[d] /\ gm'[d] = gm[d] /\ win'[d] = win[d]
          /\ nxt'[d] = nxt[d] /\ ThreadOK(d)
      BY <1>9, <2>1 DEF Only, IInv, Threads
    <3>2. pc[d] \in HasInv =>
            /\ src'[inv[d]] = src[inv[d]] /\ tgt'[inv[d]] = tgt[inv[d]]
            /\ cnt'[inv[d]] = cnt[inv[d]]
      BY <1>4, <1>5, <1>6, <3>1 DEF ThreadOK, Locals
    <3>3. Listed(d)' = Listed(d) /\ Listed(peer[d])' = Listed(peer[d])
      BY <1>1, <3>1 DEF Listed
    <3>4. Locals(d)'
      <4>1. pc[d] \in Facing \/ pc[d] = "send" => pc[d] \in HasInv
        BY DEF Facing, HasInv, Points
      <4>2. pc[d] \in HasInv => Other(d, inv[d])' = Other(d, inv[d])
        BY <3>1, <3>2 DEF Other
      <4> QED
        BY <1>1, <3>1, <3>2, <3>3, <4>1, <4>2 DEF ThreadOK, Locals
    <3>5. Requested(d)'
      <4>1. pc[d] = "set" => pc[d] \in HasInv
        BY DEF HasInv, Points
      <4> QED
        BY <1>1, <3>1, <3>2, <4>1 DEF ThreadOK, Requested
    <3>6. Adding(d)'
      <4>1. pc[d] \in {"addSrc", "addTgt"} => pc[d] \in HasInv
        BY DEF HasInv, Points
      <4> QED
        BY <1>c, <3>1, <3>2, <3>3, <4>1 DEF ThreadOK, Adding
    <3> QED
      BY <3>4, <3>5, <3>6 DEF ThreadOK
  <2>2. ThreadOK(c)'
    <3>1. Locals(c)'
      <4>1. 0 <= game[i]
        BY <1>3, Numbers
      <4>2. "addSrc" \in HasInv /\ "addSrc" \in HasPeer /\ "addSrc" \notin Starts
            /\ "addSrc" \notin Facing
        BY DEF HasInv, HasPeer, Points, Starts, Facing
      <4> QED
        BY <1>1, <1>5, <1>9, <1>a, <1>b, <4>1, <4>2 DEF Locals
    <3>2. Requested(c)'
      BY <1>1, <1>3, <1>9 DEF ThreadOK, Requested, Starts
    <3>3. Adding(c)'
      BY <1>4, <1>5, <1>6, <1>9, <1>c DEF Adding
    <3> QED
      BY <3>1, <3>2, <3>3 DEF ThreadOK
  <2> QED
    BY <2>1, <2>2 DEF Threads
<1>g. StateMatchesGame' /\ InvMutexes' /\ ResultsStand
  BY <1>1 DEF IInv, StateMatchesGame, InvMutexes, ResultsStand, Playing
<1>h. Accepts' /\ WinnerKept'
  <2>1. win'[c] # "none" => result'[inv'[c]][gm'[c]] = win'[c]
    BY <1>1, <1>a
  <2> QED
    BY <1>1, <1>9, <1>g, <2>1, AcceptsKept, WinnersKept
<1>i. ClientMutexes'
  BY <1>1, <1>9, ClientMutexesKept DEF HoldsClient
<1>j. PlayerMutexes'
  <2>1. ASSUME NEW d \in Clients PROVE HeldPlayers(d)' = HeldPlayers(d)
    <3>1. CASE d = c
      BY <1>1, <1>9, <3>1 DEF HeldPlayers
    <3>2. CASE d # c
      <4>1. /\ pc'[d] = pc[d] /\ inv'[d] = inv[d] /\ peer'[d] = peer[d] /\ win'[d] = win[d]
        BY <1>9, <3>2 DEF Only
      <4>2. pc[d] = "post2" => inv[d] \in Invs /\ inv[d] # i
        BY <1>4 DEF IInv, Threads, ThreadOK, Locals, HasInv, Points
      <4>3. pc[d] = "post2" => first'[inv[d]] = first[inv[d]]
        BY <1>5, <4>2
      <4> QED
        BY <4>1, <4>3 DEF HeldPlayers, Player1, Role
    <3> QED
      BY <3>1, <3>2
  <2> QED
    BY <1>1, <2>1 DEF IInv, PlayerMutexes
<1> QED
  BY <1>8, <1>9, <1>d, <1>e, <1>f, <1>g, <1>h, <1>i, <1>j DEF IInv

-----------------------------------------------------------------------------
(* The inductive invariant holds of every reachable state.                 *)
LEMMA InitIInv == Init => IInv
<1> SUFFICES ASSUME Init PROVE IInv
  OBVIOUS
<1> USE DEF Init
<1>1. ObjTypes
  <2>1. <<>> \in Seq(Invs)
    OBVIOUS
  <2>2. list \in [Clients -> Seq(Invs)]
    BY <2>1
  <2>3. result \in [Invs -> [Games -> Outcomes]]
    BY DEF Outcomes
  <2> QED
    BY <2>2, <2>3 DEF ObjTypes
<1>2. ThreadTypes
  BY DEF ThreadTypes, Points, AllOps
<1>3. \A c \in Clients : Listed(c) = {} /\ DOMAIN list[c] = {} /\ Len(list[c]) = 0
  BY DEF Listed
<1>4. Allocated /\ Lists
  BY <1>3 DEF Allocated, Lists
<1>5. Threads
  <2>1. ASSUME NEW c \in Clients PROVE ThreadOK(c)
    <3>1. Locals(c)
      BY DEF Locals, HasInv, HasPeer, Facing, Starts
    <3>2. Requested(c) /\ Adding(c)
      BY <1>3 DEF Requested, Adding, Starts
    <3> QED
      BY <3>1, <3>2 DEF ThreadOK
  <2> QED
    BY <2>1 DEF Threads
<1>6. StateMatchesGame /\ Accepts /\ WinnerKept /\ InvMutexes
  BY DEF StateMatchesGame, Accepts, WinnerKept, InvMutexes
<1>7. \A c \in Clients : HeldClients(c) = {} /\ HeldPlayers(c) = {}
  BY DEF HeldClients, HeldPlayers
<1>8. ClientMutexes /\ PlayerMutexes
  BY <1>7 DEF ClientMutexes, PlayerMutexes
<1> QED
  BY <1>1, <1>2, <1>4, <1>5, <1>6, <1>8 DEF IInv

(* Nothing but the history of undefined uses changes.                      *)
LEMMA Unmoved ==
    ASSUME IInv, UNCHANGED <<invVars, stuck, objVars, pmutex, thVars>>,
           undefined' \in {"no", "invitation", "client", "player"}
    PROVE  IInv'
<1>1. UNCHANGED <<src, tgt, first, state, game, cnt, imutex, result, stuck, list, cmutex, refs,
                  pmutex, pc, op, inv, peer, gm, win, nxt>>
  BY DEF invVars, objVars, thVars
<1>2. ObjTypes' /\ ThreadTypes' /\ Allocated'
  BY <1>1 DEF IInv, ObjTypes, ThreadTypes, Allocated
<1>3. Lists'
  BY <1>1 DEF IInv, Lists, Listed
<1>4. Threads'
  <2>1. ASSUME NEW c \in Clients PROVE ThreadOK(c)'
    <3>1. /\ ThreadOK(c) /\ Listed(peer[c])' = Listed(peer[c])
          /\ Other(c, inv[c])' = Other(c, inv[c]) /\ \A x \in Clients : Listed(x)' = Listed(x)
      BY <1>1 DEF IInv, Threads, Listed, Other
    <3>2. Locals(c)'
      BY <1>1, <3>1 DEF ThreadOK, Locals
    <3>3. Requested(c)' /\ Adding(c)'
      BY <1>1, <3>1 DEF ThreadOK, Requested, Adding
    <3> QED
      BY <3>2, <3>3 DEF ThreadOK
  <2> QED
    BY <2>1 DEF Threads
<1>5. StateMatchesGame' /\ Accepts' /\ WinnerKept' /\ InvMutexes'
  BY <1>1 DEF IInv, StateMatchesGame, Accepts, Sets, WinnerKept, InvMutexes, Playing
<1>6. ClientMutexes'
  BY <1>1 DEF IInv, ClientMutexes, HeldClients
<1>7. PlayerMutexes'
  BY <1>1 DEF IInv, PlayerMutexes, HeldPlayers, Player1, Role
<1> QED
  BY <1>2, <1>3, <1>4, <1>5, <1>6, <1>7 DEF IInv

(* Every step keeps the invariant.                                         *)
LEMMA NextIInv == IInv /\ [Next]_vars => IInv'
<1> SUFFICES ASSUME IInv, [Next]_vars PROVE IInv'
  OBVIOUS
<1>1. CASE UNCHANGED vars
  <2>1. UNCHANGED <<invVars, stuck, objVars, pmutex, thVars>> /\ undefined' = undefined
    BY <1>1 DEF vars
  <2> QED
    BY <2>1, Unmoved DEF IInv, ObjTypes
<1>2. ASSUME NEW c \in Clients, Ask(c) PROVE IInv'
  <2>1. ASSUME NEW t \in Clients, Invite(c, t) PROVE IInv'
    BY <2>1, InviteSelfInv, InviteOtherInv
  <2>2. ASSUME NEW what \in Starts, Request(c, what) PROVE IInv'
    BY <2>2, RequestInv
  <2>3. CASE Logout(c)
    BY <2>3, LogoutInv
  <2> QED
    BY <1>2, <2>1, <2>2, <2>3 DEF Ask
<1>3. ASSUME NEW c \in Clients, Work(c) PROVE IInv'
  <2>1. CASE AddToSource(c) \/ AddToTarget(c)
    BY <2>1, AddInv
  <2>2. CASE Send(c)
    BY <2>2, SendInv
  <2>3. CASE ReleaseTarget(c)
    BY <2>3, ReleaseTargetInv
  <2>4. CASE Revoke(c) \/ Decline(c)
    BY <2>4, WithdrawInv
  <2>5. CASE inv_close(c)
    BY <2>5, inv_closeInv
  <2>6. CASE Accept(c)
    BY <2>6, AcceptInv
  <2>7. CASE inv_accept(c)
    BY <2>7, inv_acceptInv
  <2>8. CASE AcceptUnref(c)
    BY <2>8, AcceptUnrefInv
  <2>9. CASE Resign(c)
    BY <2>9, ResignInv
  <2>10. CASE RemoveInvitation(c)
    BY <2>10, RemoveLockInv, RemoveUnrefInv DEF RemoveInvitation
  <2>11. CASE MoveOn(c)
    <3>1. CASE Move(c) \/ SendMoved(c) \/ ReadWinner(c) \/ CheckOver(c)
      BY <3>1, MoveInv, SendMovedInv, ReadWinnerInv, CheckOverInv
    <3>2. CASE EndLock(c, "end1", peer[c], "end2") \/ EndLock(c, "end2", c, "ended")
      BY <3>2, EndLockInv
    <3>3. CASE SendEnded(c) \/ PostLock(c) \/ player_post_result(c)
      BY <3>3, SendEndedInv, PostLockInv, player_post_resultInv
    <3> QED
      BY <2>11, <3>1, <3>2, <3>3 DEF MoveOn
  <2>12. CASE LogoutNext(c)
    BY <2>12, LogoutNextInv
  <2>13. CASE Unregister(c)
    BY <2>13, UnregisterInv
  <2>14. CASE UseUndefined(c)
    <3>1. /\ UNCHANGED <<invVars, stuck, objVars, pmutex, thVars>>
          /\ undefined' \in {"no", "invitation", "client", "player"}
      BY <2>14 DEF UseUndefined
    <3> QED
      BY <3>1, Unmoved
  <2> QED
    BY <1>3, <2>1, <2>2, <2>3, <2>4, <2>5, <2>6, <2>7, <2>8, <2>9, <2>10, <2>11, <2>12,
       <2>13, <2>14 DEF Work
<1> QED
  BY <1>1, <1>2, <1>3 DEF Next

(* In every reachable state IInv holds: it is what every property below    *)
(* follows from.                                                           *)
THEOREM Invariance == Spec => []IInv
BY InitIInv, NextIInv, PTL DEF Spec

(* The variables of the server's clients, invitations and threads keep     *)
(* their types; in particular an invitation never has more than the three  *)
(* references that client_make_invitation gives it (client.c), nor fewer   *)
(* than none, and never more than two games.                               *)
THEOREM TypeCorrect == Spec => []TypeOK
<1>1. IInv => TypeOK
  BY DEF IInv, ObjTypes, ThreadTypes, TypeOK
<1> QED
  BY <1>1, Invariance, PTL

(* inv_accept and inv_close keep the state of an invitation and its game   *)
(* in step, although their callers test both before the mutex is taken.    *)
THEOREM StateTellsGame == Spec => []StateMatchesGame
<1>1. IInv => StateMatchesGame
  BY DEF IInv
<1> QED
  BY <1>1, Invariance, PTL

(* Each mutex of a client or player has at most one owner, and is down     *)
(* exactly when it has one or was left locked by a failed ENDED packet; an *)
(* invitation's mutex is left locked only when the invitation is closed.   *)
THEOREM MutexesOwned == Spec => []MutexesAccounted
<1>1. IInv => MutexesAccounted
  <2> SUFFICES ASSUME IInv PROVE MutexesAccounted
    OBVIOUS
  <2>1. \A i \in Invs : imutex[i] = 0 => state[i] = "closed" /\ ~Playing(i)
    BY DEF IInv, InvMutexes, StateMatchesGame
  <2>2. ClientMutexes /\ PlayerMutexes
    BY DEF IInv
  <2> QED
    BY <2>1, <2>2 DEF MutexesAccounted, ClientMutexes, PlayerMutexes
<1> QED
  BY <1>1, Invariance, PTL

(* client_add_invitation enters an invitation once into each party's list, *)
(* the source's first, and the client a thread works with lists it too.    *)
THEOREM PeersShare == Spec => []PeersShareInvitations
<1>1. IInv => PeersShareInvitations
  <2> SUFFICES ASSUME IInv PROVE PeersShareInvitations
    OBVIOUS
  <2>1. ASSUME NEW c \in Clients, NEW i \in Listed(c)
        PROVE  /\ c \in {src[i], tgt[i]} /\ i \in Listed(src[i])
               /\ Cardinality({n \in DOMAIN list[c] : list[c][n] = i}) = 1
    <3>1. c \in {src[i], tgt[i]} /\ i \in Listed(src[i])
      BY DEF IInv, Lists
    <3>2. PICK m \in DOMAIN list[c] : list[c][m] = i
      BY DEF Listed
    <3>3. \A n \in DOMAIN list[c] : list[c][n] = i => n = m
      BY <3>2 DEF IInv, Lists
    <3>4. {n \in DOMAIN list[c] : list[c][n] = i} = {m}
      BY <3>2, <3>3
    <3>5. Cardinality({m}) = 1
      BY FS_Singleton
    <3> QED
      BY <3>1, <3>4, <3>5
  <2>2. ASSUME NEW c \in Clients, pc[c] \in {"close", "set", "rem1", "rem2", "moved"}
        PROVE  inv[c] \in Listed(c) /\ inv[c] \in Listed(peer[c])
    <3>1. pc[c] \in HasInv \ {"addSrc", "addTgt"} /\ (pc[c] # "set" => pc[c] \in Facing)
      BY <2>2 DEF HasInv, Facing, Points
    <3>2. inv[c] \in Listed(c)
      BY <3>1, OtherLists
    <3>3. CASE pc[c] = "set"
      <4>1. peer[c] = src[inv[c]]
        BY <3>3 DEF IInv, Threads, ThreadOK, Requested
      <4>2. inv[c] \in Listed(src[inv[c]])
        BY <3>2 DEF IInv, Lists
      <4> QED
        BY <3>2, <4>1, <4>2
    <3>4. CASE pc[c] # "set"
      BY <3>1, <3>2, <3>4 DEF IInv, Threads, ThreadOK, Locals
    <3> QED
      BY <3>3, <3>4
  <2> QED
    BY <2>1, <2>2 DEF PeersShareInvitations
<1> QED
  BY <1>1, Invariance, PTL

(* The client that client_make_move credits with a won game is the one     *)
(* whose role the game's result names, although the winner was read        *)
(* without a lock and the other side may have moved or resigned since.     *)
THEOREM WinnersAreCredited == Spec => []WinnerCredited
<1>1. IInv => WinnerCredited
  <2> SUFFICES ASSUME IInv, NEW c \in Clients, pc[c] \in Ending, Credited(c) # None
               PROVE  /\ Role(Credited(c), inv[c]) = result[inv[c]][gm[c]]
                      /\ EndedRole(c) = result[inv[c]][gm[c]]
    BY DEF WinnerCredited
  <2>1. win[c] \in {"first", "second"}
    BY DEF IInv, ThreadTypes, Credited, ResultCode
  <2>2. result[inv[c]][gm[c]] = win[c]
    BY <2>1 DEF IInv, WinnerKept
  <2>3. /\ inv[c] \in Invs /\ src[inv[c]] # None
        /\ peer[c] = Other(c, inv[c]) /\ inv[c] \in Listed(c)
    <3>1. pc[c] \in HasInv \ {"addSrc"} /\ pc[c] \in Facing
      BY DEF Ending, HasInv, Facing, Points, Starts
    <3> QED
      BY <3>1 DEF IInv, Threads, ThreadOK, Locals
  <2>4. /\ c \in {src[inv[c]], tgt[inv[c]]} /\ src[inv[c]] # tgt[inv[c]]
        /\ first[inv[c]] \in {src[inv[c]], tgt[inv[c]]}
    BY <2>3 DEF IInv, Lists, Allocated
  <2>5. first[inv[c]] \in {c, peer[c]} /\ c # peer[c]
    BY <2>3, <2>4 DEF Other
  <2>6. Role(Credited(c), inv[c]) = win[c]
    BY <2>1, <2>5 DEF Credited, ResultCode, Player1, Player2, Role
  <2>7. EndedRole(c) = win[c]
    BY <2>1, <2>5 DEF EndedRole, Role
  <2> QED
    BY <2>2, <2>6, <2>7
<1> QED
  BY <1>1, Invariance, PTL

(* client_remove_invitation, which compares GAME pointers, finds the right *)
(* entry whenever a game ends: two invitations share a pointer only while  *)
(* both are NULL.                                                          *)
THEOREM RemovalHitsOwn == Spec => []GameRemovalHitsOwn
<1>1. IInv => GameRemovalHitsOwn
  <2> SUFFICES ASSUME IInv, NEW c \in Clients, pc[c] \in {"rem1Held", "rem2Held"}, gm[c] # 0
               PROVE  Removes(c) = inv[c]
    BY DEF GameRemovalHitsOwn
  <2>1. ThreadOK(c) /\ pc[c] \in HasInv \ {"addSrc", "addTgt"} /\ pc[c] \in HasPeer
        /\ pc[c] \in Facing
    BY DEF IInv, Threads, HasInv, HasPeer, Facing, Points, Starts
  <2>2. PICK x \in Clients : x = Victim(c)
    BY <2>1 DEF Victim, ThreadOK, Locals
  <2>3. PICK j : j = inv[c]
    OBVIOUS
  <2>4. j \in Listed(x)
    BY <2>1, <2>2, <2>3 DEF Victim, ThreadOK, Locals
  <2>5. game[j] # 0
    <3>1. j \in Invs /\ gm[c] <= game[j] /\ gm[c] \in Nat
      BY <2>1, <2>3 DEF ThreadOK, Locals, IInv, ThreadTypes, Games
    <3>2. game[j] \in Nat
      BY <3>1, Numbers DEF IInv
    <3> QED
      BY <3>1, <3>2
  <2>6. SameGame(j, list[x][Match(x, j)])
    BY <2>4, MatchFound
  <2> QED
    BY <2>2, <2>3, <2>5, <2>6 DEF Removes, SameGame
<1> QED
  BY <1>1, Invariance, PTL

==============================================================================
