------------------------------- MODULE Players -------------------------------
(***************************************************************************)
(* The players of the Jeux server: hw5/src/player_registry.c and           *)
(* hw5/src/player.c, used by the service threads.  A thread logs in under  *)
(* a name (preg_register, then client_login), posts results of games with  *)
(* other logged-in players, and logs out.                                  *)
(*                                                                         *)
(* The double-precision arithmetic of player_post_result is modelled       *)
(* exactly: 10^k is an integer or the inverse of one, because the rating   *)
(* difference is divided as int, and the only rounding that matters is the *)
(* conversion of the new rating to int.                                    *)
(***************************************************************************)
EXTENDS Integers, Sequences, FiniteSets

CONSTANTS Threads, Names,
          PLAYER_INITIAL_RATING,    \* player.h
          MaxPlayers,               \* size of players[]
          MaxRefs,                  \* bound: references to a player
          MaxPosts,                 \* bound: results posted
          None

ASSUME PlayersAssumption ==
    /\ PLAYER_INITIAL_RATING \in Nat
    /\ MaxPlayers \in Nat
    /\ MaxRefs \in Nat
    /\ MaxPosts \in Nat
    /\ IsFiniteSet(Threads)
    /\ None \notin Names

VARIABLES
    players,        \* PLAYER_REGISTRY: players[], each a PLAYER: name, count,
                    \*   rating
    mutex,          \* PLAYER_REGISTRY: mutex
    locked,         \* the players whose mutex is down
    pc, me, want,   \* a thread: where it is, its player, the name it asks for
    p1, p2, result, \*   arguments of player_post_result
    posts           \* results posted so far

vars == <<players, mutex, locked, pc, me, want, p1, p2, result, posts>>
args == <<p1, p2, result>>

Init ==
    /\ players = <<>>
    /\ mutex = 1
    /\ locked = {}
    /\ pc = [t \in Threads |-> "idle"]
    /\ me = [t \in Threads |-> 0]
    /\ want = [t \in Threads |-> None]
    /\ p1 = [t \in Threads |-> 0]
    /\ p2 = [t \in Threads |-> 0]
    /\ result = [t \in Threads |-> 0]
    /\ posts = 0

Goto(t, from, to) == pc[t] = from /\ pc' = [pc EXCEPT ![t] = to]

-----------------------------------------------------------------------------
(* LOGIN: preg_register under the registry's mutex.                        *)
RegisterLock(t, n) ==
    /\ mutex = 1
    /\ Goto(t, "idle", "register")
    /\ mutex' = 0
    /\ want' = [want EXCEPT ![t] = n]
    /\ UNCHANGED <<players, locked, me, args, posts>>

Known(n) == {k \in DOMAIN players : players[k].name = n}

(* player_ref, under the player's mutex.                                   *)
player_ref(k) ==
    /\ k \notin locked
    /\ players[k].count < MaxRefs
    /\ players' = [players EXCEPT ![k].count = @ + 1]

(* player_create and preg_register's player_ref.  The name is copied       *)
(* without its terminator: what follows is whatever malloc() returned, and *)
(* the stored name is the user's only if that begins with a zero (else     *)
(* None: some string that nobody asks for).                                *)
player_create(n) ==
    {[name |-> stored, count |-> 2, rating |-> PLAYER_INITIAL_RATING] :
        stored \in {n, None}}

(* The first player of that name.                                          *)
RegisterKnown(t) ==
    /\ Goto(t, "register", "login")
    /\ \E k \in Known(want[t]) :
         /\ \A j \in Known(want[t]) : k <= j
         /\ player_ref(k)
         /\ me' = [me EXCEPT ![t] = k]
    /\ mutex' = 1
    /\ UNCHANGED <<locked, want, args, posts>>

RegisterNew(t) ==
    /\ Goto(t, "register", "login")
    /\ Known(want[t]) = {}
    /\ Len(players) < MaxPlayers
    /\ \E p \in player_create(want[t]) : players' = Append(players, p)
    /\ me' = [me EXCEPT ![t] = Len(players) + 1]
    /\ mutex' = 1
    /\ UNCHANGED <<locked, want, args, posts>>

(* client_login takes a reference of its own.  A login that is refused     *)
(* leaves the one from preg_register: the service forgets the pointer.     *)
Login(t) ==
    /\ pc[t] = "login"
    /\ want' = [want EXCEPT ![t] = None]
    /\ \/ /\ player_ref(me[t])
          /\ pc' = [pc EXCEPT ![t] = "in"]
          /\ UNCHANGED me
       \/ /\ pc' = [pc EXCEPT ![t] = "idle"]
          /\ me' = [me EXCEPT ![t] = 0]
          /\ UNCHANGED players
    /\ UNCHANGED <<mutex, locked, args, posts>>

(* Mutant: the reference is dropped twice.                                 *)
UnrefTwice(t, from, to) ==
    /\ Goto(t, from, to)
    /\ me[t] \notin locked
    /\ players' = [players EXCEPT ![me[t]].count = @ - 2]
    /\ me' = [me EXCEPT ![t] = IF to = "idle" THEN 0 ELSE @]
    /\ UNCHANGED <<mutex, locked, want, args, posts>>

(* At the end of the connection the service drops its reference, then      *)
(* client_logout drops the client's: player_unref.                         *)
player_unref(t, from, to) ==
    /\ Goto(t, from, to)
    /\ me[t] \notin locked
    /\ players' = [players EXCEPT ![me[t]].count = @ - 1]
    /\ me' = [me EXCEPT ![t] = IF to = "idle" THEN 0 ELSE @]
    /\ UNCHANGED <<mutex, locked, want, args, posts>>

-----------------------------------------------------------------------------
(* x / y in C: the quotient is truncated towards zero.                     *)
Quotient(x, y) == IF x >= 0 THEN x \div y ELSE -((-x) \div y)

(* pow(10, n); a function, so that the proofs can take it step by step.    *)
pow10[n \in Nat] == IF n = 0 THEN 1 ELSE 10 * pow10[n - 1]

(* Mutant: the result is rounded up.                                       *)
RatingRoundedUp(r, other, s) ==
    LET k == Quotient(other - r, 400)
        den == 1 + pow10[IF k >= 0 THEN k ELSE -k]
        num == IF k >= 0 THEN 1 ELSE den - 1
    IN  -Quotient(-(r * den + 32 * (s * den - num)) - (den - 1), den)

(* r + 32 * (s - e) as an int, where e = 1/(1 + 10^k) = num/den and k is   *)
(* the rating difference divided by 400 as int.                            *)
NewRating(r, other, s) ==
    LET k == Quotient(other - r, 400)
        den == 1 + pow10[IF k >= 0 THEN k ELSE -k]
        num == IF k >= 0 THEN 1 ELSE den - 1
    IN  Quotient(r * den + 32 * (s * den - num), den)

(* Mutant: the loser scores.                                               *)
ScoreOfLoser(player, res) == IF res \in {0, player} THEN 0 ELSE 1

(* The scores are ints: 0.5 becomes 0.                                     *)
Score(player, res) == IF res = player THEN 1 ELSE 0

(* client_make_move at the end of a game of t with u, who is logged in and *)
(* whose thread may be posting too: player1 is the one with the first      *)
(* role, or the mover if the game is drawn.                                *)
PostLock1(t, u, first, res) ==
    /\ posts < MaxPosts
    /\ u # t /\ pc[u] \in {"in", "lock1", "lock2"}
    /\ first \in {t, u} /\ (res = 0 => first = t)
    /\ Goto(t, "in", "lock1")
    /\ p1' = [p1 EXCEPT ![t] = me[first]]
    /\ p2' = [p2 EXCEPT ![t] = me[IF first = t THEN u ELSE t]]
    /\ result' = [result EXCEPT ![t] = res]
    /\ posts' = posts + 1
    /\ UNCHANGED <<players, mutex, locked, me, want>>

(* player_post_result: P(player1), P(player2), update, V, V.               *)
PostLock2(t) ==
    /\ p1[t] \notin locked
    /\ Goto(t, "lock1", "lock2")
    /\ locked' = locked \cup {p1[t]}
    /\ UNCHANGED <<players, mutex, me, want, args, posts>>

(* Mutant: the second player's mutex is not waited for.                    *)
PostUnlocked(t) ==
    LET r1 == players[p1[t]].rating
        r2 == players[p2[t]].rating
    IN  /\ Goto(t, "lock2", "in")
        /\ players' = [players EXCEPT
                         ![p1[t]].rating = NewRating(r1, r2, Score(1, result[t])),
                         ![p2[t]].rating = NewRating(r2, r1, Score(2, result[t]))]
        /\ locked' = locked \ {p1[t]}
        /\ p1' = [p1 EXCEPT ![t] = 0]
        /\ p2' = [p2 EXCEPT ![t] = 0]
        /\ result' = [result EXCEPT ![t] = 0]
        /\ UNCHANGED <<mutex, me, want, posts>>

player_post_result(t) ==
    LET r1 == players[p1[t]].rating
        r2 == players[p2[t]].rating
    IN  /\ p2[t] \notin locked
        /\ Goto(t, "lock2", "in")
        /\ players' = [players EXCEPT
                         ![p1[t]].rating = NewRating(r1, r2, Score(1, result[t])),
                         ![p2[t]].rating = NewRating(r2, r1, Score(2, result[t]))]
        /\ locked' = locked \ {p1[t]}
        /\ p1' = [p1 EXCEPT ![t] = 0]
        /\ p2' = [p2 EXCEPT ![t] = 0]
        /\ result' = [result EXCEPT ![t] = 0]
        /\ UNCHANGED <<mutex, me, want, posts>>

Next ==
    \E t \in Threads :
        \/ \E n \in Names : RegisterLock(t, n)
        \/ RegisterKnown(t) \/ RegisterNew(t) \/ Login(t)
        \/ player_unref(t, "in", "logout") \/ player_unref(t, "logout", "idle")
        \/ \E u, first \in Threads, res \in 0 .. 2 : PostLock1(t, u, first, res)
        \/ PostLock2(t) \/ player_post_result(t)

Spec == Init /\ [][Next]_vars

-----------------------------------------------------------------------------
(* "Entries persist for as long as the server is running": beside the      *)
(* registry's reference a player has at least one for every use that       *)
(* threads make of it, so player_unref never frees a registered player.    *)
(* A thread that logs in or out uses one, a logged-in one two: its own and *)
(* its client's.                                                           *)
LoggedIn == {"in", "lock1", "lock2"}

Uses(k) == {use \in Threads \X {1, 2} :
              me[use[1]] = k /\ (use[2] = 2 => pc[use[1]] \in LoggedIn)}

ReferencesHeld ==
    \A k \in DOMAIN players : players[k].count >= 1 + Cardinality(Uses(k))

(* Posting never creates rating points: what the winner gains the loser    *)
(* loses at least, and no update is lost although threads post about the   *)
(* same players concurrently.  The conversion to int rounds towards zero,  *)
(* which is downwards only while ratings are not negative.                 *)
Total(ps) ==
    LET sum[k \in 0 .. Len(ps)] == IF k = 0 THEN 0 ELSE sum[k - 1] + ps[k].rating
    IN  sum[Len(ps)]

NoPointsFromNowhere ==
    [][Len(players') = Len(players)
            /\ (\A k \in DOMAIN players : players[k].rating >= 0
                                         /\ players'[k].rating >= 0)
         => Total(players') <= Total(players)]_vars

(* The winner's rating does not drop and the loser's does not rise.  (They *)
(* may stay: from a difference of 800 on a favourite's win is worth less   *)
(* than one point.)                                                        *)
WinnerGains ==
    [][\A t \in Threads : pc[t] = "lock2" /\ pc'[t] = "in" /\ result[t] # 0 =>
         LET winner == IF result[t] = 1 THEN p1[t] ELSE p2[t]
             loser  == IF result[t] = 1 THEN p2[t] ELSE p1[t]
         IN  /\ players'[winner].rating >= players[winner].rating
             /\ players'[loser].rating <= players[loser].rating]_vars

(* A player whose mutex a posting thread holds is not touched by another   *)
(* thread until the result is posted: neither by a result of another game  *)
(* nor by a reference taken or dropped at login and logout.                *)
LockedUntouched ==
    [][\A t \in Threads : pc[t] = "lock2" /\ pc'[t] = "lock2" =>
         players'[p1[t]] = players[p1[t]]]_vars

-----------------------------------------------------------------------------
(* What the header promises and the code does not keep.                    *)

(* "Assign each player a score of 0, 0.5, or 1, according to whether that  *)
(* player lost, drew, or won": a draw between equals changes nothing.      *)
DrawBetweenEquals ==
    [][\A t \in Threads : pc[t] = "lock2" /\ pc'[t] = "in" /\ result[t] = 0
            /\ players[p1[t]].rating = players[p2[t]].rating
         => players'[p1[t]].rating = players[p1[t]].rating]_vars
=============================================================================
