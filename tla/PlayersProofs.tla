---------------------------- MODULE PlayersProofs ----------------------------
(***************************************************************************)
(* The players' safety for any number of threads, names and players: no    *)
(* registered player is freed, a player in the middle of a result is left  *)
(* alone, and results move rating points without creating any.             *)
(***************************************************************************)
EXTENDS Players, FiniteSetTheorems, LeastElement

Points == {"idle", "register", "login", "logout"} \cup LoggedIn

PlayerType == [name : Names \cup {None}, count : Int, rating : Int]

TypeInv ==
    /\ players \in Seq(PlayerType)
    /\ locked \subseteq Nat
    /\ pc \in [Threads -> Points]
    /\ me \in [Threads -> Nat]
    /\ want \in [Threads -> Names \cup {None}]
    /\ p1 \in [Threads -> Nat]
    /\ p2 \in [Threads -> Nat]
    /\ result \in [Threads -> 0 .. 2]

(* What the locals of a thread stand for.                                  *)
Locals ==
    \A t \in Threads :
        /\ IF pc[t] \in {"idle", "register"} THEN me[t] = 0 ELSE me[t] \in DOMAIN players
        /\ pc[t] = "register" => want[t] \in Names
        /\ pc[t] \in {"lock1", "lock2"} => p1[t] \in DOMAIN players /\ p2[t] \in DOMAIN players

(* A thread that posts holds its first player's mutex, and alone.          *)
LocksOwned ==
    /\ \A t \in Threads : pc[t] = "lock2" => p1[t] \in locked
    /\ \A t, u \in Threads : pc[t] = "lock2" /\ pc[u] = "lock2" /\ p1[t] = p1[u] => t = u

IInv == TypeInv /\ Locals /\ LocksOwned /\ ReferencesHeld

-----------------------------------------------------------------------------
(* The powers of ten.                                                      *)

(* The equation of pow10 holds, and pow10[n] is a positive number.         *)
LEMMA PowExists ==
    \E f : f = [n \in Nat |-> IF n = 0 THEN 1 ELSE 10 * f[n - 1]]
<1> DEFINE Good(g, N) == \A n \in 1 .. N : g[n] = 10 * g[n - 1]
           Part(N) == {g \in [0 .. N -> Nat] : g[0] = 1 /\ Good(g, N)}
           S == {N \in Nat : Part(N) # {}}
<1>1. \A N \in Nat : N \in S
  <2>1. 0 \in S
    <3>1. [n \in 0 .. 0 |-> 1] \in Part(0)
      OBVIOUS
    <3> QED
      BY <3>1
  <2>2. ASSUME NEW N \in Nat, N \in S PROVE N + 1 \in S
    <3>1. PICK g \in Part(N) : TRUE
      BY <2>2
    <3> DEFINE h == [n \in 0 .. N + 1 |-> IF n = N + 1 THEN 10 * g[N] ELSE g[n]]
    <3>2. h \in [0 .. N + 1 -> Nat] /\ h[0] = 1
      BY <3>1
    <3>3. ASSUME NEW n \in 1 .. N + 1 PROVE h[n] = 10 * h[n - 1]
      <4>1. CASE n = N + 1
        BY <3>1, <4>1
      <4>2. CASE n # N + 1
        BY <3>1, <4>2
      <4> QED
        BY <4>1, <4>2
    <3>4. h \in Part(N + 1)
      <4> HIDE DEF h
      <4> QED
        BY <3>2, <3>3
    <3> HIDE DEF h, Part
    <3>5. Part(N + 1) # {}
      BY <3>4
    <3> QED
      BY <3>5
  <2> HIDE DEF S
  <2> QED
    BY <2>1, <2>2, AllNat
<1>2. ASSUME NEW M \in Nat, NEW g \in Part(M), NEW N \in Nat, NEW h \in Part(N)
      PROVE  \A n \in Nat : n <= M /\ n <= N => g[n] = h[n]
  <2> DEFINE E == {n \in Nat : n <= M /\ n <= N => g[n] = h[n]}
  <2>1. 0 \in E
    OBVIOUS
  <2>2. ASSUME NEW n \in Nat, n \in E PROVE n + 1 \in E
    BY <2>2
  <2>3. \A n \in Nat : n \in E
    <3> HIDE DEF E
    <3> QED
      BY <2>1, <2>2, AllNat
  <2> QED
    BY <2>3
<1> DEFINE of == [N \in Nat |-> CHOOSE g : g \in Part(N)]
           f == [n \in Nat |-> of[n][n]]
<1>3. \A N \in Nat : of[N] \in Part(N)
  BY <1>1
<1>4. \A n \in Nat : f[n] = IF n = 0 THEN 1 ELSE 10 * f[n - 1]
  <2> SUFFICES ASSUME NEW n \in Nat PROVE f[n] = IF n = 0 THEN 1 ELSE 10 * f[n - 1]
    OBVIOUS
  <2>1. CASE n = 0
    BY <2>1, <1>3
  <2>2. CASE n # 0
    <3>1. of[n] \in Part(n) /\ n - 1 \in Nat /\ of[n - 1] \in Part(n - 1)
      <4> HIDE DEF of, Part
      <4> QED
        BY <2>2, <1>3
    <3>2. of[n][n] = 10 * of[n][n - 1]
      <4> HIDE DEF of
      <4> QED
        BY <3>1, <2>2
    <3>3. of[n][n - 1] = of[n - 1][n - 1]
      <4> HIDE DEF of, Part
      <4> QED
        BY <3>1, <2>2, <1>2
    <3> QED
      BY <3>2, <3>3, <2>2
  <2> QED
    BY <2>1, <2>2
<1>5. f = [n \in Nat |-> IF n = 0 THEN 1 ELSE 10 * f[n - 1]]
  <2>1. f = [n \in Nat |-> f[n]]
    OBVIOUS
  <2> HIDE DEF f
  <2> QED
    BY <1>4, <2>1
<1> QED
  BY <1>5

(* The powers of ten in the expected score.                                *)
LEMMA PowZero == pow10[0] = 1
<1>1. pow10 = [n \in Nat |-> IF n = 0 THEN 1 ELSE 10 * pow10[n - 1]]
  BY PowExists DEF pow10
<1> QED
  BY <1>1

LEMMA PowPositive == \A n \in Nat : pow10[n] \in Nat \ {0}
<1>1. pow10 = [n \in Nat |-> IF n = 0 THEN 1 ELSE 10 * pow10[n - 1]]
  BY PowExists DEF pow10
<1> DEFINE S == {n \in Nat : pow10[n] \in Nat \ {0}}
<1>2. 0 \in S
  BY <1>1
<1>3. ASSUME NEW n \in Nat, n \in S PROVE n + 1 \in S
  <2>1. pow10[n + 1] = 10 * pow10[n]
    BY <1>1
  <2> QED
    BY <2>1, <1>3
<1> HIDE DEF S
<1>4. \A n \in Nat : n \in S
  BY <1>2, <1>3, AllNat
<1> QED
  BY <1>4 DEF S

-----------------------------------------------------------------------------
(* What a result does to two ratings.                                      *)

(* Truncated division keeps the side of an integer bound it is on, and     *)
(* stays within one of the exact quotient.                                 *)
LEMMA QuotientBounds ==
    ASSUME NEW x \in Int, NEW d \in Nat \ {0}
    PROVE  /\ Quotient(x, d) \in Int
           /\ x >= 0 => d * Quotient(x, d) <= x /\ x < d * Quotient(x, d) + d
           /\ x < 0 => d * Quotient(x, d) >= x /\ x > d * Quotient(x, d) - d
           /\ Quotient(-x, d) = -Quotient(x, d)
<1>1. CASE x >= 0
  BY <1>1 DEF Quotient
<1>2. CASE x < 0
  BY <1>2 DEF Quotient
<1> QED
  BY <1>1, <1>2

(* Cancelling a factor, up to a remainder below it.                        *)
LEMMA Cancel ==
    ASSUME NEW a \in Int, NEW b \in Int, NEW d \in Nat \ {0}, d * a < d * b + d
    PROVE  a <= b
<1> SUFFICES ASSUME a >= b + 1 PROVE FALSE
  OBVIOUS
<1>1. d * a >= d * (b + 1)
  OBVIOUS
<1>2. d * (b + 1) = d * b + d
  OBVIOUS
<1> QED
  BY <1>1, <1>2

(* The exponents of the two players are opposite, so both have the same    *)
(* denominator and the two expectations add up to one.                     *)
LEMMA Expectations ==
    ASSUME NEW r \in Int, NEW q \in Int
    PROVE  \E d \in Nat \ {0}, m \in Nat, n \in Nat :
              /\ m + n = d
              /\ \A s \in {0, 1} :
                   /\ NewRating(r, q, s) = Quotient(r * d + 32 * (s * d - m), d)
                   /\ NewRating(q, r, s) = Quotient(q * d + 32 * (s * d - n), d)
<1> DEFINE k == Quotient(q - r, 400)
           j == Quotient(r - q, 400)
<1>1. k \in Int /\ j = -k
  <2>1. r - q = -(q - r)
    OBVIOUS
  <2> QED
    BY <2>1, QuotientBounds
<1> HIDE DEF k, j
<1> DEFINE a == IF k >= 0 THEN k ELSE -k
           d == 1 + pow10[a]
           m == IF k >= 0 THEN 1 ELSE d - 1
           n == IF j >= 0 THEN 1 ELSE d - 1
<1>2. a \in Nat /\ a = IF j >= 0 THEN j ELSE -j
  BY <1>1
<1>3. pow10[a] \in Nat \ {0} /\ pow10[0] = 1
  BY <1>2, PowPositive, PowZero
<1>4. d \in Nat \ {0} /\ m \in Nat /\ n \in Nat /\ m + n = d
  BY <1>1, <1>3
<1>5. \A s \in {0, 1} : NewRating(r, q, s) = Quotient(r * d + 32 * (s * d - m), d)
  BY DEF NewRating, k
<1>6. \A s \in {0, 1} : NewRating(q, r, s) = Quotient(q * d + 32 * (s * d - n), d)
  BY <1>2 DEF NewRating, j
<1> HIDE DEF d, m, n
<1> QED
  BY <1>4, <1>5, <1>6

(* How far a result moves a rating.                                        *)
LEMMA RatingMoves ==
    ASSUME NEW r \in Int, NEW q \in Int, NEW s \in {0, 1}
    PROVE  /\ NewRating(r, q, s) \in Int
           /\ s = 1 => NewRating(r, q, s) >= r
           /\ s = 0 => NewRating(r, q, s) <= r
<1>0. PICK d \in Nat \ {0}, m \in Nat, n \in Nat :
          /\ m + n = d
          /\ \A e \in {0, 1} :
               /\ NewRating(r, q, e) = Quotient(r * d + 32 * (e * d - m), d)
               /\ NewRating(q, r, e) = Quotient(q * d + 32 * (e * d - n), d)
  BY Expectations
<1>1. m + n = d /\ NewRating(r, q, s) = Quotient(r * d + 32 * (s * d - m), d)
  BY <1>0
<1> DEFINE x == r * d + 32 * (s * d - m)
           y == Quotient(x, d)
<1>2. x \in Int
  BY <1>1
<1>3. /\ y \in Int
      /\ x >= 0 => d * y <= x /\ x < d * y + d
      /\ x < 0 => d * y >= x /\ x > d * y - d
  BY <1>2, QuotientBounds
<1>4. s = 1 => x >= d * r
  BY <1>1
<1>5. s = 0 => x <= d * r
  BY <1>1
<1> HIDE DEF x, y
<1>6. ASSUME s = 1 PROVE r <= y
  BY <1>2, <1>3, <1>4, <1>6, Cancel
<1>7. ASSUME s = 0 PROVE y <= r
  BY <1>2, <1>3, <1>5, <1>7, Cancel
<1> QED
  BY <1>1, <1>3, <1>6, <1>7 DEF x, y

(* A won game between ratings that are and stay at least 0.                *)
LEMMA LoserPays ==
    ASSUME NEW r \in Int, NEW q \in Int, r >= 0, q >= 0, NewRating(q, r, 0) >= 0
    PROVE  NewRating(r, q, 1) + NewRating(q, r, 0) <= r + q
<1>0. PICK d \in Nat \ {0}, m \in Nat, n \in Nat :
          /\ m + n = d
          /\ \A e \in {0, 1} :
               /\ NewRating(r, q, e) = Quotient(r * d + 32 * (e * d - m), d)
               /\ NewRating(q, r, e) = Quotient(q * d + 32 * (e * d - n), d)
  BY Expectations
<1>1. /\ m + n = d
      /\ NewRating(r, q, 1) = Quotient(r * d + 32 * (1 * d - m), d)
      /\ NewRating(q, r, 0) = Quotient(q * d + 32 * (0 * d - n), d)
  BY <1>0
<1> DEFINE x == d * r + 32 * n
           y == d * q - 32 * n
           v == Quotient(x, d)
           u == Quotient(y, d)
<1>2. /\ x \in Nat /\ y \in Int
      /\ r * d + 32 * (1 * d - m) = x
      /\ q * d + 32 * (0 * d - n) = y
  BY <1>1
<1>3. v \in Int /\ d * v <= x
  BY <1>2, QuotientBounds
<1>4. /\ u \in Int
      /\ y >= 0 => d * u <= y
      /\ y < 0 => d * u >= y /\ y > d * u - d
  BY <1>2, QuotientBounds
<1>5. u >= 0
  BY <1>1, <1>2
<1>a. NewRating(r, q, 1) = v /\ NewRating(q, r, 0) = u
  BY <1>1, <1>2
<1> HIDE DEF v, u
<1>6. v \in Int /\ r + q - u \in Int
  BY <1>3, <1>4
<1>7. d * v < d * (r + q - u) + d
  <2>1. d * (r + q - u) = d * r + d * q - d * u
    BY <1>4
  <2>2. CASE y >= 0
    BY <2>1, <2>2, <1>3, <1>4
  <2>3. CASE y < 0
    <3>1. u = 0
      <4> SUFFICES ASSUME u >= 1 PROVE FALSE
        BY <1>4, <1>5
      <4>1. d * u >= d
        BY <1>4
      <4> QED
        BY <4>1, <2>3, <1>2, <1>4
    <3>2. y > -d
      BY <3>1, <2>3, <1>4
    <3> QED
      BY <2>1, <3>1, <3>2, <1>3
  <2> QED
    BY <2>2, <2>3, <1>2
<1>8. v <= r + q - u
  BY <1>6, <1>7, Cancel
<1> QED
  BY <1>3, <1>4, <1>8, <1>a

-----------------------------------------------------------------------------
(* The sum of all ratings.                                                 *)

IsSum(f, ps) ==
    /\ f \in [0 .. Len(ps) -> Int]
    /\ f[0] = 0
    /\ \A k \in 1 .. Len(ps) : f[k] = f[k - 1] + ps[k].rating

(* Total is the last of the partial sums.                                  *)
LEMMA TotalIsSum ==
    ASSUME NEW ps \in Seq(PlayerType)
    PROVE  \E f : IsSum(f, ps) /\ Total(ps) = f[Len(ps)]
<1> DEFINE N == Len(ps)
           Part(n) == {f \in [0 .. n -> Int] :
                         /\ f[0] = 0
                         /\ \A k \in 1 .. n : f[k] = f[k - 1] + ps[k].rating}
           S == {n \in 0 .. N : Part(n) # {}}
<1>1. N \in Nat /\ \A k \in 1 .. N : ps[k].rating \in Int
  <2>1. N \in Nat /\ \A k \in 1 .. N : ps[k] \in PlayerType
    OBVIOUS
  <2> QED
    BY <2>1 DEF PlayerType
<1>2. 0 \in S
  <2>1. [k \in 0 .. 0 |-> 0] \in Part(0)
    OBVIOUS
  <2> QED
    BY <2>1, <1>1
<1>3. ASSUME NEW n \in 0 .. N - 1, n \in S PROVE n + 1 \in S
  <2>1. PICK f : f \in Part(n)
    BY <1>3
  <2> DEFINE g == [k \in 0 .. n + 1 |-> IF k = n + 1 THEN f[n] + ps[n + 1].rating ELSE f[k]]
  <2>2. g \in [0 .. n + 1 -> Int] /\ g[0] = 0
    BY <1>1, <2>1
  <2>3. ASSUME NEW k \in 1 .. n + 1 PROVE g[k] = g[k - 1] + ps[k].rating
    <3>1. CASE k = n + 1
      BY <3>1, <2>1
    <3>2. CASE k # n + 1
      BY <3>2, <2>1
    <3> QED
      BY <3>1, <3>2
  <2> HIDE DEF g
  <2>4. g \in Part(n + 1)
    BY <2>2, <2>3
  <2>5. n + 1 \in 0 .. N /\ Part(n + 1) # {}
    <3> HIDE DEF Part
    <3> QED
      BY <2>4, <1>1
  <2> QED
    BY <2>5
<1>4. N \in S
  <2> HIDE DEF S, N
  <2>1. \A n \in 0 .. N : n \in S
    BY <1>1, <1>2, <1>3, UpTo
  <2> QED
    BY <2>1, <1>1
<1>5. PICK f : f \in Part(N)
  BY <1>4
<1> DEFINE Eq(h) == h = [k \in 0 .. N |-> IF k = 0 THEN 0 ELSE h[k - 1] + ps[k].rating]
<1>6. Eq(f)
  <2>1. f = [k \in 0 .. N |-> f[k]]
    BY <1>5
  <2>2. \A k \in 0 .. N : f[k] = IF k = 0 THEN 0 ELSE f[k - 1] + ps[k].rating
    BY <1>1, <1>5
  <2> QED
    BY <2>1, <2>2
<1> DEFINE sum == CHOOSE h : Eq(h)
<1>7. Eq(sum)
  <2> HIDE DEF Eq
  <2> QED
    BY <1>6
<1>8. Total(ps) = sum[N]
  BY DEF Total
<1> HIDE DEF sum
<1>9. \A k \in 0 .. N : sum[k] = IF k = 0 THEN 0 ELSE sum[k - 1] + ps[k].rating
  BY <1>7
<1>10. \A k \in 0 .. N : sum[k] \in Int
  <2> DEFINE T == {k \in 0 .. N : sum[k] \in Int}
  <2>1. 0 \in T
    BY <1>1, <1>9
  <2>2. ASSUME NEW k \in 0 .. N - 1, k \in T PROVE k + 1 \in T
    BY <1>1, <1>9, <2>2
  <2> HIDE DEF T, N
  <2>3. \A k \in 0 .. N : k \in T
    BY <1>1, <2>1, <2>2, UpTo
  <2> QED
    BY <2>3 DEF T
<1>11. sum \in [0 .. N -> Int]
  <2>1. sum = [k \in 0 .. N |-> sum[k]]
    BY <1>7
  <2> QED
    BY <2>1, <1>10
<1>12. IsSum(sum, ps)
  <2>1. sum[0] = 0 /\ \A k \in 1 .. N : sum[k] = sum[k - 1] + ps[k].rating
    BY <1>1, <1>9
  <2> QED
    BY <2>1, <1>11 DEF IsSum
<1> QED
  BY <1>8, <1>12

(* Two lists that differ in the ratings of at most two players.            *)
Differ(ps, qs, a, da, b, db) ==
    /\ Len(ps) = Len(qs) /\ a # b
    /\ \A k \in 1 .. Len(ps) :
         qs[k].rating = ps[k].rating + (IF k = a THEN da ELSE IF k = b THEN db ELSE 0)

(* The sum of all ratings changes by what two of them change.              *)
LEMMA TotalChange ==
    ASSUME NEW ps \in Seq(PlayerType), NEW qs \in Seq(PlayerType),
           NEW a \in Nat, NEW b \in Nat, NEW da \in Int, NEW db \in Int,
           Differ(ps, qs, a, da, b, db)
    PROVE  /\ Total(ps) \in Int /\ Total(qs) \in Int
           /\ Total(qs) = Total(ps) + (IF a \in 1 .. Len(ps) THEN da ELSE 0)
                                    + (IF b \in 1 .. Len(ps) THEN db ELSE 0)
<1> USE DEF Differ
<1>1. PICK f : IsSum(f, ps) /\ Total(ps) = f[Len(ps)]
  BY TotalIsSum
<1>2. PICK g : IsSum(g, qs) /\ Total(qs) = g[Len(qs)]
  BY TotalIsSum
<1> DEFINE N == Len(ps)
           T == {k \in 0 .. N : g[k] = f[k] + (IF a \in 1 .. k THEN da ELSE 0)
                                            + (IF b \in 1 .. k THEN db ELSE 0)}
<1>3. /\ N \in Nat /\ \A k \in 1 .. N : ps[k].rating \in Int /\ qs[k].rating \in Int
      /\ \A k \in 0 .. N : f[k] \in Int /\ g[k] \in Int
  <2>1. N \in Nat /\ \A k \in 1 .. N : ps[k] \in PlayerType /\ qs[k] \in PlayerType
    OBVIOUS
  <2>2. \A k \in 0 .. N : f[k] \in Int /\ g[k] \in Int
    BY <1>1, <1>2 DEF IsSum
  <2> QED
    BY <2>1, <2>2 DEF PlayerType
<1>4. 0 \in T
  BY <1>1, <1>2, <1>3 DEF IsSum
<1>5. ASSUME NEW k \in 0 .. N - 1, k \in T PROVE k + 1 \in T
  <2>1. k + 1 \in 1 .. N /\ (k + 1) - 1 = k
    BY <1>3
  <2>2. f[k + 1] = f[k] + ps[k + 1].rating /\ g[k + 1] = g[k] + qs[k + 1].rating
    BY <2>1, <1>1, <1>2 DEF IsSum
  <2>3. /\ a \in 1 .. k + 1 <=> a \in 1 .. k \/ a = k + 1
        /\ b \in 1 .. k + 1 <=> b \in 1 .. k \/ b = k + 1
    BY <2>1
  <2>4. k \in Int /\ f[k] \in Int /\ g[k] \in Int /\ ps[k + 1].rating \in Int
    BY <2>1, <1>3
  <2>5. qs[k + 1].rating = ps[k + 1].rating
              + (IF k + 1 = a THEN da ELSE IF k + 1 = b THEN db ELSE 0)
    BY <2>1
  <2>6. g[k] = f[k] + (IF a \in 1 .. k THEN da ELSE 0) + (IF b \in 1 .. k THEN db ELSE 0)
    BY <1>5
  <2>7. CASE a = k + 1
    BY <2>2, <2>3, <2>4, <2>5, <2>6, <2>7
  <2>8. CASE b = k + 1
    BY <2>2, <2>3, <2>4, <2>5, <2>6, <2>8
  <2>9. CASE a # k + 1 /\ b # k + 1
    BY <2>2, <2>3, <2>4, <2>5, <2>6, <2>9
  <2> QED
    BY <2>7, <2>8, <2>9
<1>6. N \in T
  <2> HIDE DEF T, N
  <2>1. \A k \in 0 .. N : k \in T
    BY <1>3, <1>4, <1>5, UpTo
  <2> QED
    BY <2>1, <1>3
<1> QED
  BY <1>1, <1>2, <1>3, <1>6

-----------------------------------------------------------------------------
(* The uses of a player are a finite set.                                  *)
LEMMA UsesFinite ==
    ASSUME NEW k
    PROVE  IsFiniteSet(Uses(k)) /\ Cardinality(Uses(k)) \in Nat
<1>1. IsFiniteSet({1, 2})
  <2>1. IsFiniteSet({1}) /\ {1} \cup {2} = {1, 2}
    BY FS_Singleton
  <2> QED
    BY <2>1, FS_AddElement
<1>2. IsFiniteSet(Threads \X {1, 2})
  BY <1>1, PlayersAssumption, FS_Product
<1>3. Uses(k) \subseteq Threads \X {1, 2}
  BY DEF Uses
<1> QED
  BY <1>2, <1>3, FS_Subset, FS_CardinalityType

LEMMA InitIInv == Init => IInv
<1> SUFFICES ASSUME Init PROVE IInv
  OBVIOUS
<1> USE PlayersAssumption DEF Init
<1>1. TypeInv
  BY DEF TypeInv, Points, LoggedIn
<1>2. Locals
  BY DEF Locals
<1>3. LocksOwned
  BY DEF LocksOwned
<1>4. ReferencesHeld
  BY DEF ReferencesHeld
<1> QED
  BY <1>1, <1>2, <1>3, <1>4 DEF IInv

(* A step that leaves every count alone and makes no new use.              *)
LEMMA UsesStable ==
    ASSUME ReferencesHeld, DOMAIN players' = DOMAIN players,
           \A k \in DOMAIN players : players[k].count \in Int,
           \A k \in DOMAIN players : players'[k].count = players[k].count,
           \A k \in DOMAIN players : Uses(k)' \subseteq Uses(k)
    PROVE  ReferencesHeld'
<1> SUFFICES ASSUME NEW k \in DOMAIN players
             PROVE  players'[k].count >= 1 + Cardinality(Uses(k)')
  BY DEF ReferencesHeld
<1>1. /\ Cardinality(Uses(k)') <= Cardinality(Uses(k))
      /\ Cardinality(Uses(k)') \in Nat /\ Cardinality(Uses(k)) \in Nat
  BY UsesFinite, FS_Subset, FS_CardinalityType
<1>2. players[k].count >= 1 + Cardinality(Uses(k))
  BY DEF ReferencesHeld
<1> QED
  BY <1>1, <1>2

(* A reference is taken for one more use.                                  *)
LEMMA UseAdded ==
    ASSUME ReferencesHeld, NEW k \in DOMAIN players, NEW use,
           DOMAIN players' = DOMAIN players,
           \A j \in DOMAIN players : players[j].count \in Int,
           players'[k].count = players[k].count + 1,
           \A j \in DOMAIN players \ {k} : players'[j].count = players[j].count,
           Uses(k)' \subseteq Uses(k) \cup {use},
           \A j \in DOMAIN players \ {k} : Uses(j)' \subseteq Uses(j)
    PROVE  ReferencesHeld'
<1> SUFFICES ASSUME NEW j \in DOMAIN players
             PROVE  players'[j].count >= 1 + Cardinality(Uses(j)')
  BY DEF ReferencesHeld
<1>1. players[j].count >= 1 + Cardinality(Uses(j)) /\ Cardinality(Uses(j)) \in Nat
  BY UsesFinite DEF ReferencesHeld
<1>2. CASE j # k
  <2>1. Cardinality(Uses(j)') <= Cardinality(Uses(j)) /\ Cardinality(Uses(j)') \in Nat
    BY <1>2, UsesFinite, FS_Subset, FS_CardinalityType
  <2> QED
    BY <2>1, <1>1, <1>2
<1>3. CASE j = k
  <2> DEFINE U == Uses(k) \cup {use}
  <2>1. IsFiniteSet(U) /\ Cardinality(U) <= Cardinality(Uses(k)) + 1
    <3>1. IsFiniteSet(Uses(k)) /\ Cardinality(Uses(k)) \in Nat
      BY UsesFinite
    <3>2. /\ IsFiniteSet(U)
          /\ Cardinality(U) = IF use \in Uses(k) THEN Cardinality(Uses(k))
                                              ELSE Cardinality(Uses(k)) + 1
      BY <3>1, FS_AddElement
    <3> QED
      BY <3>1, <3>2
  <2>2. /\ Cardinality(Uses(k)') <= Cardinality(U) /\ Cardinality(Uses(k)') \in Nat
        /\ Cardinality(U) \in Nat
    BY <2>1, FS_Subset, FS_CardinalityType
  <2> HIDE DEF U
  <2> QED
    BY <2>1, <2>2, <1>1, <1>3
<1> QED
  BY <1>2, <1>3

(* A reference is dropped with the use it was for.                         *)
LEMMA UseEnded ==
    ASSUME ReferencesHeld, NEW k \in DOMAIN players, NEW use \in Uses(k),
           DOMAIN players' = DOMAIN players,
           \A j \in DOMAIN players : players[j].count \in Int,
           players'[k].count = players[k].count - 1,
           \A j \in DOMAIN players \ {k} : players'[j].count = players[j].count,
           Uses(k)' \subseteq Uses(k) \ {use},
           \A j \in DOMAIN players \ {k} : Uses(j)' \subseteq Uses(j)
    PROVE  ReferencesHeld'
<1> SUFFICES ASSUME NEW j \in DOMAIN players
             PROVE  players'[j].count >= 1 + Cardinality(Uses(j)')
  BY DEF ReferencesHeld
<1>1. players[j].count >= 1 + Cardinality(Uses(j)) /\ Cardinality(Uses(j)) \in Nat
  BY UsesFinite DEF ReferencesHeld
<1>2. CASE j # k
  <2>1. Cardinality(Uses(j)') <= Cardinality(Uses(j)) /\ Cardinality(Uses(j)') \in Nat
    BY <1>2, UsesFinite, FS_Subset, FS_CardinalityType
  <2> QED
    BY <2>1, <1>1, <1>2
<1>3. CASE j = k
  <2> DEFINE U == Uses(k) \ {use}
  <2>1. IsFiniteSet(U) /\ Cardinality(U) = Cardinality(Uses(k)) - 1
    BY UsesFinite, FS_RemoveElement
  <2>2. /\ Cardinality(Uses(k)') <= Cardinality(U) /\ Cardinality(Uses(k)') \in Nat
        /\ Cardinality(U) \in Nat
    BY <2>1, FS_Subset, FS_CardinalityType
  <2> HIDE DEF U
  <2> QED
    BY <2>1, <2>2, <1>1, <1>3
<1> QED
  BY <1>2, <1>3

(* A posted result changes the two ratings and nothing else.               *)
LEMMA PostEffect ==
    ASSUME IInv, NEW t \in Threads, player_post_result(t)
    PROVE  /\ p1[t] \in DOMAIN players /\ p2[t] \in DOMAIN players /\ p1[t] # p2[t]
           /\ players' \in Seq(PlayerType) /\ DOMAIN players' = DOMAIN players
           /\ Len(players') = Len(players)
           /\ \A k \in DOMAIN players : players'[k].count = players[k].count
           /\ \A k \in DOMAIN players \ {p1[t], p2[t]} : players'[k] = players[k]
           /\ players'[p1[t]].rating = NewRating(players[p1[t]].rating,
                                     players[p2[t]].rating, Score(1, result[t]))
           /\ players'[p2[t]].rating = NewRating(players[p2[t]].rating,
                                     players[p1[t]].rating, Score(2, result[t]))
<1> DEFINE a == p1[t]
           b == p2[t]
           x == NewRating(players[a].rating, players[b].rating, Score(1, result[t]))
           y == NewRating(players[b].rating, players[a].rating, Score(2, result[t]))
<1>1. a \in DOMAIN players /\ b \in DOMAIN players /\ a # b
  BY DEF IInv, Locals, LocksOwned, player_post_result, Goto
<1>2. /\ Len(players) \in Nat /\ DOMAIN players = 1 .. Len(players)
      /\ \A k \in DOMAIN players : players[k] \in PlayerType
  BY DEF IInv, TypeInv
<1>3. players[a].rating \in Int /\ players[b].rating \in Int
  BY <1>1, <1>2 DEF PlayerType
<1>4. Score(1, result[t]) \in {0, 1} /\ Score(2, result[t]) \in {0, 1}
  BY DEF Score
<1>5. x \in Int /\ y \in Int
  BY <1>3, <1>4, RatingMoves
<1> DEFINE mid == [players EXCEPT ![a] = [players[a] EXCEPT !.rating = x]]
<1>6. players' = [mid EXCEPT ![b] = [mid[b] EXCEPT !.rating = y]]
  BY DEF player_post_result
<1> HIDE DEF x, y, a, b
<1>7. /\ [players[a] EXCEPT !.rating = x] \in PlayerType
      /\ [players[a] EXCEPT !.rating = x].rating = x
      /\ [players[a] EXCEPT !.rating = x].count = players[a].count
  BY <1>1, <1>2, <1>5 DEF PlayerType
<1>8. /\ mid \in Seq(PlayerType) /\ DOMAIN mid = DOMAIN players /\ Len(mid) = Len(players)
      /\ mid[a].rating = x /\ mid[a].count = players[a].count
      /\ \A k \in DOMAIN players \ {a} : mid[k] = players[k]
  BY <1>1, <1>2, <1>7 DEF IInv, TypeInv
<1> HIDE DEF mid
<1>9. mid[b] \in PlayerType /\ mid[b].count = players[b].count
  BY <1>1, <1>2, <1>8
<1>10. /\ [mid[b] EXCEPT !.rating = y] \in PlayerType
       /\ [mid[b] EXCEPT !.rating = y].rating = y
       /\ [mid[b] EXCEPT !.rating = y].count = mid[b].count
  BY <1>5, <1>9 DEF PlayerType
<1>11. /\ players' \in Seq(PlayerType) /\ DOMAIN players' = DOMAIN players
       /\ Len(players') = Len(players)
       /\ players'[b].rating = y /\ players'[b].count = players[b].count
       /\ \A k \in DOMAIN players \ {b} : players'[k] = mid[k]
  BY <1>1, <1>2, <1>6, <1>8, <1>9, <1>10
<1>12. players'[a].rating = x /\ players'[a].count = players[a].count
  BY <1>1, <1>8, <1>11
<1>13. \A k \in DOMAIN players : players'[k].count = players[k].count
  BY <1>8, <1>11, <1>12
<1>14. \A k \in DOMAIN players \ {a, b} : players'[k] = players[k]
  BY <1>8, <1>11
<1> QED
  BY <1>1, <1>11, <1>12, <1>13, <1>14 DEF x, y, a, b

-----------------------------------------------------------------------------
(* Every step preserves the invariant: one case for each action.           *)
LEMMA NextIInv == IInv /\ [Next]_vars => IInv'
<1> SUFFICES ASSUME IInv, [Next]_vars PROVE IInv'
  OBVIOUS
<1> USE PlayersAssumption DEF args, Points, LoggedIn
<1> TypeInv /\ Locals /\ LocksOwned /\ ReferencesHeld
  BY DEF IInv
<1>a. /\ Len(players) \in Nat /\ DOMAIN players = 1 .. Len(players)
      /\ \A k \in DOMAIN players : players[k] \in PlayerType
  BY DEF TypeInv
<1>b. \A k \in DOMAIN players : players[k].count \in Int
  BY <1>a DEF PlayerType
<1>1. ASSUME NEW t \in Threads, NEW n \in Names, RegisterLock(t, n) PROVE IInv'
  <2> USE <1>1 DEF RegisterLock, Goto
  <2>1. TypeInv'
    BY DEF TypeInv
  <2>2. Locals'
    BY DEF TypeInv, Locals
  <2>3. LocksOwned'
    BY DEF TypeInv, LocksOwned
  <2>4. ReferencesHeld'
    <3>1. \A k \in DOMAIN players : Uses(k)' \subseteq Uses(k)
      BY DEF TypeInv, Uses
    <3> QED
      BY <3>1, <1>b, UsesStable
  <2> QED
    BY <2>1, <2>2, <2>3, <2>4 DEF IInv
<1>2. ASSUME NEW t \in Threads, RegisterKnown(t) PROVE IInv'
  <2> USE DEF Goto
  <2>0. PICK k \in Known(want[t]) :
           /\ k \notin locked
           /\ players' = [players EXCEPT ![k].count = @ + 1]
           /\ me' = [me EXCEPT ![t] = k]
    BY <1>2 DEF RegisterKnown, player_ref
  <2>a. /\ pc[t] = "register" /\ pc' = [pc EXCEPT ![t] = "login"]
        /\ UNCHANGED <<locked, want, p1, p2, result>>
    BY <1>2 DEF RegisterKnown
  <2>b. k \in DOMAIN players
    BY DEF Known
  <2>c. /\ players' \in Seq(PlayerType) /\ DOMAIN players' = DOMAIN players
        /\ players'[k].count = players[k].count + 1
        /\ \A j \in DOMAIN players \ {k} : players'[j] = players[j]
    <3>1. [players[k] EXCEPT !.count = @ + 1] \in PlayerType
      BY <1>a, <2>b DEF PlayerType
    <3>2. players' = [players EXCEPT ![k] = [players[k] EXCEPT !.count = @ + 1]]
      BY <2>0
    <3>3. [players[k] EXCEPT !.count = @ + 1].count = players[k].count + 1
      BY <1>a, <2>b DEF PlayerType
    <3> QED
      BY <3>1, <3>2, <3>3, <1>a, <2>b DEF TypeInv
  <2>1. TypeInv'
    BY <1>a, <2>0, <2>a, <2>b, <2>c DEF TypeInv
  <2>2. Locals'
    BY <2>0, <2>a, <2>b, <2>c DEF TypeInv, Locals
  <2>3. LocksOwned'
    BY <2>0, <2>a DEF TypeInv, LocksOwned
  <2>4. ReferencesHeld'
    <3>1. me[t] = 0 /\ 0 \notin DOMAIN players
      BY <1>a, <2>a DEF Locals
    <3>2. Uses(k)' \subseteq Uses(k) \cup {<<t, 1>>}
      BY <2>0, <2>a, <2>b DEF TypeInv, Uses
    <3>3. \A j \in DOMAIN players \ {k} : Uses(j)' \subseteq Uses(j)
      BY <2>0, <2>a, <3>1 DEF TypeInv, Uses
    <3> QED
      BY <3>2, <3>3, <1>b, <2>b, <2>c, UseAdded
  <2> QED
    BY <2>1, <2>2, <2>3, <2>4 DEF IInv
<1>3. ASSUME NEW t \in Threads, RegisterNew(t) PROVE IInv'
  <2>n. PICK N : N = Len(players) + 1
    OBVIOUS
  <2>0. PICK p \in player_create(want[t]) : players' = Append(players, p)
    BY <1>3 DEF RegisterNew
  <2>a. /\ pc[t] = "register" /\ pc' = [pc EXCEPT ![t] = "login"]
        /\ me' = [me EXCEPT ![t] = N]
        /\ UNCHANGED <<locked, want, p1, p2, result>>
    BY <1>3, <2>n DEF RegisterNew, Goto
  <2>b. p \in PlayerType /\ p.count = 2
    BY DEF player_create, PlayerType, TypeInv
  <2>c. /\ players' \in Seq(PlayerType) /\ DOMAIN players' = DOMAIN players \cup {N}
        /\ players'[N] = p /\ N \notin DOMAIN players /\ N \in Nat
        /\ \A j \in DOMAIN players : players'[j] = players[j]
    BY <1>a, <2>0, <2>b, <2>n DEF TypeInv
  <2>1. TypeInv'
    BY <2>a, <2>c DEF TypeInv
  <2>2. Locals'
    BY <2>a, <2>c DEF TypeInv, Locals
  <2>3. LocksOwned'
    BY <2>a DEF TypeInv, LocksOwned
  <2>4. ReferencesHeld'
    <3> SUFFICES ASSUME NEW k \in DOMAIN players'
                 PROVE  players'[k].count >= 1 + Cardinality(Uses(k)')
      BY DEF ReferencesHeld
    <3>1. CASE k = N
      <4>1. \A u \in Threads : me[u] # N
        BY <1>a, <2>c, <2>n DEF Locals
      <4>2. Uses(N)' \subseteq {<<t, 1>>}
        <5> SUFFICES ASSUME NEW use \in Threads \X {1, 2}, me'[use[1]] = N,
                            use[2] = 2 => pc'[use[1]] \in LoggedIn
                     PROVE  use = <<t, 1>>
          BY DEF Uses
        <5>1. use[1] = t
          BY <4>1, <2>a DEF TypeInv
        <5>2. use[2] = 1
          BY <5>1, <2>a DEF TypeInv
        <5> QED
          BY <5>1, <5>2
      <4>3. IsFiniteSet({<<t, 1>>}) /\ Cardinality({<<t, 1>>}) = 1
        BY FS_Singleton
      <4>4. Cardinality(Uses(N)') <= 1 /\ Cardinality(Uses(N)') \in Nat
        BY <4>2, <4>3, FS_Subset, FS_CardinalityType
      <4> QED
        BY <3>1, <4>4, <2>b, <2>c
    <3>2. CASE k # N
      <4>1. k \in DOMAIN players /\ players'[k] = players[k]
        BY <3>2, <2>c
      <4>2. Uses(k)' \subseteq Uses(k)
        BY <3>2, <2>a DEF TypeInv, Uses
      <4>3. /\ Cardinality(Uses(k)') <= Cardinality(Uses(k))
            /\ Cardinality(Uses(k)') \in Nat /\ Cardinality(Uses(k)) \in Nat
        BY <4>2, UsesFinite, FS_Subset, FS_CardinalityType
      <4> QED
        BY <4>1, <4>3, <1>b DEF ReferencesHeld
    <3> QED
      BY <3>1, <3>2
  <2> QED
    BY <2>1, <2>2, <2>3, <2>4 DEF IInv
<1>4. ASSUME NEW t \in Threads, Login(t) PROVE IInv'
  <2>a. /\ pc[t] = "login" /\ want' = [want EXCEPT ![t] = None]
        /\ UNCHANGED <<locked, p1, p2, result>>
    BY <1>4 DEF Login
  <2>k. PICK k : k = me[t]
    OBVIOUS
  <2>b. k \in DOMAIN players
    BY <2>a, <2>k DEF Locals
  <2>1. CASE /\ players' = [players EXCEPT ![me[t]].count = @ + 1]
             /\ pc' = [pc EXCEPT ![t] = "in"] /\ me' = me
    <3>c. /\ players' \in Seq(PlayerType) /\ DOMAIN players' = DOMAIN players
          /\ players'[k].count = players[k].count + 1
          /\ \A j \in DOMAIN players \ {k} : players'[j] = players[j]
      <4>1. [players[k] EXCEPT !.count = @ + 1] \in PlayerType
        BY <1>a, <2>b DEF PlayerType
      <4>2. players' = [players EXCEPT ![k] = [players[k] EXCEPT !.count = @ + 1]]
        BY <2>1, <2>k
      <4>3. [players[k] EXCEPT !.count = @ + 1].count = players[k].count + 1
        BY <1>a, <2>b DEF PlayerType
      <4> QED
        BY <4>1, <4>2, <4>3, <1>a, <2>b DEF TypeInv
    <3>1. TypeInv'
      BY <2>a, <2>1, <3>c DEF TypeInv
    <3>2. Locals'
      BY <2>a, <2>b, <2>k, <2>1, <3>c DEF TypeInv, Locals
    <3>3. LocksOwned'
      BY <2>a, <2>1 DEF TypeInv, LocksOwned
    <3>4. ReferencesHeld'
      <4>1. Uses(k)' \subseteq Uses(k) \cup {<<t, 2>>}
        BY <2>a, <2>k, <2>1 DEF TypeInv, Uses
      <4>2. \A j \in DOMAIN players \ {k} : Uses(j)' \subseteq Uses(j)
        BY <2>a, <2>k, <2>1 DEF TypeInv, Uses
      <4> QED
        BY <4>1, <4>2, <1>b, <2>b, <3>c, UseAdded
    <3> QED
      BY <3>1, <3>2, <3>3, <3>4 DEF IInv
  <2>2. CASE /\ pc' = [pc EXCEPT ![t] = "idle"] /\ me' = [me EXCEPT ![t] = 0]
             /\ players' = players
    <3>1. TypeInv'
      BY <2>a, <2>2 DEF TypeInv
    <3>2. Locals'
      BY <2>a, <2>2 DEF TypeInv, Locals
    <3>3. LocksOwned'
      BY <2>a, <2>2 DEF TypeInv, LocksOwned
    <3>4. ReferencesHeld'
      <4>1. \A j \in DOMAIN players : Uses(j)' \subseteq Uses(j)
        BY <1>a, <2>a, <2>2 DEF TypeInv, Uses
      <4> QED
        BY <4>1, <1>b, <2>2, UsesStable
    <3> QED
      BY <3>1, <3>2, <3>3, <3>4 DEF IInv
  <2> QED
    BY <1>4, <2>1, <2>2 DEF Login, player_ref
<1>5. ASSUME NEW t \in Threads, NEW from, NEW to, player_unref(t, from, to),
             <<from, to>> \in {<<"in", "logout">>, <<"logout", "idle">>}
      PROVE  IInv'
  <2>a. /\ pc[t] = from /\ pc' = [pc EXCEPT ![t] = to]
        /\ players' = [players EXCEPT ![me[t]].count = @ - 1]
        /\ me' = [me EXCEPT ![t] = IF to = "idle" THEN 0 ELSE @]
        /\ UNCHANGED <<locked, want, p1, p2, result>>
        /\ from \in {"in", "logout"} /\ to = IF from = "in" THEN "logout" ELSE "idle"
    BY <1>5 DEF player_unref, Goto
  <2>k. PICK k : k = me[t]
    OBVIOUS
  <2>b. k \in DOMAIN players
    BY <2>a, <2>k DEF Locals
  <2>c. /\ players' \in Seq(PlayerType) /\ DOMAIN players' = DOMAIN players
        /\ players'[k].count = players[k].count - 1
        /\ \A j \in DOMAIN players \ {k} : players'[j] = players[j]
    <3>1. [players[k] EXCEPT !.count = @ - 1] \in PlayerType
      BY <1>a, <2>b DEF PlayerType
    <3>2. players' = [players EXCEPT ![k] = [players[k] EXCEPT !.count = @ - 1]]
      BY <2>a, <2>k
    <3>3. [players[k] EXCEPT !.count = @ - 1].count = players[k].count - 1
      BY <1>a, <2>b DEF PlayerType
    <3> QED
      BY <3>1, <3>2, <3>3, <1>a, <2>b DEF TypeInv
  <2>1. TypeInv'
    BY <2>a, <2>c DEF TypeInv
  <2>2. Locals'
    BY <2>a, <2>b, <2>k, <2>c DEF TypeInv, Locals
  <2>3. LocksOwned'
    BY <2>a DEF TypeInv, LocksOwned
  <2>4. ReferencesHeld'
    <3> DEFINE use == IF from = "in" THEN <<t, 2>> ELSE <<t, 1>>
    <3>1. use \in Uses(k)
      BY <2>a, <2>k DEF TypeInv, Uses
    <3>2. Uses(k)' \subseteq Uses(k) \ {use}
      <4>1. CASE from = "in"
        BY <4>1, <1>a, <2>a, <2>b, <2>k DEF TypeInv, Uses
      <4>2. CASE from = "logout"
        BY <4>2, <1>a, <2>a, <2>b, <2>k DEF TypeInv, Uses
      <4> QED
        BY <4>1, <4>2, <2>a
    <3>3. \A j \in DOMAIN players \ {k} : Uses(j)' \subseteq Uses(j)
      BY <1>a, <2>a, <2>k DEF TypeInv, Uses
    <3> HIDE DEF use
    <3> QED
      BY <3>1, <3>2, <3>3, <1>b, <2>b, <2>c, UseEnded
  <2> QED
    BY <2>1, <2>2, <2>3, <2>4 DEF IInv
<1>6. ASSUME NEW t \in Threads, NEW u \in Threads, NEW first \in Threads,
             NEW res \in 0 .. 2, PostLock1(t, u, first, res)
      PROVE  IInv'
  <2> USE <1>6 DEF PostLock1, Goto
  <2>1. TypeInv'
    BY DEF TypeInv
  <2>2. Locals'
    BY DEF TypeInv, Locals
  <2>3. LocksOwned'
    BY DEF TypeInv, LocksOwned
  <2>4. ReferencesHeld'
    <3>1. \A k \in DOMAIN players : Uses(k)' \subseteq Uses(k)
      BY DEF TypeInv, Uses
    <3> QED
      BY <3>1, <1>b, UsesStable
  <2> QED
    BY <2>1, <2>2, <2>3, <2>4 DEF IInv
<1>7. ASSUME NEW t \in Threads, PostLock2(t) PROVE IInv'
  <2> USE <1>7 DEF PostLock2, Goto
  <2>1. TypeInv'
    BY DEF TypeInv
  <2>2. Locals'
    BY DEF TypeInv, Locals
  <2>3. LocksOwned'
    BY DEF TypeInv, LocksOwned
  <2>4. ReferencesHeld'
    <3>1. \A k \in DOMAIN players : Uses(k)' \subseteq Uses(k)
      BY DEF TypeInv, Uses
    <3> QED
      BY <3>1, <1>b, UsesStable
  <2> QED
    BY <2>1, <2>2, <2>3, <2>4 DEF IInv
<1>8. ASSUME NEW t \in Threads, player_post_result(t) PROVE IInv'
  <2>a. /\ pc[t] = "lock2" /\ pc' = [pc EXCEPT ![t] = "in"]
        /\ locked' = locked \ {p1[t]}
        /\ p1' = [p1 EXCEPT ![t] = 0] /\ p2' = [p2 EXCEPT ![t] = 0]
        /\ result' = [result EXCEPT ![t] = 0]
        /\ UNCHANGED <<me, want>>
    BY <1>8 DEF player_post_result, Goto
  <2>c. /\ players' \in Seq(PlayerType) /\ DOMAIN players' = DOMAIN players
        /\ \A k \in DOMAIN players : players'[k].count = players[k].count
    BY <1>8, PostEffect DEF IInv
  <2>1. TypeInv'
    <3>1. locked' \subseteq Nat
      BY <2>a DEF TypeInv
    <3>2. result' \in [Threads -> 0 .. 2]
      BY <2>a DEF TypeInv
    <3> QED
      BY <3>1, <3>2, <2>a, <2>c DEF TypeInv
  <2>2. Locals'
    BY <2>a, <2>c DEF TypeInv, Locals
  <2>3. LocksOwned'
    BY <2>a DEF TypeInv, LocksOwned
  <2>4. ReferencesHeld'
    <3>1. \A k \in DOMAIN players : Uses(k)' \subseteq Uses(k)
      BY <2>a DEF TypeInv, Uses
    <3> QED
      BY <3>1, <1>b, <2>c, UsesStable
  <2> QED
    BY <2>1, <2>2, <2>3, <2>4 DEF IInv
<1>9. CASE UNCHANGED vars
  BY <1>9 DEF vars, IInv, TypeInv, Locals, LocksOwned, ReferencesHeld, Uses
<1> QED
  BY <1>1, <1>2, <1>3, <1>4, <1>5, <1>6, <1>7, <1>8, <1>9 DEF Next

LEMMA Invariance == Spec => []IInv
<1> QED
  BY InitIInv, NextIInv, PTL DEF Spec

-----------------------------------------------------------------------------
(* A registered player has, beside the registry's own reference, one for   *)
(* every use that a thread makes of it: player_unref never frees it while  *)
(* it is registered, in whatever order threads log in, out and post.       *)
THEOREM ReferencesAreHeld == Spec => []ReferencesHeld
<1>1. IInv => ReferencesHeld
  BY DEF IInv
<1> QED
  BY <1>1, Invariance, PTL

(* A player whose mutex a thread holds in player_post_result is changed by *)
(* no other thread: neither rating nor reference count.                    *)
THEOREM LockedPlayersUntouched == Spec => LockedUntouched
<1> DEFINE A == \A t \in Threads : pc[t] = "lock2" /\ pc'[t] = "lock2" =>
                   players'[p1[t]] = players[p1[t]]
<1>1. IInv /\ [Next]_vars => [A]_vars
  <2> SUFFICES ASSUME IInv, Next, NEW t \in Threads, pc[t] = "lock2", pc'[t] = "lock2"
               PROVE  players'[p1[t]] = players[p1[t]]
    OBVIOUS
  <2>1. /\ p1[t] \in locked /\ p1[t] \in DOMAIN players
        /\ DOMAIN players = 1 .. Len(players) /\ Len(players) \in Nat
        /\ pc \in [Threads -> Points]
    BY DEF IInv, TypeInv, Locals, LocksOwned
  <2>2. ASSUME NEW u \in Threads, RegisterKnown(u) \/ Login(u)
                      \/ player_unref(u, "in", "logout") \/ player_unref(u, "logout", "idle")
        PROVE  players'[p1[t]] = players[p1[t]]
    BY <2>1, <2>2 DEF RegisterKnown, Login, player_ref, player_unref
  <2>3. ASSUME NEW u \in Threads, RegisterNew(u)
        PROVE  players'[p1[t]] = players[p1[t]]
    BY <2>1, <2>3 DEF RegisterNew, IInv, TypeInv
  <2>4. ASSUME NEW u \in Threads, player_post_result(u)
        PROVE  players'[p1[t]] = players[p1[t]]
    <3>1. u # t /\ pc[u] = "lock2" /\ p2[u] \notin locked
      BY <2>1, <2>4 DEF player_post_result, Goto
    <3>2. p1[t] \notin {p1[u], p2[u]}
      BY <2>1, <3>1 DEF IInv, LocksOwned
    <3> QED
      BY <2>1, <2>4, <3>2, PostEffect
  <2>5. ASSUME NEW u \in Threads,
               \/ \E n \in Names : RegisterLock(u, n)
               \/ \E v, first \in Threads, res \in 0 .. 2 : PostLock1(u, v, first, res)
               \/ PostLock2(u)
        PROVE  players'[p1[t]] = players[p1[t]]
    BY <2>5 DEF RegisterLock, PostLock1, PostLock2
  <2> QED
    BY <2>2, <2>3, <2>4, <2>5 DEF Next
<1> QED
  BY <1>1, Invariance, PTL DEF Spec, LockedUntouched

(* The winner of a posted game does not lose points and the loser does not *)
(* win any, whatever the ratings are, and whatever other threads post.     *)
THEOREM WinnersGain == Spec => WinnerGains
<1> DEFINE Good(t) ==
       LET winner == IF result[t] = 1 THEN p1[t] ELSE p2[t]
           loser  == IF result[t] = 1 THEN p2[t] ELSE p1[t]
       IN  /\ players'[winner].rating >= players[winner].rating
           /\ players'[loser].rating <= players[loser].rating
<1> DEFINE A == \A t \in Threads :
                   pc[t] = "lock2" /\ pc'[t] = "in" /\ result[t] # 0 => Good(t)
<1>1. IInv /\ [Next]_vars => [A]_vars
  <2> SUFFICES ASSUME IInv, Next, NEW t \in Threads, pc[t] = "lock2", pc'[t] = "in",
                      result[t] # 0
               PROVE  Good(t)
    OBVIOUS
  <2>1. player_post_result(t)
    <3>1. pc \in [Threads -> Points]
      BY DEF IInv, TypeInv
    <3> QED
      BY <3>1 DEF Next, RegisterLock, RegisterKnown, RegisterNew, Login, player_unref,
            PostLock1, PostLock2, player_post_result, Goto
  <2>2. /\ players[p1[t]] \in PlayerType /\ players[p2[t]] \in PlayerType
        /\ result[t] \in 1 .. 2
    BY <2>1, PostEffect DEF IInv, TypeInv
  <2>3. players[p1[t]].rating \in Int /\ players[p2[t]].rating \in Int
    BY <2>2 DEF PlayerType
  <2>4. CASE result[t] = 1
    <3>1. Score(1, result[t]) = 1 /\ Score(2, result[t]) = 0
      BY <2>4 DEF Score
    <3>2. /\ players'[p1[t]].rating = NewRating(players[p1[t]].rating, players[p2[t]].rating, 1)
          /\ players'[p2[t]].rating = NewRating(players[p2[t]].rating, players[p1[t]].rating, 0)
      BY <2>1, <3>1, PostEffect
    <3>3. /\ players'[p1[t]].rating >= players[p1[t]].rating
          /\ players'[p2[t]].rating <= players[p2[t]].rating
      BY <2>3, <3>2, RatingMoves
    <3> QED
      BY <2>4, <3>3
  <2>5. CASE result[t] = 2
    <3>1. Score(1, result[t]) = 0 /\ Score(2, result[t]) = 1
      BY <2>5 DEF Score
    <3>2. /\ players'[p2[t]].rating = NewRating(players[p2[t]].rating, players[p1[t]].rating, 1)
          /\ players'[p1[t]].rating = NewRating(players[p1[t]].rating, players[p2[t]].rating, 0)
      BY <2>1, <3>1, PostEffect
    <3>3. /\ players'[p2[t]].rating >= players[p2[t]].rating
          /\ players'[p1[t]].rating <= players[p1[t]].rating
      BY <2>3, <3>2, RatingMoves
    <3> QED
      BY <2>5, <3>3
  <2> QED
    BY <2>2, <2>4, <2>5
<1> QED
  BY <1>1, Invariance, PTL DEF Spec, WinnerGains

(* No step other than a registration raises the sum of all ratings, while  *)
(* ratings are not negative: player_post_result never creates points and   *)
(* no concurrent update of a rating is lost.                               *)
THEOREM PointsAreConserved == Spec => NoPointsFromNowhere
<1> DEFINE A == Len(players') = Len(players)
                    /\ (\A k \in DOMAIN players : players[k].rating >= 0
                                                 /\ players'[k].rating >= 0)
                => Total(players') <= Total(players)
<1>1. IInv /\ [Next]_vars => [A]_vars
  <2> SUFFICES ASSUME IInv, Next, Len(players') = Len(players),
                      \A k \in DOMAIN players : players[k].rating >= 0
                                               /\ players'[k].rating >= 0
               PROVE  Total(players') <= Total(players)
    OBVIOUS
  <2>1. IInv'
    BY NextIInv
  <2>2. /\ players \in Seq(PlayerType) /\ players' \in Seq(PlayerType)
        /\ Len(players) \in Nat /\ DOMAIN players = 1 .. Len(players)
        /\ \A k \in DOMAIN players : players[k] \in PlayerType
    BY <2>1 DEF IInv, TypeInv
  <2>3. \A k \in DOMAIN players : players[k].rating \in Int
    BY <2>2 DEF PlayerType
  <2>4. ASSUME \A k \in 1 .. Len(players) : players'[k].rating = players[k].rating
        PROVE  Total(players') <= Total(players)
    <3>1. PICK z \in Int, a \in Nat, b \in Nat : z = 0 /\ a = 0 /\ b = 1
      OBVIOUS
    <3>2. Differ(players, players', a, z, b, z)
      BY <2>2, <2>3, <2>4, <3>1 DEF Differ
    <3>3. /\ Total(players) \in Int
          /\ Total(players') = Total(players) + (IF a \in 1 .. Len(players) THEN z ELSE 0)
                                              + (IF b \in 1 .. Len(players) THEN z ELSE 0)
      BY <2>2, <3>2, TotalChange
    <3> QED
      BY <3>1, <3>3
  <2>5. ASSUME NEW t \in Threads, player_post_result(t)
        PROVE  Total(players') <= Total(players)
    <3>a. PICK a \in DOMAIN players, b \in DOMAIN players : a = p1[t] /\ b = p2[t] /\ a # b
      BY <2>5, PostEffect
    <3> DEFINE r == players[a].rating
               q == players[b].rating
               x == NewRating(r, q, Score(1, result[t]))
               y == NewRating(q, r, Score(2, result[t]))
    <3>1. /\ \A k \in DOMAIN players \ {a, b} : players'[k] = players[k]
          /\ players'[a].rating = x /\ players'[b].rating = y
      BY <2>5, <3>a, PostEffect
    <3>2. r \in Int /\ q \in Int /\ r >= 0 /\ q >= 0
      BY <2>3
    <3>3. Score(1, result[t]) \in {0, 1} /\ Score(2, result[t]) \in {0, 1}
      BY DEF Score
    <3>4. x \in Int /\ y \in Int /\ x >= 0 /\ y >= 0
      BY <3>1, <3>2, <3>3, RatingMoves
    <3>5. x + y <= r + q
      <4>0. result[t] \in 0 .. 2
        BY DEF IInv, TypeInv
      <4>1. CASE result[t] = 1
        <5>1. x = NewRating(r, q, 1) /\ y = NewRating(q, r, 0)
          BY <4>1 DEF Score
        <5> QED
          BY <5>1, <3>2, <3>4, LoserPays
      <4>2. CASE result[t] = 2
        <5>1. x = NewRating(r, q, 0) /\ y = NewRating(q, r, 1)
          BY <4>2 DEF Score
        <5>2. NewRating(q, r, 1) + NewRating(r, q, 0) <= q + r
          BY <5>1, <3>2, <3>4, LoserPays
        <5> QED
          BY <5>1, <5>2, <3>2, <3>4
      <4>3. CASE result[t] = 0
        <5>1. x = NewRating(r, q, 0) /\ y = NewRating(q, r, 0)
          BY <4>3 DEF Score
        <5>2. x <= r /\ y <= q
          BY <5>1, <3>2, RatingMoves
        <5> QED
          BY <5>2, <3>2, <3>4
      <4> QED
        BY <4>0, <4>1, <4>2, <4>3
    <3> HIDE DEF x, y
    <3> DEFINE da == x - r
               db == y - q
    <3>6. Differ(players, players', a, da, b, db)
      BY <2>2, <2>3, <3>a, <3>1, <3>2, <3>4 DEF Differ
    <3>7. da \in Int /\ db \in Int /\ da + db <= 0 /\ a \in Nat /\ b \in Nat
      BY SMTT(30), <2>2, <3>2, <3>4, <3>5
    <3> HIDE DEF da, db, r, q
    <3>8. /\ Total(players) \in Int
          /\ Total(players') = Total(players) + (IF a \in 1 .. Len(players) THEN da ELSE 0)
                                              + (IF b \in 1 .. Len(players) THEN db ELSE 0)
      BY <2>2, <3>6, <3>7, TotalChange
    <3> QED
      BY <2>2, <3>7, <3>8
  <2>6. ASSUME NEW k \in DOMAIN players, NEW n,
               players' = [players EXCEPT ![k].count = n]
        PROVE  Total(players') <= Total(players)
    <3>1. \A j \in 1 .. Len(players) : players'[j].rating = players[j].rating
      BY <2>2, <2>6 DEF PlayerType
    <3> QED
      BY <3>1, <2>4
  <2>7. ASSUME NEW t \in Threads, RegisterKnown(t) PROVE Total(players') <= Total(players)
    <3>1. PICK k \in DOMAIN players : players' = [players EXCEPT ![k].count = @ + 1]
      BY <2>7 DEF RegisterKnown, Known, player_ref
    <3>2. players' = [players EXCEPT ![k].count = players[k].count + 1]
      BY <3>1
    <3> QED
      BY <3>2, <2>6
  <2>8. ASSUME NEW t \in Threads, Login(t) PROVE Total(players') <= Total(players)
    <3>1. me[t] \in DOMAIN players
      BY <2>8 DEF IInv, Locals, Login
    <3>2. CASE players' = [players EXCEPT ![me[t]].count = @ + 1]
      <4>1. players' = [players EXCEPT ![me[t]].count = players[me[t]].count + 1]
        BY <3>2
      <4> QED
        BY <4>1, <3>1, <2>6
    <3>3. CASE players' = players
      BY <3>3, <2>4
    <3> QED
      BY <3>2, <3>3, <2>8 DEF Login, player_ref
  <2>9. ASSUME NEW t \in Threads, NEW from \in {"in", "logout"}, NEW to,
               player_unref(t, from, to)
        PROVE  Total(players') <= Total(players)
    <3>1. me[t] \in DOMAIN players
      BY <2>9 DEF IInv, Locals, player_unref, Goto
    <3>2. players' = [players EXCEPT ![me[t]].count = players[me[t]].count - 1]
      BY <2>9 DEF player_unref
    <3> QED
      BY <3>1, <3>2, <2>6
  <2>10. ASSUME NEW t \in Threads, RegisterNew(t) PROVE FALSE
    BY <2>2, <2>10 DEF RegisterNew
  <2>11. ASSUME NEW t \in Threads,
                \/ \E n \in Names : RegisterLock(t, n)
                \/ \E v, first \in Threads, res \in 0 .. 2 : PostLock1(t, v, first, res)
                \/ PostLock2(t)
         PROVE  Total(players') <= Total(players)
    BY <2>4, <2>11 DEF RegisterLock, PostLock1, PostLock2
  <2> QED
    BY <2>5, <2>7, <2>8, <2>9, <2>10, <2>11 DEF Next
<1> QED
  BY <1>1, Invariance, PTL DEF Spec, NoPointsFromNowhere
=============================================================================
