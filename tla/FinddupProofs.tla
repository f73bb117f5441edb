---------------------------- MODULE FinddupProofs ----------------------------
(***************************************************************************)
(* What finddup reports is right for every file system and every list of   *)
(* names: its duplicates are duplicates whatever the sort does, and it     *)
(* misses none as long as the differences that comp1 returns fit an int.   *)
(***************************************************************************)
EXTENDS Finddup, FiniteSetTheorems, TLAPS

(* The hypothesis of the completeness theorems.                            *)
DifferencesFit ==
    /\ \A c, d \in Contents : /\ LengthOf(c) - LengthOf(d) <= INT_MAX
                              /\ rc_crc32(c) - rc_crc32(d) <= INT_MAX
    /\ \A i, j \in Inodes : i - j <= INT_MAX

-----------------------------------------------------------------------------
(* The list of files.  The operators take the list as a parameter.         *)
Flags == SUBSET {"LNK", "DUP"}
EntryType == [path : Nat, length : Nat, crc32 : Nat, inode : Inodes, flags : Flags]

(* An entry describes a regular, non-empty file.                           *)
Describes(f) ==
    /\ f \in EntryType /\ f.path \in Listed
    /\ f.inode = names[f.path] /\ f.length = LengthOf(data[f.inode])

Files(s) == s \in Seq(EntryType) /\ \A k \in DOMAIN s : Describes(s[k])
Distinct(s) == \A j, k \in DOMAIN s : s[j].path = s[k].path => j = k
Complete(s, n) == \A p \in Listed : p < n => \E k \in DOMAIN s : s[k].path = p
Bare(s) == \A k \in DOMAIN s : s[k].crc32 = 0 /\ s[k].flags = {}

TextOf(f) == data[f.inode]
SameText(s, j, k) == TextOf(s[j]) = TextOf(s[k])
SameKey(s, j, k) == s[j].length = s[k].length /\ s[j].crc32 = s[k].crc32
IsLnk(s, k) == "LNK" \in s[k].flags
IsDup(s, k) == "DUP" \in s[k].flags

(* Files of equal length have their CRCs, those of equal length and CRC    *)
(* are neighbours, so are the links of an inode.                           *)
CrcsDone(s) ==
    \A j, k \in DOMAIN s : j # k /\ s[j].length = s[k].length =>
        s[j].crc32 = rc_crc32(TextOf(s[j]))
KeysTogether(s) ==
    \A i, j, k \in DOMAIN s : i < j /\ j < k /\ SameKey(s, i, k) => SameKey(s, i, j)
InodesTogether(s) ==
    \A i, j, k \in DOMAIN s : i < j /\ j < k /\ s[i].inode = s[k].inode => s[i].inode = s[j].inode

(* Every inode has a file that is not marked as a link.                    *)
HasFile(s) == \A k \in DOMAIN s : \E j \in DOMAIN s : s[j].inode = s[k].inode /\ ~IsLnk(s, j)

-----------------------------------------------------------------------------
(* The phases.                                                             *)
Phases == {"build", "scan1", "links", "dups", "scan3", "done", "failed"}

TypeInv ==
    /\ data \in [Inodes -> Contents]
    /\ names \in Seq(Inodes \cup {0})
    /\ linkflag \in BOOLEAN
    /\ pc \in Phases
    /\ ix \in Nat \ {0} /\ ix2 \in Nat /\ lastix \in Nat
    /\ lnkmatch \in BOOLEAN
    /\ headfn \in Nat
    /\ links \in Seq(Nat \X Nat) /\ dups \in Seq(Nat \X Nat)
    /\ Files(filelist) /\ Distinct(filelist)

Building ==
    /\ ix <= Len(names) + 1
    /\ Bare(filelist) /\ Complete(filelist, ix)
    /\ \A k \in DOMAIN filelist : filelist[k].path < ix
    /\ links = <<>> /\ dups = <<>> /\ headfn = 0

AllListed == Complete(filelist, Len(names) + 1)

Sorted ==
    /\ AllListed /\ Bare(filelist)
    /\ DifferencesFit => InOrder(filelist)
    /\ links = <<>> /\ dups = <<>> /\ headfn = 0

(* First loop of scan2: entries below ix2 have been dealt with, those from *)
(* ix on have one inode.  Entry h and those behind it up to k are the      *)
(* links of an inode, and reported.                                        *)
LinksOf(h, k) ==
    /\ ~IsLnk(filelist, h) /\ filelist[h].inode = filelist[k].inode
    /\ h > 1 => filelist[h - 1].inode # filelist[h].inode
    /\ \A m \in h + 1 .. k :
         linkflag => <<filelist[h].path, filelist[m].path>> \in Pairs(links)

Linking ==
    /\ AllListed /\ dups = <<>> /\ headfn = 0
    /\ \A k \in DOMAIN filelist : ~IsDup(filelist, k)
    /\ DifferencesFit =>
         CrcsDone(filelist) /\ KeysTogether(filelist) /\ InodesTogether(filelist)
    /\ ix <= n_files + 1 /\ ix < ix2 /\ (ix <= n_files => ix2 <= n_files + 1)
    /\ \A k \in DOMAIN filelist :
         /\ IsLnk(filelist, k) =>
              k > 1 /\ k < ix2 /\ filelist[k - 1].inode = filelist[k].inode
         /\ k < ix2 => \E h \in 1 .. k : LinksOf(h, k)
         /\ ix <= k /\ k < ix2 => LinksOf(ix, k)
    /\ \A l \in Pairs(links) :
         /\ linkflag
         /\ \E h, k \in DOMAIN filelist :
              /\ h < k /\ k < ix2 /\ filelist[h].inode = filelist[k].inode
              /\ l = <<filelist[h].path, filelist[k].path>>
    /\ IsInjective(links)

(* LinksReported, from then on.                                            *)
LinksSound ==
    /\ \A l \in Pairs(links) : l[1] # l[2] /\ Linked(l[1], l[2]) /\ linkflag
    /\ IsInjective(links)

LinksComplete ==
    linkflag => \A p, q \in Listed :
        p # q /\ Linked(p, q) =>
            \E h \in Listed : {p, q} \subseteq
                {h} \cup {l[2] : l \in {m \in Pairs(links) : m[1] = h}}

LinksKnown == LinksSound /\ (DifferencesFit => LinksComplete)

(* Second loop of scan2, for the run of file i = ix: with a = lastix and   *)
(* b = ix2, its duplicates found so far are behind it, one that was there  *)
(* already at a.  A link whose file has not been moved away is still       *)
(* behind it.                                                              *)
RunOf(s, i, a, b, match) ==
    /\ i <= Len(s) + 1 /\ i < a /\ a <= b
    /\ i <= Len(s) => b <= Len(s) + 1
    /\ b > i + 1 => a < b
    /\ \A k \in DOMAIN s :
         /\ IsDup(s, k) => 1 < k /\ k <= a /\ SameText(s, k - 1, k)
         /\ i < k /\ k < a => IsDup(s, k) /\ SameText(s, i, k)
         /\ i < k /\ k < b => SameKey(s, i, k)
         /\ a < k /\ k # b /\ IsLnk(s, k) /\ SameKey(s, k - 1, k) => SameText(s, k - 1, k)
         /\ k = b /\ i <= Len(s) /\ IsLnk(s, k) /\ SameKey(s, i, k) =>
              IF match THEN SameText(s, i, k) ELSE a < k /\ SameText(s, k - 1, k)

Run == RunOf(filelist, ix, lastix, ix2, lnkmatch)

(* Files of equal contents are together as far as i, and those of the      *)
(* current run as far as b.                                                *)
GatheredTo(s, i, a, b) ==
    /\ CrcsDone(s) /\ KeysTogether(s)
    /\ \A j, k \in DOMAIN s : j < k /\ SameText(s, j, k) =>
         /\ j < i => k <= i
         /\ k <= i => \A m \in j + 1 .. k : IsDup(s, m)
         /\ j = i /\ k < b => k <= a /\ IsDup(s, k)

Gathered == GatheredTo(filelist, ix, lastix, ix2)

Matching ==
    /\ AllListed /\ dups = <<>> /\ headfn = 0
    /\ HasFile(filelist) /\ LinksKnown /\ Run
    /\ DifferencesFit => Gathered

(* scan3: entry h heads the run of duplicates with k.                      *)
Heads(s, h, k) ==
    /\ h \in 1 .. k - 1 /\ ~IsDup(s, h) /\ SameText(s, h, k)
    /\ \A m \in h + 1 .. k : IsDup(s, m)

DupsMarked ==
    /\ \A k \in DOMAIN filelist : IsDup(filelist, k) => 1 < k /\ SameText(filelist, k - 1, k)
    /\ DifferencesFit =>
         \A j, k \in DOMAIN filelist : j < k /\ SameText(filelist, j, k) =>
             \A m \in j + 1 .. k : IsDup(filelist, m)

HeadKnown ==
    IF headfn = 0 THEN ix > 1 => ~IsDup(filelist, ix - 1)
    ELSE \E h \in DOMAIN filelist : Heads(filelist, h, ix - 1) /\ headfn = filelist[h].path

DupsListed ==
    \A k \in DOMAIN filelist : k < ix /\ IsDup(filelist, k) =>
        \E h \in DOMAIN filelist :
            /\ Heads(filelist, h, k)
            /\ Shown(k) => <<filelist[h].path, filelist[k].path>> \in Pairs(dups)

DupsSound ==
    \A l \in Pairs(dups) :
        \E h, k \in DOMAIN filelist :
            Heads(filelist, h, k) /\ l = <<filelist[h].path, filelist[k].path>>

Reporting ==
    /\ AllListed /\ HasFile(filelist) /\ LinksKnown /\ DupsMarked
    /\ ix <= n_files + 1
    /\ HeadKnown /\ DupsListed /\ DupsSound

IInv ==
    /\ TypeInv
    /\ pc = "build" => Building
    /\ pc = "scan1" => Sorted
    /\ pc = "links" => Linking
    /\ pc = "dups" => Matching
    /\ pc = "scan3" => Reporting
    /\ pc = "done" => Reporting /\ ix = n_files + 1

-----------------------------------------------------------------------------
(* The comparison.                                                         *)

(* A difference that fits an int is returned as it is.                     *)
LEMMA SmallInt ==
    ASSUME NEW d \in Int, d <= INT_MAX, 0 - d <= INT_MAX
    PROVE  ToInt(d) = d
<1>1. INT_MAX \in Nat
  BY FinddupAssumption
<1>2. CASE d >= 0
  <2>1. d % (2 * (INT_MAX + 1)) = d
    BY <1>1, <1>2
  <2> QED
    BY <1>1, <2>1 DEF ToInt
<1>3. CASE d < 0
  <2>1. d % (2 * (INT_MAX + 1)) = d + 2 * (INT_MAX + 1)
    BY <1>1, <1>3
  <2>2. d + 2 * (INT_MAX + 1) > INT_MAX
    BY <1>1
  <2> QED
    BY <1>1, <2>1, <2>2 DEF ToInt
<1> QED
  BY <1>2, <1>3

(* What comp1 computes then: the order by length, CRC and inode.           *)
NumEntry == [path : Nat, length : Nat, crc32 : Nat, inode : Nat, flags : Flags]

Near(f, g) ==
    /\ f \in NumEntry /\ g \in NumEntry
    /\ f.length - g.length <= INT_MAX /\ g.length - f.length <= INT_MAX
    /\ f.length = g.length =>
         f.crc32 - g.crc32 <= INT_MAX /\ g.crc32 - f.crc32 <= INT_MAX
    /\ f.inode - g.inode <= INT_MAX /\ g.inode - f.inode <= INT_MAX

Leq(f, g) ==
    \/ f.length < g.length
    \/ /\ f.length = g.length
       /\ f.crc32 < g.crc32 \/ (f.crc32 = g.crc32 /\ f.inode <= g.inode)

LEMMA CompareNear ==
    ASSUME NEW f, NEW g, Near(f, g)
    PROVE  comp1(f, g) <= 0 <=> Leq(f, g)
<1>1. PICK l, c, i, m, d, j : /\ l = f.length /\ c = f.crc32 /\ i = f.inode
                              /\ m = g.length /\ d = g.crc32 /\ j = g.inode
  OBVIOUS
<1>2. l \in Nat /\ c \in Nat /\ i \in Nat /\ m \in Nat /\ d \in Nat /\ j \in Nat
  BY <1>1 DEF Near, NumEntry
<1>3. ToInt(l - m) = l - m
  BY <1>1, <1>2, SmallInt DEF Near
<1>4. l = m => ToInt(c - d) = c - d
  BY <1>1, <1>2, SmallInt DEF Near
<1>5. ToInt(i - j) = i - j
  BY <1>1, <1>2, SmallInt DEF Near
<1> QED
  BY <1>1, <1>2, <1>3, <1>4, <1>5 DEF comp1, Leq

(* It is an order, so qsort sorts.                                         *)
AllNear(s) == \A j, k \in DOMAIN s : Near(s[j], s[k])

LEMMA NearConsistent ==
    ASSUME NEW s, AllNear(s)
    PROVE  Consistent(s)
<1> SUFFICES ASSUME NEW j \in DOMAIN s, NEW k \in DOMAIN s, NEW m \in DOMAIN s
             PROVE  /\ comp1(s[j], s[k]) <= 0 \/ comp1(s[k], s[j]) <= 0
                    /\ comp1(s[j], s[k]) <= 0 /\ comp1(s[k], s[m]) <= 0
                         => comp1(s[j], s[m]) <= 0
  BY DEF Consistent
<1>1. PICK f, g, h : f = s[j] /\ g = s[k] /\ h = s[m]
  OBVIOUS
<1>2. Near(f, g) /\ Near(g, f) /\ Near(g, h) /\ Near(f, h)
  BY <1>1 DEF AllNear
<1>3. f \in NumEntry /\ g \in NumEntry /\ h \in NumEntry
  BY <1>2 DEF Near
<1>4. (Leq(f, g) \/ Leq(g, f)) /\ (Leq(f, g) /\ Leq(g, h) => Leq(f, h))
  BY <1>3 DEF NumEntry, Leq
<1> QED
  BY <1>1, <1>2, <1>4, CompareNear

-----------------------------------------------------------------------------
(* Rearranging the list.                                                   *)

(* Entry k of t is entry p[k] of s, perhaps with another DUP flag.         *)
SameFile(f, g) ==
    /\ f.path = g.path /\ f.length = g.length /\ f.crc32 = g.crc32
    /\ f.inode = g.inode /\ ("LNK" \in f.flags <=> "LNK" \in g.flags)

Shuffle(s, t, p) ==
    /\ DOMAIN t = DOMAIN s
    /\ \A k \in DOMAIN s : p[k] \in DOMAIN s /\ SameFile(t[k], s[p[k]])
    /\ \A j, k \in DOMAIN s : p[j] = p[k] => j = k
    /\ \A j \in DOMAIN s : \E k \in DOMAIN s : p[k] = j

LEMMA ShuffleKeeps ==
    ASSUME NEW s, NEW t \in Seq(EntryType), NEW p, Shuffle(s, t, p), Files(s), Distinct(s)
    PROVE  /\ Files(t) /\ Distinct(t)
           /\ \A n : Complete(s, n) => Complete(t, n)
           /\ CrcsDone(s) => CrcsDone(t)
           /\ HasFile(s) => HasFile(t)
<1>1. /\ DOMAIN t = DOMAIN s
      /\ \A k \in DOMAIN s : p[k] \in DOMAIN s /\ SameFile(t[k], s[p[k]])
      /\ \A j, k \in DOMAIN s : p[j] = p[k] => j = k
      /\ \A j \in DOMAIN s : \E k \in DOMAIN s : p[k] = j
  BY DEF Shuffle
<1>2. Files(t)
  <2> SUFFICES ASSUME NEW k \in DOMAIN t PROVE Describes(t[k])
    BY DEF Files
  <2>1. t[k] \in EntryType
    OBVIOUS
  <2>2. Describes(s[p[k]]) /\ SameFile(t[k], s[p[k]])
    BY <1>1 DEF Files
  <2> QED
    BY <2>1, <2>2 DEF Describes, SameFile
<1>3. Distinct(t)
  <2> SUFFICES ASSUME NEW j \in DOMAIN t, NEW k \in DOMAIN t, t[j].path = t[k].path PROVE j = k
    BY DEF Distinct
  <2>1. p[j] \in DOMAIN s /\ p[k] \in DOMAIN s /\ s[p[j]].path = s[p[k]].path
    BY <1>1 DEF SameFile
  <2>2. p[j] = p[k]
    BY <2>1 DEF Distinct
  <2> QED
    BY <1>1, <2>2
<1>4. ASSUME NEW n, Complete(s, n) PROVE Complete(t, n)
  <2> SUFFICES ASSUME NEW x \in Listed, x < n PROVE \E k \in DOMAIN t : t[k].path = x
    BY DEF Complete
  <2>1. PICK j \in DOMAIN s : s[j].path = x
    BY <1>4 DEF Complete
  <2>2. PICK k \in DOMAIN s : p[k] = j
    BY <1>1, <2>1
  <2> QED
    BY <1>1, <2>1, <2>2 DEF SameFile
<1>5. ASSUME CrcsDone(s) PROVE CrcsDone(t)
  <2> SUFFICES ASSUME NEW j \in DOMAIN t, NEW k \in DOMAIN t, j # k, t[j].length = t[k].length
               PROVE  t[j].crc32 = rc_crc32(TextOf(t[j]))
    BY DEF CrcsDone
  <2>1. p[j] \in DOMAIN s /\ p[k] \in DOMAIN s /\ p[j] # p[k]
    BY <1>1
  <2>2. SameFile(t[j], s[p[j]]) /\ SameFile(t[k], s[p[k]])
    BY <1>1
  <2>3. s[p[j]].crc32 = rc_crc32(TextOf(s[p[j]]))
    BY <1>5, <2>1, <2>2 DEF CrcsDone, SameFile
  <2>4. TextOf(s[p[j]]) = TextOf(t[j])
    BY <2>2 DEF TextOf, SameFile
  <2> QED
    BY <2>2, <2>3, <2>4 DEF SameFile
<1>6. ASSUME HasFile(s) PROVE HasFile(t)
  <2> SUFFICES ASSUME NEW k \in DOMAIN t
               PROVE  \E j \in DOMAIN t : t[j].inode = t[k].inode /\ ~IsLnk(t, j)
    BY DEF HasFile
  <2>1. PICK i \in DOMAIN s : s[i].inode = s[p[k]].inode /\ ~IsLnk(s, i)
    BY <1>1, <1>6 DEF HasFile
  <2>2. PICK j \in DOMAIN s : p[j] = i
    BY <1>1, <2>1
  <2> QED
    BY <1>1, <2>1, <2>2 DEF SameFile, IsLnk
<1> QED
  BY <1>2, <1>3, <1>4, <1>5, <1>6

(* qsort rearranges, and sorts when the comparison is an order.            *)
LEMMA SortShuffles ==
    ASSUME NEW s \in Seq(EntryType), NEW t \in qsort(s)
    PROVE  /\ t \in Seq(EntryType) /\ Len(t) = Len(s)
           /\ \E p : Shuffle(s, t, p) /\ \A k \in DOMAIN s : t[k] = s[p[k]]
           /\ Consistent(s) => InOrder(t)
<1>1. PICK p \in Injection(DOMAIN s, DOMAIN s) : t = [k \in DOMAIN s |-> s[p[k]]]
  BY DEF qsort
<1>2. Consistent(s) => InOrder(t)
  BY DEF qsort
<1>3. Len(s) \in Nat /\ DOMAIN s = 1 .. Len(s)
  OBVIOUS
<1>4. IsFiniteSet(DOMAIN s)
  BY <1>3, FS_Interval
<1>5. p \in Surjection(DOMAIN s, DOMAIN s)
  BY <1>1, <1>4, FS_Injection
<1>6. /\ p \in [DOMAIN s -> DOMAIN s]
      /\ \A j, k \in DOMAIN s : p[j] = p[k] => j = k
      /\ \A j \in DOMAIN s : \E k \in DOMAIN s : p[k] = j
  BY <1>1, <1>5 DEF Injection, Surjection, IsInjective
<1>7. /\ t \in Seq(EntryType) /\ Len(t) = Len(s) /\ DOMAIN t = DOMAIN s
      /\ \A k \in DOMAIN s : t[k] = s[p[k]]
  BY <1>1, <1>3, <1>6
<1>8. Shuffle(s, t, p)
  BY <1>6, <1>7 DEF Shuffle, SameFile
<1> QED
  BY <1>2, <1>7, <1>8

-----------------------------------------------------------------------------
(* The numbers of an entry.                                                *)
LEMMA EntryNumbers ==
    ASSUME NEW f \in EntryType
    PROVE  /\ f \in NumEntry /\ f.path \in Nat /\ f.length \in Nat /\ f.crc32 \in Nat
           /\ f.inode \in Inodes /\ f.inode \in Nat /\ f.flags \in Flags
BY FinddupAssumption DEF EntryType, NumEntry

(* Entries whose CRCs are all missing, or there when the lengths are       *)
(* equal, can be compared.                                                 *)
LEMMA EntriesNear ==
    ASSUME TypeInv, DifferencesFit, NEW s, Files(s),
           (\A k \in DOMAIN s : s[k].crc32 = 0) \/ CrcsDone(s)
    PROVE  AllNear(s)
<1> SUFFICES ASSUME NEW j \in DOMAIN s, NEW k \in DOMAIN s PROVE Near(s[j], s[k])
  BY DEF AllNear
<1>1. PICK f, g : f = s[j] /\ g = s[k]
  OBVIOUS
<1>2. Describes(f) /\ Describes(g)
  BY <1>1 DEF Files
<1>3. f \in EntryType /\ g \in EntryType /\ f.length = LengthOf(TextOf(f)) /\ g.length = LengthOf(TextOf(g))
  BY <1>2 DEF Describes, TextOf
<1>4. TextOf(f) \in Contents /\ TextOf(g) \in Contents
  BY <1>3, EntryNumbers DEF TypeInv, TextOf
<1>5. f.length - g.length <= INT_MAX /\ g.length - f.length <= INT_MAX
  BY <1>3, <1>4 DEF DifferencesFit
<1>6. f.inode - g.inode <= INT_MAX /\ g.inode - f.inode <= INT_MAX
  BY <1>3, EntryNumbers DEF DifferencesFit
<1>7. ASSUME f.length = g.length
      PROVE  f.crc32 - g.crc32 <= INT_MAX /\ g.crc32 - f.crc32 <= INT_MAX
  <2>1. CASE f.crc32 = g.crc32
    BY <1>3, <2>1, EntryNumbers, FinddupAssumption
  <2>2. CASE f.crc32 # g.crc32
    <3>1. CrcsDone(s) /\ j # k
      BY <1>1, <2>2
    <3>2. f.crc32 = rc_crc32(TextOf(f)) /\ g.crc32 = rc_crc32(TextOf(g))
      BY <1>1, <1>7, <3>1 DEF CrcsDone
    <3> QED
      BY <1>4, <3>2 DEF DifferencesFit
  <2> QED
    BY <2>1, <2>2
<1> QED
  BY <1>1, <1>3, <1>5, <1>6, <1>7, EntryNumbers DEF Near

(* Files of one inode have one length, and files of equal contents one key.*)
LEMMA KeyOfText ==
    ASSUME NEW s, Files(s), CrcsDone(s), NEW j \in DOMAIN s, NEW k \in DOMAIN s, SameText(s, j, k)
    PROVE  SameKey(s, j, k)
<1>1. s[j].length = LengthOf(TextOf(s[j])) /\ s[k].length = LengthOf(TextOf(s[k]))
  BY DEF Files, Describes, TextOf
<1>2. s[j].length = s[k].length
  BY <1>1 DEF SameText
<1>3. j # k => s[j].crc32 = s[k].crc32
  BY <1>2 DEF CrcsDone, SameText
<1> QED
  BY <1>2, <1>3 DEF SameKey

-----------------------------------------------------------------------------
(* What the phases leave alone.                                            *)
LEMMA ListStays ==
    ASSUME UNCHANGED <<data, names>>
    PROVE  /\ Listed' = Listed
           /\ \A s, n : Complete(s, n)' <=> Complete(s, n)
           /\ \A s : Files(s)' <=> Files(s)
           /\ \A s : CrcsDone(s)' <=> CrcsDone(s)
           /\ \A s, j, k : SameText(s, j, k)' <=> SameText(s, j, k)
<1>1. Listed' = Listed
  BY DEF Listed
<1> QED
  BY <1>1 DEF Complete, Files, Describes, CrcsDone, SameText, TextOf

(* Init, and the build loop.                                               *)
LEMMA InitHolds ==
    ASSUME Init
    PROVE  IInv
<1>1. names \in Seq(Inodes \cup {0}) /\ Len(names) \in Nat
  BY FinddupAssumption DEF Init
<1>2. /\ filelist = <<>> /\ Len(filelist) = 0 /\ DOMAIN filelist = {}
      /\ filelist \in Seq(EntryType)
  BY DEF Init
<1>3. links \in Seq(Nat \X Nat) /\ dups \in Seq(Nat \X Nat)
  BY DEF Init
<1>4. Files(filelist) /\ Distinct(filelist) /\ Bare(filelist)
  BY <1>2 DEF Files, Distinct, Bare
<1>5. Complete(filelist, 1)
  BY <1>1 DEF Complete, Listed
<1>6. TypeInv
  <2>1. /\ data \in [Inodes -> Contents] /\ linkflag \in BOOLEAN /\ lnkmatch \in BOOLEAN
        /\ pc = "build" /\ ix = 1 /\ ix2 = 0 /\ lastix = 0 /\ headfn = 0
    BY Zenon DEF Init
  <2> QED
    BY <1>1, <1>3, <1>4, <2>1 DEF TypeInv, Phases
<1>7. Building
  BY <1>1, <1>2, <1>4, <1>5 DEF Init, Building
<1> QED
  BY <1>6, <1>7 DEF IInv, Init

(* The entry for a file, appended to the list.                             *)
NewEntry(n) ==
    [path |-> n, length |-> LengthOf(data[names[n]]), crc32 |-> 0,
     inode |-> names[n], flags |-> {}]

LEMMA EntryAppended ==
    ASSUME TypeInv, NEW n \in Listed, n \in Nat, \A k \in DOMAIN filelist : filelist[k].path < n,
           Bare(filelist), Complete(filelist, n), NEW t, t = Append(filelist, NewEntry(n))
    PROVE  /\ Files(t) /\ Distinct(t) /\ Bare(t) /\ Complete(t, n + 1)
           /\ \A k \in DOMAIN t : t[k].path < n + 1
<1>1. PICK e : e = NewEntry(n)
  OBVIOUS
<1>2. names[n] \in Inodes /\ data[names[n]] \in Contents /\ LengthOf(data[names[n]]) \in Nat
  <2>1. n \in DOMAIN names /\ names[n] # 0
    BY DEF Listed
  <2>2. names \in Seq(Inodes \cup {0})
    BY DEF TypeInv
  <2>3. names[n] \in Inodes
    BY <2>1, <2>2
  <2>4. data[names[n]] \in Contents
    BY <2>3 DEF TypeInv
  <2> QED
    BY <2>3, <2>4, FinddupAssumption
<1>3. e \in EntryType /\ e.path = n /\ e.crc32 = 0 /\ e.flags = {} /\ Describes(e)
  <2>1. /\ e.path = n /\ e.crc32 = 0 /\ e.flags = {} /\ e.inode = names[n]
        /\ e.length = LengthOf(data[names[n]])
    BY <1>1 DEF NewEntry
  <2>2. e \in EntryType
    BY <1>1, <1>2 DEF NewEntry, EntryType, Flags
  <2> QED
    BY <2>1, <2>2 DEF Describes
<1>4. filelist \in Seq(EntryType)
  BY DEF TypeInv, Files
<1>5. /\ t \in Seq(EntryType) /\ Len(t) = Len(filelist) + 1 /\ Len(filelist) \in Nat
      /\ DOMAIN filelist = 1 .. Len(filelist) /\ DOMAIN t = 1 .. Len(filelist) + 1
      /\ \A k \in DOMAIN filelist : t[k] = filelist[k]
      /\ t[Len(filelist) + 1] = e
  BY <1>1, <1>3, <1>4
<1>6. \A k \in DOMAIN t : k \in DOMAIN filelist \/ t[k] = e
  BY <1>5
<1>7. Files(t)
  BY <1>3, <1>5, <1>6 DEF Files, TypeInv
<1>8. Bare(t)
  BY <1>3, <1>5, <1>6 DEF Bare
<1>9. \A k \in DOMAIN filelist : filelist[k].path \in Nat
  BY <1>4, EntryNumbers
<1>10. \A k \in DOMAIN t : t[k].path < n + 1
  BY <1>3, <1>5, <1>6, <1>9
<1>11. Distinct(t)
  <2> SUFFICES ASSUME NEW j \in DOMAIN t, NEW k \in DOMAIN t, t[j].path = t[k].path PROVE j = k
    BY DEF Distinct
  <2>1. CASE j \in DOMAIN filelist /\ k \in DOMAIN filelist
    BY <1>5, <2>1 DEF TypeInv, Distinct
  <2>2. CASE j \notin DOMAIN filelist /\ k \notin DOMAIN filelist
    BY <1>5, <2>2
  <2>3. CASE j \in DOMAIN filelist /\ k \notin DOMAIN filelist
    BY <1>3, <1>5, <1>6, <1>9, <2>3
  <2>4. CASE j \notin DOMAIN filelist /\ k \in DOMAIN filelist
    BY <1>3, <1>5, <1>6, <1>9, <2>4
  <2> QED
    BY <2>1, <2>2, <2>3, <2>4
<1>12. Complete(t, n + 1)
  <2> SUFFICES ASSUME NEW p \in Listed, p < n + 1 PROVE \E k \in DOMAIN t : t[k].path = p
    BY DEF Complete
  <2>1. p \in Nat
    BY DEF Listed, TypeInv
  <2>2. CASE p < n
    <3>1. PICK k \in DOMAIN filelist : filelist[k].path = p
      BY <2>2 DEF Complete
    <3>2. k \in DOMAIN t /\ t[k].path = p
      BY <1>5, <3>1
    <3> QED
      BY <3>2
  <2>3. CASE p = n
    <3>1. Len(filelist) + 1 \in DOMAIN t /\ t[Len(filelist) + 1].path = p
      BY <1>3, <1>5, <2>3
    <3> QED
      BY <3>1
  <2> QED
    BY <2>1, <2>2, <2>3
<1> QED
  BY <1>7, <1>8, <1>10, <1>11, <1>12

LEMMA BuildKeeps ==
    ASSUME IInv, Build
    PROVE  IInv'
<1>1. /\ TypeInv /\ Building /\ pc = "build" /\ pc' = pc /\ ix <= Len(names) /\ ix' = ix + 1
      /\ UNCHANGED <<fixed, scan2vars, headfn, links, dups>>
  BY DEF IInv, Build
<1>2. UNCHANGED <<data, names>> /\ ix \in Nat /\ Len(names) \in Nat
  BY <1>1 DEF fixed, TypeInv
<1>3. ix \in DOMAIN names
  BY <1>1, <1>2 DEF TypeInv
<1>4. ASSUME Files(filelist'), Distinct(filelist'), Bare(filelist'), Complete(filelist', ix + 1),
             \A k \in DOMAIN filelist' : filelist'[k].path < ix + 1
      PROVE  IInv'
  <2>1. Files(filelist)' /\ Complete(filelist, ix)'
    <3>1. PICK t, n : t = filelist' /\ n = ix'
      OBVIOUS
    <3>2. Files(t)' /\ Complete(t, n)'
      BY <1>1, <1>2, <1>4, <3>1, ListStays
    <3> QED
      BY <3>1, <3>2 DEF Files, Complete
  <2>2. TypeInv'
    BY <1>1, <1>2, <1>4, <2>1 DEF TypeInv, fixed, scan2vars, Distinct
  <2>3. Building'
    BY <1>1, <1>2, <1>4, <2>1 DEF Building, Bare
  <2> QED
    BY <1>1, <2>2, <2>3 DEF IInv
<1>5. CASE ix \in Listed
  <2>1. filelist' = Append(filelist, NewEntry(ix))
    BY <1>5 DEF Build, Listed, NewEntry
  <2> QED
    BY <1>1, <1>2, <1>4, <1>5, <2>1, EntryAppended DEF Building
<1>6. CASE ix \notin Listed
  <2>1. filelist' = filelist
    BY <1>3, <1>6 DEF Build, Listed
  <2>2. Complete(filelist, ix + 1)
    <3> SUFFICES ASSUME NEW p \in Listed, p < ix + 1 PROVE p < ix
      BY <1>1 DEF Building, Complete
    <3> QED
      BY <1>2, <1>6 DEF Listed, TypeInv
  <2>3. \A k \in DOMAIN filelist : filelist[k].path < ix + 1
    BY <1>1, <1>2, EntryNumbers DEF Building, TypeInv, Files
  <2> QED
    BY <1>1, <1>4, <2>1, <2>2, <2>3 DEF Building, TypeInv
<1> QED
  BY <1>5, <1>6

-----------------------------------------------------------------------------
(* Sorting.                                                                *)
NoFlags(s) == \A k \in DOMAIN s : s[k].flags = {}

LEMMA Sorting ==
    ASSUME TypeInv, NEW s, Files(s), Distinct(s), NEW t \in qsort(s)
    PROVE  /\ Files(t) /\ Distinct(t)
           /\ \A n : Complete(s, n) => Complete(t, n)
           /\ Bare(s) => Bare(t)
           /\ NoFlags(s) => NoFlags(t)
           /\ CrcsDone(s) => CrcsDone(t)
           /\ DifferencesFit /\ (Bare(s) \/ CrcsDone(s)) => InOrder(t)
<1>1. s \in Seq(EntryType)
  BY DEF Files
<1>2. /\ t \in Seq(EntryType)
      /\ \E p : Shuffle(s, t, p) /\ \A k \in DOMAIN s : t[k] = s[p[k]]
      /\ Consistent(s) => InOrder(t)
  BY <1>1, SortShuffles
<1>3. PICK p : Shuffle(s, t, p) /\ \A k \in DOMAIN s : t[k] = s[p[k]]
  BY <1>2
<1>4. /\ Files(t) /\ Distinct(t)
      /\ \A n : Complete(s, n) => Complete(t, n)
      /\ CrcsDone(s) => CrcsDone(t)
  BY <1>2, <1>3, ShuffleKeeps
<1>5. \A k \in DOMAIN t : p[k] \in DOMAIN s /\ t[k] = s[p[k]]
  BY <1>3 DEF Shuffle
<1>6. (Bare(s) => Bare(t)) /\ (NoFlags(s) => NoFlags(t))
  BY <1>5 DEF Bare, NoFlags
<1>7. ASSUME DifferencesFit, Bare(s) \/ CrcsDone(s) PROVE InOrder(t)
  <2>1. (\A k \in DOMAIN s : s[k].crc32 = 0) \/ CrcsDone(s)
    BY <1>7 DEF Bare
  <2>2. AllNear(s)
    BY <1>7, <2>1, EntriesNear
  <2> QED
    BY <1>2, <2>2, NearConsistent
<1> QED
  BY <1>4, <1>6, <1>7

LEMMA SortKeeps ==
    ASSUME IInv, Sort
    PROVE  IInv'
<1>1. /\ TypeInv /\ Building /\ pc' = "scan1" /\ ix > Len(names)
      /\ filelist' \in qsort(filelist)
      /\ UNCHANGED <<fixed, ix, scan2vars, headfn, output>>
  BY DEF IInv, Sort
<1>2. PICK t : t = filelist'
  OBVIOUS
<1>3. ix = Len(names) + 1
  BY <1>1 DEF Building, TypeInv
<1>4. /\ Files(t) /\ Distinct(t) /\ Complete(t, Len(names) + 1) /\ Bare(t)
      /\ DifferencesFit => InOrder(t)
  BY <1>1, <1>2, <1>3, Sorting DEF TypeInv, Building
<1>5. Files(t)' /\ Complete(t, Len(names) + 1)'
  BY <1>1, <1>4, ListStays DEF fixed, Complete
<1>6. TypeInv'
  BY <1>1, <1>2, <1>4, <1>5 DEF TypeInv, fixed, scan2vars, output, Distinct, Phases, Files
<1>7. AllListed'
  BY <1>2, <1>5 DEF AllListed, Complete
<1>8. Sorted'
  BY <1>1, <1>2, <1>4, <1>7 DEF Sorted, Bare, Building, output
<1> QED
  BY <1>1, <1>6, <1>8 DEF IInv

-----------------------------------------------------------------------------
(* scan1.                                                                  *)

(* In a list in order files of equal length are neighbours.                *)
LEMMA OrderLeq ==
    ASSUME NEW s, AllNear(s), InOrder(s), NEW j \in DOMAIN s, NEW k \in DOMAIN s, j < k
    PROVE  Leq(s[j], s[k])
BY CompareNear DEF AllNear, InOrder

LEMMA EqualLengths ==
    ASSUME TypeInv, Bare(filelist), DifferencesFit, InOrder(filelist),
           NEW j \in DOMAIN filelist, NEW k \in DOMAIN filelist, j # k,
           filelist[j].length = filelist[k].length
    PROVE  EqualNext(j - 1) \/ EqualNext(j)
<1>1. AllNear(filelist)
  BY EntriesNear DEF TypeInv, Bare
<1>2. filelist \in Seq(EntryType) /\ Files(filelist)
  BY DEF TypeInv, Files
<1>3. Len(filelist) \in Nat /\ DOMAIN filelist = 1 .. Len(filelist)
  BY <1>2
<1>4. \A i \in DOMAIN filelist : filelist[i].length \in Nat
  BY <1>2, EntryNumbers
<1>5. \A h, i \in DOMAIN filelist : h < i => filelist[h].length <= filelist[i].length
  BY <1>1, <1>4, OrderLeq DEF Leq
<1>6. CASE j < k
  <2>1. j + 1 \in DOMAIN filelist /\ (j + 1 = k \/ j + 1 < k)
    BY <1>3, <1>6
  <2>2. filelist[j].length <= filelist[j + 1].length /\ filelist[j + 1].length <= filelist[k].length
    BY <1>3, <1>4, <1>5, <2>1
  <2> QED
    BY <1>3, <1>4, <2>1, <2>2 DEF EqualNext, n_files
<1>7. CASE k < j
  <2>1. j - 1 \in DOMAIN filelist /\ (k = j - 1 \/ k < j - 1)
    BY <1>3, <1>7
  <2>2. filelist[k].length <= filelist[j - 1].length /\ filelist[j - 1].length <= filelist[j].length
    BY <1>3, <1>4, <1>5, <2>1
  <2> QED
    BY <1>3, <1>4, <2>1, <2>2 DEF EqualNext, n_files
<1> QED
  BY <1>3, <1>6, <1>7

(* The CRCs change nothing else.                                           *)
LEMMA CrcsAdded ==
    ASSUME TypeInv, Sorted, NEW c, c = WithCrcs
    PROVE  /\ Files(c) /\ Distinct(c) /\ Complete(c, Len(names) + 1) /\ NoFlags(c)
           /\ DifferencesFit => CrcsDone(c)
<1>1. filelist \in Seq(EntryType) /\ Files(filelist) /\ Distinct(filelist) /\ Bare(filelist)
  BY DEF TypeInv, Files, Sorted
<1>2. DOMAIN c = DOMAIN filelist
  BY DEF WithCrcs
<1>3. ASSUME NEW k \in DOMAIN filelist
      PROVE  /\ c[k] \in EntryType /\ c[k].path = filelist[k].path
             /\ c[k].length = filelist[k].length /\ c[k].inode = filelist[k].inode
             /\ c[k].flags = {}
             /\ EqualNext(k - 1) \/ EqualNext(k) => c[k].crc32 = rc_crc32(TextOf(c[k]))
  <2>1. PICK f : f = filelist[k]
    OBVIOUS
  <2>2. f \in EntryType /\ f.inode \in Inodes /\ f.flags = {}
    <3>1. f \in EntryType
      BY <1>1, <2>1
    <3> QED
      BY <1>1, <2>1, <3>1, EntryNumbers DEF Bare
  <2>3. rc_crc32(data[f.inode]) \in Nat
    BY <2>2, FinddupAssumption DEF TypeInv
  <2>4. CASE EqualNext(k - 1) \/ EqualNext(k)
    <3>1. c[k] = [f EXCEPT !.crc32 = rc_crc32(data[f.inode])]
      BY <2>1, <2>4 DEF WithCrcs
    <3>2. /\ c[k].path = f.path /\ c[k].length = f.length /\ c[k].inode = f.inode
          /\ c[k].flags = f.flags /\ c[k].crc32 = rc_crc32(data[f.inode])
      BY <2>2, <3>1 DEF EntryType
    <3>3. c[k] \in EntryType
      BY <2>2, <2>3, <3>1 DEF EntryType
    <3> QED
      BY <2>1, <2>2, <3>2, <3>3 DEF TextOf
  <2>5. CASE ~(EqualNext(k - 1) \/ EqualNext(k))
    BY <2>1, <2>2, <2>5 DEF WithCrcs
  <2> QED
    BY <2>4, <2>5
<1>4. c \in Seq(EntryType)
  <2>1. c = [k \in 1 .. Len(filelist) |-> c[k]] /\ Len(filelist) \in Nat
    BY <1>1 DEF WithCrcs
  <2>2. \A k \in 1 .. Len(filelist) : c[k] \in EntryType
    BY <1>1, <1>3
  <2> QED
    BY <2>1, <2>2
<1>5. Files(c)
  BY <1>1, <1>2, <1>3, <1>4 DEF Files, Describes
<1>6. Distinct(c) /\ NoFlags(c)
  BY <1>1, <1>2, <1>3 DEF Distinct, NoFlags
<1>7. Complete(c, Len(names) + 1)
  BY <1>2, <1>3 DEF Sorted, AllListed, Complete
<1>8. ASSUME DifferencesFit PROVE CrcsDone(c)
  BY <1>1, <1>2, <1>3, <1>8, EqualLengths DEF CrcsDone, Sorted
<1> QED
  BY <1>5, <1>6, <1>7, <1>8

(* Equal keys, and the links of an inode, are together in a sorted list.   *)
LEMMA OrderTogether ==
    ASSUME TypeInv, DifferencesFit, NEW s, Files(s), CrcsDone(s), InOrder(s)
    PROVE  KeysTogether(s) /\ InodesTogether(s)
<1>1. AllNear(s)
  BY EntriesNear
<1>2. \A k \in DOMAIN s : s[k].length \in Nat /\ s[k].crc32 \in Nat /\ s[k].inode \in Nat
  BY EntryNumbers DEF Files
<1>3. s \in Seq(EntryType)
  BY DEF Files
<1>4. ASSUME NEW i \in DOMAIN s, NEW j \in DOMAIN s, NEW k \in DOMAIN s, i < j, j < k,
             SameKey(s, i, k)
      PROVE  SameKey(s, i, j) /\ (s[i].inode = s[k].inode => s[i].inode = s[j].inode)
  <2>1. Leq(s[i], s[j]) /\ Leq(s[j], s[k])
    BY <1>1, <1>4, OrderLeq
  <2> QED
    BY <1>2, <1>4, <2>1 DEF Leq, SameKey
<1>5. KeysTogether(s)
  BY <1>4 DEF KeysTogether
<1>6. ASSUME NEW i \in DOMAIN s, NEW j \in DOMAIN s, NEW k \in DOMAIN s, i < j, j < k,
             s[i].inode = s[k].inode
      PROVE  s[i].inode = s[j].inode
  <2>1. SameText(s, i, k)
    BY <1>6 DEF SameText, TextOf
  <2> QED
    BY <1>4, <1>6, <2>1, KeyOfText
<1> QED
  BY <1>5, <1>6 DEF InodesTogether

LEMMA Scan1Keeps ==
    ASSUME IInv, scan1
    PROVE  IInv'
<1>1. /\ TypeInv /\ Sorted /\ pc' = "links" /\ ix' = 1 /\ ix2' = 2
      /\ UNCHANGED <<fixed, lastix, lnkmatch, headfn, output>>
      /\ filelist' \in IF \E k \in DOMAIN filelist : EqualNext(k)
                       THEN qsort(WithCrcs) ELSE {filelist}
  BY DEF IInv, scan1
<1>2. PICK t, c : t = filelist' /\ c = WithCrcs
  OBVIOUS
<1>3. /\ Files(t) /\ Distinct(t) /\ Complete(t, Len(names) + 1) /\ NoFlags(t)
      /\ DifferencesFit => CrcsDone(t) /\ InOrder(t)
  <2>1. CASE \E k \in DOMAIN filelist : EqualNext(k)
    <3>1. t \in qsort(c)
      BY <1>1, <1>2, <2>1
    <3> QED
      BY <1>1, <1>2, <3>1, CrcsAdded, Sorting
  <2>2. CASE ~ \E k \in DOMAIN filelist : EqualNext(k)
    <3>1. t = filelist
      BY <1>1, <1>2, <2>2
    <3>2. \A k \in DOMAIN filelist : ~EqualNext(k - 1) /\ ~EqualNext(k)
      BY <1>1, <2>2 DEF EqualNext, n_files, TypeInv, Files
    <3>3. DifferencesFit => CrcsDone(filelist)
      BY <1>1, <3>2, EqualLengths DEF CrcsDone, Sorted
    <3> QED
      BY <1>1, <3>1, <3>3 DEF TypeInv, Sorted, AllListed, Bare, NoFlags
  <2> QED
    BY <2>1, <2>2
<1>4. DifferencesFit => CrcsDone(t) /\ KeysTogether(t) /\ InodesTogether(t)
  BY <1>1, <1>3, OrderTogether
<1>5. Files(t)' /\ Complete(t, Len(names) + 1)' /\ (CrcsDone(t)' <=> CrcsDone(t))
  BY <1>1, <1>3, ListStays DEF fixed, Complete
<1>6. TypeInv'
  BY <1>1, <1>2, <1>3, <1>5 DEF TypeInv, fixed, output, Distinct, Phases, Files
<1>7. AllListed'
  BY <1>2, <1>5 DEF AllListed, Complete
<1>8. (DifferencesFit => CrcsDone(filelist) /\ KeysTogether(filelist) /\ InodesTogether(filelist))'
  BY <1>2, <1>4, <1>5 DEF CrcsDone, KeysTogether, InodesTogether, SameKey
<1>9. links' = <<>> /\ dups' = <<>> /\ headfn' = 0
  BY <1>1 DEF output, Sorted
<1>10. Len(t) \in Nat /\ DOMAIN t = 1 .. Len(t)
  BY <1>3 DEF Files
<1>11. IsInjective(links') /\ Pairs(links') = {}
  BY <1>9 DEF IsInjective, Pairs
<1>12. ASSUME 1 \in DOMAIN t PROVE LinksOf(1, 1)'
  BY <1>2, <1>3, <1>12 DEF LinksOf, NoFlags, IsLnk
<1>13. Linking'
  <2>1. \A k \in DOMAIN t : ~IsLnk(t, k) /\ ~IsDup(t, k)
    BY <1>3 DEF NoFlags, IsLnk, IsDup
  <2>2. \A k \in DOMAIN t : k < 2 => k = 1
    BY <1>10
  <2> QED
    BY <1>1, <1>2, <1>7, <1>8, <1>9, <1>10, <1>11, <1>12, <2>1, <2>2 
    DEF Linking, n_files, IsDup, IsLnk, Pairs
<1> QED
  BY <1>1, <1>6, <1>13 DEF IInv

-----------------------------------------------------------------------------
(* scan2, first loop.                                                      *)

(* A list that differs only in flags.                                      *)
SameFields(f, g) ==
    f.path = g.path /\ f.length = g.length /\ f.crc32 = g.crc32 /\ f.inode = g.inode

LEMMA FlagsOnly ==
    ASSUME NEW s, NEW t \in Seq(EntryType), DOMAIN t = DOMAIN s,
           \A k \in DOMAIN s : SameFields(t[k], s[k]), Files(s), Distinct(s)
    PROVE  /\ Files(t) /\ Distinct(t)
           /\ \A n : Complete(s, n) => Complete(t, n)
           /\ CrcsDone(s) => CrcsDone(t)
           /\ KeysTogether(s) => KeysTogether(t)
           /\ InodesTogether(s) => InodesTogether(t)
<1>1. Files(t)
  BY DEF Files, Describes, SameFields
<1>2. Distinct(t)
  BY DEF Distinct, SameFields
<1>3. \A n : Complete(s, n) => Complete(t, n)
  BY DEF Complete, SameFields
<1>4. CrcsDone(s) => CrcsDone(t)
  BY DEF CrcsDone, SameFields, TextOf
<1>5. KeysTogether(s) => KeysTogether(t)
  BY DEF KeysTogether, SameFields, SameKey
<1>6. InodesTogether(s) => InodesTogether(t)
  BY DEF InodesTogether, SameFields
<1> QED
  BY <1>1, <1>2, <1>3, <1>4, <1>5, <1>6

(* A flag that is set.                                                     *)
LEMMA FlagSet ==
    ASSUME Files(filelist), NEW k \in DOMAIN filelist, NEW flag \in {"LNK", "DUP"},
           NEW e, e = WithFlag(k, flag)
    PROVE  /\ e \in EntryType /\ SameFields(e, filelist[k])
           /\ e.flags = filelist[k].flags \cup {flag}
<1>1. PICK f : f = filelist[k]
  OBVIOUS
<1>2. f \in EntryType /\ f.flags \in Flags
  BY <1>1, EntryNumbers DEF Files
<1>3. e = [f EXCEPT !.flags = f.flags \cup {flag}]
  BY <1>1, <1>2 DEF WithFlag, EntryType
<1>4. f.flags \cup {flag} \in Flags
  BY <1>2 DEF Flags
<1>5. e \in EntryType /\ e.flags = f.flags \cup {flag}
  BY <1>2, <1>3, <1>4 DEF EntryType
<1>6. SameFields(e, f)
  BY <1>2, <1>3 DEF EntryType, SameFields
<1> QED
  BY <1>1, <1>5, <1>6

(* A line that is added to a report.                                       *)
LEMMA PairsAppend ==
    ASSUME NEW r \in Seq(Nat \X Nat), NEW l \in Nat \X Nat
    PROVE  /\ Append(r, l) \in Seq(Nat \X Nat)
           /\ \A m : m \in Pairs(Append(r, l)) <=> m \in Pairs(r) \/ m = l
<1>1. PICK q : q = Append(r, l)
  OBVIOUS
<1>2. /\ q \in Seq(Nat \X Nat) /\ Len(r) \in Nat /\ DOMAIN r = 1 .. Len(r)
      /\ DOMAIN q = 1 .. Len(r) + 1 /\ q[Len(r) + 1] = l
      /\ \A k \in DOMAIN r : q[k] = r[k]
  BY <1>1
<1>3. \A k \in DOMAIN q : k \in DOMAIN r \/ q[k] = l
  BY <1>2
<1>4. \A k \in DOMAIN r : k \in DOMAIN q
  BY <1>2
<1>5. Len(r) + 1 \in DOMAIN q
  BY <1>2
<1> QED
  BY <1>1, <1>2, <1>3, <1>4, <1>5 DEF Pairs

LEMMA MarkLinkKeeps ==
    ASSUME IInv, MarkLink
    PROVE  IInv'
<1>1. /\ TypeInv /\ Linking /\ pc = "links" /\ ix <= n_files /\ SameInode
      /\ filelist' = [filelist EXCEPT ![ix2] = WithFlag(ix2, "LNK")]
      /\ links' = IF linkflag THEN Append(links, <<filelist[ix].path, filelist[ix2].path>>)
                              ELSE links
      /\ ix2' = ix2 + 1
      /\ UNCHANGED <<fixed, pc, ix, lastix, lnkmatch, headfn, empty, dups>>
  BY DEF IInv, MarkLink
<1>2. /\ Files(filelist) /\ Distinct(filelist) /\ filelist \in Seq(EntryType)
      /\ Len(filelist) \in Nat /\ DOMAIN filelist = 1 .. Len(filelist)
      /\ ix \in Nat \ {0} /\ ix2 \in Nat /\ linkflag \in BOOLEAN
      /\ links \in Seq(Nat \X Nat)
  BY <1>1 DEF TypeInv, Files
<1>3. /\ ix < ix2 /\ ix2 <= Len(filelist) /\ ix \in DOMAIN filelist /\ ix2 \in DOMAIN filelist
      /\ filelist[ix].inode = filelist[ix2].inode
  BY <1>1, <1>2 DEF Linking, SameInode, n_files
<1>4. PICK t, e, a, b : t = filelist' /\ e = WithFlag(ix2, "LNK") /\ a = ix /\ b = ix2
  OBVIOUS
<1>5. /\ e \in EntryType /\ SameFields(e, filelist[ix2])
      /\ e.flags = filelist[ix2].flags \cup {"LNK"}
  BY <1>2, <1>3, <1>4, FlagSet
<1>6. /\ t \in Seq(EntryType) /\ DOMAIN t = DOMAIN filelist /\ Len(t) = Len(filelist)
      /\ t[ix2] = e /\ \A k \in DOMAIN filelist : k # ix2 => t[k] = filelist[k]
  BY <1>1, <1>2, <1>3, <1>4, <1>5
<1>7. \A k \in DOMAIN filelist : SameFields(t[k], filelist[k])
  BY <1>5, <1>6 DEF SameFields
<1>8. /\ Files(t) /\ Distinct(t) /\ Complete(t, Len(names) + 1)
      /\ DifferencesFit => CrcsDone(t) /\ KeysTogether(t) /\ InodesTogether(t)
  BY <1>1, <1>2, <1>6, <1>7, FlagsOnly DEF Linking, AllListed
<1>9. \A k \in DOMAIN t : /\ IsLnk(t, k) <=> IsLnk(filelist, k) \/ k = ix2
                          /\ ~IsDup(t, k)
  BY <1>1, <1>5, <1>6 DEF IsLnk, IsDup, Linking
<1>10. PICK l : l = <<filelist[ix].path, filelist[ix2].path>>
  OBVIOUS
<1>11. l \in Nat \X Nat
  BY <1>2, <1>3, <1>10, EntryNumbers
<1>12. /\ links' \in Seq(Nat \X Nat)
       /\ \A m : m \in Pairs(links') <=> m \in Pairs(links) \/ (linkflag /\ m = l)
  <2>1. CASE ~linkflag
    BY <1>1, <1>2, <2>1
  <2>2. CASE linkflag
    <3>1. links' = Append(links, l)
      BY <1>1, <1>10, <2>2
    <3> QED
      BY <1>2, <1>11, <2>2, <3>1, PairsAppend
  <2> QED
    BY <2>1, <2>2
<1>13. \A m \in Pairs(links) : m # l
  <2> SUFFICES ASSUME l \in Pairs(links) PROVE FALSE
    OBVIOUS
  <2>1. PICK h, k : /\ h \in DOMAIN filelist /\ k \in DOMAIN filelist /\ k < ix2
                    /\ l = <<filelist[h].path, filelist[k].path>>
    BY <1>1 DEF Linking
  <2>2. filelist[k].path = filelist[ix2].path
    BY <1>10, <2>1
  <2>3. k = ix2
    BY <1>2, <1>3, <2>1, <2>2 DEF Distinct
  <2> QED
    BY <1>2, <2>1, <2>3
<1>14. IsInjective(links')
  <2>1. IsInjective(links)
    BY <1>1 DEF Linking
  <2>2. CASE ~linkflag
    BY <1>1, <2>1, <2>2
  <2>3. CASE linkflag
    <3>1. /\ links' = Append(links, l) /\ Len(links) \in Nat /\ DOMAIN links = 1 .. Len(links)
          /\ DOMAIN links' = 1 .. Len(links) + 1 /\ links'[Len(links) + 1] = l
          /\ \A k \in DOMAIN links : links'[k] = links[k]
      <4>1. links' = Append(links, l)
        BY <1>1, <1>10, <2>3
      <4> QED
        BY <1>2, <1>11, <4>1
    <3>2. \A k \in DOMAIN links : links[k] # l
      BY <1>13 DEF Pairs
    <3> QED
      BY <2>1, <3>1, <3>2 DEF IsInjective
  <2> QED
    BY <2>2, <2>3
<1>15. Files(t)' /\ Complete(t, Len(names) + 1)' /\ (CrcsDone(t)' <=> CrcsDone(t))
  BY <1>1, <1>8, ListStays DEF fixed, Complete
<1>16. TypeInv'
  BY <1>1, <1>2, <1>4, <1>8, <1>12, <1>15 DEF TypeInv, fixed, Distinct, Phases, Files
<1>17. AllListed'
  BY <1>4, <1>15 DEF AllListed, Complete
<1>18. (DifferencesFit => CrcsDone(filelist) /\ KeysTogether(filelist) /\ InodesTogether(filelist))'
  BY <1>4, <1>8, <1>15 DEF CrcsDone, KeysTogether, InodesTogether, SameKey
<1>19. LinksOf(ix, ix2 - 1) /\ filelist[ix2 - 1].inode = filelist[ix2].inode /\ ix2 - 1 \in DOMAIN filelist
  <2>1. ix2 - 1 \in DOMAIN filelist /\ ix <= ix2 - 1 /\ ix2 - 1 < ix2
    BY <1>2, <1>3
  <2>2. LinksOf(ix, ix2 - 1)
    BY <1>1, <2>1 DEF Linking
  <2> QED
    BY <1>3, <2>1, <2>2 DEF LinksOf
<1>20. ASSUME NEW h \in DOMAIN filelist, NEW k \in DOMAIN filelist, h < ix2, LinksOf(h, k),
              \A m \in h + 1 .. k : m < ix2
       PROVE  LinksOf(h, k)'
  <2>1. ~IsLnk(t, h) /\ t[h].inode = t[k].inode /\ (h > 1 => t[h - 1].inode # t[h].inode)
    BY <1>2, <1>6, <1>7, <1>9, <1>20 DEF LinksOf, SameFields
  <2>2. ASSUME NEW m \in h + 1 .. k, linkflag
        PROVE  <<t[h].path, t[m].path>> \in Pairs(links')
    <3>1. m \in DOMAIN filelist /\ t[h].path = filelist[h].path /\ t[m].path = filelist[m].path
      BY <1>2, <1>7, <1>20 DEF SameFields
    <3> QED
      BY <1>12, <1>20, <2>2, <3>1 DEF LinksOf
  <2> QED
    BY <1>1, <1>4, <2>1, <2>2 DEF LinksOf, IsLnk, Pairs, fixed
<1>21. LinksOf(a, b)'
  <2>1. ~IsLnk(t, ix) /\ t[ix].inode = t[ix2].inode /\ (ix > 1 => t[ix - 1].inode # t[ix].inode)
    <3>1. ix # ix2 /\ (ix > 1 => ix - 1 \in DOMAIN filelist)
      BY <1>2, <1>3
    <3> QED
      BY <1>3, <1>6, <1>7, <1>9, <1>19, <3>1 DEF LinksOf, SameFields
  <2>2. ASSUME NEW m \in ix + 1 .. ix2, linkflag
        PROVE  <<t[ix].path, t[m].path>> \in Pairs(links')
    <3>1. m \in DOMAIN filelist /\ t[ix].path = filelist[ix].path /\ t[m].path = filelist[m].path
      <4>1. m \in DOMAIN filelist
        BY <1>2, <1>3
      <4> QED
        BY <1>3, <1>7, <4>1 DEF SameFields
    <3>2. CASE m = ix2
      BY <1>10, <1>12, <2>2, <3>1, <3>2
    <3>3. CASE m # ix2
      <4>1. m \in ix + 1 .. ix2 - 1
        BY <1>2, <3>3
      <4> QED
        BY <1>12, <1>19, <2>2, <3>1, <4>1 DEF LinksOf
    <3> QED
      BY <3>2, <3>3
  <2>3. linkflag' = linkflag
    BY <1>1 DEF fixed
  <2> QED
    BY <1>4, <2>1, <2>2, <2>3 DEF LinksOf, IsLnk, Pairs
<1>22. ASSUME NEW k \in DOMAIN t
       PROVE  /\ IsLnk(t, k) => k > 1 /\ k < ix2 + 1 /\ t[k - 1].inode = t[k].inode
              /\ k < ix2 + 1 => \E h \in 1 .. k : LinksOf(h, k)'
              /\ ix <= k /\ k < ix2 + 1 => LinksOf(a, k)'
  <2>1. CASE k = ix2
    <3>1. ix \in 1 .. ix2 /\ ix2 > 1 /\ t[ix2 - 1].inode = t[ix2].inode
      <4>1. t[ix2 - 1].inode = t[ix2].inode
        BY <1>3, <1>7, <1>19 DEF SameFields
      <4> QED
        BY <1>2, <1>3, <4>1
    <3> QED
      BY <1>2, <1>4, <1>21, <2>1, <3>1
  <2>2. CASE k # ix2
    <3>1. k \in DOMAIN filelist /\ (k < ix2 + 1 => k < ix2)
      BY <1>2, <1>6, <2>2
    <3>2. IsLnk(t, k) => k > 1 /\ k < ix2 + 1 /\ t[k - 1].inode = t[k].inode
      <4> SUFFICES ASSUME IsLnk(t, k) PROVE k > 1 /\ k < ix2 + 1 /\ t[k - 1].inode = t[k].inode
        OBVIOUS
      <4>1. k > 1 /\ k < ix2 /\ filelist[k - 1].inode = filelist[k].inode
        BY <1>1, <1>9, <2>2, <3>1 DEF Linking
      <4>2. k - 1 \in DOMAIN filelist
        BY <1>2, <3>1, <4>1
      <4> QED
        BY <1>2, <1>7, <3>1, <4>1, <4>2 DEF SameFields
    <3>3. ASSUME k < ix2 + 1 PROVE \E h \in 1 .. k : LinksOf(h, k)'
      <4>1. PICK h \in 1 .. k : LinksOf(h, k)
        BY <1>1, <3>1, <3>3 DEF Linking
      <4>2. h \in DOMAIN filelist /\ h < ix2 /\ \A m \in h + 1 .. k : m < ix2
        BY <1>2, <3>1, <3>3
      <4> QED
        BY <1>20, <3>1, <4>1, <4>2
    <3>4. ASSUME ix <= k, k < ix2 + 1 PROVE LinksOf(a, k)'
      <4>1. LinksOf(ix, k) /\ \A m \in ix + 1 .. k : m < ix2
        BY <1>1, <1>2, <3>1, <3>4 DEF Linking
      <4> QED
        BY <1>3, <1>4, <1>20, <3>1, <4>1
    <3> QED
      BY <3>2, <3>3, <3>4
  <2> QED
    BY <2>1, <2>2
<1>23. ASSUME NEW m \in Pairs(links')
       PROVE  /\ linkflag
              /\ \E h, k \in DOMAIN t : /\ h < k /\ k < ix2 + 1 /\ t[h].inode = t[k].inode
                                        /\ m = <<t[h].path, t[k].path>>
  <2>1. CASE m \in Pairs(links)
    <3>1. PICK h, k : /\ linkflag /\ h \in DOMAIN filelist /\ k \in DOMAIN filelist
                      /\ h < k /\ k < ix2 /\ filelist[h].inode = filelist[k].inode
                      /\ m = <<filelist[h].path, filelist[k].path>>
      BY <1>1, <2>1 DEF Linking
    <3>2. k < ix2 + 1 /\ t[h].inode = t[k].inode /\ m = <<t[h].path, t[k].path>>
      BY <1>2, <1>7, <3>1 DEF SameFields
    <3> QED
      BY <1>6, <3>1, <3>2
  <2>2. CASE linkflag /\ m = l
    <3>1. ix < ix2 /\ ix2 < ix2 + 1 /\ t[ix].inode = t[ix2].inode /\ m = <<t[ix].path, t[ix2].path>>
      <4>1. t[ix].inode = t[ix2].inode /\ m = <<t[ix].path, t[ix2].path>>
        BY <1>3, <1>7, <1>10, <2>2 DEF SameFields
      <4> QED
        BY <1>2, <1>3, <4>1
    <3> QED
      BY <1>3, <1>6, <2>2, <3>1
  <2> QED
    BY <1>12, <2>1, <2>2
<1>24. Linking'
  <2>1. ix' = ix /\ linkflag' = linkflag /\ n_files' = Len(filelist) /\ dups' = <<>> /\ headfn' = 0
    BY <1>1, <1>4, <1>6 DEF Linking, fixed, n_files
  <2>2. ix' <= n_files' + 1 /\ ix' < ix2' /\ (ix' <= n_files' => ix2' <= n_files' + 1)
    BY <1>1, <1>2, <1>3, <2>1
  <2>3. (\A k \in DOMAIN filelist :
          /\ IsLnk(filelist, k) => k > 1 /\ k < ix2 /\ filelist[k - 1].inode = filelist[k].inode
          /\ k < ix2 => \E h \in 1 .. k : LinksOf(h, k)
          /\ ix <= k /\ k < ix2 => LinksOf(ix, k))'
    <3> SUFFICES ASSUME NEW k \in DOMAIN t
                 PROVE  (/\ IsLnk(filelist, k) =>
                              k > 1 /\ k < ix2 /\ filelist[k - 1].inode = filelist[k].inode
                         /\ k < ix2 => \E h \in 1 .. k : LinksOf(h, k)
                         /\ ix <= k /\ k < ix2 => LinksOf(ix, k))'
      BY <1>4
    <3>1. IsLnk(filelist, k)' => IsLnk(t, k)
      BY <1>4 DEF IsLnk
    <3>2. LinksOf(a, k)' => LinksOf(ix, k)'
      BY <1>4, <2>1 DEF LinksOf
    <3> QED
      BY <1>1, <1>4, <1>22, <2>1, <3>1, <3>2
  <2>4. (\A m \in Pairs(links) :
           /\ linkflag
           /\ \E h, k \in DOMAIN filelist :
                /\ h < k /\ k < ix2 /\ filelist[h].inode = filelist[k].inode
                /\ m = <<filelist[h].path, filelist[k].path>>)'
    <3> SUFFICES ASSUME NEW m \in Pairs(links')
                 PROVE  (/\ linkflag
                         /\ \E h, k \in DOMAIN filelist :
                              /\ h < k /\ k < ix2 /\ filelist[h].inode = filelist[k].inode
                              /\ m = <<filelist[h].path, filelist[k].path>>)'
      BY DEF Pairs
    <3>1. PICK h, k : /\ h \in DOMAIN t /\ k \in DOMAIN t /\ linkflag
                      /\ h < k /\ k < ix2 + 1 /\ t[h].inode = t[k].inode
                      /\ m = <<t[h].path, t[k].path>>
      BY <1>23
    <3>2. /\ h \in DOMAIN filelist' /\ k \in DOMAIN filelist' /\ linkflag'
          /\ h < k /\ k < ix2' /\ filelist'[h].inode = filelist'[k].inode
          /\ m = <<filelist'[h].path, filelist'[k].path>>
      BY <1>1, <1>4, <2>1, <3>1
    <3> QED
      BY <3>2
  <2>5. (\A k \in DOMAIN filelist : ~IsDup(filelist, k))'
    BY <1>4, <1>9 DEF IsDup
  <2> QED
    BY <1>14, <1>17, <1>18, <2>1, <2>2, <2>3, <2>4, <2>5 DEF Linking
<1> QED
  BY <1>1, <1>16, <1>24 DEF IInv

LEMMA NextInodeKeeps ==
    ASSUME IInv, NextInode
    PROVE  IInv'
<1>1. /\ TypeInv /\ Linking /\ pc = "links" /\ ix <= n_files /\ ~SameInode
      /\ ix' = ix2 /\ ix2' = ix2 + 1
      /\ UNCHANGED <<fixed, filelist, pc, lastix, lnkmatch, headfn, output>>
  BY DEF IInv, NextInode
<1>2. /\ filelist \in Seq(EntryType)
      /\ Len(filelist) \in Nat /\ DOMAIN filelist = 1 .. Len(filelist)
      /\ ix \in Nat \ {0} /\ ix2 \in Nat
  BY <1>1 DEF TypeInv, Files
<1>3. ix < ix2 /\ ix2 <= Len(filelist) + 1 /\ ix \in DOMAIN filelist /\ ix2 \in Nat \ {0}
  BY <1>1, <1>2 DEF Linking, n_files
<1>4. TypeInv'
  BY <1>1, <1>2, <1>3 DEF TypeInv, fixed, output, Distinct, Phases, Files, Describes, Listed
<1>5. ASSUME ix2 \in DOMAIN filelist PROVE LinksOf(ix2, ix2)
  <2>1. filelist[ix].inode # filelist[ix2].inode
    BY <1>1, <1>2, <1>5 DEF SameInode, n_files
  <2>2. ix2 - 1 \in DOMAIN filelist /\ ix <= ix2 - 1 /\ ix2 - 1 < ix2
    BY <1>2, <1>3
  <2>3. LinksOf(ix, ix2 - 1)
    BY <1>1, <2>2 DEF Linking
  <2>4. filelist[ix2 - 1].inode # filelist[ix2].inode
    BY <2>1, <2>3 DEF LinksOf
  <2>5. ~IsLnk(filelist, ix2)
    BY <1>1, <1>2, <1>5 DEF Linking
  <2> QED
    BY <1>2, <2>4, <2>5 DEF LinksOf
<1>6. \A k \in DOMAIN filelist :
        /\ IsLnk(filelist, k) => k > 1 /\ k < ix2 + 1 /\ filelist[k - 1].inode = filelist[k].inode
        /\ k < ix2 + 1 => \E h \in 1 .. k : LinksOf(h, k)
        /\ ix2 <= k /\ k < ix2 + 1 => LinksOf(ix2, k)
  <2> SUFFICES ASSUME NEW k \in DOMAIN filelist
               PROVE  /\ IsLnk(filelist, k) =>
                           k > 1 /\ k < ix2 + 1 /\ filelist[k - 1].inode = filelist[k].inode
                      /\ k < ix2 + 1 => \E h \in 1 .. k : LinksOf(h, k)
                      /\ ix2 <= k /\ k < ix2 + 1 => LinksOf(ix2, k)
    OBVIOUS
  <2>1. CASE k < ix2
    BY <1>1, <1>2, <2>1 DEF Linking
  <2>2. CASE k = ix2
    <3>1. k \in 1 .. k
      BY <1>2
    <3> QED
      BY <1>1, <1>2, <1>5, <2>2, <3>1 DEF Linking
  <2>3. CASE k > ix2
    BY <1>1, <1>2, <2>3 DEF Linking
  <2> QED
    BY <1>2, <2>1, <2>2, <2>3
<1>7. \A l \in Pairs(links) :
         /\ linkflag
         /\ \E h, k \in DOMAIN filelist :
              /\ h < k /\ k < ix2 + 1 /\ filelist[h].inode = filelist[k].inode
              /\ l = <<filelist[h].path, filelist[k].path>>
  <2> SUFFICES ASSUME NEW l \in Pairs(links)
               PROVE  /\ linkflag
                      /\ \E h, k \in DOMAIN filelist :
                           /\ h < k /\ k < ix2 + 1 /\ filelist[h].inode = filelist[k].inode
                           /\ l = <<filelist[h].path, filelist[k].path>>
    OBVIOUS
  <2>1. PICK h, k : /\ linkflag /\ h \in DOMAIN filelist /\ k \in DOMAIN filelist
                    /\ h < k /\ k < ix2 /\ filelist[h].inode = filelist[k].inode
                    /\ l = <<filelist[h].path, filelist[k].path>>
    BY <1>1 DEF Linking
  <2>2. k < ix2 + 1
    BY <1>2, <2>1
  <2> QED
    BY <2>1, <2>2
<1>8. ix2 <= n_files + 1 /\ ix2 < ix2 + 1 /\ (ix2 <= n_files => ix2 + 1 <= n_files + 1)
  BY <1>2, <1>3 DEF n_files
<1>9. Linking'
  <2>1. /\ filelist' = filelist /\ n_files' = n_files /\ links' = links /\ dups' = dups
        /\ linkflag' = linkflag /\ headfn' = headfn /\ data' = data /\ names' = names
    BY <1>1 DEF n_files, output, fixed
  <2>2. AllListed' /\ (CrcsDone(filelist)' <=> CrcsDone(filelist))
    BY <1>1, <2>1 DEF Linking, AllListed, Complete, Listed, CrcsDone, TextOf
  <2>3. \A h, k : LinksOf(h, k)' <=> LinksOf(h, k)
    BY <2>1 DEF LinksOf, Pairs, IsLnk
  <2>4. (\A k \in DOMAIN filelist :
          /\ IsLnk(filelist, k) => k > 1 /\ k < ix2 /\ filelist[k - 1].inode = filelist[k].inode
          /\ k < ix2 => \E h \in 1 .. k : LinksOf(h, k)
          /\ ix <= k /\ k < ix2 => LinksOf(ix, k))'
    BY <1>1, <1>6, <2>1 DEF IsLnk, LinksOf, Pairs
  <2>5. (\A l \in Pairs(links) :
           /\ linkflag
           /\ \E h, k \in DOMAIN filelist :
                /\ h < k /\ k < ix2 /\ filelist[h].inode = filelist[k].inode
                /\ l = <<filelist[h].path, filelist[k].path>>)'
    BY <1>1, <1>7, <2>1 DEF Pairs
  <2>6. (KeysTogether(filelist)' <=> KeysTogether(filelist)) /\ (InodesTogether(filelist)' <=> InodesTogether(filelist))
    BY <2>1 DEF KeysTogether, InodesTogether, SameKey
  <2> QED
    BY <1>1, <1>8, <2>1, <2>2, <2>4, <2>5, <2>6 DEF Linking, IsDup
<1> QED
  BY <1>1, <1>4, <1>9 DEF IInv

(* The links of an inode stand behind one file.                            *)
LEMMA LinksTogether ==
    ASSUME TypeInv, InodesTogether(filelist),
           NEW h \in DOMAIN filelist, NEW i \in DOMAIN filelist,
           NEW j \in DOMAIN filelist, NEW k \in DOMAIN filelist,
           LinksOf(h, j), LinksOf(i, k), filelist[j].inode = filelist[k].inode, h < i
    PROVE  FALSE
<1>1. filelist \in Seq(EntryType) /\ DOMAIN filelist = 1 .. Len(filelist) /\ Len(filelist) \in Nat
  BY DEF TypeInv, Files
<1>2. filelist[h].inode = filelist[i].inode /\ (i > 1 => filelist[i - 1].inode # filelist[i].inode)
  BY DEF LinksOf
<1>3. i - 1 \in DOMAIN filelist /\ i > 1 /\ (h = i - 1 \/ h < i - 1) /\ i - 1 < i
  BY <1>1
<1>4. CASE h = i - 1
  BY <1>2, <1>3, <1>4
<1>5. CASE h < i - 1
  <2>1. filelist[h].inode = filelist[i - 1].inode
    BY <1>2, <1>3, <1>5 DEF InodesTogether
  <2> QED
    BY <1>2, <1>3, <2>1
<1> QED
  BY <1>3, <1>4, <1>5

LEMMA LinksDoneKnown ==
    ASSUME TypeInv, Linking, ix > n_files
    PROVE  HasFile(filelist) /\ LinksKnown
<1>1. /\ filelist \in Seq(EntryType) /\ DOMAIN filelist = 1 .. Len(filelist)
      /\ Len(filelist) \in Nat /\ ix \in Nat /\ ix2 \in Nat
  BY DEF TypeInv, Files
<1>2. \A k \in DOMAIN filelist : k < ix2
  BY <1>1 DEF Linking, n_files
<1>3. ASSUME NEW k \in DOMAIN filelist
      PROVE  \E h \in 1 .. k : h \in DOMAIN filelist /\ LinksOf(h, k)
  <2>1. PICK h \in 1 .. k : LinksOf(h, k)
    BY <1>2 DEF Linking
  <2>2. h \in DOMAIN filelist
    BY <1>1
  <2> QED
    BY <2>1, <2>2
<1>4. HasFile(filelist)
  BY <1>3 DEF HasFile, LinksOf
<1>5. \A k \in DOMAIN filelist : names[filelist[k].path] = filelist[k].inode /\ filelist[k].path \in Listed
  BY DEF TypeInv, Files, Describes
<1>6. LinksSound
  <2> SUFFICES ASSUME NEW l \in Pairs(links) PROVE l[1] # l[2] /\ Linked(l[1], l[2]) /\ linkflag
    BY DEF LinksSound, Linking
  <2>1. PICK h, k : /\ linkflag /\ h \in DOMAIN filelist /\ k \in DOMAIN filelist
                    /\ h < k /\ filelist[h].inode = filelist[k].inode
                    /\ l = <<filelist[h].path, filelist[k].path>>
    BY DEF Linking
  <2>2. filelist[h].path # filelist[k].path
    <3>1. h # k
      BY <1>1, <2>1
    <3> QED
      BY <2>1, <3>1 DEF TypeInv, Distinct
  <2> QED
    BY <1>5, <2>1, <2>2 DEF Linked
<1>7. ASSUME DifferencesFit PROVE LinksComplete
  <2> SUFFICES ASSUME linkflag, NEW p \in Listed, NEW q \in Listed, p # q, Linked(p, q)
               PROVE  \E h \in Listed : {p, q} \subseteq
                          {h} \cup {l[2] : l \in {m \in Pairs(links) : m[1] = h}}
    BY DEF LinksComplete
  <2>1. p < Len(names) + 1 /\ q < Len(names) + 1
    BY DEF Listed, TypeInv
  <2>2. PICK j, k : /\ j \in DOMAIN filelist /\ k \in DOMAIN filelist
                    /\ filelist[j].path = p /\ filelist[k].path = q
    BY <2>1 DEF Linking, AllListed, Complete
  <2>3. filelist[j].inode = filelist[k].inode
    BY <1>5, <2>2 DEF Linked
  <2>4. PICK h, i : /\ h \in DOMAIN filelist /\ h \in 1 .. j /\ LinksOf(h, j)
                    /\ i \in DOMAIN filelist /\ i \in 1 .. k /\ LinksOf(i, k)
    BY <1>3, <2>2
  <2>5. InodesTogether(filelist)
    BY <1>7 DEF Linking
  <2>6. ~(h < i) /\ ~(i < h)
    BY <2>2, <2>3, <2>4, <2>5, LinksTogether
  <2>7. h = i
    BY <1>1, <2>4, <2>6
  <2>8. ASSUME NEW m \in DOMAIN filelist, h \in 1 .. m, LinksOf(h, m)
        PROVE  filelist[m].path = filelist[h].path
                 \/ <<filelist[h].path, filelist[m].path>> \in Pairs(links)
    <3>1. m = h \/ m \in h + 1 .. m
      BY <1>1, <2>8
    <3> QED
      BY <2>8, <3>1 DEF LinksOf
  <2>9. PICK H : H = filelist[h].path /\ H \in Listed
    BY <1>5, <2>4
  <2>10. /\ p = H \/ <<H, p>> \in Pairs(links)
         /\ q = H \/ <<H, q>> \in Pairs(links)
    BY <2>2, <2>4, <2>7, <2>8, <2>9
  <2>11. \A x : <<H, x>> \in Pairs(links) => x \in {l[2] : l \in {m \in Pairs(links) : m[1] = H}}
    <3> SUFFICES ASSUME NEW x, <<H, x>> \in Pairs(links)
                 PROVE  \E l \in {m \in Pairs(links) : m[1] = H} : x = l[2]
      OBVIOUS
    <3>1. <<H, x>>[1] = H /\ <<H, x>>[2] = x
      OBVIOUS
    <3> QED
      BY <3>1
  <2> QED
    BY <2>9, <2>10, <2>11
<1> QED
  BY <1>4, <1>6, <1>7 DEF LinksKnown

(* What is said of the links stays true.                                   *)
LEMMA LinksStay ==
    ASSUME UNCHANGED <<data, names, linkflag, links>>, LinksKnown
    PROVE  LinksKnown'
<1>1. Listed' = Listed /\ links' = links /\ names' = names /\ linkflag' = linkflag
  BY DEF Listed
<1> QED
  BY <1>1 DEF LinksKnown, LinksSound, LinksComplete, Pairs, Linked

LEMMA LinksDoneKeeps ==
    ASSUME IInv, LinksDone
    PROVE  IInv'
<1>1. /\ TypeInv /\ Linking /\ pc = "links" /\ ix > n_files /\ pc' = "dups"
      /\ ix' = 1 /\ ix2' = 2 /\ lastix' = 2 /\ lnkmatch' = TRUE
      /\ UNCHANGED <<fixed, filelist, headfn, output>>
  BY DEF IInv, LinksDone, StartRun
<1>2. /\ filelist' = filelist /\ n_files' = n_files /\ links' = links /\ dups' = dups
      /\ linkflag' = linkflag /\ headfn' = headfn /\ data' = data /\ names' = names
  BY <1>1 DEF n_files, output, fixed
<1>3. /\ filelist \in Seq(EntryType) /\ DOMAIN filelist = 1 .. Len(filelist) /\ Len(filelist) \in Nat
  BY <1>1 DEF TypeInv, Files
<1>4. TypeInv'
  BY <1>1, <1>2 DEF TypeInv, Distinct, Phases, Files, Describes, Listed
<1>5. AllListed' /\ HasFile(filelist)' /\ LinksKnown'
  <2>1. AllListed'
    BY <1>1, <1>2 DEF Linking, AllListed, Complete, Listed
  <2>2. HasFile(filelist) /\ LinksKnown
    BY <1>1, LinksDoneKnown
  <2>3. HasFile(filelist)'
    BY <1>2, <2>2 DEF HasFile, IsLnk
  <2> QED
    BY <1>2, <2>1, <2>2, <2>3, LinksStay
<1>6. \A k \in DOMAIN filelist : /\ ~IsDup(filelist, k)
                                 /\ IsLnk(filelist, k) => k > 1 /\ SameText(filelist, k - 1, k)
  BY <1>1 DEF Linking, SameText, TextOf
<1>7. Run'
  <2>1. \A k \in DOMAIN filelist : k >= 1
    BY <1>3
  <2>2. ASSUME NEW k \in DOMAIN filelist, k = 2, IsLnk(filelist, k) PROVE SameText(filelist, 1, k)
    <3>1. k - 1 = 1
      BY <2>2
    <3> QED
      BY <1>6, <2>2, <3>1
  <2>3. \A k \in DOMAIN filelist : ~(1 < k /\ k < 2)
    BY <1>3
  <2>4. /\ IsDup(filelist, 1)' <=> IsDup(filelist, 1)
        /\ \A k : IsDup(filelist, k)' <=> IsDup(filelist, k)
        /\ \A k : IsLnk(filelist, k)' <=> IsLnk(filelist, k)
        /\ \A j, k : SameText(filelist, j, k)' <=> SameText(filelist, j, k)
    BY <1>2 DEF IsDup, IsLnk, SameText, TextOf
  <2> QED
    BY <1>1, <1>2, <1>3, <1>6, <2>2, <2>3, <2>4 DEF Run, RunOf, n_files
<1>8. (DifferencesFit => Gathered)'
  <2>1. DifferencesFit => CrcsDone(filelist) /\ KeysTogether(filelist)
    BY <1>1 DEF Linking
  <2>2. DifferencesFit => CrcsDone(filelist)' /\ KeysTogether(filelist)'
    BY <1>2, <2>1 DEF CrcsDone, KeysTogether, SameKey, TextOf
  <2>3. \A j, k \in DOMAIN filelist : j < k => ~(j < 1) /\ ~(k <= 1) /\ ~(k < 2)
    BY <1>3
  <2> QED
    BY <1>1, <1>2, <2>2, <2>3 DEF Gathered, GatheredTo
<1>9. Matching'
  BY <1>1, <1>2, <1>5, <1>7, <1>8 DEF Matching, Linking
<1> QED
  BY <1>1, <1>4, <1>9 DEF IInv

-----------------------------------------------------------------------------
(* scan2, second loop.  MarkDup takes entry b out of the list and puts it  *)
(* back, marked, at a.                                                     *)
Moved(s, t, a, b) ==
    /\ t \in Seq(EntryType) /\ DOMAIN t = DOMAIN s
    /\ \A k \in DOMAIN s : /\ k < a \/ b < k => t[k] = s[k]
                           /\ a < k /\ k <= b => t[k] = s[k - 1]
    /\ SameFields(t[a], s[b]) /\ t[a].flags = s[b].flags \cup {"DUP"}

LEMMA MarkDupMoves ==
    ASSUME TypeInv, Run, MarkDup
    PROVE  Moved(filelist, filelist', lastix, ix2) /\ lastix \in DOMAIN filelist /\ ix2 \in DOMAIN filelist
<1>1. /\ filelist \in Seq(EntryType) /\ DOMAIN filelist = 1 .. Len(filelist) /\ Len(filelist) \in Nat
      /\ ix \in Nat /\ ix2 \in Nat /\ lastix \in Nat /\ Files(filelist)
  BY DEF TypeInv, Files
<1>2. ix < lastix /\ lastix <= ix2 /\ ix2 <= Len(filelist)
  BY DEF Run, RunOf, MarkDup, Comparing, n_files
<1>3. lastix \in DOMAIN filelist /\ ix2 \in DOMAIN filelist
  BY <1>1, <1>2
<1>4. PICK t, e : t = filelist' /\ e = WithFlag(ix2, "DUP")
  OBVIOUS
<1>5. /\ e \in EntryType /\ SameFields(e, filelist[ix2])
      /\ e.flags = filelist[ix2].flags \cup {"DUP"}
  BY <1>1, <1>3, <1>4, FlagSet
<1>6. t = [k \in DOMAIN filelist |-> IF k = lastix THEN e
                                    ELSE IF k \in lastix + 1 .. ix2 THEN filelist[k - 1]
                                    ELSE filelist[k]]
  BY <1>4 DEF MarkDup
<1>7. DOMAIN t = DOMAIN filelist /\ t[lastix] = e
  BY <1>3, <1>6
<1>8. ASSUME NEW k \in DOMAIN filelist
      PROVE  /\ k < lastix \/ ix2 < k => t[k] = filelist[k]
             /\ lastix < k /\ k <= ix2 => t[k] = filelist[k - 1] /\ k - 1 \in DOMAIN filelist
             /\ t[k] \in EntryType
  <2>1. CASE k = lastix
    BY <1>1, <1>2, <1>5, <1>7, <2>1
  <2>2. CASE lastix < k /\ k <= ix2
    <3>1. k \in lastix + 1 .. ix2 /\ k # lastix /\ k - 1 \in DOMAIN filelist
      BY <1>1, <1>2, <2>2
    <3>2. t[k] = filelist[k - 1]
      BY <1>6, <3>1
    <3> QED
      BY <1>1, <1>2, <2>2, <3>1, <3>2
  <2>3. CASE k < lastix \/ ix2 < k
    <3>1. k \notin lastix + 1 .. ix2 /\ k # lastix
      BY <1>1, <1>2, <2>3
    <3>2. t[k] = filelist[k]
      BY <1>6, <3>1
    <3> QED
      BY <1>1, <1>2, <2>3, <3>2
  <2> QED
    BY <1>1, <2>1, <2>2, <2>3
<1>9. t \in Seq(EntryType)
  <2>1. t = [k \in 1 .. Len(filelist) |-> t[k]]
    BY <1>1, <1>6
  <2>2. \A k \in 1 .. Len(filelist) : t[k] \in EntryType
    BY <1>1, <1>8
  <2> QED
    BY <1>1, <2>1, <2>2
<1> QED
  BY <1>3, <1>4, <1>5, <1>7, <1>8, <1>9 DEF Moved

LEMMA MovedShuffles ==
    ASSUME NEW s \in Seq(EntryType), NEW t, NEW a \in DOMAIN s, NEW b \in DOMAIN s, a <= b,
           Moved(s, t, a, b)
    PROVE  \E p : Shuffle(s, t, p)
<1>1. DOMAIN s = 1 .. Len(s) /\ Len(s) \in Nat /\ a \in Nat /\ b \in Nat
  OBVIOUS
<1> DEFINE f == [k \in DOMAIN s |-> IF k = a THEN b ELSE IF a < k /\ k <= b THEN k - 1 ELSE k]
<1>2. PICK p : p = f
  OBVIOUS
<1>3. \A k \in DOMAIN s : /\ k = a => p[k] = b
                          /\ a < k /\ k <= b => p[k] = k - 1
                          /\ k < a \/ b < k => p[k] = k
  BY <1>1, <1>2
<1> HIDE DEF f
<1>4. \A k \in DOMAIN s : p[k] \in DOMAIN s
  BY <1>1, <1>3
<1>5. \A j, k \in DOMAIN s : p[j] = p[k] => j = k
  BY <1>1, <1>3
<1>6. ASSUME NEW j \in DOMAIN s PROVE \E k \in DOMAIN s : p[k] = j
  <2>1. CASE j = b
    BY <1>3, <2>1
  <2>2. CASE a <= j /\ j < b
    <3>1. j + 1 \in DOMAIN s /\ a < j + 1 /\ j + 1 <= b /\ (j + 1) - 1 = j
      BY <1>1, <2>2
    <3>2. p[j + 1] = j
      BY <1>3, <3>1
    <3> QED
      BY <3>1, <3>2
  <2>3. CASE j < a \/ b < j
    BY <1>3, <2>3
  <2> QED
    BY <1>1, <2>1, <2>2, <2>3
<1>7. ASSUME NEW k \in DOMAIN s PROVE SameFile(t[k], s[p[k]])
  <2>1. CASE k = a
    BY <1>3, <2>1 DEF Moved, SameFields, SameFile
  <2>2. CASE a < k /\ k <= b
    BY <1>3, <2>2 DEF Moved, SameFile
  <2>3. CASE k < a \/ b < k
    BY <1>3, <2>3 DEF Moved, SameFile
  <2> QED
    BY <1>1, <2>1, <2>2, <2>3
<1>8. Shuffle(s, t, p)
  BY <1>4, <1>5, <1>6, <1>7 DEF Shuffle, Moved
<1> QED
  BY <1>8

(* When everything from i to b has one key, the keys stay where they are.  *)
LEMMA MovedKeys ==
    ASSUME NEW s \in Seq(EntryType), NEW t,
           NEW i \in DOMAIN s, NEW a \in DOMAIN s, NEW b \in DOMAIN s, i < a, a <= b,
           Moved(s, t, a, b), \A k \in DOMAIN s : i < k /\ k <= b => SameKey(s, i, k)
    PROVE  /\ \A j, k \in DOMAIN s : SameKey(t, j, k) <=> SameKey(s, j, k)
           /\ KeysTogether(s) => KeysTogether(t)
<1>1. DOMAIN s = 1 .. Len(s) /\ Len(s) \in Nat
  OBVIOUS
<1>2. ASSUME NEW k \in DOMAIN s PROVE t[k].length = s[k].length /\ t[k].crc32 = s[k].crc32
  <2>1. CASE k = a
    BY <1>1, <2>1 DEF Moved, SameFields, SameKey
  <2>2. CASE a < k /\ k <= b
    <3>1. k - 1 \in DOMAIN s /\ i < k - 1 /\ k - 1 <= b /\ i < k
      BY <1>1, <2>2
    <3>2. SameKey(s, i, k - 1) /\ SameKey(s, i, k)
      BY <2>2, <3>1
    <3> QED
      BY <2>2, <3>2 DEF Moved, SameKey
  <2>3. CASE k < a \/ b < k
    BY <2>3 DEF Moved
  <2> QED
    BY <1>1, <2>1, <2>2, <2>3
<1>3. \A j, k \in DOMAIN s : SameKey(t, j, k) <=> SameKey(s, j, k)
  BY <1>2 DEF SameKey
<1> QED
  BY <1>3 DEF KeysTogether, Moved

(* The run after MarkDup, with i = ix, a = lastix and b = ix2.             *)
LEMMA DupRun ==
    ASSUME NEW s \in Seq(EntryType), NEW t,
           NEW i \in DOMAIN s, NEW a \in DOMAIN s, NEW b \in DOMAIN s, NEW match, NEW c, NEW now,
           RunOf(s, i, a, b, match), Moved(s, t, a, b), SameKey(s, i, b), SameText(s, i, b),
           c = IF a # b THEN a + 1 ELSE a, now = TRUE
    PROVE  RunOf(t, i, c, b + 1, now)
<1>1. DOMAIN s = 1 .. Len(s) /\ Len(s) \in Nat
  OBVIOUS
<1>2. i < a /\ a <= b /\ (b > i + 1 => a < b) /\ i \in Nat \ {0} /\ a \in Nat /\ b \in Nat /\ b <= Len(s)
  BY <1>1 DEF RunOf
<1>3. t \in Seq(EntryType) /\ DOMAIN t = DOMAIN s /\ Len(t) = Len(s)
  <2>1. t \in Seq(EntryType) /\ DOMAIN t = DOMAIN s
    BY DEF Moved
  <2>2. DOMAIN t = 1 .. Len(t) /\ Len(t) \in Nat
    BY <2>1
  <2> QED
    BY <1>1, <2>1, <2>2
<1>4. c \in Nat /\ a <= c /\ c <= b /\ (c = a \/ c = a + 1) /\ (a < b => c = a + 1)
  BY <1>2
<1>5. \A k \in DOMAIN s : i < k /\ k <= b => SameKey(s, i, k)
  BY <1>1, <1>2 DEF RunOf
<1>6. \A j, k \in DOMAIN s : SameKey(t, j, k) <=> SameKey(s, j, k)
  BY <1>2, <1>5, MovedKeys
<1>7. \A k \in DOMAIN s : /\ k < a \/ b < k => t[k] = s[k]
                          /\ a < k /\ k <= b => t[k] = s[k - 1] /\ k - 1 \in DOMAIN s
  BY <1>1, <1>2 DEF Moved
<1>8. TextOf(t[a]) = TextOf(s[i]) /\ IsDup(t, a) /\ t[i] = s[i] /\ (IsLnk(t, a) <=> IsLnk(s, b))
  BY <1>2, <1>7 DEF Moved, SameFields, IsDup, IsLnk, TextOf, SameText
<1>9. \A k \in DOMAIN s : i <= k /\ k < a => TextOf(s[k]) = TextOf(s[i])
  BY <1>1, <1>2 DEF RunOf, SameText
<1>10. ASSUME NEW k \in DOMAIN s, IsDup(t, k)
       PROVE  1 < k /\ k <= c /\ SameText(t, k - 1, k)
  <2>1. CASE k = a
    <3>1. a - 1 \in DOMAIN s /\ i <= a - 1 /\ a - 1 < a
      BY <1>1, <1>2
    <3>2. TextOf(t[a - 1]) = TextOf(s[i])
      BY <1>7, <1>9, <3>1
    <3> QED
      BY <1>2, <1>4, <1>8, <2>1, <3>2 DEF SameText
  <2>2. CASE a < k /\ k <= b
    <3>1. t[k] = s[k - 1] /\ k - 1 \in DOMAIN s /\ IsDup(s, k - 1)
      BY <1>7, <1>10, <2>2 DEF IsDup
    <3>2. k - 1 <= a /\ SameText(s, (k - 1) - 1, k - 1)
      BY <3>1 DEF RunOf
    <3>3. k = a + 1 /\ c = a + 1 /\ k - 1 = a /\ (k - 1) - 1 = a - 1
      BY <1>1, <1>2, <1>4, <2>2, <3>2
    <3>4. a - 1 \in DOMAIN s /\ i <= a - 1 /\ a - 1 < a
      BY <1>1, <1>2
    <3>5. TextOf(s[a]) = TextOf(s[i])
      BY <1>9, <3>2, <3>3, <3>4 DEF SameText
    <3> QED
      BY <1>2, <1>8, <3>1, <3>3, <3>5 DEF SameText
  <2>3. CASE k < a
    <3>1. IsDup(s, k)
      BY <1>7, <1>10, <2>3 DEF IsDup
    <3>2. 1 < k /\ SameText(s, k - 1, k)
      BY <3>1 DEF RunOf
    <3>3. k - 1 \in DOMAIN s /\ k - 1 < a
      BY <1>1, <1>2, <2>3, <3>2
    <3> QED
      BY <1>1, <1>2, <1>4, <1>7, <2>3, <3>2, <3>3 DEF SameText
  <2>4. CASE b < k
    <3>1. IsDup(s, k)
      BY <1>7, <1>10, <2>4 DEF IsDup
    <3>2. k <= a
      BY <3>1 DEF RunOf
    <3> QED
      BY <1>1, <1>2, <2>4, <3>2
  <2> QED
    BY <1>1, <1>2, <2>1, <2>2, <2>3, <2>4
<1>11. ASSUME NEW k \in DOMAIN s, i < k, k < c
       PROVE  IsDup(t, k) /\ SameText(t, i, k)
  <2>1. CASE k = a
    BY <1>8, <2>1 DEF SameText
  <2>2. CASE k < a
    <3>1. IsDup(s, k) /\ SameText(s, i, k)
      BY <1>11, <2>2 DEF RunOf
    <3> QED
      BY <1>7, <1>8, <2>2, <3>1 DEF IsDup, SameText
  <2> QED
    BY <1>1, <1>2, <1>4, <1>11, <2>1, <2>2
<1>12. ASSUME NEW k \in DOMAIN s, i < k, k < b + 1 PROVE SameKey(t, i, k)
  BY <1>1, <1>2, <1>5, <1>6, <1>12
<1>13. ASSUME NEW k \in DOMAIN s, c < k, k # b + 1, IsLnk(t, k), SameKey(t, k - 1, k)
       PROVE  SameText(t, k - 1, k)
  <2>1. k - 1 \in DOMAIN s
    BY <1>1, <1>2, <1>4, <1>13
  <2>2. SameKey(s, k - 1, k)
    BY <1>6, <1>13, <2>1
  <2>3. CASE b < k
    <3>1. b < k - 1 /\ a < k /\ k # b
      BY <1>1, <1>2, <1>13, <2>3
    <3>2. t[k] = s[k] /\ t[k - 1] = s[k - 1]
      BY <1>7, <2>1, <2>3, <3>1
    <3>3. SameText(s, k - 1, k)
      BY <1>13, <2>2, <3>1, <3>2 DEF RunOf, IsLnk
    <3> QED
      BY <3>2, <3>3 DEF SameText
  <2>4. CASE k <= b
    <3>1. a < b /\ c = a + 1
      BY <1>1, <1>2, <1>4, <1>13, <2>4
    <3>2. /\ (k - 1) - 1 \in DOMAIN s /\ a < k - 1 /\ k - 1 # b /\ k - 1 <= b
          /\ i < k - 1 /\ i < (k - 1) - 1 /\ (k - 1) - 1 <= b
      BY <1>1, <1>2, <1>13, <2>4, <3>1
    <3>3. t[k] = s[k - 1] /\ t[k - 1] = s[(k - 1) - 1]
      BY <1>1, <1>2, <1>7, <2>1, <2>4, <3>2
    <3>4. SameKey(s, i, k - 1) /\ SameKey(s, i, (k - 1) - 1)
      BY <1>5, <2>1, <3>2
    <3>5. SameKey(s, (k - 1) - 1, k - 1)
      BY <3>4 DEF SameKey
    <3>6. IsLnk(s, k - 1)
      BY <1>13, <3>3 DEF IsLnk
    <3>7. SameText(s, (k - 1) - 1, k - 1)
      BY <2>1, <3>2, <3>5, <3>6 DEF RunOf
    <3> QED
      BY <3>3, <3>7 DEF SameText
  <2> QED
    BY <1>1, <1>2, <2>3, <2>4
<1>14. ASSUME NEW k \in DOMAIN s, k = b + 1, IsLnk(t, k), SameKey(t, i, k)
       PROVE  SameText(t, i, k)
  <2>1. t[k] = s[k] /\ k - 1 = b /\ a < k /\ k # b
    BY <1>1, <1>2, <1>7, <1>14
  <2>2. SameKey(s, i, k)
    BY <1>6, <1>14
  <2>3. SameKey(s, b, k)
    BY <2>2 DEF SameKey
  <2>4. SameText(s, k - 1, k)
    BY <1>14, <2>1, <2>3 DEF RunOf, IsLnk
  <2> QED
    BY <1>8, <2>1, <2>4 DEF SameText
<1>15. /\ i <= Len(t) + 1 /\ i < c /\ c <= b + 1
       /\ i <= Len(t) => b + 1 <= Len(t) + 1
       /\ b + 1 > i + 1 => c < b + 1
  BY <1>1, <1>2, <1>3, <1>4
<1> QED
  BY <1>3, <1>10, <1>11, <1>12, <1>13, <1>14, <1>15 DEF RunOf

LEMMA DupGathered ==
    ASSUME NEW s \in Seq(EntryType), NEW t,
           NEW i \in DOMAIN s, NEW a \in DOMAIN s, NEW b \in DOMAIN s, NEW match, NEW c,
           RunOf(s, i, a, b, match), Moved(s, t, a, b), SameKey(s, i, b), CrcsDone(t),
           c = IF a # b THEN a + 1 ELSE a, GatheredTo(s, i, a, b)
    PROVE  GatheredTo(t, i, c, b + 1)
<1>1. DOMAIN s = 1 .. Len(s) /\ Len(s) \in Nat
  OBVIOUS
<1>2. i < a /\ a <= b /\ i \in Nat \ {0} /\ a \in Nat /\ b \in Nat
  BY <1>1 DEF RunOf
<1>3. DOMAIN t = DOMAIN s
  BY DEF Moved
<1>4. c \in Nat /\ a <= c /\ (a < b => c = a + 1)
  BY <1>2
<1>5. \A k \in DOMAIN s : i < k /\ k <= b => SameKey(s, i, k)
  BY <1>1, <1>2 DEF RunOf
<1>6. KeysTogether(t)
  BY <1>2, <1>5, MovedKeys DEF GatheredTo
<1>7. ASSUME NEW j \in DOMAIN s, NEW k \in DOMAIN s, j < k, SameText(t, j, k)
      PROVE  /\ j < i => k <= i
             /\ k <= i => \A m \in j + 1 .. k : IsDup(t, m)
             /\ j = i /\ k < b + 1 => k <= c /\ IsDup(t, k)
  <2>1. PICK q : /\ q \in DOMAIN s /\ TextOf(t[k]) = TextOf(s[q]) /\ (i < k => i < q)
                 /\ k < a \/ b < k => q = k
                 /\ a < k /\ k <= b => q = k - 1
    <3>1. CASE k = a
      <4>1. TextOf(t[k]) = TextOf(s[b]) /\ i < b /\ ~(k < a) /\ ~(b < k) /\ ~(a < k)
        BY <1>2, <3>1 DEF Moved, SameFields, TextOf
      <4> QED
        BY <4>1
    <3>2. CASE a < k /\ k <= b
      <4>1. k - 1 \in DOMAIN s /\ t[k] = s[k - 1] /\ i < k - 1 /\ ~(k < a) /\ ~(b < k)
        BY <1>1, <1>2, <3>2 DEF Moved
      <4> QED
        BY <4>1
    <3>3. CASE k < a \/ b < k
      <4>1. t[k] = s[k] /\ ~(a < k /\ k <= b)
        BY <1>1, <1>2, <3>3 DEF Moved
      <4> QED
        BY <4>1
    <3> QED
      BY <1>1, <1>2, <3>1, <3>2, <3>3
  <2>2. ASSUME j <= i PROVE TextOf(s[j]) = TextOf(s[q])
    <3>1. t[j] = s[j]
      BY <1>1, <1>2, <2>2 DEF Moved
    <3> QED
      BY <1>7, <2>1, <3>1 DEF SameText
  <2>3. ASSUME j < i PROVE k <= i
    <3> SUFFICES ASSUME i < k PROVE FALSE
      BY <1>1, <1>2
    <3>1. SameText(s, j, q) /\ j < q /\ i < q
      BY <1>1, <1>2, <2>1, <2>2, <2>3 DEF SameText
    <3>2. q <= i
      BY <2>1, <2>3, <3>1 DEF GatheredTo
    <3> QED
      BY <1>1, <1>2, <2>1, <3>1, <3>2
  <2>4. ASSUME k <= i, NEW m \in j + 1 .. k PROVE IsDup(t, m)
    <3>1. k < a /\ j <= i /\ q = k
      BY <1>1, <1>2, <1>7, <2>1, <2>4
    <3>2. SameText(s, j, k)
      BY <2>2, <3>1 DEF SameText
    <3>3. IsDup(s, m)
      BY <1>7, <2>4, <3>2 DEF GatheredTo
    <3>4. m \in DOMAIN s /\ m < a
      BY <1>1, <1>2, <2>4
    <3> QED
      BY <3>3, <3>4 DEF Moved, IsDup
  <2>5. ASSUME j = i, k < b + 1 PROVE k <= c /\ IsDup(t, k)
    <3>1. SameText(s, i, q) /\ i < q
      BY <1>1, <1>2, <1>7, <2>1, <2>2, <2>5 DEF SameText
    <3>2. q < b => q <= a /\ IsDup(s, q)
      BY <2>1, <3>1 DEF GatheredTo
    <3>3. CASE k = a
      BY <1>2, <1>4, <3>3 DEF Moved, IsDup
    <3>4. CASE a < k
      <4>1. q = k - 1 /\ k <= b /\ q < b
        BY <1>1, <1>2, <2>1, <2>5, <3>4
      <4>2. k = a + 1 /\ a < b /\ IsDup(s, k - 1)
        BY <1>1, <1>2, <3>2, <3>4, <4>1
      <4>3. t[k] = s[k - 1]
        BY <3>4, <4>1 DEF Moved
      <4> QED
        BY <1>2, <1>4, <4>2, <4>3 DEF IsDup
    <3>5. CASE k < a
      <4>1. q = k /\ q < b
        BY <1>1, <1>2, <2>1, <3>5
      <4>2. t[k] = s[k]
        BY <3>5 DEF Moved
      <4> QED
        BY <1>1, <1>2, <1>4, <3>2, <3>5, <4>1, <4>2 DEF IsDup
    <3> QED
      BY <1>1, <1>2, <3>3, <3>4, <3>5
  <2> QED
    BY <2>3, <2>4, <2>5
<1> QED
  BY <1>3, <1>6, <1>7 DEF GatheredTo

(* The run after PassOver.                                                 *)
LEMMA PassRun ==
    ASSUME NEW s \in Seq(EntryType), NEW i \in DOMAIN s, NEW a \in Nat, NEW b \in DOMAIN s,
           NEW match, NEW now, RunOf(s, i, a, b, match), SameKey(s, i, b),
           ~SameText(s, i, b), IsLnk(s, b) => match = FALSE, now = FALSE
    PROVE  /\ RunOf(s, i, a, b + 1, now)
           /\ GatheredTo(s, i, a, b) => GatheredTo(s, i, a, b + 1)
<1>1. DOMAIN s = 1 .. Len(s) /\ Len(s) \in Nat
  OBVIOUS
<1>2. i < a /\ a <= b /\ (b > i + 1 => a < b) /\ i \in Nat \ {0} /\ b \in Nat /\ b <= Len(s)
  BY <1>1 DEF RunOf
<1>3. ASSUME NEW k \in DOMAIN s
      PROVE  /\ IsDup(s, k) => 1 < k /\ k <= a /\ SameText(s, k - 1, k)
             /\ i < k /\ k < a => IsDup(s, k) /\ SameText(s, i, k)
             /\ i < k /\ k < b => SameKey(s, i, k)
             /\ a < k /\ k # b /\ IsLnk(s, k) /\ SameKey(s, k - 1, k) => SameText(s, k - 1, k)
             /\ k = b /\ IsLnk(s, k) => a < k /\ SameText(s, k - 1, k)
  BY <1>1, <1>2 DEF RunOf
<1>4. ASSUME NEW k \in DOMAIN s, i < k, k < b + 1 PROVE SameKey(s, i, k)
  <2>1. k = b \/ k < b
    BY <1>1, <1>2, <1>4
  <2> QED
    BY <1>3, <1>4, <2>1
<1>5. ASSUME NEW k \in DOMAIN s, a < k, k # b + 1, IsLnk(s, k), SameKey(s, k - 1, k)
      PROVE  SameText(s, k - 1, k)
  BY <1>3, <1>5
<1>6. ASSUME NEW k \in DOMAIN s, k = b + 1, IsLnk(s, k), SameKey(s, i, k)
      PROVE  a < k /\ SameText(s, k - 1, k)
  <2>1. a < k /\ k # b /\ k - 1 = b
    BY <1>2, <1>6
  <2>2. SameKey(s, k - 1, k)
    BY <1>6, <2>1 DEF SameKey
  <2> QED
    BY <1>3, <1>6, <2>1, <2>2
<1>7. /\ i <= Len(s) + 1 /\ i < a /\ a <= b + 1
      /\ i <= Len(s) => b + 1 <= Len(s) + 1
      /\ b + 1 > i + 1 => a < b + 1
  BY <1>1, <1>2
<1>8. RunOf(s, i, a, b + 1, now)
  BY <1>3, <1>4, <1>5, <1>6, <1>7 DEF RunOf
<1>9. ASSUME GatheredTo(s, i, a, b) PROVE GatheredTo(s, i, a, b + 1)
  <2>1. ASSUME NEW k \in DOMAIN s, i < k, SameText(s, i, k), k < b + 1 PROVE k < b
    BY <1>1, <1>2, <2>1
  <2> QED
    BY <1>9, <2>1 DEF GatheredTo
<1> QED
  BY <1>8, <1>9

(* When b has another key, the run of i is over and that of a starts.      *)
LEMMA NextRunOf ==
    ASSUME NEW s \in Seq(EntryType), NEW i \in DOMAIN s, NEW a \in Nat, NEW b \in Nat,
           NEW match, NEW now, RunOf(s, i, a, b, match), now = TRUE,
           b \in DOMAIN s => ~SameKey(s, i, b)
    PROVE  RunOf(s, a, a + 1, a + 1, now)
<1>1. DOMAIN s = 1 .. Len(s) /\ Len(s) \in Nat
  OBVIOUS
<1>2. i < a /\ a <= b /\ i \in Nat \ {0} /\ b <= Len(s) + 1
  BY <1>1 DEF RunOf
<1>3. ASSUME NEW k \in DOMAIN s
      PROVE  /\ IsDup(s, k) => 1 < k /\ k <= a /\ SameText(s, k - 1, k)
             /\ i < k /\ k < b => SameKey(s, i, k)
             /\ a < k /\ k # b /\ IsLnk(s, k) /\ SameKey(s, k - 1, k) => SameText(s, k - 1, k)
  BY <1>1, <1>2 DEF RunOf
<1>4. ASSUME NEW k \in DOMAIN s, a < k, IsLnk(s, k), SameKey(s, k - 1, k)
      PROVE  SameText(s, k - 1, k)
  <2>1. CASE k # b
    BY <1>3, <1>4, <2>1
  <2>2. CASE k = b
    <3>1. k - 1 \in DOMAIN s /\ i < k - 1 /\ k - 1 < b
      BY <1>1, <1>2, <1>4, <2>2
    <3>2. SameKey(s, i, k - 1)
      BY <1>3, <3>1
    <3>3. SameKey(s, i, b)
      BY <1>4, <2>2, <3>2 DEF SameKey
    <3> QED
      BY <2>2, <3>3
  <2> QED
    BY <2>1, <2>2
<1>5. \A k \in DOMAIN s : k = a + 1 => k - 1 = a /\ a < k
  OBVIOUS
<1>6. \A k \in DOMAIN s : ~(a < k /\ k < a + 1) /\ (k <= a => k <= a + 1) /\ (a + 1 < k => a < k)
  BY <1>1
<1>7. /\ a <= Len(s) + 1 /\ a < a + 1 /\ a + 1 <= a + 1
      /\ a <= Len(s) => a + 1 <= Len(s) + 1
      /\ ~(a + 1 > a + 1)
  BY <1>1, <1>2
<1> QED
  BY <1>3, <1>4, <1>5, <1>6, <1>7 DEF RunOf

LEMMA NextGathered ==
    ASSUME NEW s, Files(s), NEW i \in DOMAIN s, NEW a \in Nat, NEW b \in Nat,
           NEW match, RunOf(s, i, a, b, match), GatheredTo(s, i, a, b),
           b \in DOMAIN s => ~SameKey(s, i, b)
    PROVE  GatheredTo(s, a, a + 1, a + 1)
<1>1. DOMAIN s = 1 .. Len(s) /\ Len(s) \in Nat
  BY DEF Files
<1>2. i < a /\ a <= b /\ i \in Nat \ {0}
  BY <1>1 DEF RunOf
<1>3. CrcsDone(s) /\ KeysTogether(s)
  BY DEF GatheredTo
<1>4. \A k \in DOMAIN s : i < k /\ k < a => IsDup(s, k) /\ SameText(s, i, k)
  BY DEF RunOf
<1>5. ASSUME NEW k \in DOMAIN s, i < k, SameText(s, i, k) PROVE k < b /\ k <= a /\ IsDup(s, k)
  <2>1. k < b
    <3> SUFFICES ASSUME b <= k PROVE FALSE
      BY <1>1, <1>2
    <3>1. b \in DOMAIN s /\ i < b /\ (b = k \/ b < k)
      BY <1>1, <1>2
    <3>2. SameKey(s, i, k)
      BY <1>3, <1>5, KeyOfText
    <3>3. SameKey(s, i, b)
      BY <1>3, <3>1, <3>2 DEF KeysTogether
    <3> QED
      BY <3>1, <3>3
  <2> QED
    BY <1>5, <2>1 DEF GatheredTo
<1>6. ASSUME NEW j \in DOMAIN s, NEW k \in DOMAIN s, j < k, SameText(s, j, k)
      PROVE  /\ j < a => k <= a
             /\ k <= a => \A m \in j + 1 .. k : IsDup(s, m)
             /\ ~(j = a /\ k < a + 1)
  <2>1. CASE j < i
    <3>1. k <= i /\ \A m \in j + 1 .. k : IsDup(s, m)
      BY <1>6, <2>1 DEF GatheredTo
    <3> QED
      BY <1>1, <1>2, <1>6, <2>1, <3>1
  <2>2. CASE i <= j /\ j < a
    <3>1. SameText(s, i, k) /\ i < k
      BY <1>1, <1>2, <1>4, <1>6, <2>2 DEF SameText
    <3>2. k <= a /\ IsDup(s, k)
      BY <1>5, <3>1
    <3>3. ASSUME NEW m \in j + 1 .. k PROVE IsDup(s, m)
      <4>1. m = k \/ (m \in DOMAIN s /\ i < m /\ m < a)
        BY <1>1, <1>2, <2>2, <3>2
      <4> QED
        BY <1>4, <3>2, <4>1
    <3> QED
      BY <1>1, <1>2, <2>2, <3>2, <3>3
  <2>3. CASE a <= j
    BY <1>1, <1>6, <2>3
  <2> QED
    BY <1>1, <1>2, <2>1, <2>2, <2>3
<1> QED
  BY <1>3, <1>6 DEF GatheredTo

-----------------------------------------------------------------------------
(* The actions of the second loop.                                         *)
LEMMA MatchingKept ==
    ASSUME UNCHANGED <<data, names, linkflag, links, headfn, dups>>, pc' = "dups",
           NEW s, NEW i, NEW a, NEW b, NEW match,
           s = filelist', i = ix', a = lastix', b = ix2', match = lnkmatch',
           TypeInv, LinksKnown, dups = <<>>, headfn = 0,
           i \in Nat \ {0}, a \in Nat, b \in Nat, match \in BOOLEAN,
           Files(s), Distinct(s), Complete(s, Len(names) + 1), HasFile(s),
           RunOf(s, i, a, b, match), DifferencesFit => GatheredTo(s, i, a, b)
    PROVE  IInv'
<1>1. Files(s)' /\ Complete(s, Len(names) + 1)' /\ (CrcsDone(s)' <=> CrcsDone(s))
  BY ListStays DEF Complete
<1>2. TypeInv'
  BY <1>1 DEF TypeInv, Distinct, Phases, Files
<1>3. AllListed'
  BY <1>1 DEF AllListed, Complete
<1>4. HasFile(filelist)'
  BY DEF HasFile, IsLnk
<1>5. LinksKnown'
  BY LinksStay
<1>6. Run'
  BY DEF Run, RunOf, IsDup, IsLnk, SameText, SameKey, TextOf
<1>7. (DifferencesFit => Gathered)'
  BY DEF Gathered, GatheredTo, CrcsDone, KeysTogether, IsDup, SameText, SameKey, TextOf
<1>8. Matching'
  BY <1>3, <1>4, <1>5, <1>6, <1>7 DEF Matching
<1> QED
  BY <1>2, <1>8 DEF IInv

LEMMA MarkDupKeeps ==
    ASSUME IInv, MarkDup
    PROVE  IInv'
<1>1. /\ TypeInv /\ Matching /\ pc = "dups" /\ Comparing /\ Matches
      /\ lastix' = (IF lastix # ix2 THEN lastix + 1 ELSE lastix) /\ lnkmatch' = TRUE
      /\ ix2' = ix2 + 1 /\ UNCHANGED <<fixed, pc, ix, headfn, output>>
  BY DEF IInv, MarkDup, Comparing
<1>2. /\ filelist \in Seq(EntryType) /\ DOMAIN filelist = 1 .. Len(filelist) /\ Len(filelist) \in Nat
      /\ ix \in Nat \ {0} /\ ix2 \in Nat /\ lastix \in Nat
      /\ Files(filelist) /\ Distinct(filelist) /\ ix <= Len(filelist)
  BY <1>1 DEF TypeInv, Files, Comparing, n_files
<1>3. /\ Complete(filelist, Len(names) + 1) /\ HasFile(filelist) /\ LinksKnown
      /\ RunOf(filelist, ix, lastix, ix2, lnkmatch)
      /\ DifferencesFit => GatheredTo(filelist, ix, lastix, ix2)
      /\ dups = <<>> /\ headfn = 0
  BY <1>1 DEF Matching, AllListed, Run, Gathered
<1>4. PICK t, c, d, now : t = filelist' /\ c = lastix' /\ d = ix2' /\ now = lnkmatch'
  OBVIOUS
<1>5. Moved(filelist, t, lastix, ix2) /\ lastix \in DOMAIN filelist /\ ix2 \in DOMAIN filelist
  BY <1>1, <1>4, MarkDupMoves DEF Matching
<1>6. lastix <= ix2 /\ ix \in DOMAIN filelist
  BY <1>2, <1>3 DEF RunOf
<1>7. SameKey(filelist, ix, ix2)
  BY <1>1 DEF Comparing, SameKey
<1>8. SameText(filelist, ix, ix2)
  <2>1. CASE Flagged(ix2, "LNK") /\ lnkmatch
    BY <1>2, <1>3, <1>5, <1>7, <2>1 DEF RunOf, Flagged, IsLnk
  <2>2. CASE fullcmp(ix, ix2) = 0
    BY <2>2 DEF fullcmp, SameText, TextOf
  <2> QED
    BY <1>1, <2>1, <2>2 DEF Matches
<1>9. RunOf(t, ix, c, ix2 + 1, now)
  BY <1>1, <1>2, <1>3, <1>4, <1>5, <1>6, <1>7, <1>8, DupRun
<1>10. PICK p : Shuffle(filelist, t, p)
  BY <1>2, <1>5, <1>6, MovedShuffles
<1>11. /\ t \in Seq(EntryType) /\ Files(t) /\ Distinct(t) /\ Complete(t, Len(names) + 1) /\ HasFile(t)
       /\ CrcsDone(filelist) => CrcsDone(t)
  <2>1. t \in Seq(EntryType)
    BY <1>5 DEF Moved
  <2> QED
    BY <1>2, <1>3, <1>10, <2>1, ShuffleKeeps
<1>12. DifferencesFit => GatheredTo(t, ix, c, ix2 + 1)
  <2> SUFFICES ASSUME DifferencesFit PROVE GatheredTo(t, ix, c, ix2 + 1)
    OBVIOUS
  <2>1. GatheredTo(filelist, ix, lastix, ix2) /\ CrcsDone(t)
    BY <1>3, <1>11 DEF GatheredTo
  <2> QED
    BY <1>1, <1>2, <1>3, <1>4, <1>5, <1>6, <1>7, <2>1, DupGathered
<1>13. PICK i : i = ix /\ i = ix'
  BY <1>1
<1>14. RunOf(t, i, c, d, now) /\ (DifferencesFit => GatheredTo(t, i, c, d))
  BY <1>1, <1>4, <1>9, <1>12, <1>13
<1>15. i \in Nat \ {0} /\ c \in Nat /\ d \in Nat /\ now \in BOOLEAN
  BY <1>1, <1>2, <1>4, <1>13
<1>16. UNCHANGED <<data, names, linkflag, links, headfn, dups>> /\ pc' = "dups"
  BY <1>1 DEF fixed, output
<1> QED
  BY <1>1, <1>3, <1>4, <1>11, <1>13, <1>14, <1>15, <1>16, MatchingKept

LEMMA PassOverKeeps ==
    ASSUME IInv, PassOver
    PROVE  IInv'
<1>1. /\ TypeInv /\ Matching /\ pc = "dups" /\ Comparing /\ ~Matches
      /\ lnkmatch' = FALSE /\ ix2' = ix2 + 1
      /\ UNCHANGED <<fixed, filelist, pc, ix, lastix, headfn, output>>
  BY DEF IInv, PassOver, Comparing
<1>2. /\ filelist \in Seq(EntryType) /\ DOMAIN filelist = 1 .. Len(filelist) /\ Len(filelist) \in Nat
      /\ ix \in Nat \ {0} /\ ix2 \in Nat /\ lastix \in Nat
      /\ Files(filelist) /\ Distinct(filelist) /\ ix <= Len(filelist) /\ ix2 <= Len(filelist)
  BY <1>1 DEF TypeInv, Files, Comparing, n_files
<1>3. /\ Complete(filelist, Len(names) + 1) /\ HasFile(filelist) /\ LinksKnown
      /\ RunOf(filelist, ix, lastix, ix2, lnkmatch)
      /\ DifferencesFit => GatheredTo(filelist, ix, lastix, ix2)
      /\ dups = <<>> /\ headfn = 0
  BY <1>1 DEF Matching, AllListed, Run, Gathered
<1>4. ix \in DOMAIN filelist /\ ix2 \in DOMAIN filelist
  BY <1>2, <1>3 DEF RunOf
<1>5. SameKey(filelist, ix, ix2)
  BY <1>1 DEF Comparing, SameKey
<1>6. ~SameText(filelist, ix, ix2) /\ (IsLnk(filelist, ix2) => lnkmatch = FALSE)
  <2>1. lnkmatch = FALSE \/ lnkmatch
    BY <1>1, Zenon DEF TypeInv
  <2> QED
    BY <1>1, <2>1 DEF Matches, fullcmp, SameText, TextOf, Flagged, IsLnk
<1>7. PICK t, i, a, b : t = filelist /\ i = ix /\ a = lastix /\ b = ix2 + 1
  OBVIOUS
<1> DEFINE now == FALSE
<1>8. RunOf(t, i, a, b, now) /\ (DifferencesFit => GatheredTo(t, i, a, b))
  <2>1. ASSUME NEW o, o = FALSE
        PROVE  RunOf(t, i, a, b, o) /\ (DifferencesFit => GatheredTo(t, i, a, b))
    <3>1. /\ RunOf(filelist, ix, lastix, ix2 + 1, o)
          /\ GatheredTo(filelist, ix, lastix, ix2) => GatheredTo(filelist, ix, lastix, ix2 + 1)
      BY <1>2, <1>3, <1>4, <1>5, <1>6, <2>1, PassRun
    <3> QED
      BY <1>3, <1>7, <3>1
  <2> QED
    BY <2>1
<1>9. t = filelist' /\ i = ix' /\ a = lastix' /\ b = ix2' /\ now = lnkmatch'
  BY <1>1, <1>7
<1>10. i \in Nat \ {0} /\ a \in Nat /\ b \in Nat /\ now \in BOOLEAN
  BY <1>2, <1>7
<1>11. UNCHANGED <<data, names, linkflag, links, headfn, dups>> /\ pc' = "dups"
  BY <1>1 DEF fixed, output
<1> QED
  BY <1>1, <1>2, <1>3, <1>7, <1>8, <1>9, <1>10, <1>11, MatchingKept

LEMMA NextRunKeeps ==
    ASSUME IInv, NextRun
    PROVE  IInv'
<1>1. /\ TypeInv /\ Matching /\ pc = "dups" /\ ix <= n_files /\ ~Comparing
      /\ ix' = lastix /\ ix2' = lastix + 1 /\ lastix' = lastix + 1 /\ lnkmatch' = TRUE
      /\ UNCHANGED <<fixed, filelist, pc, headfn, output>>
  BY DEF IInv, NextRun, StartRun
<1>2. /\ filelist \in Seq(EntryType) /\ DOMAIN filelist = 1 .. Len(filelist) /\ Len(filelist) \in Nat
      /\ ix \in Nat \ {0} /\ ix2 \in Nat /\ lastix \in Nat
      /\ Files(filelist) /\ Distinct(filelist) /\ ix <= Len(filelist)
  BY <1>1 DEF TypeInv, Files, n_files
<1>3. /\ Complete(filelist, Len(names) + 1) /\ HasFile(filelist) /\ LinksKnown
      /\ RunOf(filelist, ix, lastix, ix2, lnkmatch)
      /\ DifferencesFit => GatheredTo(filelist, ix, lastix, ix2)
      /\ dups = <<>> /\ headfn = 0
  BY <1>1 DEF Matching, AllListed, Run, Gathered
<1>4. ix \in DOMAIN filelist /\ ix < lastix
  BY <1>2, <1>3 DEF RunOf
<1>5. ix2 \in DOMAIN filelist => ~SameKey(filelist, ix, ix2)
  BY <1>1, <1>2 DEF Comparing, SameKey, n_files
<1>6. PICK t, i, a, now : t = filelist /\ i = lastix /\ a = lastix + 1 /\ now = TRUE
  OBVIOUS
<1>7. RunOf(t, i, a, a, now)
  BY <1>2, <1>3, <1>4, <1>5, <1>6, NextRunOf
<1>8. DifferencesFit => GatheredTo(t, i, a, a)
  BY <1>2, <1>3, <1>4, <1>5, <1>6, NextGathered
<1>9. t = filelist' /\ i = ix' /\ a = lastix' /\ a = ix2' /\ now = lnkmatch'
  BY <1>1, <1>6
<1>10. i \in Nat \ {0} /\ a \in Nat /\ now \in BOOLEAN
  BY <1>2, <1>4, <1>6
<1>11. UNCHANGED <<data, names, linkflag, links, headfn, dups>> /\ pc' = "dups"
  BY <1>1 DEF fixed, output
<1> QED
  BY <1>1, <1>2, <1>3, <1>6, <1>7, <1>8, <1>9, <1>10, <1>11, MatchingKept

-----------------------------------------------------------------------------
(* scan3.                                                                  *)
LEMMA ReportStays ==
    ASSUME UNCHANGED <<data, names, linkflag, filelist, links>>
    PROVE  /\ AllListed' <=> AllListed
           /\ HasFile(filelist)' <=> HasFile(filelist)
           /\ LinksKnown => LinksKnown'
           /\ DupsMarked' <=> DupsMarked
           /\ \A h, k : Heads(filelist, h, k)' <=> Heads(filelist, h, k)
           /\ Files(filelist)' <=> Files(filelist)
           /\ Distinct(filelist)' <=> Distinct(filelist)
<1>1. /\ data' = data /\ names' = names /\ linkflag' = linkflag /\ filelist' = filelist
      /\ Listed' = Listed
  BY DEF Listed
<1>2. AllListed' <=> AllListed
  BY <1>1 DEF AllListed, Complete
<1>3. HasFile(filelist)' <=> HasFile(filelist)
  BY <1>1 DEF HasFile, IsLnk
<1>4. LinksKnown => LinksKnown'
  BY LinksStay
<1>5. DupsMarked' <=> DupsMarked
  BY <1>1 DEF DupsMarked, IsDup, SameText, TextOf
<1>6. \A h, k : Heads(filelist, h, k)' <=> Heads(filelist, h, k)
  BY <1>1 DEF Heads, IsDup, SameText, TextOf
<1>7. (Files(filelist)' <=> Files(filelist)) /\ (Distinct(filelist)' <=> Distinct(filelist))
  BY <1>1 DEF Files, Describes, Distinct
<1> QED
  BY <1>2, <1>3, <1>4, <1>5, <1>6, <1>7

LEMMA DupsDoneKeeps ==
    ASSUME IInv, DupsDone
    PROVE  IInv'
<1>1. /\ TypeInv /\ Matching /\ ix > n_files /\ pc' = "scan3" /\ ix' = 1
      /\ UNCHANGED <<fixed, filelist, scan2vars, headfn, output>>
  BY DEF IInv, DupsDone
<1>2. /\ filelist \in Seq(EntryType) /\ DOMAIN filelist = 1 .. Len(filelist) /\ Len(filelist) \in Nat
      /\ ix \in Nat \ {0}
  BY <1>1 DEF TypeInv, Files
<1>3. UNCHANGED <<data, names, linkflag, filelist, links, dups, headfn, ix2, lastix, lnkmatch>>
  BY <1>1 DEF fixed, output, scan2vars
<1>4. /\ AllListed /\ HasFile(filelist) /\ LinksKnown
      /\ RunOf(filelist, ix, lastix, ix2, lnkmatch)
      /\ DifferencesFit => GatheredTo(filelist, ix, lastix, ix2)
      /\ dups = <<>> /\ headfn = 0
  BY <1>1 DEF Matching, Run, Gathered
<1>5. \A k \in DOMAIN filelist : k <= ix
  BY <1>1, <1>2 DEF n_files
<1>6. DupsMarked
  BY <1>4, <1>5 DEF DupsMarked, RunOf, GatheredTo
<1>7. TypeInv'
  BY <1>1, <1>2, <1>3, ReportStays DEF TypeInv, Phases
<1>8. HeadKnown' /\ DupsListed' /\ DupsSound' /\ ix' <= n_files' + 1
  <2>1. Pairs(dups') = {} /\ headfn' = 0 /\ ~(ix' > 1)
    BY <1>1, <1>3, <1>4 DEF Pairs
  <2>2. HeadKnown' /\ DupsSound'
    BY <2>1 DEF HeadKnown, DupsSound, Pairs
  <2>3. DupsListed'
    BY <1>1, <1>2, <1>3 DEF DupsListed
  <2> QED
    BY <1>1, <1>2, <1>3, <2>2, <2>3 DEF n_files
<1>9. Reporting'
  BY <1>3, <1>4, <1>6, <1>8, ReportStays DEF Reporting
<1> QED
  BY <1>1, <1>7, <1>9 DEF IInv

LEMMA ReportDupKeeps ==
    ASSUME IInv, ReportDup
    PROVE  IInv'
<1>1. /\ TypeInv /\ Reporting /\ pc = "scan3" /\ ix <= n_files /\ Flagged(ix, "DUP")
      /\ headfn' = (IF headfn = 0 THEN filelist[ix - 1].path ELSE headfn)
      /\ dups' = (IF Shown(ix) THEN Append(dups, <<headfn', filelist[ix].path>>) ELSE dups)
      /\ ix' = ix + 1
      /\ UNCHANGED <<fixed, filelist, pc, scan2vars, empty, links>>
  BY DEF IInv, ReportDup
<1>2. /\ filelist \in Seq(EntryType) /\ DOMAIN filelist = 1 .. Len(filelist) /\ Len(filelist) \in Nat
      /\ ix \in Nat \ {0} /\ dups \in Seq(Nat \X Nat) /\ ix \in DOMAIN filelist
  BY <1>1 DEF TypeInv, Files, n_files
<1>3. UNCHANGED <<data, names, linkflag, filelist, links, ix2, lastix, lnkmatch, pc>>
  BY <1>1 DEF fixed, scan2vars
<1>4. IsDup(filelist, ix) /\ 1 < ix /\ SameText(filelist, ix - 1, ix) /\ ix - 1 \in DOMAIN filelist
  <2>1. IsDup(filelist, ix) /\ 1 < ix /\ SameText(filelist, ix - 1, ix)
    BY <1>1, <1>2 DEF Flagged, IsDup, Reporting, DupsMarked
  <2> QED
    BY <1>2, <2>1
<1>5. \A k \in DOMAIN filelist : filelist[k].path \in Nat \ {0}
  <2> SUFFICES ASSUME NEW k \in DOMAIN filelist PROVE filelist[k].path \in Nat \ {0}
    OBVIOUS
  <2>1. filelist[k].path \in DOMAIN names /\ names \in Seq(Inodes \cup {0})
    BY <1>1 DEF TypeInv, Files, Describes, Listed
  <2> QED
    BY <2>1
<1>6. PICK h : h \in DOMAIN filelist /\ Heads(filelist, h, ix) /\ headfn' = filelist[h].path
  <2>1. CASE headfn = 0
    <3>1. ~IsDup(filelist, ix - 1)
      BY <1>1, <1>4, <2>1 DEF Reporting, HeadKnown
    <3>2. ix - 1 \in 1 .. ix - 1 /\ \A m \in (ix - 1) + 1 .. ix : m = ix
      BY <1>2, <1>4
    <3>3. Heads(filelist, ix - 1, ix)
      BY <1>4, <3>1, <3>2 DEF Heads
    <3> QED
      BY <1>1, <1>4, <2>1, <3>3
  <2>2. CASE headfn # 0
    <3>1. PICK h : /\ h \in DOMAIN filelist /\ Heads(filelist, h, ix - 1)
                   /\ headfn = filelist[h].path
      BY <1>1, <2>2 DEF Reporting, HeadKnown
    <3>2. h \in 1 .. ix - 1 /\ \A m \in h + 1 .. ix : m = ix \/ m \in h + 1 .. ix - 1
      BY <1>2, <3>1 DEF Heads
    <3>3. Heads(filelist, h, ix)
      BY <1>4, <3>1, <3>2 DEF Heads, SameText
    <3> QED
      BY <1>1, <2>2, <3>1, <3>3
  <2> QED
    BY <2>1, <2>2
<1>7. headfn' \in Nat \ {0}
  BY <1>5, <1>6
<1>8. PICK l, i : l = <<headfn', filelist[ix].path>> /\ i = ix
  OBVIOUS
<1>9. l \in Nat \X Nat
  BY <1>2, <1>5, <1>7, <1>8
<1>10. /\ dups' \in Seq(Nat \X Nat)
       /\ \A m : m \in Pairs(dups') <=> m \in Pairs(dups) \/ (Shown(ix) /\ m = l)
  <2>1. CASE ~Shown(ix)
    BY <1>1, <1>2, <2>1
  <2>2. CASE Shown(ix)
    <3>1. dups' = Append(dups, l)
      BY <1>1, <1>8, <2>2
    <3> QED
      BY <1>2, <1>9, <2>2, <3>1, PairsAppend
  <2> QED
    BY <2>1, <2>2
<1>11. TypeInv'
  BY <1>1, <1>2, <1>3, <1>7, <1>10, ReportStays DEF TypeInv, Phases
<1>12. HeadKnown'
  <2>1. ix' - 1 = i
    BY <1>1, <1>2, <1>8
  <2>2. Heads(filelist, h, i)'
    BY <1>3, <1>6, <1>8, ReportStays
  <2>3. Heads(filelist, h, ix - 1)'
    BY <2>1, <2>2 DEF Heads
  <2> QED
    BY <1>3, <1>6, <1>7, <2>3 DEF HeadKnown
<1>13. \A k : Shown(k)' <=> Shown(k)
  BY <1>3 DEF Shown, Flagged
<1>14. DupsListed'
  <2> SUFFICES ASSUME NEW k \in DOMAIN filelist, k < ix + 1, IsDup(filelist, k)
               PROVE  \E g \in DOMAIN filelist :
                        /\ Heads(filelist, g, k)'
                        /\ Shown(k)' => <<filelist[g].path, filelist[k].path>> \in Pairs(dups')
    BY <1>1, <1>3 DEF DupsListed, IsDup, Pairs
  <2>1. CASE k = ix
    BY <1>3, <1>6, <1>8, <1>10, <1>13, <2>1, ReportStays
  <2>2. CASE k # ix
    <3>1. k < ix
      BY <1>2, <2>2
    <3>2. PICK g : /\ g \in DOMAIN filelist /\ Heads(filelist, g, k)
                   /\ Shown(k) => <<filelist[g].path, filelist[k].path>> \in Pairs(dups)
      BY <1>1, <3>1 DEF Reporting, DupsListed
    <3> QED
      BY <1>3, <1>10, <1>13, <3>2, ReportStays
  <2> QED
    BY <2>1, <2>2
<1>15. DupsSound'
  <2> SUFFICES ASSUME NEW m \in Pairs(dups')
               PROVE  \E g, k \in DOMAIN filelist :
                        Heads(filelist, g, k)' /\ m = <<filelist[g].path, filelist[k].path>>
    BY <1>3 DEF DupsSound, Pairs
  <2>1. CASE m \in Pairs(dups)
    BY <1>1, <1>3, <2>1, ReportStays DEF Reporting, DupsSound
  <2>2. CASE m = l
    <3>1. Heads(filelist, h, i)' /\ i \in DOMAIN filelist /\ m = <<filelist[h].path, filelist[i].path>>
      BY <1>2, <1>3, <1>6, <1>8, <2>2, ReportStays
    <3> QED
      BY <1>6, <3>1
  <2> QED
    BY <1>10, <2>1, <2>2
<1>16. ix' <= n_files' + 1
  BY <1>1, <1>2, <1>3 DEF n_files
<1>17. Reporting'
  BY <1>1, <1>3, <1>12, <1>14, <1>15, <1>16, ReportStays DEF Reporting
<1> QED
  BY <1>1, <1>11, <1>17 DEF IInv

LEMMA EndMatchKeeps ==
    ASSUME IInv, EndMatch
    PROVE  IInv'
<1>1. /\ TypeInv /\ Reporting /\ pc = "scan3" /\ ix <= n_files /\ ~Flagged(ix, "DUP")
      /\ headfn' = 0 /\ ix' = ix + 1
      /\ UNCHANGED <<fixed, filelist, pc, scan2vars, output>>
  BY DEF IInv, EndMatch
<1>2. /\ filelist \in Seq(EntryType) /\ DOMAIN filelist = 1 .. Len(filelist) /\ Len(filelist) \in Nat
      /\ ix \in Nat \ {0}
  BY <1>1 DEF TypeInv, Files
<1>3. UNCHANGED <<data, names, linkflag, filelist, links, dups, ix2, lastix, lnkmatch, pc>>
  BY <1>1 DEF fixed, scan2vars, output
<1>4. ~IsDup(filelist, ix)
  BY <1>1 DEF Flagged, IsDup
<1>5. TypeInv'
  BY <1>1, <1>2, <1>3, ReportStays DEF TypeInv, Phases
<1>6. HeadKnown'
  <2>1. ix' - 1 = ix
    BY <1>1, <1>2
  <2> QED
    BY <1>1, <1>3, <1>4, <2>1 DEF HeadKnown, IsDup
<1>7. DupsListed'
  <2> SUFFICES ASSUME NEW k \in DOMAIN filelist, k < ix + 1, IsDup(filelist, k)
               PROVE  \E g \in DOMAIN filelist :
                        /\ Heads(filelist, g, k)'
                        /\ Shown(k)' => <<filelist[g].path, filelist[k].path>> \in Pairs(dups')
    BY <1>1, <1>3 DEF DupsListed, IsDup, Pairs
  <2>1. k < ix
    BY <1>2, <1>4
  <2>2. PICK g : /\ g \in DOMAIN filelist /\ Heads(filelist, g, k)
                 /\ Shown(k) => <<filelist[g].path, filelist[k].path>> \in Pairs(dups)
    BY <1>1, <2>1 DEF Reporting, DupsListed
  <2>3. Shown(k)' <=> Shown(k)
    BY <1>3 DEF Shown, Flagged
  <2> QED
    BY <1>3, <2>2, <2>3, ReportStays
<1>8. DupsSound'
  <2> SUFFICES ASSUME NEW m \in Pairs(dups)
               PROVE  \E g, k \in DOMAIN filelist :
                        Heads(filelist, g, k)' /\ m = <<filelist[g].path, filelist[k].path>>
    BY <1>3 DEF DupsSound, Pairs
  <2> QED
    BY <1>1, <1>3, ReportStays DEF Reporting, DupsSound
<1>9. ix' <= n_files' + 1
  BY <1>1, <1>2, <1>3 DEF n_files
<1>10. Reporting'
  BY <1>1, <1>3, <1>6, <1>7, <1>8, <1>9, ReportStays DEF Reporting
<1> QED
  BY <1>1, <1>5, <1>10 DEF IInv

(* Steps that only change pc.                                              *)
LEMMA SameState ==
    ASSUME UNCHANGED <<fixed, filelist, ix, scan2vars, headfn, output>>, TypeInv, pc' \in Phases
    PROVE  /\ TypeInv'
           /\ Building => Building'
           /\ Sorted => Sorted'
           /\ Linking => Linking'
           /\ Matching => Matching'
           /\ Reporting => Reporting'
<1>1. /\ data' = data /\ names' = names /\ linkflag' = linkflag /\ filelist' = filelist /\ ix' = ix
      /\ ix2' = ix2 /\ lastix' = lastix /\ lnkmatch' = lnkmatch /\ headfn' = headfn
      /\ links' = links /\ dups' = dups /\ n_files' = n_files /\ Pairs(links)' = Pairs(links)
      /\ Pairs(dups)' = Pairs(dups)
  BY DEF fixed, scan2vars, output, n_files, Pairs
<1>2. Listed' = Listed
  BY <1>1 DEF Listed
<1>3. TypeInv'
  BY <1>1, ReportStays DEF TypeInv
<1>4. Building => Building'
  BY <1>1, <1>2 DEF Building, Bare, Complete
<1>5. AllListed => AllListed'
  BY <1>1, ReportStays
<1>6. Sorted => Sorted'
  BY <1>1, <1>5 DEF Sorted, Bare
<1>7. \A h, k : LinksOf(h, k)' <=> LinksOf(h, k)
  BY <1>1 DEF LinksOf, IsLnk
<1>8. Linking => Linking'
  <2> SUFFICES ASSUME Linking PROVE Linking'
    OBVIOUS
  <2>1. CrcsDone(filelist) /\ KeysTogether(filelist) /\ InodesTogether(filelist) =>
          CrcsDone(filelist)' /\ KeysTogether(filelist)' /\ InodesTogether(filelist)'
    BY <1>1 DEF CrcsDone, KeysTogether, InodesTogether, SameKey, TextOf
  <2>2. (\A k \in DOMAIN filelist :
           /\ IsLnk(filelist, k) => k > 1 /\ k < ix2 /\ filelist[k - 1].inode = filelist[k].inode
           /\ k < ix2 => \E h \in 1 .. k : LinksOf(h, k)
           /\ ix <= k /\ k < ix2 => LinksOf(ix, k))'
    <3>1. \A k : LinksOf(ix, k)' <=> LinksOf(ix, k)
      BY <1>1 DEF LinksOf, IsLnk
    <3> QED
      BY <1>1, <1>7, <3>1 DEF Linking, IsLnk
  <2>3. (\A l \in Pairs(links) :
           /\ linkflag
           /\ \E h, k \in DOMAIN filelist :
                /\ h < k /\ k < ix2 /\ filelist[h].inode = filelist[k].inode
                /\ l = <<filelist[h].path, filelist[k].path>>)'
    BY <1>1 DEF Linking
  <2>4. (\A k \in DOMAIN filelist : ~IsDup(filelist, k))'
    BY <1>1 DEF Linking, IsDup
  <2> QED
    BY <1>1, <1>5, <2>1, <2>2, <2>3, <2>4 DEF Linking
<1>9. Run => Run'
  BY <1>1 DEF Run, RunOf, IsDup, IsLnk, SameText, SameKey, TextOf
<1>10. Gathered => Gathered'
  BY <1>1 DEF Gathered, GatheredTo, CrcsDone, KeysTogether, IsDup, SameText, SameKey, TextOf
<1>11. Matching => Matching'
  BY <1>1, <1>9, <1>10, ReportStays DEF Matching
<1>12. (HeadKnown => HeadKnown') /\ (DupsListed => DupsListed') /\ (DupsSound => DupsSound')
  BY <1>1 DEF HeadKnown, DupsListed, DupsSound, Shown, Flagged, Heads, IsDup, SameText, TextOf, Pairs
<1>13. Reporting => Reporting'
  BY <1>1, <1>12, ReportStays DEF Reporting
<1> QED
  BY <1>3, <1>4, <1>6, <1>8, <1>11, <1>13

LEMMA QuietSteps ==
    ASSUME IInv, CannotRead \/ Exit \/ UNCHANGED vars
    PROVE  IInv'
<1>1. UNCHANGED <<fixed, filelist, ix, scan2vars, headfn, output>>
  BY DEF CannotRead, Exit, vars
<1>2. TypeInv /\ n_files' = n_files /\ ix' = ix
  BY <1>1 DEF IInv, n_files
<1>3. CASE CannotRead
  <2>1. pc' = "failed" /\ pc' \in Phases
    BY <1>3 DEF CannotRead, Phases
  <2> QED
    BY <1>1, <1>2, <2>1, SameState DEF IInv
<1>4. CASE Exit
  <2>1. pc' = "done" /\ pc' \in Phases /\ pc = "scan3" /\ ix > n_files
    BY <1>4 DEF Exit, Phases
  <2>2. Reporting
    BY <2>1 DEF IInv
  <2>3. ix = n_files + 1
    BY <1>2, <2>1, <2>2 DEF Reporting, TypeInv, Files, n_files
  <2> QED
    BY <1>1, <1>2, <2>1, <2>2, <2>3, SameState DEF IInv
<1>5. CASE UNCHANGED vars
  <2>1. pc' = pc /\ pc' \in Phases
    BY <1>2, <1>5 DEF vars, TypeInv
  <2> QED
    BY <1>1, <1>2, <2>1, SameState DEF IInv
<1> QED
  BY <1>3, <1>4, <1>5

-----------------------------------------------------------------------------
(* The invariant, and what it says of the reports.                         *)

(* In every state of every run the list holds the files read so far, each  *)
(* once, and the phase it is in has kept what the next phase needs.        *)
THEOREM Invariance == Spec => []IInv
<1>1. Init => IInv
  BY InitHolds
<1>2. IInv /\ [Next]_vars => IInv'
  <2> SUFFICES ASSUME IInv, Next \/ UNCHANGED vars PROVE IInv'
    OBVIOUS
  <2>1. Finished => UNCHANGED vars
    BY DEF Finished
  <2> QED
    BY <2>1, BuildKeeps, SortKeeps, Scan1Keeps, MarkLinkKeeps, NextInodeKeeps, LinksDoneKeeps,
       MarkDupKeeps, PassOverKeeps, NextRunKeeps, DupsDoneKeeps, ReportDupKeeps, EndMatchKeeps,
       QuietSteps DEF Next
<1> QED
  BY <1>1, <1>2, PTL DEF Spec

(* What is known of an entry's path.                                       *)
LEMMA PathOf ==
    ASSUME TypeInv, NEW k \in DOMAIN filelist
    PROVE  /\ filelist[k].path \in Listed /\ names[filelist[k].path] = filelist[k].inode
           /\ Text(filelist[k].path) = TextOf(filelist[k])
BY DEF TypeInv, Files, Describes, Text, TextOf

LEMMA Soundness ==
    ASSUME IInv
    PROVE  ReportedAreDuplicates
<1> SUFFICES ASSUME pc = "done", NEW l \in Pairs(dups)
             PROVE  /\ l[1] # l[2] /\ Text(l[1]) = Text(l[2])
                    /\ \A m \in Pairs(dups) : l[1] # m[2]
  BY DEF ReportedAreDuplicates
<1>1. TypeInv /\ Reporting /\ Distinct(filelist)
  BY DEF IInv, TypeInv
<1>2. \A m \in Pairs(dups) : \E h, k \in DOMAIN filelist :
         Heads(filelist, h, k) /\ m = <<filelist[h].path, filelist[k].path>>
  BY <1>1 DEF Reporting, DupsSound
<1>3. ASSUME NEW h \in DOMAIN filelist, NEW k \in DOMAIN filelist, Heads(filelist, h, k)
      PROVE  h < k /\ ~IsDup(filelist, h) /\ IsDup(filelist, k) /\ SameText(filelist, h, k)
  <2>1. k \in Nat /\ h \in Nat
    BY <1>1 DEF TypeInv, Files
  <2>2. h < k /\ k \in h + 1 .. k
    BY <1>3, <2>1 DEF Heads
  <2> QED
    BY <1>3, <2>2 DEF Heads
<1>4. PICK h, k : /\ h \in DOMAIN filelist /\ k \in DOMAIN filelist /\ Heads(filelist, h, k)
                  /\ l = <<filelist[h].path, filelist[k].path>>
  BY <1>2
<1>5. ~IsDup(filelist, h) /\ IsDup(filelist, k) /\ SameText(filelist, h, k)
  BY <1>3, <1>4
<1>6. filelist[h].path # filelist[k].path
  BY <1>1, <1>4, <1>5 DEF Distinct
<1>7. Text(filelist[h].path) = Text(filelist[k].path)
  BY <1>1, <1>4, <1>5, PathOf DEF SameText
<1>8. ASSUME NEW m \in Pairs(dups) PROVE l[1] # m[2]
  <2>1. PICK i, j : /\ i \in DOMAIN filelist /\ j \in DOMAIN filelist /\ Heads(filelist, i, j)
                    /\ m = <<filelist[i].path, filelist[j].path>>
    BY <1>2
  <2>2. IsDup(filelist, j)
    BY <1>3, <2>1
  <2>3. filelist[h].path # filelist[j].path
    BY <1>1, <1>4, <1>5, <2>1, <2>2 DEF Distinct
  <2> QED
    BY <1>4, <2>1, <2>3
<1> QED
  BY <1>4, <1>6, <1>7, <1>8

(* Whatever the file system holds, whatever order the sort leaves the list *)
(* in (comp1's differences may overflow) and however CRCs collide, scan3   *)
(* reports as DUP of a FILE only paths whose contents are equal to it.     *)
THEOREM DuplicatesAreReal == Spec => []ReportedAreDuplicates
<1>1. IInv => ReportedAreDuplicates
  BY Soundness
<1> QED
  BY <1>1, Invariance, PTL

(* Two entries of equal contents stand in the report together.             *)
Together(p, q) ==
    \E l, m \in Pairs(dups) : l[1] = m[1] /\ {p, q} \subseteq {l[1], l[2], m[2]}

LEMMA EntriesTogether ==
    ASSUME TypeInv, Reporting, ix = n_files + 1, DifferencesFit,
           NEW j \in DOMAIN filelist, NEW k \in DOMAIN filelist, j < k,
           SameText(filelist, j, k), Shown(j), Shown(k)
    PROVE  Together(filelist[j].path, filelist[k].path)
<1>1. filelist \in Seq(EntryType) /\ DOMAIN filelist = 1 .. Len(filelist) /\ Len(filelist) \in Nat
  BY DEF TypeInv, Files
<1>2. \A m \in DOMAIN filelist : m < ix
  BY <1>1 DEF n_files
<1>3. k \in j + 1 .. k /\ \A m \in j + 1 .. k : IsDup(filelist, m)
  BY <1>1 DEF Reporting, DupsMarked
<1>4. PICK h : /\ h \in DOMAIN filelist /\ Heads(filelist, h, k)
               /\ <<filelist[h].path, filelist[k].path>> \in Pairs(dups)
  BY <1>2, <1>3 DEF Reporting, DupsListed
<1>5. ~IsDup(filelist, h) /\ h < k /\ \A m \in h + 1 .. k : IsDup(filelist, m)
  BY <1>1, <1>4 DEF Heads
<1>6. h <= j
  <2>1. h \notin j + 1 .. k
    BY <1>3, <1>5
  <2> QED
    BY <1>1, <1>4, <1>5, <2>1
<1>7. PICK l : l = <<filelist[h].path, filelist[k].path>>
  OBVIOUS
<1>8. l[1] = filelist[h].path /\ l[2] = filelist[k].path /\ l \in Pairs(dups)
  BY <1>4, <1>7
<1>9. CASE h = j
  BY <1>8, <1>9 DEF Together
<1>10. CASE h < j
  <2>1. j \in h + 1 .. k
    BY <1>1, <1>4, <1>10
  <2>2. IsDup(filelist, j)
    BY <1>5, <2>1
  <2>3. PICK g : /\ g \in DOMAIN filelist /\ Heads(filelist, g, j)
                 /\ <<filelist[g].path, filelist[j].path>> \in Pairs(dups)
    BY <1>2, <2>2 DEF Reporting, DupsListed
  <2>4. ~IsDup(filelist, g) /\ g < j /\ \A m \in g + 1 .. j : IsDup(filelist, m)
    BY <1>1, <2>3 DEF Heads
  <2>5. h \notin g + 1 .. j /\ g \notin h + 1 .. k
    BY <1>5, <2>4
  <2>6. g = h
    BY <1>1, <1>4, <1>10, <2>3, <2>4, <2>5
  <2>7. PICK m : m = <<filelist[g].path, filelist[j].path>>
    OBVIOUS
  <2>8. m[1] = filelist[h].path /\ m[2] = filelist[j].path /\ m \in Pairs(dups)
    BY <2>3, <2>6, <2>7
  <2> QED
    BY <1>8, <2>8 DEF Together
<1> QED
  BY <1>1, <1>4, <1>6, <1>9, <1>10

LEMMA Completeness ==
    ASSUME IInv, DifferencesFit
    PROVE  DuplicatesReported
<1> SUFFICES ASSUME pc = "done", NEW p \in Listed, NEW q \in Listed, p < q, Text(p) = Text(q),
                    linkflag \/ ~Linked(p, q)
             PROVE  \E l, m \in Pairs(dups) :
                      /\ l[1] = m[1]
                      /\ \E x, y \in {l[1], l[2], m[2]} : x # y /\ Stands(x, p) /\ Stands(y, q)
  BY DEF DuplicatesReported
<1>1. TypeInv /\ Reporting /\ Distinct(filelist) /\ ix = n_files + 1 /\ linkflag \in BOOLEAN
  BY DEF IInv, TypeInv
<1>2. \A k \in DOMAIN filelist : k \in Nat
  BY <1>1 DEF TypeInv, Files
<1>3. p \in Nat /\ q \in Nat /\ p < Len(names) + 1 /\ q < Len(names) + 1
  BY <1>1 DEF Listed, TypeInv
<1>4. PICK j, k : /\ j \in DOMAIN filelist /\ k \in DOMAIN filelist
                  /\ filelist[j].path = p /\ filelist[k].path = q
  BY <1>1, <1>3 DEF Reporting, AllListed, Complete
<1>5. p # q
  BY <1>3
<1>6. PICK f, g : /\ f \in DOMAIN filelist /\ g \in DOMAIN filelist /\ f # g
                  /\ Stands(filelist[f].path, p) /\ Stands(filelist[g].path, q)
                  /\ SameText(filelist, f, g) /\ Shown(f) /\ Shown(g)
  <2>1. TextOf(filelist[j]) = Text(p) /\ TextOf(filelist[k]) = Text(q)
    BY <1>1, <1>4, PathOf
  <2>2. CASE linkflag
    <3>1. SameText(filelist, j, k) /\ j # k /\ Shown(j) /\ Shown(k)
      BY <1>4, <1>5, <2>1, <2>2 DEF SameText, Shown
    <3> QED
      BY <1>4, <3>1 DEF Stands
  <2>3. CASE ~linkflag
    <3>1. PICK f, g : /\ f \in DOMAIN filelist /\ g \in DOMAIN filelist
                      /\ filelist[f].inode = filelist[j].inode /\ ~IsLnk(filelist, f)
                      /\ filelist[g].inode = filelist[k].inode /\ ~IsLnk(filelist, g)
      BY <1>1, <1>4 DEF Reporting, HasFile
    <3>2. /\ names[filelist[f].path] = names[p] /\ names[filelist[g].path] = names[q]
          /\ filelist[f].inode = names[p] /\ filelist[g].inode = names[q]
      BY <1>1, <1>4, <3>1, PathOf
    <3>3. f # g
      BY <2>3, <3>2 DEF Linked
    <3>4. Stands(filelist[f].path, p) /\ Stands(filelist[g].path, q)
      BY <2>3, <3>2 DEF Stands, Linked
    <3>5. SameText(filelist, f, g)
      BY <2>1, <3>1 DEF SameText, TextOf
    <3>6. Shown(f) /\ Shown(g)
      BY <3>1 DEF Shown, Flagged, IsLnk
    <3> QED
      BY <3>1, <3>3, <3>4, <3>5, <3>6
  <2> QED
    BY <2>2, <2>3
<1>7. Together(filelist[f].path, filelist[g].path)
  <2>1. CASE f < g
    BY <1>1, <1>6, <2>1, EntriesTogether
  <2>2. CASE g < f
    <3>1. SameText(filelist, g, f)
      BY <1>6 DEF SameText
    <3>2. Together(filelist[g].path, filelist[f].path)
      BY <1>1, <1>6, <2>2, <3>1, EntriesTogether
    <3> QED
      BY <3>2 DEF Together
  <2> QED
    BY <1>2, <1>6, <2>1, <2>2
<1>8. filelist[f].path # filelist[g].path
  BY <1>1, <1>6 DEF Distinct
<1> QED
  BY <1>6, <1>7, <1>8 DEF Together

(* When differences of lengths, CRCs and inode numbers fit comp1's int,    *)
(* two paths with equal contents always appear in the report under one     *)
(* FILE; with -l, a path that is not a link stands for its links.          *)
THEOREM NoDuplicateMissed == DifferencesFit => (Spec => []DuplicatesReported)
<1> SUFFICES ASSUME DifferencesFit PROVE Spec => []DuplicatesReported
  OBVIOUS
<1>1. IInv => DuplicatesReported
  BY Completeness
<1> QED
  BY <1>1, Invariance, PTL

(* The hard link summary names, once each, only paths that are links of    *)
(* the FILE above them, and nothing with -l, whatever order the sort       *)
(* leaves the list in.                                                     *)
THEOREM LinksAreReal == Spec => [](pc = "done" => LinksSound)
<1>1. IInv => (pc = "done" => LinksSound)
  BY DEF IInv, Reporting, LinksKnown
<1> QED
  BY <1>1, Invariance, PTL

(* When differences fit comp1's int, scan2's first loop reports every link *)
(* of an inode, all under one FILE, since sorting has put them together.   *)
THEOREM LinksListed == DifferencesFit => (Spec => []LinksReported)
<1> SUFFICES ASSUME DifferencesFit PROVE Spec => []LinksReported
  OBVIOUS
<1>1. IInv => LinksReported
  BY DEF IInv, Reporting, LinksKnown, LinksSound, LinksComplete, LinksReported
<1> QED
  BY <1>1, Invariance, PTL

=============================================================================
