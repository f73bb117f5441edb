------------------------------- MODULE Finddup -------------------------------
(***************************************************************************)
(* finddup (hw2/src/finddup.c): given a list of paths it reports the hard  *)
(* links and the files with equal contents.  The list of files is sorted,  *)
(* files of equal length get a CRC, the list is sorted again, links are    *)
(* marked, files of equal length and CRC are compared, and the list is     *)
(* printed.                                                                *)
(*                                                                         *)
(* Paths are numbers, 1 first in the list of names; contents are model     *)
(* values with a length and a CRC.  All files are on one device.           *)
(***************************************************************************)
EXTENDS Integers, Sequences, Functions

CONSTANTS Contents,         \* what files can hold
          LengthOf(_),      \* their lengths, 0 for the empty file
          rc_crc32(_),      \* and CRCs
          Inodes,           \* inode numbers
          MaxPaths,         \* bound: paths in the list
          INT_MAX           \* of comp1's int

ASSUME FinddupAssumption ==
    /\ MaxPaths \in Nat
    /\ INT_MAX \in Nat
    /\ Inodes \subseteq Nat \ {0}
    /\ \A c \in Contents : LengthOf(c) \in Nat /\ rc_crc32(c) \in Nat

VARIABLES
    data, names,    \* the file system: contents by inode, inode by path;
                    \*   inode 0: a path that lstat refuses or no regular file
    linkflag,       \* FALSE with option -l
    filelist,       \* filelist[0 .. n_files-1], from 1 here
    pc,             \* the phase
    ix, ix2,        \* the indices of its loops
    lastix,         \* scan2: where the next duplicate goes,
    lnkmatch,       \*   and whether the file before ix2 was one
    headfn,         \* scan3: what heads the current run of duplicates, 0: none
    empty,          \* the paths printed as zero length files
    links, dups     \* lines of the two reports: <<path of FILE, path>>

fixed == <<data, names, linkflag>>      \* what no phase changes
scan2vars == <<ix2, lastix, lnkmatch>>
output == <<empty, links, dups>>
vars == <<fixed, filelist, pc, ix, scan2vars, headfn, output>>

n_files == Len(filelist)

Init ==
    /\ data \in [Inodes -> Contents]
    /\ names \in UNION {[1 .. n -> Inodes \cup {0}] : n \in 0 .. MaxPaths}
    /\ linkflag \in BOOLEAN
    /\ filelist = <<>>
    /\ pc = "build"
    /\ ix = 1 /\ ix2 = 0 /\ lastix = 0
    /\ lnkmatch = FALSE
    /\ headfn = 0
    /\ empty = {}
    /\ links = <<>> /\ dups = <<>>

-----------------------------------------------------------------------------
(* The build loop: one path.                                               *)
Build ==
    /\ pc = "build" /\ ix <= Len(names)
    /\ ix' = ix + 1
    /\ LET ino == names[ix]
       IN  IF ino = 0
           THEN UNCHANGED <<empty, filelist>>
           ELSE IF LengthOf(data[ino]) = 0
           THEN empty' = empty \cup {ix} /\ UNCHANGED filelist
           ELSE /\ filelist' = Append(filelist,
                     [path |-> ix, length |-> LengthOf(data[ino]), crc32 |-> 0,
                      inode |-> ino, flags |-> {}])
                /\ UNCHANGED empty
    /\ UNCHANGED <<fixed, pc, scan2vars, headfn, links, dups>>

(* A difference stored in an int.                                          *)
ToInt(d) ==
    LET size == 2 * (INT_MAX + 1)
        m == d % size
    IN  IF m > INT_MAX THEN m - size ELSE m

(* Mutant: the CRC is left out of the comparison.                          *)
CompareWithoutCrc(f, g) ==
    IF f.length # g.length THEN ToInt(f.length - g.length)
                           ELSE ToInt(f.inode - g.inode)

comp1(f, g) ==
    IF f.length # g.length     THEN ToInt(f.length - g.length)
    ELSE IF f.crc32 # g.crc32  THEN ToInt(f.crc32 - g.crc32)
    ELSE ToInt(f.inode - g.inode)

(* What the library's qsort may make of s: a rearrangement in which no     *)
(* entry is greater than a later one.  It promises an order only if the    *)
(* comparison is consistent, which comp1 need not be when it overflows.    *)
Consistent(s) ==
    \A j, k, m \in DOMAIN s :
        /\ comp1(s[j], s[k]) <= 0 \/ comp1(s[k], s[j]) <= 0
        /\ comp1(s[j], s[k]) <= 0 /\ comp1(s[k], s[m]) <= 0 => comp1(s[j], s[m]) <= 0

InOrder(s) == \A j, k \in DOMAIN s : j < k => comp1(s[j], s[k]) <= 0

qsort(s) ==
    LET ordered == Consistent(s)
    IN  {t \in {[k \in DOMAIN s |-> s[p[k]]] : p \in Injection(DOMAIN s, DOMAIN s)} :
            ordered => InOrder(t)}

Sort ==
    /\ pc = "build" /\ ix > Len(names)
    /\ filelist' \in qsort(filelist)
    /\ pc' = "scan1"
    /\ UNCHANGED <<fixed, ix, scan2vars, headfn, output>>

(* scan1: neighbours of equal length get their CRCs, and the list is       *)
(* sorted again if there are any.                                          *)
EqualNext(k) == k \in 1 .. n_files - 1 /\ filelist[k].length = filelist[k + 1].length

WithCrcs ==
    [k \in DOMAIN filelist |->
        IF EqualNext(k - 1) \/ EqualNext(k)
        THEN [filelist[k] EXCEPT !.crc32 = rc_crc32(data[filelist[k].inode])]
        ELSE filelist[k]]

scan1 ==
    /\ pc = "scan1"
    /\ filelist' \in IF \E k \in DOMAIN filelist : EqualNext(k)
                     THEN qsort(WithCrcs) ELSE {filelist}
    /\ pc' = "links"
    /\ ix' = 1 /\ ix2' = 2
    /\ UNCHANGED <<fixed, lastix, lnkmatch, headfn, output>>

-----------------------------------------------------------------------------
Flagged(k, flag) == flag \in filelist[k].flags
WithFlag(k, flag) == [filelist[k] EXCEPT !.flags = @ \cup {flag}]

(* Mutant: the last entry of the list is never looked at.                  *)
SameInodeButLast ==
    ix2 < n_files /\ filelist[ix].inode = filelist[ix2].inode

(* scan2, first loop: the entries behind ix with the inode of ix are       *)
(* marked and reported as its links.                                       *)
SameInode == ix2 <= n_files /\ filelist[ix].inode = filelist[ix2].inode

MarkLink ==
    /\ pc = "links" /\ ix <= n_files /\ SameInode
    /\ filelist' = [filelist EXCEPT ![ix2] = WithFlag(ix2, "LNK")]
    /\ links' = IF linkflag
                THEN Append(links, <<filelist[ix].path, filelist[ix2].path>>)
                ELSE links
    /\ ix2' = ix2 + 1
    /\ UNCHANGED <<fixed, pc, ix, lastix, lnkmatch, headfn, empty, dups>>

NextInode ==
    /\ pc = "links" /\ ix <= n_files /\ ~SameInode
    /\ ix' = ix2 /\ ix2' = ix2 + 1
    /\ UNCHANGED <<fixed, filelist, pc, lastix, lnkmatch, headfn, output>>

(* The loop over ix starts, at the file that one is.                       *)
StartRun(one) ==
    /\ ix' = one /\ ix2' = one + 1 /\ lastix' = one + 1
    /\ lnkmatch' = TRUE

LinksDone ==
    /\ pc = "links" /\ ix > n_files
    /\ pc' = "dups"
    /\ StartRun(1)
    /\ UNCHANGED <<fixed, filelist, headfn, output>>

fullcmp(v1, v2) == IF data[filelist[v1].inode] = data[filelist[v2].inode] THEN 0 ELSE 1

(* scan2, second loop: the files with the length and CRC of ix.            *)
Comparing ==
    /\ pc = "dups" /\ ix <= n_files /\ ix2 <= n_files
    /\ filelist[ix].length = filelist[ix2].length
    /\ filelist[ix].crc32 = filelist[ix2].crc32

(* Mutant: a link is taken to match whatever the file before it did.       *)
MatchesOrLink == Flagged(ix2, "LNK") \/ fullcmp(ix, ix2) = 0

(* A link needs no comparison if the file before it matched.               *)
Matches == (Flagged(ix2, "LNK") /\ lnkmatch) \/ fullcmp(ix, ix2) = 0

(* A duplicate is marked and moved to lastix, those between move up.       *)
MarkDup ==
    /\ Comparing /\ Matches
    /\ filelist' = [k \in DOMAIN filelist |->
                      IF k = lastix THEN WithFlag(ix2, "DUP")
                      ELSE IF k \in lastix + 1 .. ix2 THEN filelist[k - 1]
                      ELSE filelist[k]]
    /\ lastix' = IF lastix # ix2 THEN lastix + 1 ELSE lastix
    /\ lnkmatch' = TRUE
    /\ ix2' = ix2 + 1
    /\ UNCHANGED <<fixed, pc, ix, headfn, output>>

PassOver ==
    /\ Comparing /\ ~Matches
    /\ lnkmatch' = FALSE
    /\ ix2' = ix2 + 1
    /\ UNCHANGED <<fixed, filelist, pc, ix, lastix, headfn, output>>

NextRun ==
    /\ pc = "dups" /\ ix <= n_files /\ ~Comparing
    /\ StartRun(lastix)
    /\ UNCHANGED <<fixed, filelist, pc, headfn, output>>

DupsDone ==
    /\ pc = "dups" /\ ix > n_files
    /\ pc' = "scan3"
    /\ ix' = 1
    /\ UNCHANGED <<fixed, filelist, scan2vars, headfn, output>>

(* get_crc and fullcmp exit the program when a file cannot be opened.      *)
CannotRead ==
    /\ \/ pc = "scan1" /\ \E k \in DOMAIN filelist : EqualNext(k)
       \/ Comparing /\ ~(Flagged(ix2, "LNK") /\ lnkmatch)
    /\ pc' = "failed"
    /\ UNCHANGED <<fixed, filelist, ix, scan2vars, headfn, output>>

-----------------------------------------------------------------------------
(* scan3: one entry.  The file before the first of a run of duplicates     *)
(* heads it.                                                               *)
Shown(k) == linkflag \/ ~Flagged(k, "LNK")

ReportDup ==
    /\ pc = "scan3" /\ ix <= n_files /\ Flagged(ix, "DUP")
    /\ headfn' = IF headfn = 0 THEN filelist[ix - 1].path ELSE headfn
    /\ dups' = IF Shown(ix) THEN Append(dups, <<headfn', filelist[ix].path>>) ELSE dups
    /\ ix' = ix + 1
    /\ UNCHANGED <<fixed, filelist, pc, scan2vars, empty, links>>

EndMatch ==
    /\ pc = "scan3" /\ ix <= n_files /\ ~Flagged(ix, "DUP")
    /\ headfn' = 0
    /\ ix' = ix + 1
    /\ UNCHANGED <<fixed, filelist, pc, scan2vars, output>>

Exit ==
    /\ pc = "scan3" /\ ix > n_files
    /\ pc' = "done"
    /\ UNCHANGED <<fixed, filelist, ix, scan2vars, headfn, output>>

Finished == pc \in {"done", "failed"} /\ UNCHANGED vars

Next ==
    \/ Build \/ Sort \/ scan1 \/ MarkLink \/ NextInode \/ LinksDone
    \/ MarkDup \/ PassOver \/ NextRun \/ DupsDone \/ CannotRead
    \/ ReportDup \/ EndMatch \/ Exit \/ Finished

Spec == Init /\ [][Next]_vars

-----------------------------------------------------------------------------
(* The regular, non-empty files of the list; what is reported about them.  *)
Listed == {p \in DOMAIN names : names[p] # 0 /\ LengthOf(data[names[p]]) # 0}
Text(p) == data[names[p]]
Linked(p, q) == names[p] = names[q]
Pairs(report) == {report[k] : k \in DOMAIN report}

(* Soundness: a file is reported as DUP under a FILE only if they have the *)
(* same contents, although a link is marked without being compared and     *)
(* CRCs collide; and a FILE is never a DUP itself.                         *)
ReportedAreDuplicates ==
    pc = "done" =>
        \A l \in Pairs(dups) :
            /\ l[1] # l[2] /\ Text(l[1]) = Text(l[2])
            /\ \A m \in Pairs(dups) : l[1] # m[2]

(* Completeness, "returns a list of linked and duplicated files": two      *)
(* files with the same contents are reported together,                     *)
(* both under one FILE or one under the other; with -l this holds of files *)
(* that are not links of each other, a link standing for the file.         *)
Stands(x, p) == x = p \/ (~linkflag /\ Linked(x, p))

DuplicatesReported ==
    pc = "done" =>
        \A p, q \in Listed :
            p < q /\ Text(p) = Text(q) /\ (linkflag \/ ~Linked(p, q)) =>
                \E l, m \in Pairs(dups) :
                    /\ l[1] = m[1]
                    /\ \E x, y \in {l[1], l[2], m[2]} :
                         x # y /\ Stands(x, p) /\ Stands(y, q)

(* The hard link summary lists, for every inode with several paths, one as *)
(* FILE and each of the others as its LINK, and is empty with -l.          *)
LinksReported ==
    pc = "done" =>
        /\ \A l \in Pairs(links) : l[1] # l[2] /\ Linked(l[1], l[2]) /\ linkflag
        /\ IsInjective(links)
        /\ linkflag => \A p, q \in Listed :
               p # q /\ Linked(p, q) =>
                   \E h \in Listed : {p, q} \subseteq
                        {h} \cup {l[2] : l \in {m \in Pairs(links) : m[1] = h}}
=============================================================================
