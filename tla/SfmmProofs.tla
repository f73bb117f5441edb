----------------------------- MODULE SfmmProofs -----------------------------
(***************************************************************************)
(* The quick lists of the allocator never outgrow their counters, nor the  *)
(* counters QUICK_LIST_MAX, whatever a program asks for and for any size   *)
(* of the heap, also once the heap is damaged.                             *)
(***************************************************************************)
EXTENDS Sfmm, TLAPS

IsHeap(h) ==
    h = [header |-> h.header, footer |-> h.footer, end |-> h.end, ok |-> h.ok,
         free |-> h.free, quick |-> h.quick, count |-> h.count,
         last_block_allocated |-> h.last_block_allocated]

(* The helpers that do not deal with quick lists leave them alone.         *)
SameQuick(h, g) == IsHeap(g) /\ g.quick = h.quick /\ g.count = h.count

QuickTypes(h) ==
    /\ IsHeap(h)
    /\ \E S : h.quick \in [Lists -> Seq(S)]
    /\ h.count \in [Lists -> Int]

Bounded(h) ==
    \A i \in Lists : Len(h.quick[i]) <= h.count[i] /\ h.count[i] <= QUICK_LIST_MAX

(* While a list is being flushed its counter stays at the maximum.         *)
Flushing == pc = "flush" => index \in Lists /\ heap.count[index] = QUICK_LIST_MAX

Good(h) == QuickTypes(h) /\ Bounded(h)

IInv == Good(heap) /\ Flushing

-----------------------------------------------------------------------------
(* Assigning a field other than quick and count leaves the quick lists     *)
(* alone.                                                                  *)
LEMMA OneField ==
    ASSUME NEW h, IsHeap(h), NEW x
    PROVE  /\ SameQuick(h, h)
           /\ SameQuick(h, [h EXCEPT !.header = x])
           /\ SameQuick(h, [h EXCEPT !.footer = x])
           /\ SameQuick(h, [h EXCEPT !.end = x])
           /\ SameQuick(h, [h EXCEPT !.ok = x])
           /\ SameQuick(h, [h EXCEPT !.free = x])
           /\ SameQuick(h, [h EXCEPT !.last_block_allocated = x])
<1>1. PICK a, b, c, d, e, f, g, l :
        h = [header |-> a, footer |-> b, end |-> c, ok |-> d,
             free |-> e, quick |-> f, count |-> g, last_block_allocated |-> l]
  BY DEF IsHeap
<1>2. SameQuick(h, [h EXCEPT !.header = x])
  <2>1. [h EXCEPT !.header = x] = [header |-> x, footer |-> b, end |-> c, ok |-> d,
             free |-> e, quick |-> f, count |-> g, last_block_allocated |-> l]
    BY <1>1
  <2> QED
    BY <1>1, <2>1 DEF SameQuick, IsHeap
<1>3. SameQuick(h, [h EXCEPT !.footer = x])
  <2>1. [h EXCEPT !.footer = x] = [header |-> a, footer |-> x, end |-> c, ok |-> d,
             free |-> e, quick |-> f, count |-> g, last_block_allocated |-> l]
    BY <1>1
  <2> QED
    BY <1>1, <2>1 DEF SameQuick, IsHeap
<1>4. SameQuick(h, [h EXCEPT !.end = x])
  <2>1. [h EXCEPT !.end = x] = [header |-> a, footer |-> b, end |-> x, ok |-> d,
             free |-> e, quick |-> f, count |-> g, last_block_allocated |-> l]
    BY <1>1
  <2> QED
    BY <1>1, <2>1 DEF SameQuick, IsHeap
<1>5. SameQuick(h, [h EXCEPT !.ok = x])
  <2>1. [h EXCEPT !.ok = x] = [header |-> a, footer |-> b, end |-> c, ok |-> x,
             free |-> e, quick |-> f, count |-> g, last_block_allocated |-> l]
    BY <1>1
  <2> QED
    BY <1>1, <2>1 DEF SameQuick, IsHeap
<1>6. SameQuick(h, [h EXCEPT !.free = x])
  <2>1. [h EXCEPT !.free = x] = [header |-> a, footer |-> b, end |-> c, ok |-> d,
             free |-> x, quick |-> f, count |-> g, last_block_allocated |-> l]
    BY <1>1
  <2> QED
    BY <1>1, <2>1 DEF SameQuick, IsHeap
<1>7. SameQuick(h, [h EXCEPT !.last_block_allocated = x])
  <2>1. [h EXCEPT !.last_block_allocated = x] = [header |-> a, footer |-> b, end |-> c, ok |-> d,
             free |-> e, quick |-> f, count |-> g, last_block_allocated |-> x]
    BY <1>1
  <2> QED
    BY <1>1, <2>1 DEF SameQuick, IsHeap
<1> QED
  BY <1>2, <1>3, <1>4, <1>5, <1>6, <1>7 DEF SameQuick

LEMMA SameTrans ==
    ASSUME NEW f, NEW g, NEW h, SameQuick(f, g), SameQuick(g, h)
    PROVE  SameQuick(f, h)
BY DEF SameQuick

(* A write that goes astray is recorded, no more.                          *)
LEMMA SameWild ==
    ASSUME NEW h, IsHeap(h)
    PROVE  SameQuick(h, Wild(h))
BY OneField DEF Wild

(* Header and footer words.                                                *)
LEMMA SameUpdateHeader ==
    ASSUME NEW h, IsHeap(h), NEW b, NEW s, NEW x, NEW y
    PROVE  SameQuick(h, update_header(h, b, s, x, y))
BY OneField, SameWild DEF update_header

LEMMA SameAddFooter ==
    ASSUME NEW h, IsHeap(h), NEW b
    PROVE  SameQuick(h, add_footer(h, b))
BY OneField, SameWild DEF add_footer

(* The free lists.                                                         *)
LEMMA SameInsert ==
    ASSUME NEW h, IsHeap(h), NEW b
    PROVE  SameQuick(h, insert_to_free_list(h, b))
BY OneField DEF insert_to_free_list

LEMMA SameRemove ==
    ASSUME NEW h, IsHeap(h), NEW i, NEW w
    PROVE  SameQuick(h, remove_from_free_list(h, i, w).heap)
BY OneField, SameWild DEF remove_from_free_list, Got

(* The neighbour's previous-allocated bit.                                 *)
LEMMA SameClearPrev ==
    ASSUME NEW h, IsHeap(h), NEW b
    PROVE  SameQuick(h, clear_prev_alloc_in_next_block(h, b))
<1>1. PICK next : next = NextOf(h, b)
  OBVIOUS
<1>2. PICK w : w = Hdr(h, next) - (IF IsPrev(Hdr(h, next)) THEN 2 ELSE 0)
  OBVIOUS
<1>3. PICK g : g = [h EXCEPT !.header = (next :> w) @@ h.header]
  OBVIOUS
<1>4. SameQuick(h, g)
  BY <1>3, OneField
<1>5. SameQuick(h, add_footer(g, next))
  BY <1>4, SameAddFooter, SameTrans DEF SameQuick
<1>6. clear_prev_alloc_in_next_block(h, b)
        = IF next \notin DOMAIN h.header THEN Wild(h)
          ELSE IF IsAlloc(w) THEN g ELSE add_footer(g, next)
  BY <1>1, <1>2, <1>3 DEF clear_prev_alloc_in_next_block
<1> QED
  BY <1>4, <1>5, <1>6, SameWild

LEMMA SameSetPrev ==
    ASSUME NEW h, IsHeap(h), NEW b
    PROVE  SameQuick(h, set_prev_alloc_in_next_block(h, b))
BY OneField, SameWild, SameUpdateHeader DEF set_prev_alloc_in_next_block

(* A block of a free list handed out whole, split, or whichever applies.   *)
LEMMA SameNoSplitting ==
    ASSUME NEW h, IsHeap(h), NEW i, NEW w
    PROVE  SameQuick(h, allocate_no_splitting(h, i, w).heap)
<1>1. PICK r : r = remove_from_free_list(h, i, w)
  OBVIOUS
<1>2. PICK p : p = IsPrev(Hdr(h, r.block))
  OBVIOUS
<1>3. PICK g : g = update_header(r.heap, r.block, w, TRUE, p)
  OBVIOUS
<1>4. SameQuick(h, r.heap)
  BY <1>1, SameRemove
<1>5. SameQuick(h, g)
  <2>1. SameQuick(r.heap, g)
    BY <1>3, <1>4, OneField, SameWild DEF update_header, SameQuick
  <2> QED
    BY <1>4, <2>1, SameTrans
<1>6. SameQuick(h, set_prev_alloc_in_next_block(g, r.block))
  BY <1>5, SameSetPrev, SameTrans DEF SameQuick
<1>7. allocate_no_splitting(h, i, w).heap = set_prev_alloc_in_next_block(g, r.block)
  BY <1>1, <1>2, <1>3 DEF allocate_no_splitting, Got
<1> QED
  BY <1>6, <1>7

LEMMA SameSplitting ==
    ASSUME NEW h, IsHeap(h), NEW i, NEW w, NEW needed
    PROVE  SameQuick(h, allocate_splitting(h, i, w, needed).heap)
<1>1. PICK r : r = remove_from_free_list(h, i, w)
  OBVIOUS
<1>2. PICK p, new, rest : p = IsPrev(Hdr(h, r.block)) /\ new = r.block + needed /\ rest = w - needed
  OBVIOUS
<1>3. PICK h1 : h1 = update_header(r.heap, r.block, needed, TRUE, p)
  OBVIOUS
<1>4. PICK h2 : h2 = update_header(h1, new, rest, FALSE, TRUE)
  OBVIOUS
<1>5. PICK h3 : h3 = add_footer(h2, new)
  OBVIOUS
<1>6. SameQuick(h, r.heap)
  BY <1>1, SameRemove
<1>7. SameQuick(h, h1)
  <2>1. SameQuick(r.heap, h1)
    BY <1>3, <1>6, OneField, SameWild DEF update_header, SameQuick
  <2> QED
    BY <1>6, <2>1, SameTrans
<1>8. SameQuick(h, h2)
  <2>1. SameQuick(h1, h2)
    BY <1>4, <1>7, OneField, SameWild DEF update_header, SameQuick
  <2> QED
    BY <1>7, <2>1, SameTrans
<1>9. SameQuick(h, h3)
  BY <1>5, <1>8, SameAddFooter, SameTrans DEF SameQuick
<1>10. SameQuick(h, insert_to_free_list(h3, new))
  BY <1>9, SameInsert, SameTrans DEF SameQuick
<1>11. allocate_splitting(h, i, w, needed).heap = insert_to_free_list(h3, new)
  BY <1>1, <1>2, <1>3, <1>4, <1>5 DEF allocate_splitting, Got
<1> QED
  BY <1>10, <1>11

LEMMA SameAllocate ==
    ASSUME NEW h, IsHeap(h), NEW i, NEW w, NEW needed
    PROVE  SameQuick(h, allocate(h, i, w, needed).heap)
BY SameNoSplitting, SameSplitting DEF allocate

(* A page more: the new page joins the last block or is a block of its     *)
(* own.                                                                    *)
LEMMA SameGrow ==
    ASSUME NEW h, IsHeap(h), NEW m
    PROVE  SameQuick(h, GrowHeap(h, m).heap)
<1>1. PICK new : new = h.end - 16
  OBVIOUS
<1>2. PICK e, hd, ft : /\ e = h.end + PAGE_SZ
                       /\ hd = (new :> PAGE_SZ) @@ (new + PAGE_SZ :> m) @@ h.header
                       /\ ft = (new + PAGE_SZ :> PAGE_SZ) @@ h.footer
  OBVIOUS
<1>3. PICK h1 : h1 = [h EXCEPT !.end = e, !.header = hd, !.footer = ft]
  OBVIOUS
<1>4. SameQuick(h, h1)
  <2>1. PICK a, b, c, d, x, f, g, l :
          h = [header |-> a, footer |-> b, end |-> c, ok |-> d,
               free |-> x, quick |-> f, count |-> g, last_block_allocated |-> l]
    BY DEF IsHeap
  <2>2. h1 = [header |-> hd, footer |-> ft, end |-> e, ok |-> d,
              free |-> x, quick |-> f, count |-> g, last_block_allocated |-> l]
    BY <1>3, <2>1
  <2> QED
    BY <2>1, <2>2 DEF SameQuick, IsHeap
<1>5. PICK foot : foot = h1.footer[new]
  OBVIOUS
<1>6. PICK r : r = remove_from_free_list(h1, get_free_list_index(foot), foot)
  OBVIOUS
<1>7. PICK h2 : h2 = update_header(r.heap, r.block, Hdr(h1, r.block) + PAGE_SZ, FALSE, FALSE)
  OBVIOUS
<1>8. PICK h3 : h3 = add_footer(h2, r.block)
  OBVIOUS
<1>9. SameQuick(h, r.heap)
  BY <1>4, <1>6, SameRemove, SameTrans DEF SameQuick
<1>10. SameQuick(h, h2)
  <2>1. SameQuick(r.heap, h2)
    BY <1>7, <1>9, OneField, SameWild DEF update_header, SameQuick
  <2> QED
    BY <1>9, <2>1, SameTrans
<1>11. SameQuick(h, h3)
  BY <1>8, <1>10, SameAddFooter, SameTrans DEF SameQuick
<1>12. SameQuick(h, insert_to_free_list(h3, r.block))
  BY <1>11, SameInsert, SameTrans DEF SameQuick
<1>13. PICK hd1 : hd1 = [h1.header EXCEPT ![new] = PAGE_SZ + 2]
  OBVIOUS
<1>14. PICK h4 : h4 = [h1 EXCEPT !.header = hd1]
  OBVIOUS
<1>15. PICK h5 : h5 = [h4 EXCEPT !.last_block_allocated = FALSE]
  OBVIOUS
<1>16. SameQuick(h, h5)
  <2>1. SameQuick(h1, h4)
    BY <1>4, <1>14, OneField DEF SameQuick
  <2>2. SameQuick(h4, h5)
    BY <1>15, <2>1, OneField DEF SameQuick
  <2> QED
    BY <1>4, <2>1, <2>2 DEF SameQuick
<1>17. h5 = [h1 EXCEPT !.header[new] = PAGE_SZ + 2, !.last_block_allocated = FALSE]
  BY <1>13, <1>14, <1>15
<1>18. GrowHeap(h, m).heap \in {h5, Wild(h1), insert_to_free_list(h3, r.block)}
  <2>1. h1 = [h EXCEPT !.end = @ + PAGE_SZ,
                       !.header = (new :> PAGE_SZ) @@ (new + PAGE_SZ :> m) @@ @,
                       !.footer = (new + PAGE_SZ :> PAGE_SZ) @@ @]
    BY <1>2, <1>3
  <2>2. GrowHeap(h, m) \in {Got(new, h5), Got(0, Wild(h1)),
                            Got(r.block, insert_to_free_list(h3, r.block))}
    BY <1>1, <1>5, <1>6, <1>7, <1>8, <1>17, <2>1 DEF GrowHeap
  <2> QED
    BY <2>2 DEF Got
<1>19. SameQuick(h, Wild(h1))
  BY <1>4, SameWild, SameTrans DEF SameQuick
<1> QED
  BY <1>12, <1>16, <1>18, <1>19

(* Two blocks are joined: c gets the word w and a footer.                  *)
JoinAt(g, c, w) == add_footer([g EXCEPT !.header[c] = w], c)

LEMMA SameJoin ==
    ASSUME NEW h, NEW g, SameQuick(h, g), NEW c, NEW w
    PROVE  SameQuick(h, JoinAt(g, c, w))
<1>1. PICK k : k = [g EXCEPT !.header = [g.header EXCEPT ![c] = w]]
  OBVIOUS
<1>2. SameQuick(h, k)
  <2>1. SameQuick(g, k)
    BY <1>1, OneField DEF SameQuick
  <2> QED
    BY <2>1 DEF SameQuick
<1>3. SameQuick(h, add_footer(k, c))
  BY <1>2, SameAddFooter, SameTrans DEF SameQuick
<1> QED
  BY <1>1, <1>3 DEF JoinAt

(* Joining with the neighbours, in each of the four cases.                 *)
LEMMA SameCoalesce ==
    ASSUME NEW h, IsHeap(h), NEW b
    PROVE  SameQuick(h, coalesce(h, b).heap)
<1>1. PICK next, wn, wp, wb :
        next = NextOf(h, b) /\ wn = Hdr(h, next) /\ wp = h.footer[b] /\ wb = Hdr(h, b)
  OBVIOUS
<1>2. PICK in, ip : in = get_free_list_index(Size(wn)) /\ ip = get_free_list_index(Size(wp))
  OBVIOUS
<1>3. PICK p : p = remove_from_free_list(h, ip, wp)
  OBVIOUS
<1>4. PICK g1, g2 : /\ g1 = remove_from_free_list(h, in, wn).heap
                    /\ g2 = remove_from_free_list(p.heap, in, wn).heap
  OBVIOUS
<1>5. SameQuick(h, p.heap)
  BY <1>3, SameRemove
<1>6. SameQuick(h, g1)
  BY <1>4, SameRemove
<1>7. SameQuick(h, g2)
  BY <1>4, <1>5, SameRemove, SameTrans DEF SameQuick
<1>8. coalesce(h, b) \in {Got(b, Wild(h)), Got(b, h),
                         Got(b, JoinAt(g1, b, wb + Size(wn))),
                         Got(p.block, JoinAt(p.heap, p.block, Size(wp) + wb)),
                         Got(p.block, JoinAt(g2, p.block, Size(wp) + wb + Size(wn)))}
  BY <1>1, <1>2, <1>3, <1>4 DEF coalesce, JoinAt
<1>9. coalesce(h, b).heap \in {Wild(h), h, JoinAt(g1, b, wb + Size(wn)),
                              JoinAt(p.heap, p.block, Size(wp) + wb),
                              JoinAt(g2, p.block, Size(wp) + wb + Size(wn))}
  BY <1>8 DEF Got
<1>10. /\ SameQuick(h, JoinAt(g1, b, wb + Size(wn)))
       /\ SameQuick(h, JoinAt(p.heap, p.block, Size(wp) + wb))
       /\ SameQuick(h, JoinAt(g2, p.block, Size(wp) + wb + Size(wn)))
  BY <1>5, <1>6, <1>7, SameJoin
<1> QED
  BY <1>9, <1>10, SameWild, OneField

LEMMA SameRelease ==
    ASSUME NEW h, IsHeap(h), NEW b
    PROVE  SameQuick(h, Release(h, b).heap)
<1>1. PICK h1 : h1 = update_header(h, b, Size(Hdr(h, b)), FALSE, IsPrev(Hdr(h, b)))
  OBVIOUS
<1>2. PICK h2 : h2 = add_footer(h1, b)
  OBVIOUS
<1>3. PICK h3 : h3 = clear_prev_alloc_in_next_block(h2, b)
  OBVIOUS
<1>4. SameQuick(h, h1)
  BY <1>1, OneField, SameWild DEF update_header
<1>5. SameQuick(h, h2)
  BY <1>2, <1>4, SameAddFooter, SameTrans DEF SameQuick
<1>6. SameQuick(h, h3)
  BY <1>3, <1>5, SameClearPrev, SameTrans DEF SameQuick
<1>7. SameQuick(h, coalesce(h3, b).heap)
  BY <1>6, SameCoalesce, SameTrans DEF SameQuick
<1>8. Release(h, b) = coalesce(h3, b)
  BY <1>1, <1>2, <1>3 DEF Release
<1> QED
  BY <1>7, <1>8

(* The end of a block cut off by sf_realloc.                               *)
LEMMA SameReallocSplit ==
    ASSUME NEW h, IsHeap(h), NEW b, NEW s
    PROVE  SameQuick(h, ReallocSplit(h, b, s))
<1>1. PICK rest, new, x : /\ rest = Size(Hdr(h, b)) - s /\ new = b + s
                          /\ x = IsPrev(Hdr(h, b))
  OBVIOUS
<1>2. PICK h1 : h1 = update_header(h, b, s, TRUE, x)
  OBVIOUS
<1>3. PICK h2 : h2 = update_header(h1, new, rest, FALSE, TRUE)
  OBVIOUS
<1>4. PICK next, wn : next = NextOf(h2, new) /\ wn = Hdr(h2, next)
  OBVIOUS
<1>5. PICK r : r = remove_from_free_list(h2, get_free_list_index(Size(wn)), wn)
  OBVIOUS
<1>6. PICK h3 : h3 = update_header(r.heap, new, rest + Size(wn), FALSE, TRUE)
  OBVIOUS
<1>7. PICK h4 : h4 = add_footer(h3, new)
  OBVIOUS
<1>8. SameQuick(h, h1)
  BY <1>2, OneField, SameWild DEF update_header
<1>9. SameQuick(h, h2)
  <2>1. SameQuick(h1, h2)
    BY <1>3, <1>8, OneField, SameWild DEF update_header, SameQuick
  <2> QED
    BY <1>8, <2>1, SameTrans
<1>10. SameQuick(h, r.heap)
  BY <1>5, <1>9, SameRemove, SameTrans DEF SameQuick
<1>11. SameQuick(h, h3)
  <2>1. SameQuick(r.heap, h3)
    BY <1>6, <1>10, OneField, SameWild DEF update_header, SameQuick
  <2> QED
    BY <1>10, <2>1, SameTrans
<1>12. SameQuick(h, h4)
  BY <1>7, <1>11, SameAddFooter, SameTrans DEF SameQuick
<1>13. SameQuick(h, insert_to_free_list(h4, new))
  BY <1>12, SameInsert, SameTrans DEF SameQuick
<1>14. SameQuick(h, Wild(h2))
  BY <1>9, SameWild, SameTrans DEF SameQuick
<1>15. ReallocSplit(h, b, s) \in {h2, Wild(h2), insert_to_free_list(h4, new)}
  BY <1>1, <1>2, <1>3, <1>4, <1>5, <1>6, <1>7 DEF ReallocSplit
<1> QED
  BY <1>9, <1>13, <1>14, <1>15

(* Rows that a block has swallowed are forgotten.                          *)
LEMMA SameSettle ==
    ASSUME NEW h, IsHeap(h)
    PROVE  SameQuick(h, Settle(h))
<1>1. PICK x, y : Settle(h) = h \/ Settle(h) = [h EXCEPT !.header = x, !.footer = y]
  BY Zenon DEF Settle
<1>2. PICK g : g = [h EXCEPT !.header = x]
  OBVIOUS
<1>3. SameQuick(h, g)
  BY <1>2, OneField
<1>4. SameQuick(h, [g EXCEPT !.footer = y])
  <2>1. SameQuick(g, [g EXCEPT !.footer = y])
    BY <1>3, OneField DEF SameQuick
  <2> QED
    BY <1>3, <2>1 DEF SameQuick
<1>5. [g EXCEPT !.footer = y] = [h EXCEPT !.header = x, !.footer = y]
  BY <1>2
<1> QED
  BY <1>1, <1>4, <1>5, OneField

-----------------------------------------------------------------------------
(* The helpers that do deal with quick lists.                              *)

(* The invariant speaks of the quick lists alone.                          *)
LEMMA GoodSame ==
    ASSUME NEW h, NEW g, Good(h), SameQuick(h, g)
    PROVE  Good(g)
BY DEF Good, QuickTypes, Bounded, SameQuick

(* A size has a quick list or NULL.                                        *)
LEMMA QuickIndex ==
    ASSUME NEW size, get_quick_list_index(size) # NULL
    PROVE  get_quick_list_index(size) \in Lists
<1>1. size \in 32 .. 176 /\ get_quick_list_index(size) = (size - 32) \div 16
  BY DEF get_quick_list_index
<1> QED
  BY <1>1 DEF Lists

(* A heap with other quick lists and counters.                             *)
With(h, q, c) ==
    [header |-> h.header, footer |-> h.footer, end |-> h.end, ok |-> h.ok,
     free |-> h.free, quick |-> q, count |-> c,
     last_block_allocated |-> h.last_block_allocated]

(* Assigning the quick lists and the counters.                             *)
LEMMA QuickSet ==
    ASSUME NEW h, IsHeap(h), NEW q, NEW c
    PROVE  /\ [h EXCEPT !.quick = q] = With(h, q, h.count)
           /\ [h EXCEPT !.count = c] = With(h, h.quick, c)
           /\ [[h EXCEPT !.count = c] EXCEPT !.quick = q] = With(h, q, c)
<1>1. PICK a, b, x, d, e, f, g, l :
        h = [header |-> a, footer |-> b, end |-> x, ok |-> d,
             free |-> e, quick |-> f, count |-> g, last_block_allocated |-> l]
  BY DEF IsHeap
<1>2. [h EXCEPT !.quick = q] = With(h, q, h.count)
  BY <1>1 DEF With
<1>3. [h EXCEPT !.count = c] = With(h, h.quick, c)
  BY <1>1 DEF With
<1>4. PICK k : k = With(h, h.quick, c)
  OBVIOUS
<1>5. [k EXCEPT !.quick = q] = With(h, q, c)
  BY <1>4 DEF With
<1> QED
  BY <1>2, <1>3, <1>4, <1>5

(* One list and its counter change, and the list stays within the counter. *)
LEMMA ListChanged ==
    ASSUME NEW h, Good(h), NEW i \in Lists, NEW S, NEW s \in Seq(S), NEW n \in Int,
           Len(s) <= n, n <= QUICK_LIST_MAX, NEW g,
           g = With(h, [h.quick EXCEPT ![i] = s], [h.count EXCEPT ![i] = n])
    PROVE  Good(g) /\ g.count[i] = n
<1>1. PICK T : h.quick \in [Lists -> Seq(T)]
  BY DEF Good, QuickTypes
<1>2. PICK q, c : q = [h.quick EXCEPT ![i] = s] /\ c = [h.count EXCEPT ![i] = n]
  OBVIOUS
<1>3. q \in [Lists -> Seq(S \cup T)]
  <2>1. Seq(S) \subseteq Seq(S \cup T) /\ Seq(T) \subseteq Seq(S \cup T)
    OBVIOUS
  <2> QED
    BY <1>1, <1>2, <2>1
<1>4. c \in [Lists -> Int] /\ c[i] = n
  BY <1>2 DEF Good, QuickTypes
<1>5. IsHeap(g) /\ g.quick = q /\ g.count = c
  BY <1>2 DEF With, IsHeap
<1>6. ASSUME NEW j \in Lists PROVE Len(q[j]) <= c[j] /\ c[j] <= QUICK_LIST_MAX
  <2>1. CASE j = i
    BY <1>1, <1>2, <1>4, <2>1
  <2>2. CASE j # i
    <3>1. q[j] = h.quick[j] /\ c[j] = h.count[j]
      BY <1>1, <1>2, <2>2 DEF Good, QuickTypes
    <3> QED
      BY <3>1 DEF Good, Bounded
  <2> QED
    BY <2>1, <2>2
<1> QED
  BY <1>3, <1>4, <1>5, <1>6 DEF Good, QuickTypes, Bounded

(* What the invariant says of one list.                                    *)
LEMMA ListFacts ==
    ASSUME NEW h, Good(h), NEW i \in Lists
    PROVE  /\ IsHeap(h) /\ h.count[i] \in Int /\ Len(h.quick[i]) \in Nat
           /\ Len(h.quick[i]) <= h.count[i] /\ h.count[i] <= QUICK_LIST_MAX
           /\ \E S : h.quick[i] \in Seq(S)
           /\ h.count = [h.count EXCEPT ![i] = h.count[i]]
<1>1. PICK S : h.quick \in [Lists -> Seq(S)]
  BY DEF Good, QuickTypes
<1>2. h.quick[i] \in Seq(S)
  BY <1>1
<1>3. Len(h.quick[i]) \in Nat
  BY <1>2
<1>4. IsHeap(h) /\ h.count \in [Lists -> Int]
  BY DEF Good, QuickTypes
<1>5. h.count[i] \in Int /\ h.count = [h.count EXCEPT ![i] = h.count[i]]
  BY <1>4
<1>6. Len(h.quick[i]) <= h.count[i] /\ h.count[i] <= QUICK_LIST_MAX
  BY DEF Good, Bounded
<1> QED
  BY <1>2, <1>3, <1>4, <1>5, <1>6

(* remove_from_quick_list of a list that is not empty, with the counter    *)
(* lowered by one (sf_malloc) or left alone (sf_free).                     *)
LEMMA QuickRemoved ==
    ASSUME NEW h, Good(h), NEW i \in Lists, h.quick[i] # <<>>
    PROVE  /\ Good(remove_from_quick_list(h, i).heap)
           /\ remove_from_quick_list(h, i).heap.count = h.count
           /\ Good(remove_from_quick_list([h EXCEPT !.count[i] = @ - 1], i).heap)
<1>1. PICK S : h.quick[i] \in Seq(S)
  BY ListFacts
<1>2. /\ IsHeap(h) /\ h.count[i] \in Int /\ Len(h.quick[i]) \in Nat
      /\ Len(h.quick[i]) <= h.count[i] /\ h.count[i] <= QUICK_LIST_MAX
      /\ h.count = [h.count EXCEPT ![i] = h.count[i]]
  BY ListFacts
<1>3. PICK s \in Seq(S) : s = Tail(h.quick[i])
  <2>1. PICK t \in Seq(S) : t = h.quick[i]
    BY <1>1
  <2>2. Tail(t) \in Seq(S)
    BY <2>1
  <2> QED
    BY <2>1, <2>2
<1>4. Len(s) = Len(h.quick[i]) - 1
  BY <1>1, <1>3
<1>5. QUICK_LIST_MAX \in Int
  BY SfmmAssumption
<1>6. PICK q : q = [h.quick EXCEPT ![i] = s]
  OBVIOUS
<1>7. PICK g : g = With(h, q, h.count)
  OBVIOUS
<1>8. remove_from_quick_list(h, i).heap = g
  BY <1>2, <1>3, <1>6, <1>7, QuickSet DEF remove_from_quick_list, Got
<1>9. Good(g)
  <2>1. PICK n \in Int : n = h.count[i]
    BY <1>2
  <2>2. Len(s) <= n /\ n <= QUICK_LIST_MAX
    BY <1>2, <1>4, <1>5, <2>1
  <2>3. g = With(h, [h.quick EXCEPT ![i] = s], [h.count EXCEPT ![i] = n])
    BY <1>2, <1>6, <1>7, <2>1
  <2> QED
    BY <2>2, <2>3, ListChanged
<1>10. g.count = h.count
  BY <1>7 DEF With
<1>11. PICK m \in Int : m = h.count[i] - 1
  BY <1>2
<1>12. PICK c : c = [h.count EXCEPT ![i] = m]
  OBVIOUS
<1>13. PICK k : k = With(h, q, c)
  OBVIOUS
<1>14. Good(k)
  <2>1. Len(s) <= m /\ m <= QUICK_LIST_MAX
    BY <1>2, <1>4, <1>5, <1>11
  <2> QED
    BY <1>6, <1>12, <1>13, <2>1, ListChanged
<1>15. remove_from_quick_list([h EXCEPT !.count[i] = @ - 1], i).heap = k
  <2>1. PICK f : f = [h EXCEPT !.count = c]
    OBVIOUS
  <2>2. f = [h EXCEPT !.count[i] = @ - 1]
    BY <1>11, <1>12, <2>1
  <2>3. f.quick = h.quick /\ [f EXCEPT !.quick = q] = k
    <3>1. f = With(h, h.quick, c)
      BY <1>2, <2>1, QuickSet
    <3> QED
      BY <1>13, <3>1 DEF With
  <2>4. remove_from_quick_list(f, i).heap = [f EXCEPT !.quick[i] = Tail(@)]
    BY DEF remove_from_quick_list, Got
  <2> QED
    BY <1>3, <1>6, <2>2, <2>3, <2>4
<1> QED
  BY <1>8, <1>9, <1>10, <1>14, <1>15

(* insert_to_quick_list after the counter was raised, or into the list     *)
(* that was flushed.                                                       *)
LEMMA QuickInserted ==
    ASSUME NEW h, Good(h), NEW i \in Lists, NEW b
    PROVE  /\ h.count[i] < QUICK_LIST_MAX
                => Good(insert_to_quick_list([h EXCEPT !.count[i] = @ + 1], b, i))
           /\ h.count[i] = QUICK_LIST_MAX /\ h.quick[i] = <<>>
                => Good(insert_to_quick_list(h, b, i))
<1>1. PICK S : h.quick[i] \in Seq(S)
  BY ListFacts
<1>2. /\ IsHeap(h) /\ h.count[i] \in Int /\ Len(h.quick[i]) \in Nat
      /\ Len(h.quick[i]) <= h.count[i] /\ h.count[i] <= QUICK_LIST_MAX
      /\ h.count = [h.count EXCEPT ![i] = h.count[i]]
  BY ListFacts
<1>3. QUICK_LIST_MAX \in Int /\ QUICK_LIST_MAX >= 1
  BY SfmmAssumption
<1>4. PICK T : T = S \cup {b}
  OBVIOUS
<1>5. h.quick[i] \in Seq(T) /\ <<b>> \in Seq(T)
  <2>1. Seq(S) \subseteq Seq(T)
    BY <1>4
  <2> QED
    BY <1>1, <1>4, <2>1
<1>6. PICK s \in Seq(T) : s = <<b>> \o h.quick[i]
  <2>1. PICK t \in Seq(T), u \in Seq(T) : t = h.quick[i] /\ u = <<b>>
    BY <1>5
  <2>2. u \o t \in Seq(T)
    OBVIOUS
  <2> QED
    BY <2>1, <2>2
<1>7. Len(s) = Len(h.quick[i]) + 1
  BY <1>1, <1>6
<1>8. PICK q : q = [h.quick EXCEPT ![i] = s]
  OBVIOUS
<1>9. ASSUME h.count[i] < QUICK_LIST_MAX
      PROVE  Good(insert_to_quick_list([h EXCEPT !.count[i] = @ + 1], b, i))
  <2>1. PICK m \in Int : m = h.count[i] + 1
    BY <1>2
  <2>2. PICK c : c = [h.count EXCEPT ![i] = m]
    OBVIOUS
  <2>3. PICK k : k = With(h, q, c)
    OBVIOUS
  <2>4. Len(s) <= m /\ m <= QUICK_LIST_MAX
    BY <1>2, <1>3, <1>7, <1>9, <2>1
  <2>5. Good(k)
    BY <1>8, <2>2, <2>3, <2>4, ListChanged
  <2>6. PICK f : f = [h EXCEPT !.count = c]
    OBVIOUS
  <2>7. f = [h EXCEPT !.count[i] = @ + 1]
    BY <2>1, <2>2, <2>6
  <2>8. f.quick = h.quick /\ [f EXCEPT !.quick = q] = k
    <3>1. f = With(h, h.quick, c)
      BY <1>2, <2>6, QuickSet
    <3> QED
      BY <2>3, <3>1 DEF With
  <2>9. insert_to_quick_list(f, b, i) = [f EXCEPT !.quick[i] = <<b>> \o @]
    BY DEF insert_to_quick_list
  <2>10. insert_to_quick_list(f, b, i) = k
    BY <1>6, <1>8, <2>8, <2>9
  <2> QED
    BY <2>5, <2>7, <2>10
<1>10. ASSUME h.count[i] = QUICK_LIST_MAX, h.quick[i] = <<>>
       PROVE  Good(insert_to_quick_list(h, b, i))
  <2>1. PICK m \in Int : m = h.count[i]
    BY <1>2
  <2>2. PICK k : k = With(h, q, h.count)
    OBVIOUS
  <2>3. Len(s) <= m /\ m <= QUICK_LIST_MAX
    BY <1>3, <1>7, <1>10, <2>1
  <2>4. k = With(h, [h.quick EXCEPT ![i] = s], [h.count EXCEPT ![i] = m])
    BY <1>2, <1>8, <2>1, <2>2
  <2>5. Good(k)
    BY <2>3, <2>4, ListChanged
  <2>6. insert_to_quick_list(h, b, i) = k
    BY <1>2, <1>6, <1>8, <2>2, QuickSet DEF insert_to_quick_list
  <2> QED
    BY <2>5, <2>6
<1> QED
  BY <1>9, <1>10

(* sf_malloc takes a block of a quick list and counts it off.              *)
LEMMA QuickAllocated ==
    ASSUME NEW h, Good(h), NEW i \in Lists, h.quick[i] # <<>>, NEW n
    PROVE  Good(quick_list_allocate(h, i, n).heap)
<1>1. PICK r : r = remove_from_quick_list([h EXCEPT !.count[i] = @ - 1], i)
  OBVIOUS
<1>2. Good(r.heap)
  BY <1>1, QuickRemoved
<1>3. PICK p : p = IsPrev(Hdr(h, r.block))
  OBVIOUS
<1>4. PICK g : g = update_header(r.heap, r.block, n, TRUE, p)
  OBVIOUS
<1>5. IsHeap(r.heap)
  BY <1>2 DEF Good, QuickTypes
<1>6. SameQuick(r.heap, g)
  BY <1>4, <1>5, OneField, SameWild DEF update_header
<1>7. SameQuick(r.heap, set_prev_alloc_in_next_block(g, r.block))
  BY <1>6, SameSetPrev, SameTrans DEF SameQuick
<1>8. quick_list_allocate(h, i, n).heap = set_prev_alloc_in_next_block(g, r.block)
  BY <1>1, <1>3, <1>4 DEF quick_list_allocate, Got
<1> QED
  BY <1>2, <1>7, <1>8, GoodSame

(* The heap before and after sf_init.                                      *)
LEMMA FirstHeap ==
    ASSUME NEW m
    PROVE  Good(NoHeap) /\ Good(InitHeap(m))
<1>1. PICK q, c : q = [i \in Lists |-> <<>>] /\ c = [i \in Lists |-> 0]
  OBVIOUS
<1>2. /\ q \in [Lists -> Seq({})] /\ c \in [Lists -> Int] /\ QUICK_LIST_MAX \in Nat
      /\ \A i \in Lists : q[i] = <<>> /\ Len(q[i]) = 0 /\ c[i] = 0
  BY <1>1, SfmmAssumption
<1>3. NoHeap = [header |-> <<>>, footer |-> <<>>, end |-> 0, ok |-> TRUE, free |-> q,
               quick |-> q, count |-> c, last_block_allocated |-> FALSE]
  BY <1>1 DEF NoHeap
<1>4. ASSUME NEW h, IsHeap(h), h.quick = q, h.count = c PROVE Good(h)
  <2>1. \A i \in Lists : Len(h.quick[i]) <= h.count[i] /\ h.count[i] <= QUICK_LIST_MAX
    BY <1>2, <1>4
  <2>2. \E S : h.quick \in [Lists -> Seq(S)]
    BY <1>2, <1>4
  <2> QED
    BY <1>2, <1>4, <2>1, <2>2 DEF Good, QuickTypes, Bounded
<1>5. IsHeap(NoHeap) /\ NoHeap.quick = q /\ NoHeap.count = c
  BY <1>3 DEF IsHeap
<1>6. Good(NoHeap)
  BY <1>4, <1>5
<1>7. Good(InitHeap(m))
  <2>1. PICK e, hd, ft, fr :
          /\ e = PAGE_SZ /\ hd = (0 :> PAGE_SZ - 16) @@ (PAGE_SZ - 16 :> m)
          /\ ft = (0 :> 0) @@ (PAGE_SZ - 16 :> PAGE_SZ - 16)
          /\ fr = [NoHeap.free EXCEPT ![7] = <<0>>]
    OBVIOUS
  <2>2. InitHeap(m) = [NoHeap EXCEPT !.end = e, !.header = hd, !.footer = ft, !.free = fr]
    BY <2>1 DEF InitHeap
  <2>3. PICK h : h = NoHeap
    OBVIOUS
  <2>4. PICK h1 : h1 = [h EXCEPT !.end = e]
    OBVIOUS
  <2>5. SameQuick(h, h1)
    BY <1>5, <2>3, <2>4, OneField
  <2>6. PICK h2 : h2 = [h1 EXCEPT !.header = hd]
    OBVIOUS
  <2>7. SameQuick(h1, h2)
    BY <2>5, <2>6, OneField DEF SameQuick
  <2>8. PICK h3 : h3 = [h2 EXCEPT !.footer = ft]
    OBVIOUS
  <2>9. SameQuick(h2, h3)
    BY <2>7, <2>8, OneField DEF SameQuick
  <2>10. SameQuick(h3, [h3 EXCEPT !.free = fr])
    BY <2>9, OneField DEF SameQuick
  <2>11. InitHeap(m) = [h3 EXCEPT !.free = fr]
    BY <2>2, <2>3, <2>4, <2>6, <2>8, Zenon
  <2>12. SameQuick(h, InitHeap(m))
    BY <2>5, <2>7, <2>9, <2>10, <2>11 DEF SameQuick
  <2> QED
    BY <1>6, <2>3, <2>12, GoodSame
<1> QED
  BY <1>6, <1>7

-----------------------------------------------------------------------------
(* The steps.                                                              *)
LEMMA DoKeeps ==
    ASSUME NEW h, NEW l, NEW at, Good(h), Do(h, l, at)
    PROVE  Good(heap') /\ heap'.count = h.count /\ pc' = at
<1>1. heap' = (IF h.ok THEN Settle(h) ELSE h) /\ pc' = at
  BY DEF Do
<1>2. IsHeap(h)
  BY DEF Good, QuickTypes
<1>3. SameQuick(h, heap')
  BY <1>1, <1>2, SameSettle, OneField
<1> QED
  BY <1>1, <1>3, GoodSame DEF SameQuick

(* One lemma per operation from here on.                                   *)
LEMMA ReturnKeeps ==
    ASSUME NEW r, NEW op, NEW size, Good(r.heap), Return(r, op, size)
    PROVE  Good(heap') /\ pc' # "flush"
<1>1. PICK l, at : Do(r.heap, l, at) /\ at \in {"free old", "idle"}
  BY DEF Return
<1> QED
  BY <1>1, DoKeeps

LEMMA AllocateKeeps ==
    ASSUME NEW h, Good(h), NEW i, NEW w, NEW needed, NEW op, NEW size,
           Return(allocate(h, i, w, needed), op, size)
    PROVE  Good(heap') /\ pc' # "flush"
<1>1. PICK r : r = allocate(h, i, w, needed)
  OBVIOUS
<1>2. SameQuick(h, r.heap)
  BY <1>1, SameAllocate DEF Good, QuickTypes
<1>3. Good(r.heap)
  BY <1>2, GoodSame
<1> QED
  BY <1>1, <1>3, ReturnKeeps

LEMMA SearchKeeps ==
    ASSUME NEW h, Good(h), NEW op, NEW size, NEW needed, Search(h, op, size, needed)
    PROVE  Good(heap') /\ pc' # "flush"
<1>1. PICK q : q = get_quick_list_index(needed)
  OBVIOUS
<1>2. CASE q # NULL /\ h.quick[q] # <<>>
  <2>1. PICK r : r = quick_list_allocate(h, q, needed) /\ Return(r, op, size)
    BY <1>1, <1>2 DEF Search
  <2>2. q \in Lists
    BY <1>1, <1>2, QuickIndex
  <2>3. Good(r.heap)
    BY <1>2, <2>1, <2>2, QuickAllocated
  <2> QED
    BY <2>1, <2>3, ReturnKeeps
<1>3. CASE ~(q # NULL /\ h.quick[q] # <<>>)
  <2>1. \/ \E i \in FirstFit(h, needed) : \E w \in {Hdr(h, get_from_free_list(h, i, needed))} :
              \E r \in {allocate(h, i, w, needed)} : Return(r, op, size)
        \/ Do(h, live, "grow")
    BY <1>1, <1>3 DEF Search
  <2>2. CASE Do(h, live, "grow")
    <3>1. PICK l, at : Do(h, l, at) /\ at = "grow"
      BY <2>2
    <3> QED
      BY <3>1, DoKeeps
  <2>3. ASSUME NEW i, NEW w, Return(allocate(h, i, w, needed), op, size)
        PROVE  Good(heap') /\ pc' # "flush"
    BY <2>3, AllocateKeeps
  <2> QED
    BY <2>1, <2>2, <2>3
<1> QED
  BY <1>2, <1>3

LEMMA GrowKeeps ==
    ASSUME Good(heap), Grow
    PROVE  Good(heap') /\ pc' # "flush"
<1>1. CASE heap' = heap /\ pc' = "idle"
  BY <1>1
<1>2. CASE ~(heap' = heap /\ pc' = "idle")
  <2>1. PICK g, needed, w :
          /\ g = GrowHeap(heap, magic) /\ needed = get_aligned_block(call.size)
          /\ w = Hdr(g.heap, g.block)
          /\ IF ~g.heap.ok \/ needed > w THEN Do(g.heap, live, "grow")
             ELSE \E r \in {allocate(g.heap, get_free_list_index(w), w, needed)} :
                    Return(r, call.op, call.size)
    BY <1>2 DEF Grow
  <2>2. SameQuick(heap, g.heap)
    <3>1. PICK m : m = magic
      OBVIOUS
    <3> QED
      BY <2>1, <3>1, SameGrow DEF Good, QuickTypes
  <2>3. Good(g.heap)
    BY <2>2, GoodSame
  <2>4. CASE Do(g.heap, live, "grow")
    <3>1. PICK l, at : Do(g.heap, l, at) /\ at = "grow"
      BY <2>4
    <3> QED
      BY <2>3, <3>1, DoKeeps
  <2>5. ASSUME NEW i, Return(allocate(g.heap, i, w, needed), call.op, call.size)
        PROVE  Good(heap') /\ pc' # "flush"
    BY <2>3, <2>5, AllocateKeeps
  <2> QED
    BY <2>1, <2>4, <2>5
<1> QED
  BY <1>1, <1>2

LEMMA FreeBlockKeeps ==
    ASSUME Good(heap), NEW b, FreeBlock(b)
    PROVE  Good(heap') /\ Flushing'
<1>1. PICK i : /\ i = get_quick_list_index(Size(Hdr(heap, b)))
               /\ \/ /\ i = NULL
                     /\ \E r \in {Release(heap, b)} :
                          Do(IF ~r.heap.ok THEN r.heap
                             ELSE clear_prev_alloc_in_next_block(
                                    insert_to_free_list(r.heap, r.block), r.block),
                             Drop(b), "idle")
                  \/ /\ i # NULL /\ increment_quick_list_counter(heap, i)
                     /\ Do(insert_to_quick_list([heap EXCEPT !.count[i] = @ + 1], b, i),
                           Drop(b), "idle")
                  \/ /\ i # NULL /\ ~increment_quick_list_counter(heap, i)
                     /\ index' = i
                     /\ Do(heap, live, "flush")
  BY DEF FreeBlock
<1>2. i # NULL => i \in Lists
  BY <1>1, QuickIndex
<1>3. CASE i = NULL
  <2>1. PICK r : r = Release(heap, b)
    OBVIOUS
  <2>2. PICK h : /\ h = (IF ~r.heap.ok THEN r.heap
                         ELSE clear_prev_alloc_in_next_block(
                                insert_to_free_list(r.heap, r.block), r.block))
                 /\ Do(h, Drop(b), "idle")
    BY <1>1, <1>3, <2>1
  <2>3. SameQuick(heap, r.heap)
    BY <2>1, SameRelease DEF Good, QuickTypes
  <2>4. PICK k : k = insert_to_free_list(r.heap, r.block)
    OBVIOUS
  <2>5. SameQuick(heap, k)
    BY <2>3, <2>4, SameInsert, SameTrans DEF SameQuick
  <2>6. SameQuick(heap, clear_prev_alloc_in_next_block(k, r.block))
    BY <2>5, SameClearPrev, SameTrans DEF SameQuick
  <2>7. Good(h)
    BY <2>2, <2>3, <2>4, <2>6, GoodSame
  <2>8. PICK l, at : Do(h, l, at) /\ at = "idle"
    BY <2>2
  <2> QED
    BY <2>7, <2>8, DoKeeps DEF Flushing
<1>4. CASE i # NULL /\ increment_quick_list_counter(heap, i)
  <2>1. PICK h, l, at : /\ h = insert_to_quick_list([heap EXCEPT !.count[i] = @ + 1], b, i)
                        /\ Do(h, l, at) /\ at = "idle"
    BY <1>1, <1>4
  <2>2. Good(h)
    BY <1>2, <1>4, <2>1, QuickInserted DEF increment_quick_list_counter
  <2> QED
    BY <2>1, <2>2, DoKeeps DEF Flushing
<1>5. CASE i # NULL /\ ~increment_quick_list_counter(heap, i)
  <2>1. PICK l, at : Do(heap, l, at) /\ at = "flush" /\ index' = i
    BY <1>1, <1>5
  <2>2. Good(heap') /\ heap'.count = heap.count
    BY <2>1, DoKeeps
  <2>3. heap.count[i] = QUICK_LIST_MAX
    <3>1. PICK h : h = heap
      OBVIOUS
    <3>2. PICK j \in Lists : j = i
      BY <1>2, <1>5
    <3>3. h.count[j] \in Int /\ h.count[j] <= QUICK_LIST_MAX
      BY <1>2, <3>1 DEF Good, QuickTypes, Bounded
    <3>4. QUICK_LIST_MAX \in Int
      BY SfmmAssumption
    <3> QED
      BY <1>5, <3>1, <3>2, <3>3, <3>4 DEF increment_quick_list_counter
  <2> QED
    BY <1>2, <1>5, <2>1, <2>2, <2>3 DEF Flushing
<1> QED
  BY <1>1, <1>3, <1>4, <1>5

LEMMA FlushKeeps ==
    ASSUME IInv, Flush
    PROVE  Good(heap') /\ Flushing'
<1>1. Good(heap) /\ index \in Lists /\ heap.count[index] = QUICK_LIST_MAX
  BY DEF IInv, Flushing, Flush, Continue
<1>2. PICK i \in Lists : i = index
  BY <1>1
<1>3. CASE heap.quick[i] # <<>>
  <2>1. PICK q, r : q = remove_from_quick_list(heap, i) /\ r = Release(q.heap, q.block)
    OBVIOUS
  <2>2. PICK h : /\ h = (IF ~r.heap.ok THEN r.heap
                         ELSE insert_to_free_list(
                                clear_prev_alloc_in_next_block(r.heap, r.block), r.block))
                 /\ Do(h, live, "flush") /\ index' = i
    BY <1>2, <1>3, <2>1 DEF Flush
  <2>3. Good(q.heap) /\ q.heap.count = heap.count
    BY <1>1, <1>3, <2>1, QuickRemoved
  <2>4. SameQuick(q.heap, r.heap)
    BY <2>1, <2>3, SameRelease DEF Good, QuickTypes
  <2>5. PICK k : k = clear_prev_alloc_in_next_block(r.heap, r.block)
    OBVIOUS
  <2>6. SameQuick(q.heap, k)
    BY <2>4, <2>5, SameClearPrev, SameTrans DEF SameQuick
  <2>7. SameQuick(q.heap, insert_to_free_list(k, r.block))
    BY <2>6, SameInsert, SameTrans DEF SameQuick
  <2>8. SameQuick(q.heap, h)
    BY <2>2, <2>4, <2>5, <2>7
  <2>9. Good(h) /\ h.count = heap.count
    BY <2>3, <2>8, GoodSame DEF SameQuick
  <2>10. PICK l, at : Do(h, l, at) /\ at = "flush"
    BY <2>2
  <2>11. Good(heap') /\ heap'.count = heap.count
    BY <2>9, <2>10, DoKeeps
  <2> QED
    BY <1>1, <1>2, <2>2, <2>11 DEF Flushing
<1>4. CASE heap.quick[i] = <<>>
  <2>1. PICK h, l, at, b : /\ h = insert_to_quick_list(heap, b, i)
                           /\ Do(h, l, at) /\ at = "idle"
    BY <1>2, <1>4 DEF Flush
  <2>2. Good(h)
    BY <1>1, <1>2, <1>4, <2>1, QuickInserted
  <2> QED
    BY <2>1, <2>2, DoKeeps DEF Flushing
<1> QED
  BY <1>3, <1>4

LEMMA ReallocKeeps ==
    ASSUME Good(heap), NEW b, NEW s, Realloc(b, s)
    PROVE  Good(heap') /\ Flushing'
<1>1. CASE FreeBlock(b)
  BY <1>1, FreeBlockKeeps
<1>2. CASE Search(heap, "realloc", s, get_aligned_block(s))
  <2>1. PICK op, needed : Search(heap, op, s, needed)
    BY <1>2
  <2> QED
    BY <2>1, SearchKeeps DEF Flushing
<1>3. CASE ~FreeBlock(b) /\ ~Search(heap, "realloc", s, get_aligned_block(s))
  <2>1. PICK d : Do(IF d \in 0..31 THEN heap ELSE ReallocSplit(heap, b, get_aligned_block(s)),
                    Hold(b, s), "idle")
    BY <1>3 DEF Realloc
  <2>2. PICK h, l, at : /\ h = (IF d \in 0..31 THEN heap
                                ELSE ReallocSplit(heap, b, get_aligned_block(s)))
                        /\ Do(h, l, at) /\ at = "idle"
    BY <2>1
  <2>3. SameQuick(heap, h)
    BY <2>2, SameReallocSplit, OneField DEF Good, QuickTypes
  <2>4. Good(h)
    BY <2>3, GoodSame
  <2> QED
    BY <2>2, <2>4, DoKeeps DEF Flushing
<1> QED
  BY <1>1, <1>2, <1>3

(* No quick list of the allocator grows past its counter or past           *)
(* QUICK_LIST_MAX: sf_free flushes in time, and the block it puts into a   *)
(* flushed list, whose counter was not reset, still fits.                  *)
THEOREM QuickListsStayBounded == Spec => []QuickListsBounded
<1>1. Init => IInv
  <2>1. PICK m : m = magic
    OBVIOUS
  <2> QED
    BY FirstHeap DEF Init, IInv, Flushing
<1>2. IInv /\ [Next]_vars => IInv'
  <2> SUFFICES ASSUME IInv, [Next]_vars PROVE Good(heap') /\ Flushing'
    BY DEF IInv
  <2>0. Good(heap) /\ Flushing
    BY DEF IInv
  <2>1. ASSUME NEW s \in Requests, Malloc(s) PROVE Good(heap') /\ Flushing'
    <3>1. PICK h, op, needed : h = Initialized /\ Search(h, op, s, needed)
      BY <2>1 DEF Malloc
    <3>2. PICK m : m = magic
      OBVIOUS
    <3>3. Good(h)
      BY <2>0, <3>1, <3>2, FirstHeap DEF Initialized
    <3> QED
      BY <3>1, <3>3, SearchKeeps DEF Flushing
  <2>2. CASE Grow
    BY <2>0, <2>2, GrowKeeps DEF Flushing
  <2>3. ASSUME NEW b \in DOMAIN live, Free(b) PROVE Good(heap') /\ Flushing'
    BY <2>0, <2>3, FreeBlockKeeps DEF Free
  <2>4. CASE Flush
    BY <2>4, FlushKeeps
  <2>5. ASSUME NEW b \in DOMAIN live, NEW s \in Requests, Realloc(b, s)
        PROVE  Good(heap') /\ Flushing'
    BY <2>0, <2>5, ReallocKeeps
  <2>6. CASE FreeOld
    <3>1. PICK b : b = call.block /\ FreeBlock(b)
      BY <2>6 DEF FreeOld
    <3> QED
      BY <2>0, <3>1, FreeBlockKeeps
  <2>7. ASSUME NEW b \in Listed(heap), Abort(b) PROVE Good(heap') /\ Flushing'
    BY <2>0, <2>7 DEF Abort, Flushing
  <2>8. CASE UNCHANGED vars
    BY <2>0, <2>8 DEF vars, Flushing
  <2> QED
    BY <2>1, <2>2, <2>3, <2>4, <2>5, <2>6, <2>7, <2>8 DEF Next
<1>3. IInv => QuickListsBounded
  BY DEF IInv, Good, Bounded, QuickListsBounded
<1> QED
  BY <1>1, <1>2, <1>3, PTL DEF Spec
==============================================================================
