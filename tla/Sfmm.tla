-------------------------------- MODULE Sfmm --------------------------------
(***************************************************************************)
(* The memory allocator hw3/src/sfmm.c.  The heap is a value: every helper *)
(* is an operator from heaps to heaps (with the block it returns, if it    *)
(* returns one).  A call of sf_malloc, sf_free or sf_realloc is one step,  *)
(* plus one for every turn of its loops that grow the heap and flush a     *)
(* quick list, and one for the sf_free inside sf_realloc.                  *)
(*                                                                         *)
(* A block is the offset of its sf_block from the start of the heap.  A    *)
(* header or footer is its unmasked word: size + 4 if the block is         *)
(* allocated + 2 if the one before it is.  Sizes are multiples of 16.      *)
(* Negative words are the size_t values that wrap around.  The links of    *)
(* the lists are sequences; a step that would damage a sentinel, search a  *)
(* list for ever or touch memory outside the heap makes ok false.          *)
(***************************************************************************)
EXTENDS Integers, Sequences, SequencesExt, FiniteSets, TLC

CONSTANTS QUICK_LIST_MAX,  \* sfmm.h: 5
          MaxPages,        \* pages sf_mem_grow has (16 in sfutil)
          Requests,        \* sizes the program asks for
          MaxLive,         \* bound: blocks the program holds
          MaxCalls,        \* bound: calls of the allocator
          Unwritten        \* what a row never written to may read as

ASSUME SfmmAssumption ==
    /\ QUICK_LIST_MAX \in Nat \ {0}
    /\ MaxPages \in Nat \ {0}
    /\ Requests \subseteq Nat
    /\ MaxLive \in Nat /\ MaxCalls \in Nat
    /\ Unwritten \subseteq Nat

VARIABLES
    heap,       \* the heap, its lists and the counters quick0..quick9
    live,       \* blocks the program holds, with the size it asked for
    magic,      \* what the rows never written to read as (depends on MAGIC)
    status,     \* "running", "damaged" (not Intact any more), "aborted"
    pc,         \* "idle", "grow", "flush", "free old" (end of sf_realloc)
    call,       \* the call being made: op, block and size
    index,      \* the quick list that sf_free is flushing, or NULL
    calls       \* calls made so far

vars == <<heap, live, magic, status, pc, call, index, calls>>

PAGE_SZ == 4096
Lists == 0..9                   \* NUM_FREE_LISTS, NUM_QUICK_LISTS
NULL == -1

Size(w) == w - (w % 16)
IsAlloc(w) == (w \div 4) % 2 = 1
IsPrev(w) == (w \div 2) % 2 = 1
Word(size, allocate, prev_alloc) ==
    Size(size) + (IF allocate \/ IsAlloc(size) THEN 4 ELSE 0)
               + (IF prev_alloc \/ IsPrev(size) THEN 2 ELSE 0)

Hdr(h, b) == IF b \in DOMAIN h.header THEN h.header[b] ELSE 0
NextOf(h, b) == b + Size(Hdr(h, b))
Wild(h) == [h EXCEPT !.ok = FALSE]
Got(b, h) == [block |-> b, heap |-> h]

-----------------------------------------------------------------------------
(* Helpers of the source, in its order.                                    *)

NoHeap ==
    [header |-> <<>>, footer |-> <<>>, end |-> 0, ok |-> TRUE,
     free |-> [i \in Lists |-> <<>>], quick |-> [i \in Lists |-> <<>>],
     count |-> [i \in Lists |-> 0], last_block_allocated |-> FALSE]

AlignedWithoutHeader(size) ==       \* mutant: the header's row is forgotten
    IF size < 32 THEN 32 ELSE 16 * ((size + 15) \div 16)
get_aligned_block(size) ==
    IF size + 8 < 32 THEN 32 ELSE 16 * ((size + 8 + 15) \div 16)

get_quick_list_index(size) ==
    IF size \in 32..176 /\ size % 16 = 0 THEN (size - 32) \div 16 ELSE NULL

get_free_list_index(size) ==
    IF size = 32 THEN 0
    ELSE IF \E i \in 1..8 : size > 32 * 2^(i-1) /\ size <= 32 * 2^i
         THEN CHOOSE i \in 1..8 : size > 32 * 2^(i-1) /\ size <= 32 * 2^i
         ELSE 9

TakeFirst(h, i, w) ==           \* mutant: the first block, whatever its size
    IF h.free[i] = <<>> THEN Got(0, Wild(h))
    ELSE Got(Head(h.free[i]), [h EXCEPT !.free[i] = Tail(@)])
remove_from_free_list(h, i, w) ==
    LET l == h.free[i]
        k == SelectInSeq(l, LAMBDA b : Hdr(h, b) = w)
        Out(j) == Got(l[j], [h EXCEPT !.free[i] = RemoveAt(l, j)])
    IN  IF Len(l) = 1 THEN Out(1)
        ELSE IF k # 0 THEN Out(k)
        ELSE Got(0, Wild(h))

update_header(h, b, needed_block_size, allocate, prev_alloc) ==
    IF b \in 0..(h.end - 16)
    THEN [h EXCEPT !.header = (b :> Word(needed_block_size, allocate, prev_alloc)) @@ @]
    ELSE Wild(h)

get_from_free_list(h, i, needed_block_size) ==
    LET k == SelectInSeq(h.free[i], LAMBDA b : Hdr(h, b) >= needed_block_size)
    IN  IF k = 0 THEN NULL ELSE h.free[i][k]

insert_to_free_list(h, b) ==
    [h EXCEPT !.free[get_free_list_index(Size(Hdr(h, b)))] = <<b>> \o @]

add_footer(h, b) ==
    IF NextOf(h, b) \in 0..(h.end - 16)
    THEN [h EXCEPT !.footer = (NextOf(h, b) :> Hdr(h, b)) @@ @]
    ELSE Wild(h)

clear_prev_alloc_in_next_block(h, b) ==
    LET next == NextOf(h, b)
        w == Hdr(h, next) - (IF IsPrev(Hdr(h, next)) THEN 2 ELSE 0)
        g == [h EXCEPT !.header = (next :> w) @@ @]
    IN  IF next \notin DOMAIN h.header THEN Wild(h)
        ELSE IF IsAlloc(w) THEN g ELSE add_footer(g, next)

check_last_block(h, b) == NextOf(h, b) = h.end - 16

remove_from_quick_list(h, i) ==
    Got(Head(h.quick[i]), [h EXCEPT !.quick[i] = Tail(@)])

(* Common end of allocate_no_splitting and quick_list_allocate: the test   *)
(* whether the heap ends is made on the block after this one.              *)
set_prev_alloc_in_next_block(h, b) ==
    LET next == NextOf(h, b)
    IN  IF next \notin DOMAIN h.header THEN Wild(h)
        ELSE IF check_last_block(h, next)
        THEN [h EXCEPT !.last_block_allocated = TRUE]
        ELSE update_header(h, next, Hdr(h, next), FALSE, TRUE)

allocate_no_splitting(h, i, actual_block_size) ==
    LET r == remove_from_free_list(h, i, actual_block_size)
        g == update_header(r.heap, r.block, actual_block_size, TRUE, IsPrev(Hdr(h, r.block)))
    IN  Got(r.block, set_prev_alloc_in_next_block(g, r.block))

allocate_splitting(h, i, actual_block_size, needed_block_size) ==
    LET r == remove_from_free_list(h, i, actual_block_size)
        new == r.block + needed_block_size
        h1 == update_header(r.heap, r.block, needed_block_size, TRUE, IsPrev(Hdr(h, r.block)))
        h2 == update_header(h1, new, actual_block_size - needed_block_size, FALSE, TRUE)
    IN  Got(r.block, insert_to_free_list(add_footer(h2, new), new))

allocate(h, i, actual_block_size, needed_block_size) ==
    IF actual_block_size - needed_block_size < 32
    THEN allocate_no_splitting(h, i, actual_block_size)
    ELSE allocate_splitting(h, i, actual_block_size, needed_block_size)

quick_list_allocate(h, i, needed_block_size) ==
    LET r == remove_from_quick_list([h EXCEPT !.count[i] = @ - 1], i)
        g == update_header(r.heap, r.block, needed_block_size, TRUE, IsPrev(Hdr(h, r.block)))
    IN  Got(r.block, set_prev_alloc_in_next_block(g, r.block))

-----------------------------------------------------------------------------
(* Growing the heap.                                                       *)

(* The first call: one page, a free block of 4080 bytes and the row that   *)
(* becomes a header when the heap grows.                                   *)
InitHeap(m) ==
    [NoHeap EXCEPT !.end = PAGE_SZ,
                   !.header = (0 :> PAGE_SZ - 16) @@ (PAGE_SZ - 16 :> m),
                   !.footer = (0 :> 0) @@ (PAGE_SZ - 16 :> PAGE_SZ - 16),
                   !.free[7] = <<0>>]

(* sf_mem_grow, and the body of the loop of sf_malloc up to the size test. *)
GrowHeap(h, m) ==
    LET new == h.end - 16
        h1 == [h EXCEPT !.end = @ + PAGE_SZ,
                        !.header = (new :> PAGE_SZ) @@ (new + PAGE_SZ :> m) @@ @,
                        !.footer = (new + PAGE_SZ :> PAGE_SZ) @@ @]
        foot == h1.footer[new]
        r == remove_from_free_list(h1, get_free_list_index(foot), foot)
        h2 == update_header(r.heap, r.block, Hdr(h1, r.block) + PAGE_SZ, FALSE, FALSE)
    IN  IF h.last_block_allocated
        THEN Got(new, [h1 EXCEPT !.header[new] = PAGE_SZ + 2,
                                 !.last_block_allocated = FALSE])
        ELSE IF new \notin DOMAIN h1.footer THEN Got(0, Wild(h1))
        ELSE Got(r.block, insert_to_free_list(add_footer(h2, r.block), r.block))

-----------------------------------------------------------------------------
(* sf_free.                                                                *)

validate_pointer(h, b) ==
    /\ b \in DOMAIN h.header
    /\ IsAlloc(Hdr(h, b))
    /\ Size(Hdr(h, b)) >= 32
    /\ NextOf(h, b) <= h.end

coalesce(h, b) ==
    LET next == NextOf(h, b)
        prev_alloc == IsPrev(Hdr(h, b)) \/ (b \in DOMAIN h.footer /\ h.footer[b] = 0)
        next_alloc == next > h.end \/ IsAlloc(Hdr(h, next))
        RemovePrev(g) == remove_from_free_list(g, get_free_list_index(Size(h.footer[b])), h.footer[b])
        RemoveNext(g) == remove_from_free_list(g, get_free_list_index(Size(Hdr(h, next))), Hdr(h, next)).heap
        Combined(g, c, w) == Got(c, add_footer([g EXCEPT !.header[c] = w], c))
    IN  IF ~h.ok \/ (~prev_alloc /\ b \notin DOMAIN h.footer) THEN Got(b, Wild(h))
        ELSE IF prev_alloc /\ next_alloc THEN Got(b, h)
        ELSE IF prev_alloc
        THEN Combined(RemoveNext(h), b, Hdr(h, b) + Size(Hdr(h, next)))
        ELSE LET p == RemovePrev(h)
                 w == Size(h.footer[b]) + Hdr(h, b)
             IN  IF next_alloc THEN Combined(p.heap, p.block, w)
                 ELSE Combined(RemoveNext(p.heap), p.block, w + Size(Hdr(h, next)))

(* The allocated bit of b is cleared and b is joined with its neighbours.  *)
Release(h, b) ==
    LET h1 == update_header(h, b, Size(Hdr(h, b)), FALSE, IsPrev(Hdr(h, b)))
        h2 == clear_prev_alloc_in_next_block(add_footer(h1, b), b)
    IN  coalesce(h2, b)

CounterOffByOne(h, i) == h.count[i] <= QUICK_LIST_MAX       \* mutant
increment_quick_list_counter(h, i) == h.count[i] < QUICK_LIST_MAX

insert_to_quick_list(h, b, i) == [h EXCEPT !.quick[i] = <<b>> \o @]

-----------------------------------------------------------------------------
(* sf_realloc.                                                             *)

(* Mutant: the free block after the cut-off end is joined but stays in its *)
(* list.                                                                   *)
SplitKeepsNextListed(h, b, smaller_header) ==
    LET rest == Size(Hdr(h, b)) - smaller_header
        new == b + smaller_header
        h1 == update_header(h, b, smaller_header, TRUE, IsPrev(Hdr(h, b)))
        h2 == update_header(h1, new, rest, FALSE, TRUE)
        next == NextOf(h2, new)
        h3 == update_header(h2, new, rest + Size(Hdr(h2, next)), FALSE, TRUE)
    IN  IF ~h2.ok \/ next > h.end \/ IsAlloc(Hdr(h2, next)) THEN h2
        ELSE insert_to_free_list(add_footer(h3, new), new)

(* A smaller size: the end of the block is cut off.  It joins a free block *)
(* after it, otherwise it is in no list and has no footer.  rest is -16    *)
(* when rsize is within 8 bytes of the block: the new header then lies on  *)
(* the links of the block after it, which matter if its list has others.   *)
ReallocSplit(h, b, smaller_header) ==
    LET rest == Size(Hdr(h, b)) - smaller_header
        new == b + smaller_header
        h1 == update_header(h, b, smaller_header, TRUE, IsPrev(Hdr(h, b)))
        h2 == update_header(h1, new, rest, FALSE, TRUE)
        next == NextOf(h2, new)
        r == remove_from_free_list(h2, get_free_list_index(Size(Hdr(h2, next))), Hdr(h2, next))
        h3 == update_header(r.heap, new, rest + Size(Hdr(h2, next)), FALSE, TRUE)
        clobbered == rest < 0 /\ Len(h.free[get_free_list_index(Size(Hdr(h2, next)))]) > 1
    IN  IF ~h2.ok THEN h2
        ELSE IF next > h.end \/ IsAlloc(Hdr(h2, next)) THEN h2
        ELSE IF clobbered THEN Wild(h2)
        ELSE insert_to_free_list(add_footer(h3, new), new)

-----------------------------------------------------------------------------
(* What a sound heap is.                                                   *)

Blocks(h) == DOMAIN h.header \ {h.end - 16}
Listed(h) == UNION {ToSet(h.free[i]) : i \in Lists}
Quick(h) == UNION {ToSet(h.quick[i]) : i \in Lists}
Before(h, b) == {p \in Blocks(h) : NextOf(h, p) = b}

(* The blocks are found by walking from the first one; other rows, which a *)
(* block has swallowed, no longer hold headers or footers.                 *)
Settle(h) ==
    LET n == Cardinality(DOMAIN h.header)
        walk[k \in 0..n] ==
            IF k = 0 THEN 0
            ELSE IF NextOf(h, walk[k-1]) \in DOMAIN h.header
            THEN NextOf(h, walk[k-1]) ELSE walk[k-1]
        starts == {walk[k] : k \in 0..n} \cup {h.end - 16}
        kept == {x \in DOMAIN h.footer \cap starts :
                    x = 0 \/ \E p \in starts \ {h.end - 16} : NextOf(h, p) = x /\ ~IsAlloc(Hdr(h, p))}
    IN  IF h.end = 0 THEN h
        ELSE [h EXCEPT !.header = [a \in starts |-> h.header[a]],
                       !.footer = [a \in kept |-> h.footer[a]]]

(* The blocks tile the heap.                                               *)
Tiled(h) ==
    /\ 0 \in Blocks(h)
    /\ \A b \in Blocks(h) : Size(Hdr(h, b)) >= 32 /\ NextOf(h, b) \in DOMAIN h.header

(* What the program holds is allocated, large enough and in no list; every *)
(* allocated block is held by the program or waits in a quick list.        *)
Held(h, l) ==
    /\ {b \in Blocks(h) : IsAlloc(Hdr(h, b))} = DOMAIN l \cup Quick(h)
    /\ DOMAIN l \cap Quick(h) = {}
    /\ \A b \in DOMAIN l : l[b] + 8 <= Size(Hdr(h, b))
    /\ \A i \in Lists : \A b \in ToSet(h.quick[i]) : Size(Hdr(h, b)) = 32 + 16 * i

(* A listed block is free and in the list of its class only, once.         *)
ListsSound(h) ==
    /\ Listed(h) \subseteq {b \in Blocks(h) : ~IsAlloc(Hdr(h, b))}
    /\ \A i \in Lists :
        /\ IsInjective(h.free[i]) /\ IsInjective(h.quick[i])
        /\ \A b \in ToSet(h.free[i]) : get_free_list_index(Size(Hdr(h, b))) = i

Intact(h, l) == h.end # 0 => h.ok /\ Tiled(h) /\ Held(h, l) /\ ListsSound(h)

-----------------------------------------------------------------------------
(* The calls.  The program passes pointers it got and did not give back.   *)
(* What happens after the heap is damaged is undefined.                    *)

Init ==
    /\ heap = NoHeap
    /\ live = <<>>
    /\ magic \in Unwritten
    /\ status = "running"
    /\ pc = "idle"
    /\ call = [op |-> "none", block |-> NULL, size |-> 0]
    /\ index = NULL
    /\ calls = 0

(* A step that leaves heap h, the program holding l, at control point at.  *)
Do(h, l, at) ==
    /\ \E g \in {IF h.ok THEN Settle(h) ELSE h} :
        /\ heap' = g
        /\ status' = IF Intact(g, l) THEN "running" ELSE "damaged"
    /\ live' = l
    /\ pc' = at
    /\ UNCHANGED magic

Begin(op, b, size) ==
    /\ status = "running" /\ pc = "idle" /\ calls < MaxCalls
    /\ calls' = calls + 1
    /\ call' = [op |-> op, block |-> b, size |-> size]

Continue(at) == status = "running" /\ pc = at /\ UNCHANGED <<call, calls>>

Drop(b) == [x \in DOMAIN live \ {b} |-> live[x]]
Hold(b, size) == (b :> size) @@ live
Initialized == IF heap.end = 0 THEN InitHeap(magic) ELSE heap

(* sf_malloc returns block r.block; sf_realloc goes on to free the old one. *)
Return(r, op, size) ==
    Do(r.heap, Hold(r.block, size), IF op = "realloc" THEN "free old" ELSE "idle")

(* The search of sf_malloc: the quick list, then the free lists from the   *)
(* class of the request upwards, then the heap has to grow.                *)
FirstFit(h, needed) ==
    {i \in get_free_list_index(needed)..9 :
        /\ get_from_free_list(h, i, needed) # NULL
        /\ \A j \in get_free_list_index(needed)..(i-1) : get_from_free_list(h, j, needed) = NULL}

Search(h, op, size, needed) ==
    LET q == get_quick_list_index(needed)
        quick == q # NULL /\ h.quick[q] # <<>>
    IN  \/ /\ quick
           /\ \E r \in {quick_list_allocate(h, q, needed)} : Return(r, op, size)
        \/ /\ ~quick
           /\ \E i \in FirstFit(h, needed) : \E w \in {Hdr(h, get_from_free_list(h, i, needed))} :
                \E r \in {allocate(h, i, w, needed)} : Return(r, op, size)
        \/ /\ ~quick /\ FirstFit(h, needed) = {}
           /\ Do(h, live, "grow")

(* sf_malloc of 0 bytes returns NULL and changes nothing.                  *)
Malloc(size) ==
    /\ size # 0
    /\ Cardinality(DOMAIN live) < MaxLive
    /\ Begin("malloc", NULL, size)
    /\ \E h \in {Initialized} : Search(h, "malloc", size, get_aligned_block(size))
    /\ UNCHANGED index

(* One turn of the loop of sf_malloc that grows the heap; ENOMEM when      *)
(* there are no more pages.                                                *)
Grow ==
    /\ Continue("grow")
    /\ UNCHANGED index
    /\ \/ /\ heap.end = MaxPages * PAGE_SZ
          /\ pc' = "idle"
          /\ UNCHANGED <<heap, live, magic, status>>
       \/ /\ heap.end < MaxPages * PAGE_SZ
          /\ \E g \in {GrowHeap(heap, magic)}, needed \in {get_aligned_block(call.size)} :
             \E w \in {Hdr(g.heap, g.block)} :
             IF ~g.heap.ok \/ needed > w THEN Do(g.heap, live, "grow")
             ELSE \E r \in {allocate(g.heap, get_free_list_index(w), w, needed)} :
                    Return(r, call.op, call.size)

(* sf_free of b, called from the program or from sf_realloc.               *)
FreeBlock(b) ==
    \E i \in {get_quick_list_index(Size(Hdr(heap, b)))} :
        \/ /\ i = NULL
           /\ UNCHANGED index
           /\ \E r \in {Release(heap, b)} :
                Do(IF ~r.heap.ok THEN r.heap
                   ELSE clear_prev_alloc_in_next_block(insert_to_free_list(r.heap, r.block), r.block),
                   Drop(b), "idle")
        \/ /\ i # NULL /\ increment_quick_list_counter(heap, i)
           /\ UNCHANGED index
           /\ Do(insert_to_quick_list([heap EXCEPT !.count[i] = @ + 1], b, i), Drop(b), "idle")
        \/ /\ i # NULL /\ ~increment_quick_list_counter(heap, i)
           /\ index' = i
           /\ Do(heap, live, "flush")

Free(b) ==
    /\ validate_pointer(heap, b)
    /\ Begin("free", b, 0)
    /\ FreeBlock(b)

(* One turn of the loop of sf_free that flushes the quick list, and what   *)
(* follows it: b becomes the only block in the list.                       *)
Flush ==
    /\ Continue("flush")
    /\ \/ /\ heap.quick[index] # <<>>
          /\ \E q \in {remove_from_quick_list(heap, index)} : \E r \in {Release(q.heap, q.block)} :
               Do(IF ~r.heap.ok THEN r.heap
                  ELSE insert_to_free_list(clear_prev_alloc_in_next_block(r.heap, r.block), r.block),
                  live, "flush")
          /\ UNCHANGED index
       \/ /\ heap.quick[index] = <<>>
          /\ Do(insert_to_quick_list(heap, call.block, index), Drop(call.block), "idle")
          /\ index' = NULL

(* sf_realloc: of size 0 frees; to more than the block's size allocates    *)
(* and frees the old block; otherwise cuts off what is no longer needed.   *)
Realloc(b, rsize) ==
    /\ validate_pointer(heap, b)
    /\ \/ /\ rsize = 0
          /\ Begin("free", b, 0)
          /\ FreeBlock(b)
       \/ /\ rsize > Size(Hdr(heap, b))
          /\ Begin("realloc", b, rsize)
          /\ Search(heap, "realloc", rsize, get_aligned_block(rsize))
          /\ UNCHANGED index
       \/ /\ rsize \in 1..Size(Hdr(heap, b))
          /\ Begin("shrink", b, rsize)
          /\ \E d \in {Size(Hdr(heap, b)) - get_aligned_block(rsize)} :
                Do(IF d \in 0..31 THEN heap ELSE ReallocSplit(heap, b, get_aligned_block(rsize)),
                   Hold(b, rsize), "idle")
          /\ UNCHANGED index

FreeOld == Continue("free old") /\ FreeBlock(call.block)

(* sf_free and sf_realloc of a pointer to a free block abort.              *)
Abort(b) ==
    /\ ~validate_pointer(heap, b)
    /\ Begin("free", b, 0)
    /\ status' = "aborted"
    /\ UNCHANGED <<heap, live, magic, pc, index>>

Next ==
    \/ \E s \in Requests : Malloc(s)
    \/ Grow
    \/ \E b \in DOMAIN live : Free(b)
    \/ Flush
    \/ \E b \in DOMAIN live, s \in Requests : Realloc(b, s)
    \/ FreeOld
    \/ \E b \in Listed(heap) : Abort(b)

Spec == Init /\ [][Next]_vars

-----------------------------------------------------------------------------
(* Properties.                                                             *)

(* remove_from_free_list, asked for block b by its header word w, takes b  *)
(* out: b is listed where it is looked for and no block before it in a     *)
(* list of several has the same word.                                      *)
FoundByWord(h, b, w) ==
    \E l \in {h.free[get_free_list_index(Size(w))]} :
        /\ Contains(l, b)
        /\ Len(l) > 1 => /\ Hdr(h, b) = w
                         /\ \A k \in DOMAIN l : Hdr(h, l[k]) = w => \E j \in 1..k : l[j] = b

(* Circumstances in which joining b with its neighbours goes wrong: the    *)
(* row at the end of the heap was never written and reads as a free block; *)
(* the block before (after) b counts as free but is not found by its word. *)
EndReadsFree(h, b) ==
    \E n \in {NextOf(h, b)} :
        /\ ~IsAlloc(Hdr(h, h.end - 16))
        /\ n = h.end - 16 \/ (~IsAlloc(Hdr(h, n)) /\ NextOf(h, n) = h.end - 16)
PrevMistaken(h, b) ==
    /\ b # 0 /\ ~IsPrev(Hdr(h, b))
    /\ \A p \in Before(h, b) : ~(/\ ~IsAlloc(Hdr(h, p))
                                 /\ b \in DOMAIN h.footer
                                 /\ Size(h.footer[b]) = Size(Hdr(h, p))
                                 /\ FoundByWord(h, p, h.footer[b]))
NextMistaken(h, b) ==
    \E n \in {NextOf(h, b)} :
        ~IsAlloc(Hdr(h, n)) /\ (n = h.end - 16 \/ ~FoundByWord(h, n, Hdr(h, n)))

(* The words that matter are those after b is marked free; the block       *)
(* before b leaves its list before the one after b is looked for.          *)
Marked(h, b) ==
    clear_prev_alloc_in_next_block(
        add_footer(update_header(h, b, Size(Hdr(h, b)), FALSE, IsPrev(Hdr(h, b))), b), b)
JoinsWrongly(h, b) ==
    \E g \in {Marked(h, b)} :
        \/ EndReadsFree(h, b)
        \/ PrevMistaken(g, b)
        \/ LET Other(x) == IsPrev(Hdr(h, b)) \/ x \notin Before(h, b)
           IN  NextMistaken([g EXCEPT !.free = [i \in Lists |-> SelectSeq(@[i], Other)]], b)

(* Giving back a block, by sf_free or when a quick list is flushed, keeps  *)
(* the heap sound: the blocks tile it, the lists hold free blocks of their *)
(* class, and what the program holds is untouched, unless the neighbours   *)
(* are mistaken in one of the ways above.  It is about the whole of        *)
(* clear_prev_alloc_in_next_block, coalesce and insert_to_free_list.       *)
ReleaseKeepsHeap ==
    [][\A b \in DOMAIN live \cup Quick(heap) :
         b \notin DOMAIN live' \cup Quick(heap') /\ ~JoinsWrongly(heap, b)
            => status' = "running"]_vars

(* The heap can grow by joining its last block: that block is listed, its  *)
(* footer leads the search to it, and last_block_allocated is not left     *)
(* over from an earlier allocation; the joined block is looked for where   *)
(* it was put (an upper class limit plus the previous-allocated bit is     *)
(* looked for one class too high).                                         *)
GrowsSafely(h) ==
    /\ ~h.last_block_allocated
    /\ \E p \in Before(h, h.end - 16) : \E w \in {Hdr(h, p)} :
        /\ ~IsAlloc(w)
        /\ h.end - 16 \in DOMAIN h.footer /\ h.footer[h.end - 16] = w
        /\ FoundByWord(h, p, w)
        /\ \A v \in {w, w + PAGE_SZ} : get_free_list_index(v) = get_free_list_index(Size(v))

(* sf_malloc that finds a block in a list, and every turn of its loop from *)
(* a heap that grows safely, keeps the heap sound and hands out a region   *)
(* of the requested size that nobody holds; only when all pages are used   *)
(* does it return NULL.                                                    *)
MallocKeepsHeap ==
    [][(pc = "idle" /\ call'.op = "malloc" /\ calls' # calls) \/ (pc = "grow" /\ GrowsSafely(heap))
         => /\ status' = "running"
            /\ \/ pc' = "grow"
               \/ \E b \in DOMAIN live' \ DOMAIN live : live'[b] = call'.size
               \/ pc = "grow" /\ heap.end = MaxPages * PAGE_SZ /\ heap' = heap]_vars

(* sf_realloc to a smaller size keeps the heap sound unless the new size   *)
(* is within 8 bytes of the block (the difference of the sizes wraps       *)
(* around) or the block after it is free and not found by its word.        *)
ShrinkKeepsHeap ==
    [][\A b \in DOMAIN live :
         (/\ calls' # calls /\ call'.op = "shrink" /\ call'.block = b
          /\ call'.size + 8 <= Size(Hdr(heap, b))
          /\ ~NextMistaken(heap, b))
         => status' = "running" /\ live'[b] = call'.size]_vars

(* No quick list is longer than its counter says or than QUICK_LIST_MAX,   *)
(* also after a flush, which leaves the counter at its maximum.            *)
QuickListsBounded ==
    \A i \in Lists : /\ Len(heap.quick[i]) <= heap.count[i]
                     /\ heap.count[i] <= QUICK_LIST_MAX

(* sfmm.h promises valid regions to every program that passes pointers it  *)
(* got and still holds.  The code does not keep this promise.              *)
HeapStaysSound == status # "damaged"
=============================================================================
