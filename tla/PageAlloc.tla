----------------------------- MODULE PageAlloc -----------------------------
(***************************************************************************)
(* The buddy allocator of kernel/src/mm/mm.c.  A block of order k is 2^k   *)
(* pages at a multiple of 2^k, named by its first page.  Every operator    *)
(* with primes is the code of one critical section of alloc_lock.  Loops   *)
(* that walk up or down the orders are written as what they do at each     *)
(* order.                                                                  *)
(***************************************************************************)
EXTENDS KList, Integers, FiniteSets

CONSTANTS NumPages,      \* the number of pages of the address space
          MAX_ORDER,     \* the largest order
          CounterValues  \* the number of values of a uint32_t counter

\* The number of pages of a block of order k.
Pow2[k \in 0 .. MAX_ORDER + 1] == IF k = 0 THEN 1 ELSE 2 * Pow2[k - 1]

ASSUME PageAssumption ==
    /\ MAX_ORDER \in Nat
    /\ NumPages \in Nat \ {0}
    /\ NumPages % Pow2[MAX_ORDER] = 0
    /\ CounterValues \in Nat \ {0}

VARIABLES
    flags,           \* per page: the PAGE_FLAG bits that are set
    order,           \* per page: page->order
    compound_num,    \* per page: page->compound_num
    free_page_list,  \* per order: the list of free blocks, first element first
    pages_in_use,    \* the counters of misc/stats.h
    pages_avaliable,
    mm_bug           \* a BUG_ON() of mm.c was reached

pageVars == <<flags, order, compound_num, free_page_list, pages_in_use,
              pages_avaliable, mm_bug>>

Pages == 0 .. NumPages - 1
Orders == 0 .. MAX_ORDER

\* mm_init(), before find_free_pages(): every page is in use for good.
PageInit ==
    /\ flags = [p \in Pages |-> {"PERM", "USED"}]
    /\ order = [p \in Pages |-> 0]
    /\ compound_num = [p \in Pages |-> 0]
    /\ free_page_list = [k \in Orders |-> <<>>]
    /\ pages_in_use = 0
    /\ pages_avaliable = 0
    /\ mm_bug = FALSE

PageTypeOK ==
    /\ flags \in [Pages -> SUBSET {"PERM", "USED", "CACHE"}]
    /\ order \in [Pages -> Orders]
    /\ compound_num \in [Pages -> Nat]
    /\ \A k \in Orders : free_page_list[k] \in Seq(Pages)
    /\ pages_in_use \in 0 .. CounterValues - 1
    /\ pages_avaliable \in 0 .. NumPages
    /\ mm_bug \in BOOLEAN

is_free(fl, p) == "USED" \notin fl[p] /\ "PERM" \notin fl[p]

\* The block of order k that contains page p.
BlockOf(p, k) == p - (p % Pow2[k])
BlockPages(p, k) == p .. p + Pow2[k] - 1

is_master(p, k) == (p \div Pow2[k]) % 2 = 0
get_buddy(p, k) == IF is_master(p, k) THEN p + Pow2[k] ELSE p - Pow2[k]

ListPages(k) == {free_page_list[k][i] : i \in DOMAIN free_page_list[k]}
-----------------------------------------------------------------------------
\* Mutant: blocks of the largest order are never made.
MayJoinBelowTop(fl, p, k) ==
    /\ k < MAX_ORDER - 1
    /\ is_free(fl, get_buddy(BlockOf(p, k), k))
    /\ order[get_buddy(BlockOf(p, k), k)] = k

\* The condition of the loop of ripple_join(), when the block of page p has
\* grown to order k.
MayJoin(fl, p, k) ==
    /\ k < MAX_ORDER
    /\ is_free(fl, get_buddy(BlockOf(p, k), k))
    /\ order[get_buddy(BlockOf(p, k), k)] = k

\* ripple_join(): the block grows from order[p] to order `top`; each buddy leaves
\* its list, each new master has its order raised, and the last is listed.
\* join_block()'s assertions repeat the loop's condition.
JoinedOrder(fl, p) ==
    CHOOSE k \in order[p] .. MAX_ORDER :
        /\ ~MayJoin(fl, p, k)
        /\ \A j \in order[p] .. k - 1 : MayJoin(fl, p, j)

ripple_join(fl, p) ==
    \E top \in {JoinedOrder(fl, p)} :
        /\ order' = [q \in Pages |->
              IF \E k \in order[p] + 1 .. top : q = BlockOf(p, k)
              THEN CHOOSE k \in order[p] + 1 .. top :
                      /\ q = BlockOf(p, k)
                      /\ \A j \in k + 1 .. top : q # BlockOf(p, j)
              ELSE order[q]]
        /\ free_page_list' = [k \in Orders |->
              IF k = top THEN ListAdd(BlockOf(p, k), free_page_list[k])
              ELSE IF k \in order[p] .. top
              THEN ListRm(get_buddy(BlockOf(p, k), k), free_page_list[k])
              ELSE free_page_list[k]]

\* free_page() of a block; its order is that of its first page.  `bug`: an
\* assertion of the caller fails.
free_page(fl, p, bug) ==
    LET block == BlockPages(p, order[p])
        freed == [q \in Pages |-> IF q \in block THEN {} ELSE fl[q]]
    IN  /\ pages_in_use' = (pages_in_use - Pow2[order[p]]) % CounterValues
        /\ flags' = freed
        /\ ripple_join(freed, p)
        /\ mm_bug' = \/ mm_bug \/ bug
                     \/ \E q \in block : "PERM" \in fl[q] \/ "USED" \notin fl[q]
                     \/ p # BlockOf(p, order[p])

\* Mutant: the page is not counted as available.
claim_pageUncounted(p) ==
    /\ "PERM" \in flags[p]
    /\ free_page([flags EXCEPT ![p] = @ \ {"PERM"}], p, FALSE)
    /\ UNCHANGED <<compound_num, pages_avaliable>>

\* claim_page(): a page that was in use for good becomes available.
claim_page(p) ==
    /\ "PERM" \in flags[p]
    /\ free_page([flags EXCEPT ![p] = @ \ {"PERM"}], p, FALSE)
    /\ pages_avaliable' = pages_avaliable + 1
    /\ UNCHANGED compound_num
-----------------------------------------------------------------------------
\* The loop of trim_block() splits the block in which the allocation of `num`
\* pages at b ends, from the order `top` of the whole block down to that of the
\* allocation's last part: at order k + 1 it splits Cut(b, num, k).
Cut(b, num, k) == b + BlockOf(num - 1, k + 1)

\* The orphaned half, which is released unless the allocation reaches into it.
Slave(b, num, k) == Cut(b, num, k) + Pow2[k]

LastOrder(num) == CHOOSE k \in 0 .. MAX_ORDER : num % Pow2[k] = 0 /\ num % Pow2[k + 1] # 0

\* Mutant: the last split is not made.
SplitsTooFew(num, top) == {k \in 0 .. top - 1 : k > LastOrder(num)}

Splits(num, top) == {k \in 0 .. top - 1 : k >= LastOrder(num)}

trim_block(b, num, top) ==
    \E splits \in {Splits(num, top)} :
        /\ order' = [q \in Pages |->
              IF \E k \in splits : q = Cut(b, num, k)
              THEN CHOOSE k \in splits :
                      /\ q = Cut(b, num, k)
                      /\ \A j \in splits : j < k => q # Cut(b, num, j)
              ELSE order[q]]
        /\ free_page_list' = [k \in Orders |->
              IF k = top THEN Tail(free_page_list[k])
              ELSE IF k \in splits /\ Slave(b, num, k) >= b + num
              THEN ListAdd(Slave(b, num, k), free_page_list[k])
              ELSE free_page_list[k]]
        /\ mm_bug' = \/ mm_bug
                     \/ \E k \in splits :
                           \/ order[Slave(b, num, k)] # k
                           \/ ~is_free(flags, Slave(b, num, k))
                     \/ \E q \in b .. b + num - 1 : flags[q] # {}

\* The orders that do_alloc_pages() can take a block from.
Usable(num) == {k \in Orders : Pow2[k] >= num /\ free_page_list[k] # <<>>}

\* do_alloc_pages(), when there is a block.
do_alloc_pages(b, num, extra) ==
    \E top \in Usable(num) :
        /\ \A k \in Usable(num) : top <= k
        /\ b = Head(free_page_list[top])
        /\ trim_block(b, num, top)
        /\ flags' = [q \in Pages |-> IF q \in b .. b + num - 1
                                     THEN flags[q] \cup {"USED"} \cup extra
                                     ELSE flags[q]]
        /\ pages_in_use' = (pages_in_use + num) % CounterValues
        /\ UNCHANGED pages_avaliable

\* alloc_pages() without and with ALLOC_COMPOUND; alloc_page(ALLOC_CACHE).
alloc_pages(b, num) ==
    /\ do_alloc_pages(b, num, {})
    /\ compound_num' = [compound_num EXCEPT ![b] = num]

alloc_cache_page(b) == do_alloc_pages(b, 1, {"CACHE"}) /\ UNCHANGED compound_num
-----------------------------------------------------------------------------
\* The blocks on the free lists, as pairs of first page and order.
FreeBlocks == {f \in Pages \X Orders : f[1] \in ListPages(f[2])}
=============================================================================
