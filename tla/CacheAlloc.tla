----------------------------- MODULE CacheAlloc -----------------------------
(***************************************************************************)
(* An object cache of kernel/src/mm/cache.c, with its pages named by their *)
(* page number.  Each page has room for `Max` objects; slot i of page p is *)
(* the object <<p, i>>.  The free slots of a page are linked through       *)
(* freelist, from `free` to FREELIST_END.  Every operator with primes is   *)
(* one critical section of cache->lock.                                    *)
(***************************************************************************)
EXTENDS KList, Integers

CONSTANTS CachePages,  \* the pages a cache can get
          Max          \* cache->max

ASSUME CacheAssumption == Max \in Nat \ {0}

VARIABLES
    full, partial, empty,  \* the cache's lists of pages, first element first
    left,                  \* per page: cache_page->left
    free,                  \* per page: cache_page->free
    freelist,              \* per page and slot: cache_page->freelist
    cache_bug              \* a BUG_ON() of cache.c was reached

cacheVars == <<full, partial, empty, left, free, freelist, cache_bug>>

Slots == 0 .. Max - 1
FREELIST_END == Max + 1

CacheInit ==
    /\ full = <<>> /\ partial = <<>> /\ empty = <<>>
    /\ left = [p \in CachePages |-> 0]
    /\ free = [p \in CachePages |-> FREELIST_END]
    /\ freelist = [p \in CachePages |-> [i \in Slots |-> FREELIST_END]]
    /\ cache_bug = FALSE

CacheTypeOK ==
    /\ full \in Seq(CachePages) /\ partial \in Seq(CachePages) /\ empty \in Seq(CachePages)
    /\ left \in [CachePages -> 0 .. Max]
    /\ free \in [CachePages -> Slots \cup {FREELIST_END}]
    /\ freelist \in [CachePages -> [Slots -> Slots \cup {FREELIST_END}]]
    /\ cache_bug \in BOOLEAN
-----------------------------------------------------------------------------
\* cache_alloc() when a page has free slots: the first page of `partial`, else
\* the first of `empty`.  cache_do_alloc() takes the first free slot.
CacheHit(p) ==
    \/ partial # <<>> /\ p = Head(partial)
    \/ partial = <<>> /\ empty # <<>> /\ p = Head(empty)

cache_alloc(p, i) ==
    /\ CacheHit(p)
    /\ i = free[p]
    /\ cache_bug' = (cache_bug \/ free[p] = FREELIST_END)
    /\ left' = [left EXCEPT ![p] = @ - 1]
    /\ free' = [free EXCEPT ![p] = IF i = FREELIST_END THEN i ELSE freelist[p][i]]
    /\ full' = IF left[p] = 1 THEN ListAdd(p, full) ELSE full
    /\ IF partial # <<>>
       THEN /\ partial' = IF left[p] = 1 THEN ListRm(p, partial) ELSE partial
            /\ UNCHANGED empty
       ELSE /\ partial' = IF left[p] = 1 THEN partial ELSE ListAdd(p, partial)
            /\ empty' = ListRm(p, empty)
    /\ UNCHANGED freelist

\* cache_alloc() when there is none: cache_alloc_page() links the slots of the
\* new page p in order, and slot 0 is taken.
NewFreelist == [i \in Slots |-> IF i = Max - 1 THEN FREELIST_END ELSE i + 1]

CacheMiss == partial = <<>> /\ empty = <<>>

cache_alloc_page(p) ==
    /\ CacheMiss
    /\ left' = [left EXCEPT ![p] = Max - 1]
    /\ freelist' = [freelist EXCEPT ![p] = NewFreelist]
    /\ free' = [free EXCEPT ![p] = NewFreelist[0]]
    /\ full' = IF Max = 1 THEN ListAdd(p, full) ELSE full
    /\ partial' = IF Max = 1 THEN partial ELSE ListAdd(p, partial)
    /\ UNCHANGED <<empty, cache_bug>>

\* Mutant: a page of which every object was in use stays where it is.
cache_freeStaysFull(p, i) ==
    /\ left' = [left EXCEPT ![p] = @ + 1]
    /\ freelist' = [freelist EXCEPT ![p][i] = free[p]]
    /\ free' = [free EXCEPT ![p] = i]
    /\ IF left[p] + 1 = Max
       THEN /\ full' = IF left[p] = 0 THEN ListRm(p, full) ELSE full
            /\ partial' = IF left[p] = 0 THEN partial ELSE ListRm(p, partial)
            /\ empty' = ListAdd(p, empty)
       ELSE UNCHANGED <<full, partial, empty>>
    /\ UNCHANGED cache_bug

\* cache_free() of slot i of page p.
cache_free(p, i) ==
    /\ left' = [left EXCEPT ![p] = @ + 1]
    /\ freelist' = [freelist EXCEPT ![p][i] = free[p]]
    /\ free' = [free EXCEPT ![p] = i]
    /\ full' = IF left[p] = 0 THEN ListRm(p, full) ELSE full
    /\ IF left[p] + 1 = Max
       THEN /\ partial' = IF left[p] = 0 THEN partial ELSE ListRm(p, partial)
            /\ empty' = ListAdd(p, empty)
       ELSE /\ partial' = IF left[p] = 0 THEN ListAdd(p, partial) ELSE partial
            /\ UNCHANGED empty
    /\ UNCHANGED cache_bug
-----------------------------------------------------------------------------
\* The slots reached from `free` in at most Max steps.
Chain(p) ==
    LET at[n \in 0 .. Max] ==
            IF n = 0 THEN free[p]
            ELSE IF at[n - 1] = FREELIST_END THEN FREELIST_END
            ELSE freelist[p][at[n - 1]]
    IN  at

FreeSlots(p) == {Chain(p)[n] : n \in 0 .. Max} \ {FREELIST_END}
=============================================================================
