------------------------------- MODULE Memory -------------------------------
(***************************************************************************)
(* The kernel's memory: the buddy allocator, an object cache that takes    *)
(* its pages from it, and kmalloc() and kfree() (kernel/src/mm/mm.c) on    *)
(* top of both.  Callers run on any number of processors; what they do     *)
(* under alloc_lock or under the cache's lock is one step.  free_pages()   *)
(* takes alloc_lock once for each block, so other callers run in between.  *)
(***************************************************************************)
EXTENDS PageAlloc, CacheAlloc

CONSTANTS Available,  \* the pages find_free_pages() claims
          Reclaimed,  \* the pages claimed later: init code and modules
          Numbers,    \* the numbers of pages callers ask for
          MaxBlocks,  \* bound on the allocations of pages in use
          MaxLive     \* bound on the objects of the cache in use

ASSUME MemoryAssumption ==
    /\ Available \subseteq Pages /\ Reclaimed \subseteq Pages
    /\ Available \cap Reclaimed = {}
    /\ Numbers \subseteq Nat \ {0}

VARIABLES
    booted,    \* mm_init() is done
    blocks,    \* the allocations of alloc_pages() in use: <<first page, number>>
    freeing,   \* what free_pages() has left to free: <<first page, number>>
    objects,   \* the objects of the cache in use: <<page, slot>>
    mm_panic   \* do_alloc_pages() found no block

memoryVars == <<pageVars, cacheVars, booted, blocks, freeing, objects, mm_panic>>
userVars == <<booted, blocks, freeing, objects, mm_panic>>

MemoryInit ==
    /\ PageInit
    /\ CacheInit
    /\ booted = FALSE
    /\ blocks = {} /\ freeing = {} /\ objects = {}
    /\ mm_panic = FALSE
-----------------------------------------------------------------------------
\* mm_init(): find_free_pages() goes through the pages in order.
find_free_pages ==
    /\ ~booted
    /\ \E p \in Available :
          /\ "PERM" \in flags[p]
          /\ \A q \in Available : q < p => "PERM" \notin flags[q]
          /\ claim_page(p)
    /\ UNCHANGED <<cacheVars, userVars>>

mm_init ==
    /\ ~booted
    /\ \A p \in Available : "PERM" \notin flags[p]
    /\ booted' = TRUE
    /\ pages_in_use' = 0
    /\ UNCHANGED <<flags, order, compound_num, free_page_list, pages_avaliable,
                   mm_bug, cacheVars, blocks, freeing, objects, mm_panic>>

\* mm_postinit_reclaim() and module_load().
mm_postinit_reclaim ==
    /\ booted
    /\ \E p \in Reclaimed : claim_page(p)
    /\ UNCHANGED <<cacheVars, userVars>>

\* kmalloc() of more than KALLOC_CACHE_MAX bytes.
kmalloc_pages(num) ==
    /\ booted
    /\ Cardinality(blocks \cup freeing) < MaxBlocks
    /\ \E b \in Pages :
          /\ alloc_pages(b, num)
          /\ blocks' = blocks \cup {<<b, num>>}
    /\ UNCHANGED <<cacheVars, booted, freeing, objects, mm_panic>>

OutOfMemory ==
    /\ booted
    /\ \/ \E num \in Numbers : Usable(num) = {}
       \/ CacheMiss /\ Usable(1) = {}
    /\ mm_panic' = TRUE
    /\ UNCHANGED <<pageVars, cacheVars, booted, blocks, freeing, objects>>

\* kfree() of such an allocation, up to the loop of free_pages().
kfree_pages(b, num) ==
    /\ <<b, num>> \in blocks
    /\ blocks' = blocks \ {<<b, num>>}
    /\ freeing' = freeing \cup {<<b, compound_num[b]>>}
    /\ compound_num' = [compound_num EXCEPT ![b] = 0]
    /\ mm_bug' = (mm_bug \/ compound_num[b] = 0 \/ "CACHE" \in flags[b])
    /\ UNCHANGED <<flags, order, free_page_list, pages_in_use, pages_avaliable,
                   cacheVars, booted, objects, mm_panic>>

\* Mutant: the smallest part is taken to come first.
free_pagesAscending(b, num) ==
    /\ <<b, num>> \in freeing
    /\ \E size \in {Pow2[LastOrder(num)]} :
          freeing' = (freeing \ {<<b, num>>})
                        \cup (IF num = size THEN {} ELSE {<<b + size, num - size>>})
    /\ free_page(flags, b, num = order[b])
    /\ UNCHANGED <<compound_num, pages_avaliable, cacheVars, booted, blocks, objects,
                   mm_panic>>

\* One round of the loop of free_pages(): the largest power of two that fits.
free_pages(b, num) ==
    /\ <<b, num>> \in freeing
    /\ \E k \in Orders :
          /\ Pow2[k] <= num /\ num < Pow2[k + 1]
          /\ freeing' = (freeing \ {<<b, num>>})
                        \cup (IF num = Pow2[k] THEN {} ELSE {<<b + Pow2[k], num - Pow2[k]>>})
    /\ free_page(flags, b, num = order[b])
    /\ UNCHANGED <<compound_num, pages_avaliable, cacheVars, booted, blocks, objects,
                   mm_panic>>

\* kmalloc() of an object.
kmalloc_object ==
    /\ booted
    /\ Cardinality(objects) < MaxLive
    /\ \E p \in CachePages :
          \/ \E i \in Slots \cup {FREELIST_END} :
                cache_alloc(p, i) /\ objects' = objects \cup {<<p, i>>} /\ UNCHANGED pageVars
          \/ alloc_cache_page(p) /\ cache_alloc_page(p)
                              /\ objects' = objects \cup {<<p, 0>>}
    /\ UNCHANGED <<booted, blocks, freeing, mm_panic>>

\* kfree() of an object: its page is a page of the cache.
kfree_object(p, i) ==
    /\ <<p, i>> \in objects
    /\ objects' = objects \ {<<p, i>>}
    /\ cache_free(p, i)
    /\ mm_bug' = (mm_bug \/ "CACHE" \notin flags[p])
    /\ UNCHANGED <<flags, order, compound_num, free_page_list, pages_in_use,
                   pages_avaliable, booted, blocks, freeing, mm_panic>>

MemoryNext ==
    /\ ~mm_panic
    /\ \/ find_free_pages \/ mm_init \/ mm_postinit_reclaim
       \/ \E num \in Numbers : kmalloc_pages(num)
       \/ OutOfMemory
       \/ \E u \in blocks : kfree_pages(u[1], u[2])
       \/ \E u \in freeing : free_pages(u[1], u[2])
       \/ kmalloc_object
       \/ \E o \in objects : kfree_object(o[1], o[2])

MemorySpec == MemoryInit /\ [][MemoryNext]_memoryVars
-----------------------------------------------------------------------------
\* The state of both allocators and of their callers stays in its type; the
\* unsigned counters of misc/stats.h wrap.
MemoryTypeOK ==
    /\ PageTypeOK /\ CacheTypeOK
    /\ booted \in BOOLEAN /\ mm_panic \in BOOLEAN
    /\ blocks \subseteq Pages \X Nat /\ freeing \subseteq Pages \X Nat
    /\ objects \subseteq CachePages \X Slots

\* No assertion of the allocators is reached: the order left behind in a page
\* that was joined into a larger block is the one the next split expects.
NoBug == ~mm_bug /\ ~cache_bug

\* The pages of a caller, and of the cache.
Held(user) == user[1] .. user[1] + user[2] - 1
CachePagesInUse == {p \in Pages : OnList(p, full \o partial \o empty)}

\* Every available page belongs to exactly one of: a block on a free list, an
\* allocation in use or being freed, the cache.  Free blocks are aligned, and
\* each is listed once.
PagesPartitioned ==
    LET FreePages(f) == BlockPages(f[1], f[2])
        InUse == CachePagesInUse \cup UNION {Held(u) : u \in blocks \cup freeing}
    IN  /\ \A k \in Orders : NoDuplicates(free_page_list[k])
        /\ \A f \in FreeBlocks : f[1] % Pow2[f[2]] = 0 /\ order[f[1]] = f[2]
        /\ \A f, g \in FreeBlocks : f # g => FreePages(f) \cap FreePages(g) = {}
        /\ \A u, v \in blocks \cup freeing : u # v => Held(u) \cap Held(v) = {}
        /\ \A u \in blocks \cup freeing : Held(u) \cap CachePagesInUse = {}
        /\ \A p \in Pages :
              /\ is_free(flags, p) <=> \E f \in FreeBlocks : p \in FreePages(f)
              /\ p \in InUse <=> flags[p] \in {{"USED"}, {"USED", "CACHE"}}

\* Free memory does not stay cut up: two buddies of the same order are never
\* both free.
BuddiesJoined ==
    \A f \in FreeBlocks :
        f[2] < MAX_ORDER => <<get_buddy(f[1], f[2]), f[2]>> \notin FreeBlocks

\* pages_in_use and pages_avaliable are what sysrq_handle() prints them as: the
\* pages allocated and the pages available.  This is so until pages are claimed
\* after mm_init(): they lower pages_in_use although they were never counted in.
InUseExact ==
    pages_in_use = Cardinality({p \in Pages : "USED" \in flags[p] /\ "PERM" \notin flags[p]})

CountersExact ==
    /\ pages_avaliable = Cardinality({p \in Pages : "PERM" \notin flags[p]})
    /\ booted /\ (\A p \in Reclaimed : "PERM" \in flags[p]) => InUseExact

\* A page of the cache is on the list that its number of free slots calls for,
\* its chain of free slots holds each slot that is not in use exactly once.
CacheSound ==
    /\ NoDuplicates(full \o partial \o empty)
    /\ \A p \in CachePagesInUse :
          /\ OnList(p, full) <=> left[p] = 0
          /\ OnList(p, empty) <=> left[p] = Max
          /\ FreeSlots(p) = {i \in Slots : <<p, i>> \notin objects}
          /\ Cardinality(FreeSlots(p)) = left[p]
          /\ Chain(p)[left[p]] = FREELIST_END
    /\ \A o \in objects : o[1] \in CachePagesInUse
=============================================================================
