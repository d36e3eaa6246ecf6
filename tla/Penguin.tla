------------------------------ MODULE Penguin ------------------------------
(***************************************************************************)
(* penguin_malloc and penguin_free (penguin_malloc.c of the library):      *)
(* small requests go to the slab of their size, the others, and those for  *)
(* which the slab has no memory, to the buddy allocator.  A header in      *)
(* front of the memory remembers which, so that penguin_free finds the way *)
(* back.                                                                   *)
(***************************************************************************)
EXTENDS Slab

CONSTANTS
  PageSize,     \* PAGE_SIZE
  MinSlabSize,  \* PENGUIN_MALLOC_MIN_SLAB_SIZE
  HeaderSize,   \* sizeof(penguin_malloc_header_t)
  Asked         \* the sizes in bytes that are asked for

vars == <<buddyVars, slabVars>>

-----------------------------------------------------------------------------
SlabSizeByIndex(i) == MinSlabSize * Pow2[i + 1]
ToPagesCount(size) == (size + PageSize - 1) \div PageSize

(* A mutant: the header is not counted.                                    *)
BestFitSlabIndexBelow(size) ==
  Min({i \in Slab : size - HeaderSize < SlabSizeByIndex(i)} \union {Slabs})
BestFitSlabIndex(size) == Min({i \in Slab : size < SlabSizeByIndex(i)} \union {Slabs})

ASSUME PenguinAssumption ==
  /\ PageSize \in Nat \ {0} /\ MinSlabSize \in Nat \ {0} /\ HeaderSize \in Nat
  /\ Asked \subseteq Nat \ {0}
  /\ \A size \in Asked : ToPagesCount(size + HeaderSize) \in Sizes
  /\ RootBlockSize >= Slabs * CachePages        \* penguin_malloc_init succeeds

Init ==
  /\ BuddyInit
  /\ slabs = [s \in Slab |-> None]
  /\ heads = [p \in Page |-> None]
  /\ objects = {}
  /\ dying = None
  /\ disordered = FALSE
  /\ broken = FALSE

TypeOK == BuddyTypeOK /\ SlabTypeOK

-----------------------------------------------------------------------------
Ready == \A s \in Slab : slabs[s] # None

(* penguin_malloc_init makes the slabs in their order.  The library itself *)
(* never calls slab_destroy; a client of slab.h that does may make the     *)
(* slab anew.                                                              *)
InitSlab(s) ==
  /\ slabs[s] = None
  /\ \A k \in 0..(s - 1) : slabs[k] # None
  /\ SlabInit(s)

(* penguin_malloc.  It returns NULL when neither has memory.               *)
Malloc(size) ==
  LET need == size + HeaderSize
      index == BestFitSlabIndex(need)
  IN /\ Ready /\ Sane
     /\ \/ index \in Slab /\ Gives(index) /\ SlabAlloc(index, size)
        \/ /\ index \in Slab => ~ Gives(index)
           /\ Alloc(ToPagesCount(need))
           /\ UNCHANGED slabVars

(* The blocks that clients hold: those that no cache lies in.              *)
Own == {b \in live : heads[b.page] = None}

(* penguin_free of an object of a slab, or of pages.                       *)
FreeObject(o) == Ready /\ SlabFree(o)
FreePages(b) == Ready /\ Sane /\ Free(b) /\ UNCHANGED slabVars

(* Something is wrong, and what comes next depends on what lies in memory. *)
Wrong ==
  /\ ~ Sane
  /\ dying # None => broken \/ Corrupt
  /\ UNCHANGED vars

Next ==
  \/ \E s \in Slab : InitSlab(s) \/ BeginDestroy(s)
  \/ \E size \in Asked : Malloc(size)
  \/ \E o \in objects : FreeObject(o)
  \/ \E b \in Own : FreePages(b)
  \/ DestroyFirst
  \/ Wrong

Spec == Init /\ [][Next]_vars

-----------------------------------------------------------------------------
(* Whatever has become of the lists: the object of a client lies in a      *)
(* block that its slab still holds, fits in there with its header, is      *)
(* nobody else's, and is counted by its cache; a slot is either held, in   *)
(* the list of the free, or was never handed out (slab_alloc, slab_free).  *)
HeldSlots(c) == {o.slot : o \in {o \in objects : o.cache = c}}
ObjectsSound ==
  Sane =>
    /\ \A o \in objects :
         /\ heads[o.cache] # None
         /\ heads[o.cache].slab = o.slab
         /\ \E b \in live : b.page = o.cache /\ b.asked = CachePages
         /\ o.size + HeaderSize <= SlabSizeByIndex(o.slab)
    /\ \A c \in Page : heads[c] # None =>
         LET h == heads[c] IN
         /\ h.count = Cardinality({o \in objects : o.cache = c})
         /\ HeldSlots(c) \cap ToSet(h.recycled) = {}
         /\ HeldSlots(c) \union ToSet(h.recycled) = 1..h.fresh
         /\ Len(h.recycled) + h.count = h.fresh

(* As long as no cache has changed its place, the caches of a slab are one *)
(* list from first_cache, which is the root, to last_cache, in which only  *)
(* the last has a link that leads nowhere or to what was given back, and   *)
(* only the last is known to have room (slab_cache_init,                   *)
(* slab_cache_destroy, slab_cache_alloc).                                  *)
Listed(s) ==
  LET walk[k \in 0..Cardinality(Page)] ==
        IF k = 0 THEN slabs[s].first
        ELSE IF walk[k - 1] \in {slabs[s].last, None} THEN walk[k - 1]
        ELSE IF heads[walk[k - 1]] = None THEN None
        ELSE heads[walk[k - 1]].next
  IN {walk[k] : k \in DOMAIN walk}
ListsSound ==
  Sane /\ ~ disordered =>
    /\ \A s \in Slab : slabs[s] # None =>
         /\ heads[slabs[s].first].root /\ heads[slabs[s].first].prev = None
         /\ slabs[s].last \in Listed(s) /\ heads[slabs[s].last] # None
         /\ \A c \in Listed(s) \ {slabs[s].last} : heads[heads[c].next].prev = c
         /\ slabs[s].free \in {None, slabs[s].last}
         /\ slabs[s].free # None => ~ IsFull(heads[slabs[s].free])
    /\ {c \in Page : heads[c] # None} = UNION {Listed(s) : s \in {s \in Slab : slabs[s] # None}}

(* A header that was given back is used, or a loop never ends, only when   *)
(* an object is freed whose cache comes before one that was given back,    *)
(* after a cache has changed its place, or when a slab is destroyed that   *)
(* has had a second cache (slab_free, slab_cache_move_down, slab_destroy). *)
BeforeGone(o) ==
  LET n == heads[o.cache].next IN n # None /\ ~ Holds(Memory(o.slab), n)
UsesWhatItHolds ==
  [][broken' => \/ broken \/ disordered
                \/ \E o \in objects \ objects' : BeforeGone(o)]_vars
=============================================================================
