-------------------------------- MODULE Slab --------------------------------
(***************************************************************************)
(* The slabs of penguin_malloc (libraries/cpp/penguin_malloc/src/slab.c)   *)
(* on top of the buddy allocator.                                          *)
(*                                                                         *)
(* A slab hands out objects of one size from caches, which are blocks of   *)
(* the buddy allocator.  The header of a cache lies at its beginning, and  *)
(* the caches of a slab are a doubly linked list of headers.  A cache is   *)
(* named by its page here.                                                 *)
(***************************************************************************)
EXTENDS Buddy

CONSTANTS
  Slabs,        \* PENGUIN_MALLOC_SLABS: how many slabs there are
  CachePages,   \* pages of a cache; 64 in the code, fewer where pools are small
  RootObjects,  \* slab -> max_objects of the cache that shares its block with it
  CacheObjects, \* max_objects of the others
  None          \* a null pointer

VARIABLES
  slabs,        \* slab_alloc_t of each slab, or None
  heads,        \* page -> the header of the cache that begins there, or None
  objects,      \* objects handed out
  dying,        \* the slab that slab_destroy is at work on, or None
  disordered,   \* a cache has changed its place, or a slab is to be destroyed
                \* whose first cache has, or had, another behind it
  broken        \* a slab used a header it has given back, which may be a
                \* header of another slab by then, or hangs

slabVars == <<slabs, heads, objects, dying, disordered, broken>>

Slab == 0..(Slabs - 1)
Link == Page \union {None}
Slot == 1..CacheObjects

Header == [slab : Slab, root : BOOLEAN, prev : Link, next : Link, count : 0..CacheObjects,
           recycled : Seq(Slot), fresh : 0..CacheObjects]
SlabHeader == [first : Link, free : Link, last : Link]

ASSUME SlabAssumption ==
  /\ Slabs \in Nat /\ CachePages \in Sizes
  /\ CacheObjects \in Nat /\ RootObjects \in [Slab -> 1..CacheObjects]
  /\ None \notin Page \union Slab \union Header \union SlabHeader

SlabTypeOK ==
  /\ slabs \in [Slab -> SlabHeader \union {None}]
  /\ heads \in [Page -> Header \union {None}]
  /\ objects \subseteq [slab : Slab, cache : Page, slot : Slot, size : Nat]
  /\ dying \in Slab \union {None}
  /\ {disordered, broken} \subseteq BOOLEAN

-----------------------------------------------------------------------------
(* The functions of slab.c are written on a record m: the slab they work   *)
(* for, the headers, whether the list lost its order and whether a header  *)
(* was used that is not there.  The field slab of a header is a ghost: the *)
(* slab that made it.                                                      *)
Memory(s) == [id |-> s, slab |-> slabs[s], heads |-> heads,
              disordered |-> disordered, broken |-> broken]

Holds(m, p) == p # None /\ m.heads[p] # None /\ m.heads[p].slab = m.id

(* Goes on with f if the pages in ps hold headers of the slab.             *)
Using(m, ps, f) == IF \A p \in ps : Holds(m, p) THEN f ELSE [m EXCEPT !.broken = TRUE]

MaxObjects(h) == IF h.root THEN RootObjects[h.slab] ELSE CacheObjects
IsFull(h) == h.count = MaxObjects(h)

(* slab_cache_move_up: prev->prev is overwritten before it is read.        *)
MoveUp(m, c) ==
  LET p == m.heads[c].prev IN
    [m EXCEPT !.heads[p].prev = c, !.heads[p].next = m.heads[c].next,
              !.heads[c].next = p, !.heads[c].prev = c,
              !.disordered = TRUE]

(* slab_cache_move_down, likewise.                                         *)
MoveDown(m, c) ==
  LET n == m.heads[c].next IN
    [m EXCEPT !.heads[n].next = c, !.heads[n].prev = m.heads[c].prev,
              !.heads[c].prev = n, !.heads[c].next = c,
              !.disordered = TRUE]

(* slab_cache_init: the cache is appended to the list.                     *)
CacheInit(m, c) ==
  LET last == m.slab.last
      alone == m.slab.first = None
      h == [slab |-> m.id, root |-> alone, prev |-> IF alone THEN None ELSE last, next |-> None,
            count |-> 0, recycled |-> <<>>, fresh |-> 0]
      slab == [first |-> IF alone THEN c ELSE m.slab.first, last |-> c,
               free |-> IF m.slab.free = None THEN c ELSE m.slab.free]
      added == [m EXCEPT !.slab = slab, !.heads[c] = h]
  IN IF alone THEN added
     ELSE Using(added, {last}, [added EXCEPT !.heads[last].next = c])

(* The loop of slab_cache_alloc that looks for a cache with room, cut off  *)
(* when it has gone round: then it never ends.                             *)
FirstFree(m) ==
  LET walk[k \in 0..Cardinality(Page)] ==
        IF k = 0 THEN m.slab.free
        ELSE LET c == walk[k - 1] IN
          IF c = None THEN None
          ELSE IF ~ Holds(m, c) \/ ~ IsFull(m.heads[c]) THEN c
          ELSE m.heads[c].next
      end == walk[Cardinality(Page)]
  IN IF end = None THEN [m EXCEPT !.slab.free = None]
     ELSE Using(m, {end}, [m EXCEPT !.slab.free = end,
                                    !.broken = IsFull(m.heads[end])])

(* slab_cache_alloc, up to the object; Slots is what it hands out.         *)
SlotOf(h) == IF h.recycled = <<>> THEN h.fresh + 1 ELSE Head(h.recycled)

CacheAlloc(m, c) ==
  LET taken == [m EXCEPT !.heads[c].count = @ + 1]
      p == m.heads[c].prev
      Moved(n) == IF n.heads[p].count < n.heads[c].count THEN MoveUp(n, c) ELSE n
      Pop(n) == IF n.heads[c].recycled = <<>>
                THEN [n EXCEPT !.heads[c].fresh = @ + 1]
                ELSE [n EXCEPT !.heads[c].recycled = Tail(@)]
      sorted == IF p = None THEN taken ELSE Using(taken, {p}, Moved(taken))
  IN IF sorted.broken THEN sorted ELSE Pop(FirstFree(sorted))

(* slab_cache_free.                                                        *)
CacheFree(m, c, slot) ==
  LET put == [m EXCEPT !.heads[c].recycled = <<slot>> \o @, !.heads[c].count = @ - 1]
      n == m.heads[c].next
      Moved(x) == IF x.heads[n].count > x.heads[c].count THEN MoveDown(x, c) ELSE x
  IN IF n = None THEN put ELSE Using(put, {n}, Moved(put))

(* A mutant: the last cache stays last_cache when it is given back.        *)
EndsWithoutFirst(slab, h) == [slab EXCEPT !.first = IF h.prev = None THEN h.next ELSE @]

(* What slab_cache_destroy does to first_cache and last_cache.             *)
EndsWithout(slab, h) ==
  [slab EXCEPT !.first = IF h.prev = None THEN h.next ELSE @,
               !.last = IF h.next = None THEN h.prev ELSE @]

(* slab_cache_destroy: only an inner cache is taken out of the list on     *)
(* both sides.  The header is gone with the block.                         *)
CacheDestroy(m, c) ==
  LET h == m.heads[c]
      cut == [m EXCEPT !.slab = EndsWithout(@, h)]
      bridged == [cut EXCEPT !.heads[h.prev].next = h.next, !.heads[h.next].prev = h.prev]
      unlinked == IF h.prev # None /\ h.next # None
                  THEN Using(cut, {h.prev, h.next}, bridged) ELSE cut
  IN [unlinked EXCEPT !.heads[c] = None]

-----------------------------------------------------------------------------
(* The calls.                                                              *)

(* Nothing is wrong so far: no memory of two owners, no header that is     *)
(* gone, no loop without end, and no slab_destroy that is not finished.    *)
Sane == ~ shared /\ ~ Corrupt /\ ~ broken /\ dying = None

Store(s, m) ==
  /\ slabs' = [slabs EXCEPT ![s] = m.slab]
  /\ heads' = m.heads
  /\ disordered' = m.disordered
  /\ broken' = m.broken

NoCaches == [first |-> None, free |-> None, last |-> None]

(* slab_init: the slab and its first cache lie in one block.               *)
SlabInit(s) ==
  /\ Sane
  /\ Alloc(CachePages)
  /\ Store(s, CacheInit([Memory(s) EXCEPT !.slab = NoCaches], Given(CachePages)))
  /\ UNCHANGED <<objects, dying>>

(* slab_alloc: with no cache that has room it asks for a new one.          *)
Grow(s) ==
  /\ slabs[s].free = None
  /\ Alloc(CachePages)
  /\ LET m == CacheInit(Memory(s), Given(CachePages)) IN
       Store(s, IF m.broken THEN m ELSE CacheAlloc(m, m.slab.free))
Take(s) ==
  /\ slabs[s].free # None
  /\ UNCHANGED buddyVars
  /\ Store(s, Using(Memory(s), {slabs[s].free}, CacheAlloc(Memory(s), slabs[s].free)))
SlabAlloc(s, size) ==
  LET grows == slabs[s].free = None
      o == [slab |-> s, size |-> size,
            cache |-> IF grows THEN Given(CachePages) ELSE slabs[s].free,
            slot |-> IF grows THEN 1 ELSE SlotOf(heads[slabs[s].free])]
  IN /\ Grow(s) \/ Take(s)
     /\ objects' = IF broken' THEN objects ELSE objects \union {o}
     /\ UNCHANGED dying

(* Whether slab_alloc has an object to give: slab_cache_alloc refuses if   *)
(* its cache is full.                                                      *)
Gives(s) ==
  IF slabs[s].free = None THEN Available(CachePages)
  ELSE Holds(Memory(s), slabs[s].free) => ~ IsFull(heads[slabs[s].free])

BlockOf(page) == CHOOSE b \in live : b.page = page

(* A mutant: first_free_cache goes on pointing to a cache given back.      *)
ForgetUnset(m, c) == m

(* What slab_free does about first_free_cache.                             *)
Forget(m, c) == [m EXCEPT !.slab.free = IF @ = c THEN None ELSE @]

(* slab_free: an empty cache is given back, unless it is the first one.    *)
SlabFree(o) ==
  LET m == CacheFree(Memory(o.slab), o.cache, o.slot)
      empty == m.heads[o.cache].count = 0 /\ ~ m.heads[o.cache].root
      gone == Forget(CacheDestroy(m, o.cache), o.cache)
  IN /\ Sane
     /\ objects' = objects \ {o}
     /\ \/ /\ m.broken \/ ~ empty
           /\ Store(o.slab, m)
           /\ UNCHANGED buddyVars
        \/ /\ ~ m.broken /\ empty
           /\ Store(o.slab, gone)
           /\ Free(BlockOf(o.cache))
     /\ UNCHANGED dying

(* slab_destroy gives the first cache back until there is none.            *)
BeginDestroy(s) ==
  /\ Sane
  /\ slabs[s] # None
  /\ dying' = s
  /\ objects' = {o \in objects : o.slab # s}
  /\ disordered' = (disordered \/ heads[slabs[s].first].next # None)
  /\ UNCHANGED <<buddyVars, slabs, heads, broken>>

DestroyFirst ==
  /\ dying # None /\ slabs[dying] # None /\ ~ broken
  /\ LET c == slabs[dying].first IN
       \/ /\ c = None
          /\ slabs' = [slabs EXCEPT ![dying] = None]
          /\ dying' = None
          /\ UNCHANGED <<buddyVars, heads, broken, disordered>>
       \/ /\ c # None /\ ~ Holds(Memory(dying), c)
          /\ broken' = TRUE
          /\ UNCHANGED <<buddyVars, slabs, heads, dying, disordered>>
       \/ /\ c # None /\ Holds(Memory(dying), c) /\ ~ Corrupt
          /\ Store(dying, CacheDestroy(Memory(dying), c))
          /\ Free(BlockOf(c))
          /\ UNCHANGED dying
  /\ UNCHANGED objects
=============================================================================
