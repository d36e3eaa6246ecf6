------------------------------- MODULE Buddy -------------------------------
(***************************************************************************)
(* The buddy allocator of penguin_malloc                                   *)
(* (libraries/cpp/penguin_malloc/src/buddy.c).                             *)
(*                                                                         *)
(* A pool of pages is halved again and again: layer 0 is the whole pool,   *)
(* layer l has 2^l blocks.  One bit per block tells where a block that was *)
(* handed out begins (0) from everything else (1); a list per layer holds  *)
(* the free blocks.  Addresses are page numbers from the pool's beginning. *)
(***************************************************************************)
EXTENDS Integers, Sequences, FiniteSets, FiniteSetsExt, SequencesExt

CONSTANTS
  BlocksCount,  \* pages_count(begin, end) at the end of buddy_init
  Sizes         \* the sizes asked for, in pages

VARIABLES
  bitmap,       \* the cells <<byte, bit>> that are 1
  freelist,     \* for each layer the free blocks, last pushed first
  live,         \* blocks handed out: page, layer, and the pages asked for
  rightFreed,   \* a right-hand half has been freed
  shared        \* memory has been handed out that was in use

buddyVars == <<bitmap, freelist, live, rightFreed, shared>>
-----------------------------------------------------------------------------
(* util.c.                                                                 *)
Pow2[p \in Nat] == IF p = 0 THEN 1 ELSE 2 * Pow2[p - 1]    \* 1ull << p

MaxLowerPowerOf2(n) == Max({Pow2[p] : p \in {p \in 0..n : Pow2[p] <= n}})
Log2Upper(n) == Min({p \in 0..n : Pow2[p] >= n})

(* buddy_update_params.                                                    *)
RootBlockSize == MaxLowerPowerOf2(BlocksCount)
Layers == Log2Upper(BlocksCount)
Layer == 0..(Layers - 1)
Index(layer) == 0..(Pow2[layer] - 1)
Page == 0..(RootBlockSize - 1)

ASSUME BuddyAssumption ==
  /\ BlocksCount \in Nat /\ BlocksCount >= 15   \* buddy_init: 16, less its own page
  /\ Sizes \subseteq Nat \ {0}

(* buddy_util.c.                                                           *)
BitmapSize == (BlocksCount + 7) \div 8
BlockSize(layer) == RootBlockSize \div Pow2[layer]
(* A mutant: the quotient is rounded away from the root.                   *)
BestFitLayerBelow(pages) == Log2Upper(RootBlockSize \div pages + 1)
BestFitLayer(pages) == Log2Upper(RootBlockSize \div pages)
(* A mutant: every block is as large as the root.                          *)
ToPointerOfRoots(layer, index) == RootBlockSize * index
ToPointer(layer, index) == BlockSize(layer) * index
ToIndex(layer, page) == page \div BlockSize(layer)
Sibling(index) == IF index % 2 = 0 THEN index + 1 ELSE index - 1

MaskIndex(layer, index) == IF layer < 3 THEN 0 ELSE Pow2[layer - 3] + index \div 8
BitIndex(layer, index) == IF layer < 3 THEN index + Pow2[layer] ELSE index % 8
Cell(layer, index) == <<MaskIndex(layer, index), BitIndex(layer, index)>>
Get(layer, index) == Cell(layer, index) \in bitmap

Cells == UNION {{Cell(l, i) : i \in Index(l)} : l \in Layer}

Pages(page, layer) == page..(page + BlockSize(layer) - 1)
Held(block) == Pages(block.page, block.layer)
FreeBlocks == UNION {ToSet(freelist[l]) \X {l} : l \in Layer}

(* A block that was handed out lies in a free one.  A request may then be  *)
(* given memory that is in use; later ones depend on links that its two    *)
(* holders may have overwritten, and the model stops.                      *)
Corrupt == \E b \in live, f \in FreeBlocks : Held(b) \cap Pages(f[1], f[2]) # {}

BuddyTypeOK ==
  /\ bitmap \subseteq ((0..(BitmapSize - 1)) \X (0..7)) \union Cells
  /\ freelist \in [Layer -> Seq(Page)]
  /\ live \subseteq [page : Page, layer : Layer, asked : Sizes]
  /\ {rightFreed, shared} \subseteq BOOLEAN

(* The bitmap is filled with ones as far as it was counted; a bit beyond   *)
(* is whatever the memory held.                                            *)
BuddyInit ==
  /\ \E garbage \in SUBSET {c \in Cells : c[1] >= BitmapSize} :
       bitmap = (((0..(BitmapSize - 1)) \X (0..7)) \union garbage) \ {Cell(0, 0)}
  /\ freelist = [l \in Layer |-> IF l = 0 THEN <<0>> ELSE <<>>]
  /\ live = {}
  /\ rightFreed = FALSE
  /\ shared = FALSE
-----------------------------------------------------------------------------
(* The layer a block is taken from: the best fit, or the nearest above     *)
(* that has one, or 0.                                                     *)
SourceLayer(fit) == Max({l \in 0..fit : l = 0 \/ freelist[l] # <<>>})

(* The second loop of buddy_alloc: the left half of a left half, down to   *)
(* the best fit; the right halves become free.                             *)
Split(source, fit, page) ==
  LET halves == (source + 1)..fit
      Right(l) == ToIndex(l, page) + 1
  IN /\ bitmap' =
          (bitmap \union {Cell(l - 1, ToIndex(l - 1, page)) : l \in halves}
                  \union {Cell(l, Right(l)) : l \in halves})
          \ {Cell(l, ToIndex(l, page)) : l \in halves \cap {fit}}
     /\ freelist' = [l \in Layer |->
          IF l = source THEN Tail(freelist[l])
          ELSE IF l \in halves THEN <<ToPointer(l, Right(l))>> \o freelist[l]
          ELSE freelist[l]]

(* Whether buddy_alloc has a block to give.                                *)
Available(pages) ==
  /\ BestFitLayer(pages) \in Layer
  /\ freelist[SourceLayer(BestFitLayer(pages))] # <<>>
Given(pages) == Head(freelist[SourceLayer(BestFitLayer(pages))])

(* buddy_alloc.  A best fit below the lowest layer (one page asked for, of *)
(* a power of two of blocks) would be read from outside the array.         *)
Alloc(pages) ==
  LET fit == BestFitLayer(pages)
      source == SourceLayer(fit)
      page == Given(pages)
  IN /\ ~ shared
     /\ Available(pages)                 \* otherwise it returns NULL
     /\ Split(source, fit, page)
     /\ live' = live \union {[page |-> page, layer |-> fit, asked |-> pages]}
     /\ shared' = \E b \in live : Held(b) \cap Pages(page, fit) # {}
     /\ UNCHANGED rightFreed

(* The first loop of buddy_free: from the bottom up to a bit that is 0.    *)
StartLayer(page) == Max({l \in Layer : l = 0 \/ ~ Get(l, ToIndex(l, page))})

(* A mutant: up as long as the sibling is free, in the lists.              *)
JoinedLayerOfFree(start, page) ==
  Max({l \in 0..start : l = 0 \/ ~ Get(l, Sibling(ToIndex(l, page)))})

(* The second: further up as long as the sibling's bit is 0 too.           *)
JoinedLayer(start, page) ==
  Max({l \in 0..start : l = 0 \/ Get(l, Sibling(ToIndex(l, page)))})

(* buddy_free.  Whoever holds a block frees it once.                       *)
Free(block) ==
  LET page == block.page
      start == StartLayer(page)
      top == JoinedLayer(start, page)
  IN /\ ~ Corrupt /\ ~ shared
     /\ live' = live \ {block}
     /\ bitmap' =
          (bitmap \union
             UNION {{Cell(l, ToIndex(l, page)), Cell(l, Sibling(ToIndex(l, page)))} :
                      l \in (top + 1)..start})
          \ {Cell(top, ToIndex(top, page))}
     /\ freelist' = [freelist EXCEPT ![top] =
                       <<ToPointer(top, ToIndex(top, page))>> \o @]
     /\ rightFreed' = (rightFreed \/ ToIndex(block.layer, page) % 2 = 1)
     /\ UNCHANGED shared

Stopped == shared /\ UNCHANGED buddyVars

BuddyNext ==
  \/ \E pages \in Sizes : Alloc(pages)
  \/ \E block \in live : Free(block)
  \/ Stopped

BuddySpec == BuddyInit /\ [][BuddyNext]_buddyVars
-----------------------------------------------------------------------------
(* As long as no right-hand half was freed, every page of the pool lies in *)
(* exactly one block, handed out or free: buddy_alloc and buddy_free lose  *)
(* no page and hand out none twice.                                        *)
Tiling ==
  ~ rightFreed =>
    LET free == FreeBlocks IN
    \A p \in Page :
      Cardinality({b \in live : p \in Held(b)})
        + Cardinality({f \in free : p \in Pages(f[1], f[2])}) = 1

(* Whoever asked for a power of two of pages got a block of that size, or  *)
(* the whole pool if it is smaller (best_fit_layer and the walk up).       *)
EnoughRoom ==
  \A b \in live :
    b.asked \in {Pow2[k] : k \in 0..b.asked} =>
      Cardinality(Held(b)) = Min({b.asked, RootBlockSize})

(* "memory safe allocator" (README.md): memory that is handed out is not   *)
(* in use (check_free of the tests).                                       *)
HandsOutFreeMemory == ~ shared
=============================================================================
