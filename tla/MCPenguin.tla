----------------------------- MODULE MCPenguin -----------------------------
(* An instance of Penguin for TLC.                                         *)
EXTENDS Penguin

(* The block of a slab holds the slab as well as its first cache, which    *)
(* costs that cache an object or not.                                      *)
MCRootObjects == [s \in Slab |-> s + 1]
=============================================================================
