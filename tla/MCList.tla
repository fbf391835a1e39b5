------------------------------- MODULE MCList -------------------------------
(***************************************************************************)
(* Model checking of List: up to four elements, two items, keys 0 to 2.    *)
(***************************************************************************)
EXTENDS List, TLC

\* Addresses and items are interchangeable.
ListSymmetry == Permutations(Cell) \cup Permutations(Item)

=============================================================================
