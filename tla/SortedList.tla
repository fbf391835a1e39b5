----------------------------- MODULE SortedList -----------------------------
(***************************************************************************)
(* What class List (threads/list.h) promises, on plain sequences: a        *)
(* component that only needs the promise (the pending interrupts) uses     *)
(* these operators, and module List shows that the linked list keeps it.   *)
(* An element is a record with an item and a key.                          *)
(***************************************************************************)
EXTENDS Naturals, Sequences, FiniteSets

Element(i, k) == [item |-> i, key |-> k]

\* How many elements stay before a new element of key k: those up to the
\* first one with a larger key.
InsertPosition(s, k) ==
    Cardinality({i \in 1..Len(s) : \A j \in 1..i : s[j].key <= k})

InsertAfter(s, n, e) == SubSeq(s, 1, n) \o <<e>> \o SubSeq(s, n + 1, Len(s))

\* List::SortedInsert: behind the elements of the same key.
SortedInsertInto(s, e) == InsertAfter(s, InsertPosition(s, e.key), e)

\* List::Remove(item) takes off the first element that holds the item.
WithoutItem(s, i) ==
    LET n == CHOOSE n \in 1..Len(s) :
                 s[n].item = i /\ \A m \in 1..n - 1 : s[m].item # i
    IN  SubSeq(s, 1, n - 1) \o SubSeq(s, n + 1, Len(s))

Sorted(s) == \A i, j \in 1..Len(s) : i < j => s[i].key <= s[j].key

=============================================================================
