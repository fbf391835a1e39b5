---------------------------- MODULE AbstractList ----------------------------
(***************************************************************************)
(* The promise of class List as a specification: a sequence of elements    *)
(* and the result of the last removal (NoItem for an empty list).          *)
(***************************************************************************)
EXTENDS SortedList

CONSTANTS Item, Key, NoItem

VARIABLES elements, result

vars == <<elements, result>>

Init == elements = <<>> /\ result = NoItem

Append0(i) == elements' = Append(elements, Element(i, 0)) /\ UNCHANGED result

Prepend0(i) == elements' = <<Element(i, 0)>> \o elements /\ UNCHANGED result

Insert(i, k) ==
    elements' = SortedInsertInto(elements, Element(i, k)) /\ UNCHANGED result

RemoveFirst ==
    IF elements = <<>>
    THEN result' = NoItem /\ UNCHANGED elements
    ELSE result' = Head(elements).item /\ elements' = Tail(elements)

RemoveItem(i) ==
    /\ \E n \in 1..Len(elements) : elements[n].item = i
    /\ elements' = WithoutItem(elements, i)
    /\ UNCHANGED result

Next ==
    \/ \E i \in Item : Append0(i) \/ Prepend0(i) \/ RemoveItem(i)
    \/ \E i \in Item, k \in Key : Insert(i, k)
    \/ RemoveFirst

Spec == Init /\ [][Next]_vars

=============================================================================
