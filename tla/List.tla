-------------------------------- MODULE List --------------------------------
(***************************************************************************)
(* class List of threads/list.cc: ListElements in memory, linked by next,  *)
(* with a pointer to the first and to the last one.  Every routine runs    *)
(* under its caller's exclusion (interrupts off, or a lock), so each one   *)
(* is one step.                                                            *)
(***************************************************************************)
EXTENDS Naturals, Sequences, FiniteSets

CONSTANTS Cell,    \* addresses a ListElement can have; also the bound on length
          Item,    \* what a list can hold
          Key,     \* sort keys
          NULL,    \* the null pointer
          NoItem   \* what Remove returns for an empty list

ASSUME CellAssumption == IsFiniteSet(Cell) /\ NULL \notin Cell
ASSUME ItemAssumption == NoItem \notin Item
ASSUME KeyAssumption == Key \subseteq Nat

VARIABLES first, last,      \* List::first, List::last
          next, item, key,  \* the fields of each ListElement
          used,             \* ListElements that are allocated
          numInList,        \* List::numInList
          result            \* what the last removal returned

cells == <<next, item, key, used>>
listVars == <<first, last, cells, numInList, result>>

ListTypeOK ==
    /\ {first, last} \subseteq Cell \cup {NULL}
    /\ next \in [Cell -> Cell \cup {NULL}]
    /\ item \in [Cell -> Item \cup {NoItem}]
    /\ key \in [Cell -> Nat]
    /\ used \subseteq Cell
    /\ numInList \in 0 .. Cardinality(Cell)
    /\ result \in Item \cup {NoItem}

ListInit ==
    /\ first = NULL
    /\ last = NULL
    /\ next = [c \in Cell |-> NULL]
    /\ item = [c \in Cell |-> NoItem]
    /\ key = [c \in Cell |-> 0]
    /\ used = {}
    /\ numInList = 0
    /\ result = NoItem

\* The pointer of a loop over next after n turns, and the elements in the
\* order in which the loop meets them.
Walk[n \in 0 .. Cardinality(Cell)] ==
    IF n = 0 THEN first
    ELSE IF Walk[n - 1] = NULL THEN NULL ELSE next[Walk[n - 1]]
Chain ==
    [n \in 1 .. Cardinality({m \in 0 .. Cardinality(Cell) : Walk[m] # NULL}) |-> Walk[n - 1]]

\* IsEmpty()
IsEmpty == first = NULL

-----------------------------------------------------------------------------
\* The constructor of ListElement, with next left to the caller.
NewElement(c, i, k) ==
    /\ c \in Cell \ used
    /\ used' = used \cup {c}
    /\ item' = [item EXCEPT ![c] = i]
    /\ key' = [key EXCEPT ![c] = k]
    /\ numInList' = numInList + 1
    /\ UNCHANGED result

OnlyElement(c) ==
    /\ first' = c
    /\ last' = c
    /\ next' = [next EXCEPT ![c] = NULL]

AtEnd(c) ==
    /\ next' = [next EXCEPT ![c] = NULL, ![last] = c]
    /\ last' = c
    /\ UNCHANGED first

AtFront(c) ==
    /\ next' = [next EXCEPT ![c] = first]
    /\ first' = c
    /\ UNCHANGED last

After(p, c) ==
    /\ next' = [next EXCEPT ![c] = next[p], ![p] = c]
    /\ UNCHANGED <<first, last>>

\* List::Append
Append0(c, i) ==
    /\ NewElement(c, i, 0)
    /\ IF IsEmpty THEN OnlyElement(c) ELSE AtEnd(c)

\* List::Prepend
Prepend(c, i) ==
    /\ NewElement(c, i, 0)
    /\ IF IsEmpty THEN OnlyElement(c) ELSE AtFront(c)

\* A faulty insertion in front of the elements of the same key.
InsertBeforeEquals(c, i, k) ==
    /\ NewElement(c, i, k)
    /\ \/ IsEmpty /\ OnlyElement(c)
       \/ ~IsEmpty /\ k <= key[first] /\ AtFront(c)
       \/ /\ ~IsEmpty
          /\ k > key[first]
          /\ LET larger == {n \in 2..Len(Chain) : k <= key[Chain[n]]}
             IN  \/ larger = {} /\ AtEnd(c)
                 \/ \E n \in larger :
                      (\A m \in larger : n <= m) /\ After(Chain[n - 1], c)

\* List::SortedInsert: at the front when the key is smaller than the first
\* one, else before the first later element with a larger key, else at the
\* end.
SortedInsert(c, i, k) ==
    /\ NewElement(c, i, k)
    /\ \/ IsEmpty /\ OnlyElement(c)
       \/ ~IsEmpty /\ k < key[first] /\ AtFront(c)
       \/ /\ ~IsEmpty
          /\ k >= key[first]
          /\ LET larger == {n \in 2..Len(Chain) : k < key[Chain[n]]}
             IN  \/ larger = {} /\ AtEnd(c)
                 \/ \E n \in larger :
                      (\A m \in larger : n <= m) /\ After(Chain[n - 1], c)

\* delete element.  The fields of freed memory are wiped: nobody may read
\* them, and the next constructor overwrites them.
Free(c) ==
    /\ used' = used \ {c}
    /\ item' = [item EXCEPT ![c] = NoItem]
    /\ key' = [key EXCEPT ![c] = 0]
    /\ numInList' = numInList - 1

\* The first element is unlinked and freed.
TakeFirst ==
    /\ IF first = last
       THEN first' = NULL /\ last' = NULL
       ELSE first' = next[first] /\ UNCHANGED last
    /\ next' = [next EXCEPT ![first] = NULL]
    /\ Free(first)

\* List::SortedRemove, and Remove() without a key.
SortedRemove ==
    \/ IsEmpty /\ result' = NoItem /\ UNCHANGED <<first, last, cells, numInList>>
    \/ ~IsEmpty /\ result' = item[first] /\ TakeFirst

\* The n-th element is the first one that holds i.
FirstWith(i, n) ==
    /\ n \in 1..Len(Chain)
    /\ item[Chain[n]] = i
    /\ \A m \in 1..n - 1 : item[Chain[m]] # i

\* A faulty Remove(item) that leaves last at the removed element.
RemoveKeepsLast(i) ==
    \E n \in 1..Len(Chain) :
        /\ FirstWith(i, n)
        /\ IF n = 1
           THEN TakeFirst /\ UNCHANGED result
           ELSE /\ next' = [next EXCEPT ![Chain[n - 1]] = next[Chain[n]],
                                         ![Chain[n]] = NULL]
                /\ Free(Chain[n])
                /\ UNCHANGED <<first, last, result>>

\* List::Remove(void *item), for an item that is on the list (the code
\* follows first without a test and asserts that the item was found).
Remove(i) ==
    \E n \in 1..Len(Chain) :
        /\ FirstWith(i, n)
        /\ \/ n = 1 /\ TakeFirst /\ UNCHANGED result
           \/ /\ n > 1
              /\ LET prev == Chain[n - 1]
                     rest == next[Chain[n]]
                 IN  /\ next' = [next EXCEPT ![prev] = rest, ![Chain[n]] = NULL]
                     /\ last' = IF rest = NULL THEN prev ELSE last
              /\ Free(Chain[n])
              /\ UNCHANGED <<first, result>>

ListNext ==
    \/ \E c \in Cell, i \in Item : Append0(c, i) \/ Prepend(c, i)
    \/ \E c \in Cell, i \in Item, k \in Key : SortedInsert(c, i, k)
    \/ SortedRemove
    \/ \E i \in Item : Remove(i)

ListSpec == ListInit /\ [][ListNext]_listVars

-----------------------------------------------------------------------------
(***************************************************************************)
(* Properties.                                                             *)
(***************************************************************************)
\* The pointers stay consistent through every order of calls: last is the
\* end of the chain, the allocated elements are those on the chain (none is
\* leaked or freed while linked), and numInList counts them.
WellLinked ==
    /\ numInList = Len(Chain)
    /\ used = {Chain[n] : n \in 1..Len(Chain)}
    /\ Cardinality(used) = Len(Chain)
    /\ IF IsEmpty THEN last = NULL ELSE last = Chain[Len(Chain)]

\* first, last, next and numInList agree after every operation of the list.
ListInv == ListTypeOK /\ WellLinked

Abs == INSTANCE AbstractList
         WITH elements <- [n \in 1..Len(Chain) |->
                              [item |-> item[Chain[n]], key |-> key[Chain[n]]]]

\* The linked list is the sequence list.h promises: items come off in order,
\* SortedInsert keeps the order of equal keys, and Remove(item) takes one.
ImplementsSequence == Abs!Spec

=============================================================================
