-------------------------- MODULE InterruptProofs --------------------------
(***************************************************************************)
(* The simulated hardware, and the class List that holds its pending       *)
(* interrupts, keep their promises for any set of threads and devices, any *)
(* delays, any length of a tick and any number of list elements.  There    *)
(* are three parts.                                                        *)
(*                                                                         *)
(* Sequences: what inserting into and taking out of a sequence makes.      *)
(*                                                                         *)
(* The linked list of module List.  ListInv is not inductive by itself:    *)
(* a call may only follow next because the cells of the chain are          *)
(* distinct, each one points to the one after it, and the last one to      *)
(* nothing (Linked).  From this the chain after an operation is the one    *)
(* before it with a cell inserted or taken out, and so the operation does  *)
(* to the elements what AbstractList says.                                 *)
(*                                                                         *)
(* The interrupts: the inductive invariant IntInv with one lemma per kind  *)
(* of step, and the theorems that follow from it.  InterruptInv and        *)
(* NoDeviceOverdue are not inductive.  The time of an interrupt is safe    *)
(* only because the list is sorted, so that CheckIfDue may look at its     *)
(* head alone; and the mode is right only because OneTick saves it for a   *)
(* thread that it makes yield, while every other thread off the processor  *)
(* is in the kernel.                                                       *)
(***************************************************************************)
EXTENDS Interrupt, List, SchedulerProofs, FiniteSetTheorems, WellFoundedInduction

-----------------------------------------------------------------------------
\* Every set of natural numbers that has an element has a smallest one.
LEMMA Least ==
    ASSUME NEW S \in SUBSET Nat, S # {}
    PROVE  \E n \in S : \A m \in S : n <= m
<1> DEFINE R == OpToRel(<, Nat)
<1>1. IsWellFoundedOn(R, Nat)
  BY NatLessThanWellFounded
<1>2. \A a, b \in Nat : a < b => <<a, b>> \in R
  BY DEF OpToRel
<1> HIDE DEF R
<1>3. PICK n \in S : \A m \in S : <<m, n>> \notin R
  BY <1>1, WFMin
<1>4. \A m \in S : ~(m < n) /\ m \in Nat /\ n \in Nat
  BY <1>2, <1>3
<1>5. \A m \in S : n <= m
  BY <1>4
<1> QED BY <1>3, <1>5

\* InsertPosition is the number of elements before the first larger key.
LEMMA PositionIs ==
    ASSUME NEW S, NEW s \in Seq(S), NEW k
    PROVE  /\ InsertPosition(s, k) \in 0..Len(s)
           /\ \A i \in 1..InsertPosition(s, k) : s[i].key <= k
           /\ InsertPosition(s, k) < Len(s) => ~(s[InsertPosition(s, k) + 1].key <= k)
<1> DEFINE L == Len(s)
           up == {i \in 1..L : \A j \in 1..i : s[j].key <= k}
           larger == {i \in 1..L : ~(s[i].key <= k)}
<1>0. L \in Nat
  OBVIOUS
<1>1. ASSUME NEW n \in 0..L, up = 1..n PROVE InsertPosition(s, k) = n
  <2>1. n \in Int /\ 1 \in Int
    BY <1>0
  <2>2. Cardinality(1..n) = IF 1 > n THEN 0 ELSE n - 1 + 1
    BY <2>1, FS_Interval
  <2>3. Cardinality(1..n) = n
    BY <1>0, <2>1, <2>2
  <2> QED BY <1>1, <2>3 DEF InsertPosition
<1>2. CASE larger = {}
  <2>1. \A i \in 1..L : s[i].key <= k
    BY <1>2
  <2>2. up = 1..L
    BY <1>0, <2>1
  <2>3. InsertPosition(s, k) = L
    BY <1>0, <1>1, <2>2
  <2> QED BY <1>0, <2>1, <2>3
<1>3. CASE larger # {}
  <2>1. larger \in SUBSET Nat
    BY <1>0
  <2>2. PICK n \in larger : \A m \in larger : n <= m
    BY <1>3, <2>1, Least
  <2>3. n \in 1..L /\ ~(s[n].key <= k) /\ n \in Nat /\ n - 1 \in 0..L
    BY <1>0, <2>2
  <2>4. \A i \in 1..n-1 : i \in 1..L /\ s[i].key <= k
    BY <1>0, <2>2, <2>3
  <2>5. up = 1..n-1
    <3>1. ASSUME NEW i \in up PROVE i \in 1..n-1
      <4>1. i \in 1..L /\ (n \in 1..i => s[n].key <= k)
        OBVIOUS
      <4> QED BY <1>0, <2>3, <4>1
    <3>2. ASSUME NEW i \in 1..n-1 PROVE i \in up
      <4>1. \A j \in 1..i : j \in 1..n-1
        BY <2>3
      <4> QED BY <2>4, <4>1
    <3> QED BY <3>1, <3>2
  <2>6. InsertPosition(s, k) = n - 1
    BY <1>1, <2>3, <2>5
  <2> QED BY <2>3, <2>4, <2>6
<1> QED BY <1>2, <1>3

\* r is s with e inserted behind the first n elements.
Inserted(r, s, n, e) ==
    /\ Len(r) = Len(s) + 1
    /\ \A i \in 1..n : r[i] = s[i]
    /\ r[n + 1] = e
    /\ \A i \in n+1..Len(s) : r[i + 1] = s[i]

\* The sequence that InsertAfter makes.
LEMMA InsertAfterIs ==
    ASSUME NEW S, NEW s \in Seq(S), NEW e \in S, NEW n \in 0..Len(s)
    PROVE  /\ InsertAfter(s, n, e) \in Seq(S)
           /\ Inserted(InsertAfter(s, n, e), s, n, e)
<1> DEFINE L == Len(s)
           a == SubSeq(s, 1, n)
           b == SubSeq(s, n + 1, Len(s))
           m == a \o <<e>>
<1>0. L \in Nat /\ n \in Nat /\ n <= L
  OBVIOUS
<1>1. a \in Seq(S) /\ Len(a) = n /\ \A i \in 1..n : a[i] = s[i]
  BY <1>0
<1>2. b \in Seq(S) /\ Len(b) = L - n /\ \A i \in 1..L-n : b[i] = s[i + n]
  BY <1>0
<1> HIDE DEF a, b
<1>3. /\ m \in Seq(S) /\ Len(m) = n + 1 /\ m[n + 1] = e
      /\ \A i \in 1..n : m[i] = a[i]
  BY <1>0, <1>1
<1> HIDE DEF m
<1>4. /\ m \o b \in Seq(S) /\ Len(m \o b) = L + 1
      /\ \A i \in 1..n+1 : (m \o b)[i] = m[i]
      /\ \A i \in 1..L-n : (m \o b)[i + n + 1] = b[i]
  <2>0. m \o b \in Seq(S) /\ Len(m \o b) = Len(m) + Len(b)
    <3>1. m \in Seq(S) /\ b \in Seq(S)
      BY <1>2, <1>3
    <3> QED BY <3>1
  <2>1. m \o b \in Seq(S) /\ Len(m \o b) = L + 1
    BY <1>0, <1>2, <1>3, <2>0
  <2>2. \A i \in 1..L+1 : (m \o b)[i] = IF i <= n + 1 THEN m[i] ELSE b[i - (n + 1)]
    BY <1>0, <1>2, <1>3
  <2>3. \A i \in 1..n+1 : i \in 1..L+1 /\ i <= n + 1
    BY <1>0
  <2>4. ASSUME NEW i \in 1..L-n PROVE (m \o b)[i + n + 1] = b[i]
    <3>1. /\ i + n + 1 \in 1..L+1 /\ ~(i + n + 1 <= n + 1)
          /\ (i + n + 1) - (n + 1) = i
      BY <1>0
    <3> QED BY <2>2, <3>1
  <2> QED BY <2>1, <2>2, <2>3, <2>4
<1>5. InsertAfter(s, n, e) = m \o b
  BY DEF InsertAfter, m, a, b
<1>6. ASSUME NEW i \in n+1..L PROVE (m \o b)[i + 1] = s[i]
  <2>1. i - n \in 1..L-n /\ (i - n) + n + 1 = i + 1 /\ (i - n) + n = i
    BY <1>0
  <2> QED BY <1>2, <1>4, <2>1
<1>7. \A i \in 1..n : (m \o b)[i] = s[i]
  BY <1>0, <1>1, <1>3, <1>4
<1>8. (m \o b)[n + 1] = e
  BY <1>0, <1>3, <1>4
<1> QED BY <1>4, <1>5, <1>6, <1>7, <1>8 DEF Inserted


\* Where an element of the new sequence was in the old one.
LEMMA InsertedFrom ==
    ASSUME NEW S, NEW s \in Seq(S), NEW n \in 0..Len(s), NEW e, NEW r, Inserted(r, s, n, e),
           NEW i \in 1..Len(r), i # n + 1
    PROVE  \/ i \in 1..n /\ i \in 1..Len(s) /\ r[i] = s[i]
           \/ i - 1 \in n+1..Len(s) /\ i - 1 \in 1..Len(s) /\ r[i] = s[i - 1]
<1> DEFINE L == Len(s)
<1>0. L \in Nat /\ n \in Nat /\ n <= L
  OBVIOUS
<1> HIDE DEF L
<1>1. /\ Len(r) = L + 1
      /\ \A k \in 1..n : r[k] = s[k]
      /\ \A k \in n+1..L : r[k + 1] = s[k]
  BY DEF Inserted, L
<1>2. CASE i <= n
  BY <1>0, <1>1, <1>2 DEF L
<1>3. CASE ~(i <= n)
  <2>1. i - 1 \in n+1..L /\ (i - 1) + 1 = i /\ i - 1 \in 1..L
    BY <1>0, <1>1, <1>3
  <2> QED BY <1>1, <2>1 DEF L
<1> QED BY <1>2, <1>3

\* The new element is added to those of the old sequence, each of which is
\* still there once.
LEMMA InsertedQueue ==
    ASSUME NEW S, NEW s \in Seq(S), NEW n \in 0..Len(s), NEW e, NEW r, Inserted(r, s, n, e)
    PROVE  /\ OnQueue(r) = OnQueue(s) \cup {e}
           /\ QueuedOnce(s) /\ e \notin OnQueue(s) => QueuedOnce(r)
<1> DEFINE L == Len(s)
<1>0. L \in Nat /\ n \in Nat /\ n <= L
  OBVIOUS
<1>1. ASSUME NEW i \in 1..Len(r), i # n + 1
      PROVE  \/ i \in 1..n /\ i \in 1..L /\ r[i] = s[i]
             \/ i - 1 \in n+1..L /\ i - 1 \in 1..L /\ r[i] = s[i - 1]
  BY <1>1, InsertedFrom
<1> HIDE DEF L
<1>2. /\ Len(r) = L + 1 /\ r[n + 1] = e
      /\ \A k \in 1..n : r[k] = s[k]
      /\ \A k \in n+1..L : r[k + 1] = s[k]
  BY DEF Inserted, L
<1>3. OnQueue(r) = OnQueue(s) \cup {e}
  <2>1. ASSUME NEW x \in OnQueue(r) PROVE x \in OnQueue(s) \cup {e}
    <3>1. PICK i \in 1..Len(r) : x = r[i]
      BY DEF OnQueue
    <3> QED BY <1>1, <1>2, <3>1 DEF OnQueue, L
  <2>2. e \in OnQueue(r)
    <3>1. n + 1 \in 1..L+1
      BY <1>0
    <3> QED BY <1>2, <3>1 DEF OnQueue
  <2>3. ASSUME NEW x \in OnQueue(s) PROVE x \in OnQueue(r)
    <3>1. PICK i \in 1..L : x = s[i]
      BY DEF OnQueue, L
    <3>2. CASE i \in 1..n
      <4>1. i \in 1..L+1 /\ r[i] = x
        BY <1>0, <1>2, <3>1, <3>2
      <4> QED BY <1>2, <4>1 DEF OnQueue
    <3>3. CASE i \notin 1..n
      <4>1. i \in n+1..L /\ i + 1 \in 1..L+1
        BY <1>0, <3>3
      <4> QED BY <1>2, <3>1, <4>1 DEF OnQueue
    <3> QED BY <3>2, <3>3
  <2> QED BY <2>1, <2>2, <2>3
<1>4. ASSUME QueuedOnce(s), e \notin OnQueue(s) PROVE QueuedOnce(r)
  <2>1. /\ \A i, j \in 1..L : s[i] = s[j] => i = j
        /\ \A i \in 1..L : s[i] # e
    BY <1>4 DEF QueuedOnce, OnQueue, L
  <2> SUFFICES ASSUME NEW i \in 1..Len(r), NEW j \in 1..Len(r), r[i] = r[j]
               PROVE  i = j
    BY DEF QueuedOnce
  <2>2. CASE i = n + 1 \/ j = n + 1
    <3>1. \A k \in 1..Len(r) : k # n + 1 => r[k] # e
      BY <1>1, <2>1
    <3> QED BY <1>2, <2>2, <3>1
  <2>3. CASE i # n + 1 /\ j # n + 1
    <3>1. \/ i \in 1..n /\ i \in 1..L /\ r[i] = s[i]
          \/ i - 1 \in n+1..L /\ i - 1 \in 1..L /\ r[i] = s[i - 1]
      BY <1>1, <2>3
    <3>2. \/ j \in 1..n /\ j \in 1..L /\ r[j] = s[j]
          \/ j - 1 \in n+1..L /\ j - 1 \in 1..L /\ r[j] = s[j - 1]
      BY <1>1, <2>3
    <3>3. CASE r[i] = s[i] /\ i \in 1..L /\ r[j] = s[j] /\ j \in 1..L
      BY <2>1, <3>3
    <3>4. CASE r[i] = s[i] /\ i \in 1..n /\ i \in 1..L
               /\ r[j] = s[j - 1] /\ j - 1 \in n+1..L /\ j - 1 \in 1..L
      <4>1. i = j - 1
        BY <2>1, <3>4
      <4> QED BY <1>0, <3>4, <4>1
    <3>5. CASE r[i] = s[i - 1] /\ i - 1 \in n+1..L /\ i - 1 \in 1..L
               /\ r[j] = s[j] /\ j \in 1..n /\ j \in 1..L
      <4>1. i - 1 = j
        BY <2>1, <3>5
      <4> QED BY <1>0, <3>5, <4>1
    <3>6. CASE r[i] = s[i - 1] /\ i - 1 \in 1..L /\ r[j] = s[j - 1] /\ j - 1 \in 1..L
      <4>1. i - 1 = j - 1
        BY <2>1, <3>6
      <4> QED BY <1>0, <1>2, <4>1
    <3> QED BY <3>1, <3>2, <3>3, <3>4, <3>5, <3>6
  <2> QED BY <2>2, <2>3
<1> QED BY <1>3, <1>4

\* r is s without its p-th element.
Without(r, s, p) ==
    /\ Len(r) = Len(s) - 1
    /\ \A i \in 1..p-1 : r[i] = s[i]
    /\ \A i \in p..Len(s)-1 : r[i] = s[i + 1]
TakeOut(s, p) == SubSeq(s, 1, p - 1) \o SubSeq(s, p + 1, Len(s))

\* The sequence that WithoutItem makes.
LEMMA TakeOutIs ==
    ASSUME NEW S, NEW s \in Seq(S), NEW p \in 1..Len(s)
    PROVE  TakeOut(s, p) \in Seq(S) /\ Without(TakeOut(s, p), s, p)
<1> DEFINE L == Len(s)
           a == SubSeq(s, 1, p - 1)
           b == SubSeq(s, p + 1, Len(s))
<1>0. L \in Nat /\ p \in Nat /\ 1 <= p /\ p <= L
  OBVIOUS
<1>1. a \in Seq(S) /\ Len(a) = p - 1 /\ \A i \in 1..p-1 : a[i] = s[i]
  BY <1>0
<1>2. b \in Seq(S) /\ Len(b) = L - p /\ \A i \in 1..L-p : b[i] = s[i + p]
  BY <1>0
<1> HIDE DEF a, b
<1>3. a \in Seq(S) /\ b \in Seq(S)
  BY <1>1, <1>2
<1>4. /\ a \o b \in Seq(S) /\ Len(a \o b) = Len(a) + Len(b)
      /\ \A i \in 1..Len(a) + Len(b) :
            (a \o b)[i] = IF i <= Len(a) THEN a[i] ELSE b[i - Len(a)]
  BY <1>3
<1>5. Len(a \o b) = L - 1
  BY <1>0, <1>1, <1>2, <1>4
<1>6. ASSUME NEW i \in 1..p-1 PROVE (a \o b)[i] = s[i]
  <2>1. i \in 1..Len(a) + Len(b) /\ i <= Len(a)
    BY <1>0, <1>1, <1>2
  <2> QED BY <1>1, <1>4, <2>1
<1>7. ASSUME NEW i \in p..L-1 PROVE (a \o b)[i] = s[i + 1]
  <2>1. /\ i \in 1..Len(a) + Len(b) /\ ~(i <= Len(a)) /\ i - Len(a) = i - (p - 1)
        /\ i - (p - 1) \in 1..L-p /\ (i - (p - 1)) + p = i + 1
    BY <1>0, <1>1, <1>2
  <2> QED BY <1>2, <1>4, <2>1
<1>8. TakeOut(s, p) = a \o b
  BY DEF TakeOut, a, b
<1> QED BY <1>4, <1>5, <1>6, <1>7, <1>8 DEF Without

\* Two sequences with the same elements are the same.
LEMMA SameSequence ==
    ASSUME NEW S, NEW a \in Seq(S), NEW b \in Seq(S), Len(a) = Len(b),
           \A i \in 1..Len(a) : a[i] = b[i]
    PROVE  a = b
<1>1. a = [i \in 1..Len(a) |-> a[i]] /\ b = [i \in 1..Len(b) |-> b[i]]
  OBVIOUS
<1> QED BY <1>1

\* Insertions at the ends.
LEMMA InsertAtEnd ==
    ASSUME NEW S, NEW s \in Seq(S), NEW e \in S
    PROVE  InsertAfter(s, Len(s), e) = Append(s, e)
<1> DEFINE L == Len(s)
           a == InsertAfter(s, L, e)
           b == Append(s, e)
<1>0. L \in Nat /\ L \in 0..L
  OBVIOUS
<1>1. a \in Seq(S) /\ Inserted(a, s, L, e)
  BY <1>0, InsertAfterIs
<1> HIDE DEF a
<1>2. a \in Seq(S) /\ Len(a) = L + 1 /\ a[L + 1] = e /\ \A i \in 1..L : a[i] = s[i]
  BY <1>1 DEF Inserted
<1>3. b \in Seq(S) /\ Len(b) = L + 1 /\ b[L + 1] = e /\ \A i \in 1..L : b[i] = s[i]
  OBVIOUS
<1> HIDE DEF b, L
<1>4. ASSUME NEW i \in 1..L+1 PROVE a[i] = b[i]
  <2>1. i = L + 1 \/ i \in 1..L
    BY <1>0
  <2> QED BY <1>2, <1>3, <2>1
<1>5. a = b
  BY <1>2, <1>3, <1>4, SameSequence
<1> QED BY <1>5 DEF a, b, L

\* The same as putting the element in front.
LEMMA InsertAtFront ==
    ASSUME NEW S, NEW s \in Seq(S), NEW e \in S
    PROVE  InsertAfter(s, 0, e) = <<e>> \o s
<1> DEFINE L == Len(s)
           a == InsertAfter(s, 0, e)
           b == <<e>> \o s
<1>0. L \in Nat /\ 0 \in 0..L
  OBVIOUS
<1>1. a \in Seq(S) /\ Inserted(a, s, 0, e)
  BY <1>0, InsertAfterIs
<1> HIDE DEF a
<1>2. a \in Seq(S) /\ Len(a) = L + 1 /\ a[1] = e /\ \A i \in 1..L : a[i + 1] = s[i]
  <2>1. 0 + 1 = 1
    OBVIOUS
  <2> QED BY <1>1, <2>1 DEF Inserted
<1>3. <<e>> \in Seq(S) /\ Len(<<e>>) = 1 /\ <<e>>[1] = e
  OBVIOUS
<1>4. /\ b \in Seq(S) /\ Len(b) = L + 1
      /\ \A i \in 1..L+1 : b[i] = IF i <= 1 THEN <<e>>[i] ELSE s[i - 1]
  BY <1>0, <1>3
<1> HIDE DEF b, L
<1>5. ASSUME NEW i \in 1..L+1 PROVE a[i] = b[i]
  <2>1. CASE i = 1
    BY <1>2, <1>3, <1>4, <2>1
  <2>2. CASE i # 1
    <3>1. i - 1 \in 1..L /\ (i - 1) + 1 = i /\ ~(i <= 1)
      BY <1>0, <2>2
    <3> QED BY <1>2, <1>4, <3>1
  <2> QED BY <2>1, <2>2
<1>6. a = b
  BY <1>2, <1>4, <1>5, SameSequence
<1> QED BY <1>6 DEF a, b

\* Removals.
LEMMA TakeOutFirst ==
    ASSUME NEW S, NEW s \in Seq(S), Len(s) > 0
    PROVE  TakeOut(s, 1) = Tail(s)
<1> DEFINE L == Len(s)
           a == TakeOut(s, 1)
           b == Tail(s)
<1>0. L \in Nat /\ 1 \in 1..L /\ s # <<>>
  OBVIOUS
<1>1. a \in Seq(S) /\ Without(a, s, 1)
  BY <1>0, TakeOutIs
<1> HIDE DEF a
<1>2. a \in Seq(S) /\ Len(a) = L - 1 /\ \A i \in 1..L-1 : a[i] = s[i + 1]
  BY <1>1 DEF Without
<1>3. b \in Seq(S) /\ Len(b) = L - 1 /\ \A i \in 1..L-1 : b[i] = s[i + 1]
  BY <1>0
<1> HIDE DEF b, L
<1>4. a = b
  BY <1>2, <1>3, SameSequence
<1> QED BY <1>4 DEF a, b

\* Remove(item) takes out the first element that holds the item.
LEMMA TakeOutItem ==
    ASSUME NEW s, Len(s) \in Nat, NEW i, NEW n \in 1..Len(s), s[n].item = i,
           \A m \in 1..n - 1 : s[m].item # i
    PROVE  WithoutItem(s, i) = TakeOut(s, n)
<1> DEFINE Good(k) == s[k].item = i /\ \A m \in 1..k - 1 : s[m].item # i
           c == CHOOSE k \in 1..Len(s) : Good(k)
<1>1. c \in 1..Len(s) /\ Good(c)
  OBVIOUS
<1>2. c = n
  <2>1. c \in 1..n-1 \/ n \in 1..c-1 \/ c = n
    BY <1>1
  <2> QED BY <1>1, <2>1
<1>3. WithoutItem(s, i) = TakeOut(s, c)
  BY DEF WithoutItem, TakeOut
<1> QED BY <1>2, <1>3

\* There is only one position behind the last key that is not larger.
LEMMA PositionUnique ==
    ASSUME NEW S, NEW s \in Seq(S), NEW k, NEW p \in 0..Len(s),
           \A i \in 1..p : s[i].key <= k,
           p < Len(s) => ~(s[p + 1].key <= k)
    PROVE  InsertPosition(s, k) = p
<1> DEFINE q == InsertPosition(s, k)
<1>1. /\ q \in 0..Len(s)
      /\ \A i \in 1..q : s[i].key <= k
      /\ q < Len(s) => ~(s[q + 1].key <= k)
  BY PositionIs
<1> HIDE DEF q
<1>2. Len(s) \in Nat
  OBVIOUS
<1>3. ~(q < p)
  <2>1. q < p => q + 1 \in 1..p /\ q < Len(s)
    BY <1>1, <1>2
  <2> QED BY <1>1, <2>1
<1>4. ~(p < q)
  <2>1. p < q => p + 1 \in 1..q /\ p < Len(s)
    BY <1>1, <1>2
  <2> QED BY <1>1, <2>1
<1>5. q = p
  BY <1>1, <1>2, <1>3, <1>4
<1> QED BY <1>5 DEF q

-----------------------------------------------------------------------------
(***************************************************************************)
(* The linked list.  At(s, n) is the n-th cell of s, or the null pointer.  *)
(***************************************************************************)
At(s, n) == IF n \in 1..Len(s) THEN s[n] ELSE NULL

\* The list in memory consists of the cells of s, in this order.
Linked(s) ==
    /\ first = At(s, 1)
    /\ last = At(s, Len(s))
    /\ \A n \in 1..Len(s) : next[s[n]] = At(s, n + 1)
    /\ used = OnQueue(s)
    /\ QueuedOnce(s)
    /\ numInList = Len(s)

\* s has no more cells than there are.
LEMMA LinkedFits ==
    ASSUME NEW s \in Seq(Cell), QueuedOnce(s)
    PROVE  /\ Len(s) <= Cardinality(Cell) /\ Cardinality(Cell) \in Nat
           /\ Cardinality(OnQueue(s)) = Len(s)
<1> DEFINE n == Len(s)
           f == [i \in 1..n |-> s[i]]
<1>0. n \in Nat /\ n \in Int /\ \A i \in 1..n : s[i] \in Cell
  OBVIOUS
<1>1. IsFiniteSet(1..n) /\ Cardinality(1..n) = n
  <2>1. IsFiniteSet(1..n) /\ Cardinality(1..n) = IF 1 > n THEN 0 ELSE n - 1 + 1
    BY <1>0, FS_Interval
  <2> QED BY <1>0, <2>1
<1>2. f \in Injection(1..n, Cell) /\ f \in Bijection(1..n, OnQueue(s))
  BY <1>0 DEF QueuedOnce, OnQueue, Injection, Bijection, Surjection, IsInjective
<1>3. Cardinality(1..n) <= Cardinality(Cell) /\ Cardinality(Cell) \in Nat
  BY <1>2, CellAssumption, FS_Injection, FS_CardinalityType
<1>4. Cardinality(OnQueue(s)) = Cardinality(1..n)
  BY <1>1, <1>2, FS_Bijection DEF ExistsBijection
<1> QED BY <1>1, <1>3, <1>4

\* A loop over next meets the cells of s and then the null pointer.
LEMMA WalkIs ==
    ASSUME NEW s \in Seq(Cell), Linked(s), NEW n \in 0..Cardinality(Cell)
    PROVE  Walk[n] = At(s, n + 1)
<1> DEFINE N == Cardinality(Cell)
           body(w) == [k \in 0..N |-> IF k = 0 THEN first
                                      ELSE IF w[k - 1] = NULL THEN NULL ELSE next[w[k - 1]]]
           g == [k \in 0..N |-> At(s, k + 1)]
           wrong == {k \in 0..N : Walk[k] # g[k]}
<1>0. N \in Nat /\ Len(s) \in Nat /\ \A k \in 1..Len(s) : s[k] \in Cell /\ s[k] # NULL
  BY LinkedFits, CellAssumption DEF Linked
<1>1. ASSUME NEW k \in 1..N, NEW w, w[k - 1] = At(s, k)
      PROVE  (IF w[k - 1] = NULL THEN NULL ELSE next[w[k - 1]]) = At(s, k + 1)
  <2>1. CASE k \in 1..Len(s)
    <3>1. w[k - 1] = s[k] /\ s[k] # NULL
      BY <1>0, <1>1, <2>1 DEF At
    <3> QED BY <2>1, <3>1 DEF Linked
  <2>2. CASE k \notin 1..Len(s)
    <3>1. w[k - 1] = NULL /\ k + 1 \notin 1..Len(s)
      BY <1>0, <1>1, <2>2 DEF At
    <3> QED BY <3>1 DEF At
  <2> QED BY <2>1, <2>2
<1>2. g = body(g)
  <2>1. ASSUME NEW k \in 0..N PROVE g[k] = body(g)[k]
    <3>1. CASE k = 0
      BY <1>0, <3>1 DEF Linked
    <3>2. CASE k # 0
      <4>1. k \in 1..N /\ k - 1 \in 0..N /\ (k - 1) + 1 = k
        BY <1>0, <3>2
      <4>2. g[k - 1] = At(s, k)
        BY <4>1
      <4> HIDE DEF g
      <4>3. body(g)[k] = IF g[k - 1] = NULL THEN NULL ELSE next[g[k - 1]]
        BY <3>2
      <4>4. body(g)[k] = At(s, k + 1)
        BY <1>1, <4>1, <4>2, <4>3
      <4> QED BY <4>4 DEF g
    <3> QED BY <3>1, <3>2
  <2> QED BY <2>1
<1>3. ASSUME NEW w, w = body(w) PROVE Walk = body(Walk)
  BY <1>3 DEF Walk
<1>4. Walk = body(Walk)
  <2> HIDE DEF body, g
  <2> QED BY <1>2, <1>3
<1> HIDE DEF g
<1>5. \A k \in 0..N : Walk[k] = IF k = 0 THEN first
                                ELSE IF Walk[k - 1] = NULL THEN NULL ELSE next[Walk[k - 1]]
  BY <1>4
<1>6. ASSUME wrong # {} PROVE FALSE
  <2>0. wrong \in SUBSET Nat
    BY <1>0
  <2>1. PICK k \in wrong : \A m \in wrong : k <= m
    BY <1>6, <2>0, Least
  <2>2. k \in 0..N /\ Walk[k] # g[k] /\ k \in Nat
    BY <1>0, <2>1
  <2>3. CASE k = 0
    BY <1>0, <1>5, <2>2, <2>3 DEF Linked, g
  <2>4. CASE k # 0
    <3>1. k \in 1..N /\ k - 1 \in 0..N /\ ~(k <= k - 1) /\ (k - 1) + 1 = k
      BY <1>0, <2>2, <2>4
    <3>2. Walk[k - 1] = g[k - 1]
      BY <2>1, <3>1
    <3>3. Walk[k - 1] = At(s, k)
      BY <3>1, <3>2 DEF g
    <3>4. Walk[k] = IF Walk[k - 1] = NULL THEN NULL ELSE next[Walk[k - 1]]
      BY <1>5, <2>2, <2>4
    <3>5. Walk[k] = At(s, k + 1)
      BY <1>1, <3>1, <3>3, <3>4
    <3> QED BY <2>2, <3>5 DEF g
  <2> QED BY <2>3, <2>4
<1> QED BY <1>6 DEF g

\* The chain of the list in memory is s.
LEMMA ChainIs == \A s \in Seq(Cell) : Linked(s) => Chain = s
<1> SUFFICES ASSUME NEW s \in Seq(Cell), Linked(s) PROVE Chain = s
  OBVIOUS
<1> DEFINE N == Cardinality(Cell)
           L == Len(s)
           met == {m \in 0..N : Walk[m] # NULL}
<1>0. N \in Nat /\ L \in Nat /\ L <= N /\ \A k \in 1..L : s[k] \in Cell /\ s[k] # NULL
  BY LinkedFits, CellAssumption DEF Linked
<1>1. \A m \in 0..N : Walk[m] = At(s, m + 1)
  BY WalkIs
<1>2. met = 0..L-1
  <2>1. ASSUME NEW m \in 0..N PROVE Walk[m] # NULL <=> m \in 0..L-1
    <3>1. m + 1 \in 1..L <=> m \in 0..L-1
      BY <1>0
    <3>2. Walk[m] # NULL <=> m + 1 \in 1..L
      BY <1>0, <1>1 DEF At
    <3> QED BY <3>1, <3>2
  <2>2. \A m \in 0..L-1 : m \in 0..N
    BY <1>0
  <2> QED BY <2>1, <2>2
<1>3. Cardinality(met) = L
  <2>1. L - 1 \in Int /\ 0 \in Int
    BY <1>0
  <2>2. Cardinality(0..L-1) = IF 0 > L - 1 THEN 0 ELSE (L - 1) - 0 + 1
    BY <2>1, FS_Interval
  <2>3. Cardinality(0..L-1) = L
    BY <1>0, <2>2
  <2> QED BY <1>2, <2>3
<1>4. Chain = [n \in 1..L |-> Walk[n - 1]]
  BY <1>3 DEF Chain
<1>5. \A n \in 1..L : Walk[n - 1] = s[n]
  <2> SUFFICES ASSUME NEW n \in 1..L PROVE Walk[n - 1] = s[n]
    OBVIOUS
  <2>1. n - 1 \in 0..N /\ (n - 1) + 1 = n
    BY <1>0
  <2>2. Walk[n - 1] = At(s, n)
    BY <1>1, <2>1
  <2> QED BY <2>2 DEF At
<1>6. s = [n \in 1..L |-> s[n]]
  OBVIOUS
<1> QED BY <1>4, <1>5, <1>6

-----------------------------------------------------------------------------
\* A cell is linked in behind the first p cells.
LEMMA LinkIn ==
    ASSUME NEW s \in Seq(Cell), Linked(s), NEW p \in 0..Len(s), NEW c \in Cell \ used,
           next \in [Cell -> Cell \cup {NULL}],
           first' = (IF p = 0 THEN c ELSE first),
           last' = (IF p = Len(s) THEN c ELSE last),
           \A x \in Cell : next'[x] = IF x = c THEN At(s, p + 1)
                                      ELSE IF p > 0 /\ x = s[p] THEN c ELSE next[x],
           used' = used \cup {c}, numInList' = numInList + 1
    PROVE  InsertAfter(s, p, c) \in Seq(Cell) /\ Linked(InsertAfter(s, p, c))'
<1> DEFINE r == InsertAfter(s, p, c)
           L == Len(s)
<1>0. /\ L \in Nat /\ p \in Nat /\ p <= L /\ c \in Cell
      /\ \A n \in 1..L : s[n] \in Cell /\ s[n] # c
      /\ \A n, m \in 1..L : s[n] = s[m] => n = m
      /\ numInList = L
  BY DEF Linked, OnQueue, QueuedOnce
<1>1. r \in Seq(Cell) /\ Inserted(r, s, p, c)
  BY InsertAfterIs
<1> HIDE DEF r
<1>2. /\ Len(r) = L + 1 /\ r[p + 1] = c
      /\ \A n \in 1..p : r[n] = s[n]
      /\ \A n \in p+1..L : r[n + 1] = s[n]
  BY <1>1 DEF Inserted
<1> HIDE DEF L
<1>4. first' = At(r, 1)
  <2>1. 1 \in 1..L+1
    BY <1>0
  <2>2. CASE p = 0
    BY <1>2, <2>1, <2>2 DEF At
  <2>3. CASE p # 0
    <3>1. 1 \in 1..p /\ 1 \in 1..L
      BY <1>0, <2>3
    <3> QED BY <1>2, <2>1, <2>3, <3>1 DEF At, Linked, L
  <2> QED BY <2>2, <2>3
<1>5. last' = At(r, Len(r))
  <2>1. L + 1 \in 1..L+1
    BY <1>0
  <2>2. CASE p = L
    BY <1>2, <2>1, <2>2 DEF At, L
  <2>3. CASE p # L
    <3>1. L \in p+1..L /\ L \in 1..L
      BY <1>0, <2>3
    <3> QED BY <1>2, <2>1, <2>3, <3>1 DEF At, Linked, L
  <2> QED BY <2>2, <2>3
<1>6. ASSUME NEW n \in 1..L+1 PROVE next'[r[n]] = At(r, n + 1)
  <2>1. CASE n = p + 1
    <3>1. next'[r[n]] = At(s, p + 1)
      BY <1>0, <1>2, <2>1
    <3>2. CASE p = L
      <4>1. p + 1 \notin 1..L /\ n + 1 \notin 1..L+1
        BY <1>0, <2>1, <3>2
      <4> QED BY <1>2, <3>1, <4>1 DEF At, L
    <3>3. CASE p # L
      <4>1. p + 1 \in 1..L /\ p + 1 \in p+1..L /\ n + 1 = (p + 1) + 1 /\ n + 1 \in 1..L+1
        BY <1>0, <2>1, <3>3
      <4> QED BY <1>2, <3>1, <4>1 DEF At, L
    <3> QED BY <3>2, <3>3
  <2>2. CASE n = p
    <3>1. p > 0 /\ n \in 1..p /\ n \in 1..L /\ n + 1 \in 1..L+1
      BY <1>0, <2>2
    <3>2. r[n] = s[p] /\ s[p] \in Cell /\ s[p] # c
      BY <1>0, <1>2, <2>2, <3>1
    <3>3. next'[r[n]] = c
      BY <3>1, <3>2
    <3> QED BY <1>2, <2>2, <3>1, <3>3 DEF At
  <2>3. CASE n < p
    <3>1. n \in 1..p /\ n \in 1..L /\ n + 1 \in 1..p /\ n + 1 \in 1..L /\ n + 1 \in 1..L+1
      BY <1>0, <2>3
    <3>2. r[n] = s[n] /\ s[n] \in Cell /\ s[n] # c /\ r[n + 1] = s[n + 1]
      BY <1>0, <1>2, <3>1
    <3>3. p > 0 => s[n] # s[p]
      BY <1>0, <2>3, <3>1
    <3>4. next'[r[n]] = next[s[n]]
      BY <3>2, <3>3
    <3>5. next[s[n]] = At(s, n + 1)
      BY <3>1 DEF Linked, L
    <3> QED BY <1>2, <3>1, <3>2, <3>4, <3>5 DEF At, L
  <2>4. CASE n > p + 1
    <3>1. /\ n - 1 \in p+1..L /\ n - 1 \in 1..L /\ (n - 1) + 1 = n
          /\ (p > 0 => p \in 1..L /\ n - 1 # p)
      BY <1>0, <2>4
    <3>2. r[n] = s[n - 1] /\ s[n - 1] \in Cell /\ s[n - 1] # c
      BY <1>0, <1>2, <3>1
    <3>3. p > 0 => s[n - 1] # s[p]
      BY <1>0, <3>1
    <3>4. next'[r[n]] = next[s[n - 1]]
      BY <3>2, <3>3
    <3>5. next[s[n - 1]] = At(s, n)
      BY <3>1 DEF Linked, L
    <3>6. CASE n \in 1..L
      <4>1. n \in p+1..L /\ n + 1 \in 1..L+1
        BY <1>0, <2>4, <3>6
      <4> QED BY <1>2, <3>4, <3>5, <3>6, <4>1 DEF At, L
    <3>7. CASE n \notin 1..L
      <4>1. n + 1 \notin 1..L+1
        BY <1>0, <3>7
      <4> QED BY <1>2, <3>4, <3>5, <3>7, <4>1 DEF At, L
    <3> QED BY <3>6, <3>7
  <2>5. p \in Nat /\ n \in Nat
    BY <1>0
  <2>6. n < p \/ n = p \/ n = p + 1 \/ n > p + 1
    BY <2>5
  <2> QED BY <2>1, <2>2, <2>3, <2>4, <2>6
<1>7. OnQueue(r) = OnQueue(s) \cup {c} /\ QueuedOnce(r)
  BY <1>1, InsertedQueue DEF Linked
<1>9. numInList' = Len(r)
  BY <1>0, <1>2
<1>10. used' = OnQueue(r)
  BY <1>7 DEF Linked
<1>11. \A n \in 1..Len(r) : next'[r[n]] = At(r, n + 1)
  BY <1>2, <1>6
<1>12. Linked(r)'
  BY <1>4, <1>5, <1>7, <1>9, <1>10, <1>11 DEF Linked
<1> QED BY <1>1, <1>12 DEF r

\* The p-th cell is unlinked.
LEMMA LinkOut ==
    ASSUME NEW s \in Seq(Cell), Linked(s), NEW p \in 1..Len(s),
           next \in [Cell -> Cell \cup {NULL}],
           first' = (IF p = 1 THEN At(s, 2) ELSE first),
           last' = (IF p = Len(s) THEN At(s, p - 1) ELSE last),
           \A x \in Cell : next'[x] = IF x = s[p] THEN NULL
                                      ELSE IF p > 1 /\ x = s[p - 1] THEN At(s, p + 1)
                                      ELSE next[x],
           used' = used \ {s[p]}, numInList' = numInList - 1
    PROVE  TakeOut(s, p) \in Seq(Cell) /\ Linked(TakeOut(s, p))'
<1> DEFINE r == TakeOut(s, p)
           L == Len(s)
<1>0. /\ L \in Nat /\ p \in Nat /\ p <= L /\ 1 <= p /\ L - 1 \in Nat
      /\ \A n \in 1..L : s[n] \in Cell
      /\ \A n, m \in 1..L : s[n] = s[m] => n = m
      /\ numInList = L
  BY DEF Linked, QueuedOnce
<1>1. r \in Seq(Cell) /\ Without(r, s, p)
  BY TakeOutIs
<1> HIDE DEF r
<1>2. /\ Len(r) = L - 1
      /\ \A n \in 1..p-1 : r[n] = s[n]
      /\ \A n \in p..L-1 : r[n] = s[n + 1]
  BY <1>1 DEF Without
<1> HIDE DEF L
<1>3. ASSUME NEW n \in 1..L-1
      PROVE  \/ n \in 1..p-1 /\ n \in 1..L /\ r[n] = s[n]
             \/ n \in p..L-1 /\ n + 1 \in 1..L /\ r[n] = s[n + 1]
  BY <1>0, <1>2
<1>4. first' = At(r, 1)
  <2>1. CASE p = 1
    <3>1. 1 \in 1..L-1 <=> 2 \in 1..L
      BY <1>0
    <3>2. 1 \in 1..L-1 => r[1] = s[2]
      BY <1>2, <2>1
    <3> QED BY <1>2, <2>1, <3>1, <3>2 DEF At, L
  <2>2. CASE p # 1
    <3>1. 1 \in 1..p-1 /\ 1 \in 1..L /\ 1 \in 1..L-1
      BY <1>0, <2>2
    <3> QED BY <1>2, <2>2, <3>1 DEF At, Linked, L
  <2> QED BY <2>1, <2>2
<1>5. last' = At(r, Len(r))
  <2>1. CASE p = L
    <3>1. p - 1 \in 1..L <=> L - 1 \in 1..L-1
      BY <1>0, <2>1
    <3>2. L - 1 \in 1..L-1 => r[L - 1] = s[p - 1]
      <4>1. L - 1 \in 1..L-1 => L - 1 \in 1..p-1 /\ L - 1 = p - 1
        BY <1>0, <2>1
      <4> QED BY <1>2, <4>1
    <3> QED BY <1>2, <2>1, <3>1, <3>2 DEF At, L
  <2>2. CASE p # L
    <3>1. L - 1 \in p..L-1 /\ L - 1 \in 1..L-1 /\ (L - 1) + 1 = L /\ L \in 1..L
      BY <1>0, <2>2
    <3> QED BY <1>2, <2>2, <3>1 DEF At, Linked, L
  <2> QED BY <2>1, <2>2
<1>6. ASSUME NEW n \in 1..L-1 PROVE next'[r[n]] = At(r, n + 1)
  <2>0. n \in Nat
    BY <1>0
  <2>1. CASE n < p - 1
    <3>1. /\ n \in 1..p-1 /\ n \in 1..L /\ n + 1 \in 1..p-1 /\ n + 1 \in 1..L /\ n + 1 \in 1..L-1
          /\ n # p /\ p \in 1..L /\ n # p - 1 /\ p - 1 \in 1..L
      BY <1>0, <2>0, <2>1
    <3>2. r[n] = s[n] /\ r[n + 1] = s[n + 1] /\ s[n] # s[p] /\ s[n] # s[p - 1] /\ s[n] \in Cell
      BY <1>0, <1>2, <3>1
    <3>3. next'[r[n]] = next[s[n]]
      BY <3>2
    <3>4. next[s[n]] = At(s, n + 1)
      BY <3>1 DEF Linked, L
    <3> QED BY <1>2, <3>1, <3>2, <3>3, <3>4 DEF At, L
  <2>2. CASE n = p - 1
    <3>1. n \in 1..p-1 /\ n \in 1..L /\ p > 1 /\ p \in 1..L /\ n # p
      BY <1>0, <2>0, <2>2
    <3>2. r[n] = s[p - 1] /\ s[p - 1] # s[p] /\ s[p - 1] \in Cell
      BY <1>0, <1>2, <2>2, <3>1
    <3>3. next'[r[n]] = At(s, p + 1)
      BY <3>1, <3>2
    <3>4. n + 1 = p /\ (p \in 1..L-1 <=> p + 1 \in 1..L) /\ (p \in 1..L-1 => p \in p..L-1)
      BY <1>0, <2>2
    <3>5. p \in 1..L-1 => r[p] = s[p + 1]
      BY <1>2, <3>4
    <3>6. At(r, p) = IF p \in 1..L-1 THEN r[p] ELSE NULL
      BY <1>2 DEF At
    <3>7. At(s, p + 1) = IF p + 1 \in 1..L THEN s[p + 1] ELSE NULL
      BY DEF At, L
    <3> QED BY <3>3, <3>4, <3>5, <3>6, <3>7
  <2>3. CASE n > p - 1
    <3>1. /\ n \in p..L-1 /\ n + 1 \in 1..L /\ n + 1 # p /\ p \in 1..L
          /\ (p > 1 => p - 1 \in 1..L /\ n + 1 # p - 1)
      BY <1>0, <2>0, <2>3
    <3>2. r[n] = s[n + 1] /\ s[n + 1] # s[p] /\ s[n + 1] \in Cell
      BY <1>0, <1>2, <3>1
    <3>3. p > 1 => s[n + 1] # s[p - 1]
      BY <1>0, <3>1
    <3>4. next'[r[n]] = next[s[n + 1]]
      BY <3>2, <3>3
    <3>5. next[s[n + 1]] = At(s, (n + 1) + 1)
      BY <3>1 DEF Linked, L
    <3>6. /\ (n + 1 \in 1..L-1 <=> (n + 1) + 1 \in 1..L)
          /\ (n + 1 \in 1..L-1 => n + 1 \in p..L-1)
      BY <1>0, <2>0, <2>3
    <3>7. n + 1 \in 1..L-1 => r[n + 1] = s[(n + 1) + 1]
      BY <1>2, <3>6
    <3>8. At(r, n + 1) = IF n + 1 \in 1..L-1 THEN r[n + 1] ELSE NULL
      BY <1>2 DEF At
    <3>9. At(s, (n + 1) + 1) = IF (n + 1) + 1 \in 1..L THEN s[(n + 1) + 1] ELSE NULL
      BY DEF At, L
    <3> QED BY <3>4, <3>5, <3>6, <3>7, <3>8, <3>9
  <2>4. n < p - 1 \/ n = p - 1 \/ n > p - 1
    BY <1>0, <2>0
  <2> QED BY <2>1, <2>2, <2>3, <2>4
<1>7. QueuedOnce(r)
  <2> SUFFICES ASSUME NEW n \in 1..L-1, NEW m \in 1..L-1, r[n] = r[m]
               PROVE  n = m
    BY <1>2 DEF QueuedOnce
  <2>1. \/ n \in 1..p-1 /\ n \in 1..L /\ r[n] = s[n]
        \/ n \in p..L-1 /\ n + 1 \in 1..L /\ r[n] = s[n + 1]
    BY <1>3
  <2>2. \/ m \in 1..p-1 /\ m \in 1..L /\ r[m] = s[m]
        \/ m \in p..L-1 /\ m + 1 \in 1..L /\ r[m] = s[m + 1]
    BY <1>3
  <2>3. CASE n \in 1..p-1 /\ n \in 1..L /\ r[n] = s[n]
             /\ m \in p..L-1 /\ m + 1 \in 1..L /\ r[m] = s[m + 1]
    <3>1. n = m + 1
      BY <1>0, <2>3
    <3> QED BY <1>0, <2>3, <3>1
  <2>4. CASE m \in 1..p-1 /\ m \in 1..L /\ r[m] = s[m]
             /\ n \in p..L-1 /\ n + 1 \in 1..L /\ r[n] = s[n + 1]
    <3>1. m = n + 1
      BY <1>0, <2>4
    <3> QED BY <1>0, <2>4, <3>1
  <2>5. CASE n \in 1..L /\ r[n] = s[n] /\ m \in 1..L /\ r[m] = s[m]
    BY <1>0, <2>5
  <2>6. CASE n + 1 \in 1..L /\ r[n] = s[n + 1] /\ m + 1 \in 1..L /\ r[m] = s[m + 1]
    <3>1. n + 1 = m + 1
      BY <1>0, <2>6
    <3> QED BY <1>0, <3>1
  <2> QED BY <2>1, <2>2, <2>3, <2>4, <2>5, <2>6
<1>8. OnQueue(r) = OnQueue(s) \ {s[p]}
  <2>1. ASSUME NEW x \in OnQueue(r) PROVE x \in OnQueue(s) \ {s[p]}
    <3>1. PICK n \in 1..L-1 : x = r[n]
      BY <1>2 DEF OnQueue
    <3>2. PICK m \in 1..L : x = s[m] /\ m # p
      <4>1. CASE n \in 1..p-1 /\ n \in 1..L /\ r[n] = s[n]
        <5>1. n # p
          BY <1>0, <4>1
        <5> QED BY <3>1, <4>1, <5>1
      <4>2. CASE n \in p..L-1 /\ n + 1 \in 1..L /\ r[n] = s[n + 1]
        <5>1. n + 1 # p
          BY <1>0, <4>2
        <5> QED BY <3>1, <4>2, <5>1
      <4> QED BY <1>3, <4>1, <4>2
    <3>3. p \in 1..L
      BY DEF L
    <3> QED BY <1>0, <3>2, <3>3 DEF OnQueue, L
  <2>2. ASSUME NEW x \in OnQueue(s), x # s[p] PROVE x \in OnQueue(r)
    <3>1. PICK m \in 1..L : x = s[m]
      BY DEF OnQueue, L
    <3>2. m # p
      BY <2>2, <3>1
    <3>3. PICK n \in 1..L-1 : r[n] = s[m]
      <4>1. CASE m < p
        <5>1. m \in 1..p-1 /\ m \in 1..L-1
          BY <1>0, <4>1
        <5> QED BY <1>2, <5>1
      <4>2. CASE ~(m < p)
        <5>1. m - 1 \in p..L-1 /\ m - 1 \in 1..L-1 /\ (m - 1) + 1 = m
          BY <1>0, <3>2, <4>2
        <5> QED BY <1>2, <5>1
      <4> QED BY <4>1, <4>2
    <3> QED BY <1>2, <3>1, <3>3 DEF OnQueue
  <2> QED BY <2>1, <2>2
<1>9. numInList' = Len(r)
  BY <1>0, <1>2
<1>10. used' = OnQueue(r)
  BY <1>8 DEF Linked
<1>11. \A n \in 1..Len(r) : next'[r[n]] = At(r, n + 1)
  BY <1>2, <1>6
<1>12. Linked(r)'
  BY <1>4, <1>5, <1>7, <1>9, <1>10, <1>11 DEF Linked
<1> QED BY <1>1, <1>12 DEF r

-----------------------------------------------------------------------------
(***************************************************************************)
(* What the cells of s hold.                                               *)
(***************************************************************************)
El(s) == [n \in 1..Len(s) |-> [item |-> item[s[n]], key |-> key[s[n]]]]
ListElement == [item : Item \cup {NoItem}, key : Nat]
FieldsOK == item \in [Cell -> Item \cup {NoItem}] /\ key \in [Cell -> Nat]

\* One element per cell.
LEMMA ElementsOf ==
    ASSUME NEW s \in Seq(Cell), FieldsOK
    PROVE  /\ El(s) \in Seq(ListElement) /\ Len(El(s)) = Len(s)
           /\ \A n \in 1..Len(s) : El(s)[n] = [item |-> item[s[n]], key |-> key[s[n]]]
<1>1. Len(s) \in Nat /\ \A n \in 1..Len(s) : s[n] \in Cell
  OBVIOUS
<1>2. \A n \in 1..Len(s) : [item |-> item[s[n]], key |-> key[s[n]]] \in ListElement
  BY <1>1 DEF FieldsOK, ListElement
<1> QED BY <1>1, <1>2 DEF El

\* The fields that the constructor of ListElement sets.
Stored(c, i, k) == item' = [item EXCEPT ![c] = i] /\ key' = [key EXCEPT ![c] = k]

\* An element is added where its cell is linked in ...
LEMMA ElementIn ==
    ASSUME NEW s \in Seq(Cell), FieldsOK, NEW p \in 0..Len(s), NEW c \in Cell \ OnQueue(s),
           NEW i \in Item, NEW k \in Nat, Stored(c, i, k)
    PROVE  El(InsertAfter(s, p, c))' = InsertAfter(El(s), p, Element(i, k))
<1> DEFINE r == InsertAfter(s, p, c)
           e == Element(i, k)
           q == InsertAfter(El(s), p, e)
           L == Len(s)
<1>0. /\ El(s) \in Seq(ListElement) /\ Len(El(s)) = L
      /\ \A n \in 1..L : El(s)[n] = [item |-> item[s[n]], key |-> key[s[n]]]
  BY ElementsOf
<1>1. e \in ListElement /\ e = [item |-> i, key |-> k]
  BY DEF Element, ListElement
<1>2. L \in Nat /\ p \in Nat /\ p <= L /\ \A n \in 1..L : s[n] \in Cell /\ s[n] # c
  BY DEF OnQueue
<1>3. r \in Seq(Cell) /\ Inserted(r, s, p, c)
  BY InsertAfterIs
<1>4. q \in Seq(ListElement) /\ Inserted(q, El(s), p, e)
  <2> HIDE DEF e
  <2> QED BY <1>0, <1>1, InsertAfterIs
<1> HIDE DEF r, q, e, L
<1>5. /\ Len(r) = L + 1 /\ r[p + 1] = c
      /\ \A n \in 1..p : r[n] = s[n]
      /\ \A n \in p+1..L : r[n + 1] = s[n]
  BY <1>3 DEF Inserted, L
<1>6. /\ Len(q) = L + 1 /\ q[p + 1] = e
      /\ \A n \in 1..p : q[n] = El(s)[n]
      /\ \A n \in p+1..L : q[n + 1] = El(s)[n]
  BY <1>0, <1>4 DEF Inserted
<1>7. \A n \in 1..L : item'[s[n]] = item[s[n]] /\ key'[s[n]] = key[s[n]]
  BY <1>2 DEF FieldsOK, Stored
<1>8. item'[c] = i /\ key'[c] = k
  BY DEF FieldsOK, Stored
<1>9. ASSUME NEW n \in 1..L+1 PROVE [item |-> item'[r[n]], key |-> key'[r[n]]] = q[n]
  <2>1. CASE n = p + 1
    BY <1>1, <1>5, <1>6, <1>8, <2>1
  <2>2. CASE n \in 1..p
    <3>1. n \in 1..L
      BY <1>2, <2>2
    <3>2. r[n] = s[n] /\ q[n] = El(s)[n]
      BY <1>5, <1>6, <2>2
    <3> QED BY <1>0, <1>7, <3>1, <3>2
  <2>3. CASE n # p + 1 /\ n \notin 1..p
    <3>1. n - 1 \in p+1..L /\ n - 1 \in 1..L /\ (n - 1) + 1 = n
      BY <1>2, <2>3
    <3> QED BY <1>0, <1>5, <1>6, <1>7, <3>1
  <2> QED BY <2>1, <2>2, <2>3
<1>10. El(r)' = [n \in 1..L+1 |-> [item |-> item'[r[n]], key |-> key'[r[n]]]]
  BY <1>5 DEF El
<1>11. q = [n \in 1..L+1 |-> q[n]]
  BY <1>4, <1>6
<1>12. El(r)' = q
  BY <1>9, <1>10, <1>11
<1> QED BY <1>12 DEF r, q, e

\* ... and taken out where it is unlinked.
LEMMA ElementOut ==
    ASSUME NEW s \in Seq(Cell), QueuedOnce(s), FieldsOK, NEW p \in 1..Len(s),
           item' = [item EXCEPT ![s[p]] = NoItem], key' = [key EXCEPT ![s[p]] = 0]
    PROVE  El(TakeOut(s, p))' = TakeOut(El(s), p)
<1> DEFINE r == TakeOut(s, p)
           q == TakeOut(El(s), p)
           L == Len(s)
<1>0. /\ El(s) \in Seq(ListElement) /\ Len(El(s)) = L
      /\ \A n \in 1..L : El(s)[n] = [item |-> item[s[n]], key |-> key[s[n]]]
  BY ElementsOf
<1>1. /\ L \in Nat /\ p \in Nat /\ p <= L /\ 1 <= p /\ p \in 1..L
      /\ \A n \in 1..L : s[n] \in Cell /\ (n # p => s[n] # s[p])
  BY DEF QueuedOnce
<1>2. r \in Seq(Cell) /\ Without(r, s, p)
  BY TakeOutIs
<1>3. q \in Seq(ListElement) /\ Without(q, El(s), p)
  BY <1>0, TakeOutIs
<1> HIDE DEF r, q, L
<1>4. /\ Len(r) = L - 1
      /\ \A n \in 1..p-1 : r[n] = s[n]
      /\ \A n \in p..L-1 : r[n] = s[n + 1]
  BY <1>2 DEF Without, L
<1>5. /\ Len(q) = L - 1
      /\ \A n \in 1..p-1 : q[n] = El(s)[n]
      /\ \A n \in p..L-1 : q[n] = El(s)[n + 1]
  BY <1>0, <1>3 DEF Without
<1>6. \A n \in 1..L : n # p => item'[s[n]] = item[s[n]] /\ key'[s[n]] = key[s[n]]
  BY <1>1 DEF FieldsOK
<1>7. ASSUME NEW n \in 1..L-1 PROVE [item |-> item'[r[n]], key |-> key'[r[n]]] = q[n]
  <2>1. CASE n \in 1..p-1
    <3>1. n \in 1..L /\ n # p
      BY <1>1, <2>1
    <3> QED BY <1>0, <1>4, <1>5, <1>6, <2>1, <3>1
  <2>2. CASE n \notin 1..p-1
    <3>1. n \in p..L-1 /\ n + 1 \in 1..L /\ n + 1 # p
      BY <1>1, <2>2
    <3> QED BY <1>0, <1>4, <1>5, <1>6, <3>1
  <2> QED BY <2>1, <2>2
<1>8. El(r)' = [n \in 1..L-1 |-> [item |-> item'[r[n]], key |-> key'[r[n]]]]
  BY <1>4 DEF El
<1>9. q = [n \in 1..L-1 |-> q[n]]
  BY <1>3, <1>5
<1>10. El(r)' = q
  BY <1>7, <1>8, <1>9
<1> QED BY <1>10 DEF r, q

-----------------------------------------------------------------------------
(***************************************************************************)
(* The inductive invariant, and the operations.                            *)
(***************************************************************************)
\* The list in memory is a chain of distinct cells, exactly the allocated ones.
LinkInv == ListTypeOK /\ Chain \in Seq(Cell) /\ Linked(Chain)

\* The same after a step.
LEMMA ChainIsPrimed == (\A s \in Seq(Cell) : Linked(s) => Chain = s)'
BY ChainIs, PTL

\* The chain depends on first and next only.
LEMMA ChainSame ==
    ASSUME UNCHANGED <<first, next>>
    PROVE  Chain' = Chain
BY DEF Chain, Walk

\* Cells that are linked after a step are the chain after the step.
LEMMA ChainIsNext ==
    ASSUME NEW s \in Seq(Cell), Linked(s)'
    PROVE  Chain' = s
<1> QED BY ChainIsPrimed

\* The pointers after cell c was linked in behind p cells.
LinksIn(p, c) ==
    /\ next' \in [Cell -> Cell \cup {NULL}]
    /\ first' = (IF p = 0 THEN c ELSE first)
    /\ last' = (IF p = Len(Chain) THEN c ELSE last)
    /\ \A x \in Cell : next'[x] = IF x = c THEN At(Chain, p + 1)
                                  ELSE IF p > 0 /\ x = Chain[p] THEN c ELSE next[x]

\* The pointers after the p-th cell was taken out.
LinksOut(p) ==
    /\ next' \in [Cell -> Cell \cup {NULL}]
    /\ first' = (IF p = 1 THEN At(Chain, 2) ELSE first)
    /\ last' = (IF p = Len(Chain) THEN At(Chain, p - 1) ELSE last)
    /\ \A x \in Cell : next'[x] = IF x = Chain[p] THEN NULL
                                  ELSE IF p > 1 /\ x = Chain[p - 1] THEN At(Chain, p + 1)
                                  ELSE next[x]

\* An insertion keeps the invariant and adds its element at its place.
LEMMA InsertStep ==
    ASSUME LinkInv, NEW p \in 0..Len(Chain), NEW c, NEW i \in Item, NEW k \in Nat,
           NewElement(c, i, k), LinksIn(p, c)
    PROVE  LinkInv' /\ El(Chain)' = InsertAfter(El(Chain), p, Element(i, k))
<1> PICK s \in Seq(Cell) : s = Chain
  BY DEF LinkInv
<1> DEFINE r == InsertAfter(s, p, c)
<1>1. /\ c \in Cell \ used /\ used' = used \cup {c} /\ numInList' = numInList + 1
      /\ item' = [item EXCEPT ![c] = i] /\ key' = [key EXCEPT ![c] = k]
      /\ UNCHANGED result /\ p \in 0..Len(s)
  BY DEF NewElement
<1>2. /\ Linked(s) /\ FieldsOK /\ used = OnQueue(s)
      /\ next \in [Cell -> Cell \cup {NULL}] /\ ListTypeOK
  BY DEF LinkInv, Linked, ListTypeOK, FieldsOK
<1>3. r \in Seq(Cell) /\ Linked(r)'
  BY <1>1, <1>2, LinkIn DEF LinksIn
<1>4. El(r)' = InsertAfter(El(s), p, Element(i, k))
  <2>1. c \in Cell \ OnQueue(s) /\ FieldsOK /\ Stored(c, i, k) /\ p \in 0..Len(s)
    BY <1>1, <1>2 DEF Stored
  <2> QED BY <2>1, ElementIn
<1> HIDE DEF r
<1>5. Chain' = r
  BY <1>3, ChainIsNext
<1>6. numInList' \in 0..Cardinality(Cell)
  <2>1. numInList' = Len(r) /\ QueuedOnce(r) /\ Len(r) \in Nat
    BY <1>3 DEF Linked
  <2>2. Len(r) <= Cardinality(Cell) /\ Cardinality(Cell) \in Nat
    BY <1>3, <2>1, LinkedFits
  <2> QED BY <2>1, <2>2
<1>7. {first', last'} \subseteq Cell \cup {NULL}
  BY <1>1, <1>2 DEF LinksIn, ListTypeOK
<1>8. ListTypeOK'
  BY <1>1, <1>2, <1>6, <1>7 DEF LinksIn, ListTypeOK
<1>9. El(Chain)' = El(r)'
  BY <1>5 DEF El
<1>10. Linked(Chain)'
  BY <1>3, <1>5 DEF Linked
<1> QED BY <1>3, <1>4, <1>5, <1>8, <1>9, <1>10 DEF LinkInv

\* A removal keeps the invariant and takes out its element.
LEMMA RemoveStep ==
    ASSUME LinkInv, NEW p \in 1..Len(Chain), Free(Chain[p]), LinksOut(p),
           result' \in Item \cup {NoItem}
    PROVE  LinkInv' /\ El(Chain)' = TakeOut(El(Chain), p)
<1> PICK s \in Seq(Cell) : s = Chain
  BY DEF LinkInv
<1> DEFINE r == TakeOut(s, p)
<1>1. /\ used' = used \ {s[p]} /\ numInList' = numInList - 1
      /\ item' = [item EXCEPT ![s[p]] = NoItem] /\ key' = [key EXCEPT ![s[p]] = 0]
      /\ p \in 1..Len(s)
  BY DEF Free
<1>2. /\ Linked(s) /\ FieldsOK /\ used = OnQueue(s) /\ QueuedOnce(s)
      /\ next \in [Cell -> Cell \cup {NULL}] /\ ListTypeOK
      /\ \A n \in 1..Len(s) : s[n] \in Cell
  BY DEF LinkInv, Linked, ListTypeOK, FieldsOK
<1>3. r \in Seq(Cell) /\ Linked(r)'
  BY <1>1, <1>2, LinkOut DEF LinksOut
<1>4. El(r)' = TakeOut(El(s), p)
  BY <1>1, <1>2, ElementOut
<1> HIDE DEF r
<1>5. Chain' = r
  BY <1>3, ChainIsNext
<1>6. numInList' \in 0..Cardinality(Cell)
  <2>1. numInList' = Len(r) /\ QueuedOnce(r) /\ Len(r) \in Nat
    BY <1>3 DEF Linked
  <2>2. Len(r) <= Cardinality(Cell) /\ Cardinality(Cell) \in Nat
    BY <1>3, <2>1, LinkedFits
  <2> QED BY <2>1, <2>2
<1>7. {first', last'} \subseteq Cell \cup {NULL}
  BY <1>1, <1>2 DEF LinksOut, ListTypeOK, At
<1>8. ListTypeOK'
  BY <1>1, <1>2, <1>6, <1>7 DEF LinksOut, ListTypeOK
<1>9. El(Chain)' = El(r)'
  BY <1>5 DEF El
<1>10. Linked(Chain)'
  BY <1>3, <1>5 DEF Linked
<1> QED BY <1>3, <1>4, <1>5, <1>8, <1>9, <1>10 DEF LinkInv

-----------------------------------------------------------------------------
\* How the pointers lie.
LEMMA Shape ==
    ASSUME LinkInv
    PROVE  /\ Len(Chain) \in Nat
           /\ \A n \in 1..Len(Chain) : /\ Chain[n] \in Cell /\ Chain[n] # NULL /\ Chain[n] \in used
                                       /\ next[Chain[n]] = At(Chain, n + 1)
           /\ \A n, m \in 1..Len(Chain) : Chain[n] = Chain[m] => n = m
           /\ IsEmpty <=> Len(Chain) = 0
           /\ Len(Chain) > 0 => first = Chain[1] /\ last = Chain[Len(Chain)]
           /\ next \in [Cell -> Cell \cup {NULL}]
<1> PICK s \in Seq(Cell) : s = Chain
  BY DEF LinkInv
<1>1. Linked(s) /\ next \in [Cell -> Cell \cup {NULL}]
  BY DEF LinkInv, ListTypeOK
<1>2. Len(s) \in Nat /\ \A n \in 1..Len(s) : s[n] \in Cell /\ s[n] # NULL
  BY CellAssumption
<1>3. Len(s) > 0 => 1 \in 1..Len(s) /\ Len(s) \in 1..Len(s)
  BY <1>2
<1>4. /\ \A n \in 1..Len(s) : s[n] \in used /\ next[s[n]] = At(s, n + 1)
      /\ \A n, m \in 1..Len(s) : s[n] = s[m] => n = m
      /\ first = At(s, 1) /\ last = At(s, Len(s))
  BY <1>1 DEF Linked, OnQueue, QueuedOnce
<1>5. Len(s) > 0 => first = s[1] /\ last = s[Len(s)]
  BY <1>3, <1>4 DEF At
<1>6. Len(s) = 0 => first = NULL
  BY <1>4 DEF At
<1>7. IsEmpty <=> Len(s) = 0
  BY <1>2, <1>3, <1>5, <1>6 DEF IsEmpty
<1> QED BY <1>1, <1>2, <1>4, <1>5, <1>7

\* OnlyElement, AtEnd, AtFront and After link a new cell in where they should.
LEMMA LinkOnly ==
    ASSUME LinkInv, NEW c \in Cell \ used, IsEmpty, OnlyElement(c)
    PROVE  Len(Chain) = 0 /\ LinksIn(0, c)
<1>1. Len(Chain) = 0 /\ next \in [Cell -> Cell \cup {NULL}]
  BY Shape
<1>2. At(Chain, 0 + 1) = NULL
  BY <1>1 DEF At
<1> QED BY <1>1, <1>2 DEF OnlyElement, LinksIn

\* AtEnd links behind the last cell.
LEMMA LinkEnd ==
    ASSUME LinkInv, NEW c \in Cell \ used, ~IsEmpty, AtEnd(c)
    PROVE  LinksIn(Len(Chain), c)
<1> DEFINE L == Len(Chain)
<1>1. /\ L \in Nat /\ L > 0 /\ L # 0 /\ L \in 1..L /\ next \in [Cell -> Cell \cup {NULL}]
      /\ last = Chain[L] /\ Chain[L] \in Cell /\ Chain[L] # c
  BY Shape
<1>2. At(Chain, L + 1) = NULL
  BY <1>1 DEF At
<1>3. next' = [next EXCEPT ![c] = NULL, ![last] = c] /\ last' = c /\ first' = first
  BY DEF AtEnd
<1> HIDE DEF L
<1>4. next' \in [Cell -> Cell \cup {NULL}]
  BY <1>1, <1>3
<1>5. ASSUME NEW x \in Cell
      PROVE  next'[x] = IF x = c THEN NULL ELSE IF x = Chain[L] THEN c ELSE next[x]
  BY <1>1, <1>3
<1>6. \A x \in Cell : next'[x] = IF x = c THEN At(Chain, L + 1)
                                 ELSE IF L > 0 /\ x = Chain[L] THEN c ELSE next[x]
  BY <1>1, <1>2, <1>5
<1> QED BY <1>1, <1>3, <1>4, <1>6 DEF LinksIn, L

\* AtFront links before the first cell.
LEMMA LinkFront ==
    ASSUME LinkInv, NEW c \in Cell \ used, ~IsEmpty, AtFront(c)
    PROVE  LinksIn(0, c)
<1>1. /\ Len(Chain) # 0 /\ 1 \in 1..Len(Chain) /\ next \in [Cell -> Cell \cup {NULL}]
      /\ first = Chain[1] /\ Chain[1] \in Cell
  BY Shape
<1>2. At(Chain, 0 + 1) = first
  BY <1>1 DEF At
<1> QED BY <1>1, <1>2 DEF AtFront, LinksIn

\* After links between two cells.
LEMMA LinkAfter ==
    ASSUME LinkInv, NEW c \in Cell \ used, NEW n \in 2..Len(Chain), After(Chain[n - 1], c)
    PROVE  LinksIn(n - 1, c)
<1> DEFINE L == Len(Chain)
           q == Chain[n - 1]
<1>1. /\ L \in Nat /\ n - 1 \in 1..L /\ n - 1 # L /\ n - 1 # 0 /\ n - 1 > 0 /\ (n - 1) + 1 = n
      /\ next \in [Cell -> Cell \cup {NULL}]
  <2>1. L \in Nat /\ next \in [Cell -> Cell \cup {NULL}] /\ n \in 2..L
    BY Shape
  <2> QED BY <2>1
<1>2. q \in Cell /\ q # c /\ next[q] = At(Chain, n)
  BY <1>1, Shape
<1>3. next' = [next EXCEPT ![c] = next[q], ![q] = c] /\ last' = last /\ first' = first
  BY DEF After
<1> HIDE DEF q, L
<1>4. next' \in [Cell -> Cell \cup {NULL}]
  BY <1>1, <1>2, <1>3
<1>5. ASSUME NEW x \in Cell
      PROVE  next'[x] = IF x = c THEN At(Chain, n) ELSE IF x = q THEN c ELSE next[x]
  BY <1>1, <1>2, <1>3
<1>6. \A x \in Cell : next'[x] = IF x = c THEN At(Chain, (n - 1) + 1)
                                 ELSE IF n - 1 > 0 /\ x = Chain[n - 1] THEN c ELSE next[x]
  BY <1>1, <1>5 DEF q
<1> QED BY <1>1, <1>3, <1>4, <1>6 DEF LinksIn, L

\* TakeFirst unlinks the first cell, and last with it when it is the only one.
LEMMA UnlinkFirst ==
    ASSUME LinkInv, ~IsEmpty, TakeFirst
    PROVE  1 \in 1..Len(Chain) /\ Free(Chain[1]) /\ LinksOut(1)
<1> DEFINE L == Len(Chain)
<1>1. /\ L \in Nat /\ 1 \in 1..L /\ L \in 1..L /\ next \in [Cell -> Cell \cup {NULL}]
      /\ first = Chain[1] /\ last = Chain[L] /\ Chain[1] \in Cell
      /\ next[Chain[1]] = At(Chain, 1 + 1) /\ (Chain[1] = Chain[L] => 1 = L)
  <2>1. L \in Nat /\ L > 0 /\ 1 \in 1..L /\ L \in 1..L
    BY Shape
  <2>2. /\ next \in [Cell -> Cell \cup {NULL}] /\ first = Chain[1] /\ last = Chain[L]
        /\ Chain[1] \in Cell /\ next[Chain[1]] = At(Chain, 1 + 1)
    BY <2>1, Shape
  <2>3. Chain[1] = Chain[L] => 1 = L
    BY <2>1, Shape
  <2> QED BY <2>1, <2>2, <2>3
<1> HIDE DEF L
<1>2. /\ next' = [next EXCEPT ![first] = NULL] /\ Free(first)
      /\ first = last => first' = NULL /\ last' = NULL
      /\ first # last => first' = next[first] /\ last' = last
  BY DEF TakeFirst
<1>3. first' = At(Chain, 2) /\ last' = IF 1 = L THEN At(Chain, 1 - 1) ELSE last
  <2>1. CASE L = 1
    <3>1. At(Chain, 2) = NULL /\ At(Chain, 1 - 1) = NULL
      BY <2>1 DEF At, L
    <3> QED BY <1>1, <1>2, <2>1, <3>1
  <2>2. CASE L # 1
    BY <1>1, <1>2, <2>2
  <2> QED BY <2>1, <2>2
<1>4. next' \in [Cell -> Cell \cup {NULL}]
  BY <1>1, <1>2
<1>5. \A x \in Cell : next'[x] = IF x = Chain[1] THEN NULL ELSE next[x]
  BY <1>1, <1>2
<1>6. ~(1 > 1)
  OBVIOUS
<1> QED BY <1>1, <1>2, <1>3, <1>4, <1>5, <1>6 DEF LinksOut, L

\* Remove unlinks a later cell, and moves last back when it was the last one.
LEMMA UnlinkLater ==
    ASSUME LinkInv, NEW n \in 1..Len(Chain), n > 1,
           next' = [next EXCEPT ![Chain[n - 1]] = next[Chain[n]], ![Chain[n]] = NULL],
           last' = IF next[Chain[n]] = NULL THEN Chain[n - 1] ELSE last,
           UNCHANGED first
    PROVE  LinksOut(n)
<1> DEFINE L == Len(Chain)
           a == Chain[n - 1]
           b == Chain[n]
<1>0. L \in Nat /\ n - 1 \in 1..L /\ n \in 1..L /\ n # n - 1 /\ n # 1
  BY Shape
<1>1. next \in [Cell -> Cell \cup {NULL}] /\ a \in Cell /\ b \in Cell /\ a # b
  BY <1>0, Shape
<1>2. next[b] = At(Chain, n + 1)
  BY Shape
<1>3. At(Chain, n + 1) = NULL <=> n = L
  <2>1. n + 1 \in 1..L <=> n # L
    BY <1>0
  <2>2. n + 1 \in 1..L => Chain[n + 1] # NULL
    BY Shape
  <2> QED BY <2>1, <2>2 DEF At
<1>4. a = At(Chain, n - 1)
  BY <1>0 DEF At
<1> HIDE DEF a, b, L
<1>5. /\ next' = [next EXCEPT ![a] = next[b], ![b] = NULL]
      /\ last' = IF next[b] = NULL THEN a ELSE last
  BY DEF a, b
<1>6. next' \in [Cell -> Cell \cup {NULL}]
  BY <1>1, <1>5
<1>7. ASSUME NEW x \in Cell
      PROVE  next'[x] = IF x = b THEN NULL ELSE IF x = a THEN next[b] ELSE next[x]
  BY <1>1, <1>5
<1>8. \A x \in Cell : next'[x] = IF x = Chain[n] THEN NULL
                                 ELSE IF n > 1 /\ x = Chain[n - 1] THEN At(Chain, n + 1)
                                 ELSE next[x]
  BY <1>2, <1>7 DEF a, b
<1>9. last' = IF n = L THEN At(Chain, n - 1) ELSE last
  BY <1>2, <1>3, <1>4, <1>5
<1> QED BY <1>0, <1>6, <1>8, <1>9 DEF LinksOut, L

-----------------------------------------------------------------------------
(***************************************************************************)
(* Each operation keeps the invariant and does to the elements what the    *)
(* abstract list does.                                                     *)
(***************************************************************************)
\* The elements of the chain.
LEMMA ElementsTyped ==
    ASSUME LinkInv
    PROVE  /\ El(Chain) \in Seq(ListElement) /\ Len(El(Chain)) = Len(Chain) /\ Len(Chain) \in Nat
           /\ \A n \in 1..Len(Chain) :
                /\ El(Chain)[n].item = item[Chain[n]] /\ El(Chain)[n].key = key[Chain[n]]
                /\ item[Chain[n]] \in Item \cup {NoItem} /\ key[Chain[n]] \in Nat
<1> PICK s \in Seq(Cell) : s = Chain
  BY DEF LinkInv
<1>1. FieldsOK
  BY DEF LinkInv, ListTypeOK, FieldsOK
<1>2. Len(s) \in Nat /\ \A n \in 1..Len(s) : s[n] \in Cell
  OBVIOUS
<1>3. /\ El(s) \in Seq(ListElement) /\ Len(El(s)) = Len(s)
      /\ \A n \in 1..Len(s) : El(s)[n] = [item |-> item[s[n]], key |-> key[s[n]]]
  BY <1>1, ElementsOf
<1>4. \A n \in 1..Len(s) : El(s)[n].item = item[s[n]] /\ El(s)[n].key = key[s[n]]
  <2> SUFFICES ASSUME NEW n \in 1..Len(s)
               PROVE  El(s)[n].item = item[s[n]] /\ El(s)[n].key = key[s[n]]
    OBVIOUS
  <2>1. El(s)[n] = [item |-> item[s[n]], key |-> key[s[n]]]
    BY <1>3
  <2> QED BY <2>1
<1>5. \A n \in 1..Len(s) : item[s[n]] \in Item \cup {NoItem} /\ key[s[n]] \in Nat
  BY <1>1, <1>2 DEF FieldsOK
<1> QED BY <1>2, <1>3, <1>4, <1>5

\* A new element.
LEMMA ElementTyped ==
    ASSUME NEW i \in Item, NEW k \in Nat
    PROVE  Element(i, k) \in ListElement /\ Element(i, k).key = k
BY DEF Element, ListElement

\* What the abstract list does, in the words of this module.
AbsAppend(i) == El(Chain)' = Append(El(Chain), Element(i, 0)) /\ result' = result
AbsPrepend(i) == El(Chain)' = <<Element(i, 0)>> \o El(Chain) /\ result' = result
AbsInsert(i, k) ==
    /\ El(Chain)' = InsertAfter(El(Chain), InsertPosition(El(Chain), k), Element(i, k))
    /\ result' = result
AbsFirst ==
    IF El(Chain) = <<>>
    THEN result' = NoItem /\ El(Chain)' = El(Chain)
    ELSE result' = Head(El(Chain)).item /\ El(Chain)' = Tail(El(Chain))
AbsItem(i) ==
    /\ \E n \in 1..Len(El(Chain)) : El(Chain)[n].item = i
    /\ El(Chain)' = WithoutItem(El(Chain), i)
    /\ result' = result

\* List::Append.
LEMMA AppendStep ==
    ASSUME LinkInv, NEW c \in Cell, NEW i \in Item, Append0(c, i)
    PROVE  LinkInv' /\ AbsAppend(i)
<1>1. NewElement(c, i, 0) /\ c \in Cell \ used /\ result' = result /\ 0 \in Nat
  BY DEF Append0, NewElement
<1>2. LinksIn(Len(Chain), c)
  <2>1. CASE IsEmpty
    BY <1>1, <2>1, LinkOnly DEF Append0
  <2>2. CASE ~IsEmpty
    BY <1>1, <2>2, LinkEnd DEF Append0
  <2> QED BY <2>1, <2>2
<1>3. /\ Len(Chain) \in 0..Len(Chain) /\ Len(El(Chain)) = Len(Chain)
      /\ El(Chain) \in Seq(ListElement)
  BY ElementsTyped
<1>4. LinkInv' /\ El(Chain)' = InsertAfter(El(Chain), Len(Chain), Element(i, 0))
  BY <1>1, <1>2, <1>3, InsertStep
<1>5. InsertAfter(El(Chain), Len(Chain), Element(i, 0)) = Append(El(Chain), Element(i, 0))
  <2>1. Element(i, 0) \in ListElement
    BY <1>1, ElementTyped
  <2>2. InsertAfter(El(Chain), Len(El(Chain)), Element(i, 0)) = Append(El(Chain), Element(i, 0))
    BY <1>3, <2>1, InsertAtEnd
  <2> QED BY <1>3, <2>2
<1> QED BY <1>1, <1>4, <1>5 DEF AbsAppend

\* List::Prepend.
LEMMA PrependStep ==
    ASSUME LinkInv, NEW c \in Cell, NEW i \in Item, Prepend(c, i)
    PROVE  LinkInv' /\ AbsPrepend(i)
<1>1. NewElement(c, i, 0) /\ c \in Cell \ used /\ result' = result /\ 0 \in Nat
  BY DEF Prepend, NewElement
<1>2. LinksIn(0, c)
  <2>1. CASE IsEmpty
    BY <1>1, <2>1, LinkOnly DEF Prepend
  <2>2. CASE ~IsEmpty
    BY <1>1, <2>2, LinkFront DEF Prepend
  <2> QED BY <2>1, <2>2
<1>3. 0 \in 0..Len(Chain) /\ El(Chain) \in Seq(ListElement)
  BY ElementsTyped
<1>4. LinkInv' /\ El(Chain)' = InsertAfter(El(Chain), 0, Element(i, 0))
  BY <1>1, <1>2, <1>3, InsertStep
<1>5. InsertAfter(El(Chain), 0, Element(i, 0)) = <<Element(i, 0)>> \o El(Chain)
  <2>1. Element(i, 0) \in ListElement
    BY <1>1, ElementTyped
  <2> QED BY <1>3, <2>1, InsertAtFront
<1> QED BY <1>1, <1>4, <1>5 DEF AbsPrepend

\* List::SortedInsert: the loop stops at the only position that keeps the order
\* and puts the element behind those of the same key.
LEMMA SortedInsertStep ==
    ASSUME LinkInv, NEW c \in Cell, NEW i \in Item, NEW k \in Key, SortedInsert(c, i, k)
    PROVE  LinkInv' /\ AbsInsert(i, k)
<1> DEFINE L == Len(Chain)
           larger == {n \in 2..L : k < key[Chain[n]]}
<1>1. NewElement(c, i, k) /\ c \in Cell \ used /\ result' = result /\ k \in Nat
  BY KeyAssumption DEF SortedInsert, NewElement
<1>2. /\ El(Chain) \in Seq(ListElement) /\ Len(El(Chain)) = L /\ L \in Nat
      /\ \A n \in 1..L : El(Chain)[n].key = key[Chain[n]] /\ key[Chain[n]] \in Nat
      /\ ~IsEmpty => L > 0 /\ first = Chain[1]
      /\ IsEmpty => L = 0
  BY ElementsTyped, Shape
<1>3. PICK p \in 0..L : /\ LinksIn(p, c)
                        /\ \A n \in 1..p : key[Chain[n]] <= k
                        /\ p < L => ~(key[Chain[p + 1]] <= k)
  <2>1. CASE IsEmpty
    <3>1. OnlyElement(c)
      BY <2>1 DEF SortedInsert
    <3>2. L = 0 /\ LinksIn(0, c)
      BY <1>1, <2>1, <3>1, LinkOnly
    <3>3. \A n \in 1..0 : key[Chain[n]] <= k
      OBVIOUS
    <3> QED BY <3>2, <3>3
  <2>2. CASE ~IsEmpty /\ k < key[first]
    <3>1. AtFront(c)
      <4>1. ~(k >= key[first])
        BY <1>1, <1>2, <2>2
      <4> QED BY <2>2, <4>1 DEF SortedInsert
    <3>2. LinksIn(0, c)
      BY <1>1, <2>2, <3>1, LinkFront
    <3>3. 1 \in 1..L /\ 0 + 1 = 1 /\ ~(key[Chain[0 + 1]] <= k)
      BY <1>1, <1>2, <2>2
    <3>4. \A n \in 1..0 : key[Chain[n]] <= k
      OBVIOUS
    <3> QED BY <1>2, <3>2, <3>3, <3>4
  <2>3. CASE ~IsEmpty /\ ~(k < key[first])
    <3>0. key[Chain[1]] <= k /\ L > 0
      BY <1>1, <1>2, <2>3
    <3>1. \/ larger = {} /\ AtEnd(c)
          \/ \E n \in larger : (\A m \in larger : n <= m) /\ After(Chain[n - 1], c)
      BY <2>3 DEF SortedInsert
    <3>2. CASE larger = {} /\ AtEnd(c)
      <4>1. LinksIn(L, c)
        BY <1>1, <2>3, <3>2, LinkEnd
      <4>2. ASSUME NEW n \in 1..L PROVE key[Chain[n]] <= k
        <5>1. n = 1 \/ n \in 2..L
          BY <1>2
        <5>2. n \in 2..L => ~(k < key[Chain[n]])
          BY <3>2
        <5> QED BY <1>1, <1>2, <3>0, <5>1, <5>2
      <4>3. L \in 0..L /\ ~(L < L)
        BY <1>2
      <4> QED BY <4>1, <4>2, <4>3
    <3>3. CASE \E n \in larger : (\A m \in larger : n <= m) /\ After(Chain[n - 1], c)
      <4>1. PICK n \in larger : (\A m \in larger : n <= m) /\ After(Chain[n - 1], c)
        BY <3>3
      <4>2. /\ n \in 2..Len(Chain) /\ k < key[Chain[n]]
            /\ n \in 1..L /\ n - 1 \in 0..L /\ (n - 1) + 1 = n
        BY <1>2
      <4>3. LinksIn(n - 1, c)
        BY <1>1, <4>1, <4>2, LinkAfter
      <4>4. ASSUME NEW m \in 1..n-1 PROVE key[Chain[m]] <= k
        <5>1. m \in 1..L /\ ~(n <= m) /\ (m = 1 \/ m \in 2..L)
          BY <1>2, <4>2
        <5>2. m \in 2..L => ~(k < key[Chain[m]])
          BY <4>1, <5>1
        <5> QED BY <1>1, <1>2, <3>0, <5>1, <5>2
      <4>5. ~(key[Chain[(n - 1) + 1]] <= k)
        BY <1>1, <1>2, <4>2
      <4> QED BY <4>2, <4>3, <4>4, <4>5
    <3> QED BY <3>1, <3>2, <3>3
  <2> QED BY <2>1, <2>2, <2>3
<1>4. LinkInv' /\ El(Chain)' = InsertAfter(El(Chain), p, Element(i, k))
  BY <1>1, <1>3, InsertStep
<1>5. InsertPosition(El(Chain), k) = p
  <2>1. \A n \in 1..p : n \in 1..L
    BY <1>2
  <2>2. p < L => p + 1 \in 1..L
    BY <1>2
  <2>3. /\ \A n \in 1..p : El(Chain)[n].key <= k
        /\ p < Len(El(Chain)) => ~(El(Chain)[p + 1].key <= k)
        /\ p \in 0..Len(El(Chain))
    BY <1>2, <1>3, <2>1, <2>2
  <2> QED BY <1>2, <2>3, PositionUnique
<1> QED BY <1>1, <1>4, <1>5 DEF AbsInsert

\* List::SortedRemove and List::Remove().
LEMMA SortedRemoveStep ==
    ASSUME LinkInv, SortedRemove
    PROVE  LinkInv' /\ AbsFirst
<1>1. /\ El(Chain) \in Seq(ListElement) /\ Len(El(Chain)) = Len(Chain) /\ Len(Chain) \in Nat
      /\ 1 \in 1..Len(Chain) => /\ El(Chain)[1].item = item[Chain[1]]
                                /\ item[Chain[1]] \in Item \cup {NoItem}
  BY ElementsTyped
<1>2. CASE IsEmpty
  <2>1. Len(Chain) = 0
    BY <1>2, Shape
  <2>2. El(Chain) = <<>>
    BY <1>1, <2>1
  <2>3. result' = NoItem /\ UNCHANGED <<first, last, cells, numInList>>
    BY <1>2 DEF SortedRemove
  <2>4. Chain' = Chain
    BY <2>3, ChainSame DEF cells
  <2>5. LinkInv' /\ El(Chain)' = El(Chain)
    <3>1. El(Chain)' = El(Chain)
      BY <2>3, <2>4 DEF cells, El
    <3>2. Linked(Chain)'
      BY <2>3, <2>4 DEF LinkInv, Linked, cells
    <3>3. ListTypeOK'
      BY <2>3 DEF LinkInv, ListTypeOK, cells
    <3> QED BY <2>4, <3>1, <3>2, <3>3 DEF LinkInv
  <2> QED BY <2>2, <2>3, <2>5 DEF AbsFirst
<1>3. CASE ~IsEmpty
  <2>1. TakeFirst /\ result' = item[first]
    BY <1>3 DEF SortedRemove
  <2>2. 1 \in 1..Len(Chain) /\ Free(Chain[1]) /\ LinksOut(1)
    BY <1>3, <2>1, UnlinkFirst
  <2>3. first = Chain[1] /\ Len(Chain) > 0
    BY <1>3, Shape
  <2>4. result' = El(Chain)[1].item /\ result' \in Item \cup {NoItem}
    BY <1>1, <2>1, <2>2, <2>3
  <2>5. LinkInv' /\ El(Chain)' = TakeOut(El(Chain), 1)
    BY <2>2, <2>4, RemoveStep
  <2>6. TakeOut(El(Chain), 1) = Tail(El(Chain))
    BY <1>1, <2>3, TakeOutFirst
  <2>7. El(Chain) # <<>> /\ Head(El(Chain)) = El(Chain)[1]
    BY <1>1, <2>3
  <2> QED BY <2>4, <2>5, <2>6, <2>7 DEF AbsFirst
<1> QED BY <1>2, <1>3

\* List::Remove(item).
LEMMA RemoveItemStep ==
    ASSUME LinkInv, NEW i \in Item, Remove(i)
    PROVE  LinkInv' /\ AbsItem(i)
<1>0. PICK n \in 1..Len(Chain) :
        /\ FirstWith(i, n)
        /\ \/ n = 1 /\ TakeFirst /\ UNCHANGED result
           \/ /\ n > 1
              /\ LET prev == Chain[n - 1]
                     rest == next[Chain[n]]
                 IN  /\ next' = [next EXCEPT ![prev] = rest, ![Chain[n]] = NULL]
                     /\ last' = IF rest = NULL THEN prev ELSE last
              /\ Free(Chain[n])
              /\ UNCHANGED <<first, result>>
  BY DEF Remove
<1>1. result' = result /\ result \in Item \cup {NoItem}
  BY <1>0 DEF LinkInv, ListTypeOK
<1>2. Free(Chain[n]) /\ LinksOut(n)
  <2>1. CASE n = 1 /\ TakeFirst
    <3>1. ~IsEmpty
      BY <2>1, Shape
    <3> QED BY <2>1, <3>1, UnlinkFirst
  <2>2. CASE ~(n = 1 /\ TakeFirst)
    BY <1>0, <2>2, UnlinkLater
  <2> QED BY <2>1, <2>2
<1>3. LinkInv' /\ El(Chain)' = TakeOut(El(Chain), n)
  BY <1>1, <1>2, RemoveStep
<1>4. /\ Len(El(Chain)) = Len(Chain) /\ Len(Chain) \in Nat
      /\ \A m \in 1..Len(Chain) : El(Chain)[m].item = item[Chain[m]]
  BY ElementsTyped
<1>5. El(Chain)[n].item = i /\ \A m \in 1..n-1 : El(Chain)[m].item # i
  <2>1. \A m \in 1..n-1 : m \in 1..Len(Chain)
    BY <1>4
  <2> QED BY <1>0, <1>4, <2>1 DEF FirstWith
<1>6. WithoutItem(El(Chain), i) = TakeOut(El(Chain), n)
  BY <1>4, <1>5, TakeOutItem
<1> QED BY <1>1, <1>3, <1>4, <1>5, <1>6 DEF AbsItem

-----------------------------------------------------------------------------
\* The empty list.
LEMMA LinkInvInit == ListInit => LinkInv /\ El(Chain) = <<>>
<1> SUFFICES ASSUME ListInit PROVE LinkInv /\ El(Chain) = <<>>
  OBVIOUS
<1>1. << >> \in Seq(Cell) /\ Len(<< >>) = 0
  OBVIOUS
<1>2. Cardinality(Cell) \in Nat
  BY CellAssumption, FS_CardinalityType
<1>3. ListTypeOK
  BY <1>2 DEF ListInit, ListTypeOK
<1>4. OnQueue(<< >>) = {} /\ QueuedOnce(<< >>)
  BY DEF OnQueue, QueuedOnce
<1>5. Linked(<< >>)
  BY <1>4 DEF ListInit, Linked, At
<1>6. Chain = << >>
  BY <1>1, <1>5, ChainIs
<1>7. El(Chain) = <<>>
  BY <1>6 DEF El
<1> QED BY <1>1, <1>3, <1>5, <1>6, <1>7 DEF LinkInv

\* Every operation keeps the invariant.
LEMMA LinkInvStep ==
    LinkInv /\ [ListNext]_listVars => LinkInv'
<1> SUFFICES ASSUME LinkInv, [ListNext]_listVars PROVE LinkInv'
  OBVIOUS
<1>1. ASSUME NEW c \in Cell, NEW i \in Item, Append0(c, i) PROVE LinkInv'
  BY <1>1, AppendStep
<1>2. ASSUME NEW c \in Cell, NEW i \in Item, Prepend(c, i) PROVE LinkInv'
  BY <1>2, PrependStep
<1>3. ASSUME NEW c \in Cell, NEW i \in Item, NEW k \in Key, SortedInsert(c, i, k)
      PROVE  LinkInv'
  BY <1>3, SortedInsertStep
<1>4. CASE SortedRemove
  BY <1>4, SortedRemoveStep
<1>5. ASSUME NEW i \in Item, Remove(i) PROVE LinkInv'
  BY <1>5, RemoveItemStep
<1>6. CASE UNCHANGED listVars
  <2>1. Chain' = Chain
    BY <1>6, ChainSame DEF listVars, cells
  <2>2. Linked(Chain)' /\ ListTypeOK'
    BY <1>6, <2>1 DEF LinkInv, Linked, ListTypeOK, listVars, cells
  <2> QED BY <2>1, <2>2 DEF LinkInv
<1> QED BY <1>1, <1>2, <1>3, <1>4, <1>5, <1>6 DEF ListNext

\* The cells of a list are always linked in one chain.
LEMMA LinkInvariant == ListSpec => []LinkInv
<1>1. ListInit => LinkInv
  BY LinkInvInit
<1> QED BY <1>1, LinkInvStep, PTL DEF ListSpec

\* The invariant implies what the run checks.
LEMMA LinkInvIsListInv == LinkInv => ListInv
<1> SUFFICES ASSUME LinkInv PROVE ListInv
  OBVIOUS
<1> PICK s \in Seq(Cell) : s = Chain
  BY DEF LinkInv
<1>1. Linked(s) /\ ListTypeOK
  BY DEF LinkInv
<1>2. Cardinality(OnQueue(s)) = Len(s)
  BY <1>1, LinkedFits DEF Linked
<1>3. /\ numInList = Len(s) /\ used = {s[n] : n \in 1..Len(s)}
      /\ Cardinality(used) = Len(s)
  BY <1>1, <1>2 DEF Linked, OnQueue
<1>4. IF IsEmpty THEN last = NULL ELSE last = s[Len(s)]
  <2>1. (IsEmpty <=> Len(s) = 0) /\ Len(s) \in Nat /\ (Len(s) > 0 => last = s[Len(s)])
    BY Shape
  <2>2. Len(s) = 0 => last = NULL
    BY <1>1 DEF Linked, At
  <2> QED BY <2>1, <2>2
<1> QED BY <1>1, <1>3, <1>4 DEF ListInv, WellLinked

\* first, last, next and numInList of class List agree after any sequence of
\* operations, for any number of cells: no element is leaked, freed while it
\* is linked, or counted twice.
THEOREM ListSafe == ListSpec => []ListInv
BY LinkInvariant, LinkInvIsListInv, PTL

\* A step of the linked list is a step of the abstract list.
LEMMA AbsStep ==
    LinkInv /\ [ListNext]_listVars => [Abs!Next]_(Abs!vars)
<1> SUFFICES ASSUME LinkInv, [ListNext]_listVars PROVE [Abs!Next]_(Abs!vars)
  OBVIOUS
<1> DEFINE es == [n \in 1..Len(Chain) |-> [item |-> item[Chain[n]], key |-> key[Chain[n]]]]
<1>e. El(Chain) = es /\ El(Chain)' = es'
  BY DEF El
<1>1. ASSUME NEW c \in Cell, NEW i \in Item, Append0(c, i) PROVE Abs!Append0(i)
  BY <1>e, <1>1, AppendStep DEF AbsAppend, Abs!Append0, Element, Abs!Element
<1>2. ASSUME NEW c \in Cell, NEW i \in Item, Prepend(c, i) PROVE Abs!Prepend0(i)
  BY <1>e, <1>2, PrependStep DEF AbsPrepend, Abs!Prepend0, Element, Abs!Element
<1>3. ASSUME NEW c \in Cell, NEW i \in Item, NEW k \in Key, SortedInsert(c, i, k)
      PROVE  Abs!Insert(i, k)
  <2>1. AbsInsert(i, k)
    BY <1>3, SortedInsertStep
  <2>2. Abs!Element(i, k).key = k /\ Abs!Element(i, k) = Element(i, k)
    BY DEF Element, Abs!Element
  <2> HIDE DEF es
  <2>3. Abs!InsertPosition(es, k) = InsertPosition(es, k)
    <3>1. ASSUME NEW T PROVE Abs!Cardinality(T) = Cardinality(T)
      BY DEF Cardinality, Abs!Cardinality
    <3> QED BY <3>1 DEF InsertPosition, Abs!InsertPosition
  <2>4. \A n : Abs!InsertAfter(es, n, Element(i, k)) = InsertAfter(es, n, Element(i, k))
    BY DEF InsertAfter, Abs!InsertAfter
  <2>5. Abs!SortedInsertInto(es, Abs!Element(i, k)) =
          InsertAfter(es, InsertPosition(es, k), Element(i, k))
    BY <2>2, <2>3, <2>4 DEF Abs!SortedInsertInto
  <2>6. es' = Abs!SortedInsertInto(es, Abs!Element(i, k)) /\ result' = result
    BY <1>e, <2>1, <2>5 DEF AbsInsert
  <2> QED BY <2>6 DEF Abs!Insert, es
<1>4. CASE SortedRemove
  <2>1. AbsFirst
    BY <1>4, SortedRemoveStep
  <2> QED BY <1>e, <2>1 DEF AbsFirst, Abs!Next, Abs!RemoveFirst
<1>5. ASSUME NEW i \in Item, Remove(i) PROVE Abs!RemoveItem(i)
  <2>1. AbsItem(i)
    BY <1>5, RemoveItemStep
  <2>2. Abs!WithoutItem(es, i) = WithoutItem(es, i)
    BY DEF WithoutItem, Abs!WithoutItem
  <2> HIDE DEF es
  <2>3. /\ \E n \in 1..Len(es) : es[n].item = i
        /\ es' = Abs!WithoutItem(es, i) /\ result' = result
    BY <1>e, <2>1, <2>2 DEF AbsItem
  <2> QED BY <2>3 DEF Abs!RemoveItem, es
<1>6. CASE UNCHANGED listVars
  <2>1. Chain' = Chain
    BY <1>6, ChainSame DEF listVars, cells
  <2> QED BY <1>6, <2>1 DEF listVars, cells, Abs!vars
<1> QED BY <1>1, <1>2, <1>3, <1>4, <1>5, <1>6 DEF ListNext, Abs!Next

\* class List implements the sequence that list.h promises: elements come off
\* in order, SortedInsert keeps equal keys in the order of their insertion,
\* and Remove(item) takes exactly the first element with that item.
THEOREM ListRefinement == ListSpec => ImplementsSequence
<1>1. ListInit => Abs!Init
  BY LinkInvInit DEF ListInit, Abs!Init, El
<1> QED BY <1>1, AbsStep, LinkInvariant, PTL DEF ListSpec, ImplementsSequence, Abs!Spec

-----------------------------------------------------------------------------
\* The list of pending interrupts: sorted by time, one of each type at most.
PendingInterrupt == [item : Device \cup {Timer}, key : Nat]
ItemsOnce(s) == \A i, j \in 1..Len(s) : s[i].item = s[j].item => i = j
PendingOK(s) == s \in Seq(PendingInterrupt) /\ Sorted(s) /\ ItemsOnce(s)

\* List::SortedInsert keeps the order and adds one element.
LEMMA InsertPending ==
    ASSUME NEW s, PendingOK(s), NEW e \in PendingInterrupt,
           \A x \in OnQueue(s) : x.item # e.item
    PROVE  /\ PendingOK(SortedInsertInto(s, e))
           /\ OnQueue(SortedInsertInto(s, e)) = OnQueue(s) \cup {e}
<1> DEFINE L == Len(s)
           n == InsertPosition(s, e.key)
           r == SortedInsertInto(s, e)
<1>0. /\ s \in Seq(PendingInterrupt) /\ L \in Nat
      /\ \A i \in 1..L : s[i] \in PendingInterrupt /\ s[i].key \in Nat
      /\ e.key \in Nat
  <2>1. s \in Seq(PendingInterrupt)
    BY DEF PendingOK
  <2>2. L \in Nat /\ \A i \in 1..L : s[i] \in PendingInterrupt
    BY <2>1
  <2>3. \A x \in PendingInterrupt : x.key \in Nat
    BY DEF PendingInterrupt
  <2> QED BY <2>1, <2>2, <2>3
<1>1. /\ n \in 0..L /\ \A i \in 1..n : s[i].key <= e.key
      /\ n < L => ~(s[n + 1].key <= e.key)
  BY <1>0, PositionIs
<1>2. /\ r \in Seq(PendingInterrupt) /\ Len(r) = L + 1 /\ r[n + 1] = e
      /\ \A i \in 1..n : r[i] = s[i]
      /\ \A i \in n+1..L : r[i + 1] = s[i]
  <2>1. r = InsertAfter(s, n, e)
    BY DEF SortedInsertInto
  <2> HIDE DEF n, r
  <2>2. r \in Seq(PendingInterrupt) /\ Inserted(r, s, n, e)
    BY <1>0, <1>1, <2>1, InsertAfterIs
  <2> QED BY <2>2 DEF Inserted
<1> HIDE DEF L, n, r
\* Where an element of the new list was in the old one.
<1>3. ASSUME NEW i \in 1..L+1, i # n + 1
      PROVE  \/ i \in 1..n /\ i \in 1..L /\ r[i] = s[i]
             \/ i - 1 \in n+1..L /\ i - 1 \in 1..L /\ r[i] = s[i - 1]
  <2>0. n \in Nat /\ L \in Nat /\ n <= L
    BY <1>0, <1>1
  <2>1. CASE i <= n
    <3>1. i \in 1..n /\ i \in 1..L
      BY <2>0, <2>1
    <3> QED BY <1>2, <3>1
  <2>2. CASE ~(i <= n)
    <3>1. i - 1 \in n+1..L /\ (i - 1) + 1 = i /\ i - 1 \in 1..L
      BY <2>0, <1>3, <2>2
    <3>2. r[(i - 1) + 1] = s[i - 1]
      BY <1>2, <3>1
    <3> QED BY <3>1, <3>2
  <2> QED BY <2>1, <2>2
<1>4. \A i, j \in 1..L : i < j => s[i].key <= s[j].key
  BY DEF PendingOK, Sorted, L
<1>5. \A i, j \in 1..L : s[i].item = s[j].item => i = j
  BY DEF PendingOK, ItemsOnce, L
<1>6. \A i \in 1..L : s[i].item # e.item
  BY DEF OnQueue, L
<1>7. \A i \in n+1..L : e.key <= s[i].key
  <2> SUFFICES ASSUME NEW i \in n+1..L PROVE e.key <= s[i].key
    OBVIOUS
  <2>1. n + 1 \in 1..L /\ i \in 1..L /\ n < L
    BY <1>0, <1>1
  <2>2. s[n + 1].key \in Nat /\ s[i].key \in Nat /\ ~(s[n + 1].key <= e.key)
    BY <1>0, <1>1, <2>1
  <2>3. i = n + 1 \/ n + 1 < i
    BY <1>0, <1>1
  <2> QED BY <1>0, <1>4, <2>1, <2>2, <2>3
<1>8. Sorted(r)
  <2> SUFFICES ASSUME NEW i \in 1..L+1, NEW j \in 1..L+1, i < j
               PROVE  r[i].key <= r[j].key
    BY <1>2 DEF Sorted
  <2>1. CASE i = n + 1
    <3>1. j # n + 1 /\ ~(j \in 1..n)
      BY <1>0, <1>1, <2>1
    <3> QED BY <1>2, <1>3, <1>7, <2>1, <3>1
  <2>2. CASE j = n + 1
    <3>1. i # n + 1 /\ ~(i - 1 \in n+1..L)
      BY <1>0, <1>1, <2>2
    <3> QED BY <1>1, <1>2, <1>3, <2>2, <3>1
  <2>3. CASE i # n + 1 /\ j # n + 1
    <3>1. \/ r[i] = s[i] /\ i \in 1..L /\ i \in 1..n
          \/ r[i] = s[i - 1] /\ i - 1 \in 1..L /\ i - 1 \in n+1..L
      BY <1>3, <2>3
    <3>2. \/ r[j] = s[j] /\ j \in 1..L /\ j \in 1..n
          \/ r[j] = s[j - 1] /\ j - 1 \in 1..L /\ j - 1 \in n+1..L
      BY <1>3, <2>3
    <3>3. CASE r[i] = s[i] /\ i \in 1..L /\ r[j] = s[j] /\ j \in 1..L
      BY <1>4, <3>3
    <3>4. CASE r[i] = s[i] /\ i \in 1..n /\ i \in 1..L
               /\ r[j] = s[j - 1] /\ j - 1 \in n+1..L /\ j - 1 \in 1..L
      <4>1. i < j - 1
        BY <1>0, <1>1, <3>4
      <4> QED BY <1>4, <3>4, <4>1
    <3>5. CASE r[i] = s[i - 1] /\ i - 1 \in n+1..L /\ r[j] = s[j] /\ j \in 1..n
      BY <1>0, <1>1, <3>5
    <3>6. CASE r[i] = s[i - 1] /\ i - 1 \in 1..L /\ r[j] = s[j - 1] /\ j - 1 \in 1..L
      <4>1. i - 1 < j - 1
        BY <1>0
      <4> QED BY <1>4, <3>6, <4>1
    <3> QED BY <3>1, <3>2, <3>3, <3>4, <3>5, <3>6
  <2> QED BY <2>1, <2>2, <2>3
<1>9. ItemsOnce(r)
  <2> SUFFICES ASSUME NEW i \in 1..L+1, NEW j \in 1..L+1, r[i].item = r[j].item
               PROVE  i = j
    BY <1>2 DEF ItemsOnce
  <2>1. CASE i = n + 1 \/ j = n + 1
    BY <1>2, <1>3, <1>6, <2>1
  <2>2. CASE i # n + 1 /\ j # n + 1
    <3>1. \/ r[i] = s[i] /\ i \in 1..L /\ i \in 1..n
          \/ r[i] = s[i - 1] /\ i - 1 \in 1..L /\ i - 1 \in n+1..L
      BY <1>3, <2>2
    <3>2. \/ r[j] = s[j] /\ j \in 1..L /\ j \in 1..n
          \/ r[j] = s[j - 1] /\ j - 1 \in 1..L /\ j - 1 \in n+1..L
      BY <1>3, <2>2
    <3> QED BY <1>0, <1>1, <1>5, <3>1, <3>2
  <2> QED BY <2>1, <2>2
<1>10. OnQueue(r) = OnQueue(s) \cup {e}
  <2>1. ASSUME NEW x \in OnQueue(r) PROVE x \in OnQueue(s) \cup {e}
    <3>1. PICK i \in 1..L+1 : x = r[i]
      BY <1>2 DEF OnQueue
    <3> QED BY <1>2, <1>3, <3>1 DEF OnQueue, L
  <2>2. e \in OnQueue(r)
    <3>1. n + 1 \in 1..L+1
      BY <1>0, <1>1
    <3> QED BY <1>2, <3>1 DEF OnQueue
  <2>3. ASSUME NEW x \in OnQueue(s) PROVE x \in OnQueue(r)
    <3>1. PICK i \in 1..L : x = s[i]
      BY DEF OnQueue, L
    <3>2. CASE i \in 1..n
      <4>1. i \in 1..L+1 /\ r[i] = x
        BY <1>0, <1>2, <3>1, <3>2
      <4> QED BY <1>2, <4>1 DEF OnQueue
    <3>3. CASE i \notin 1..n
      <4>1. i \in n+1..L /\ i + 1 \in 1..L+1
        BY <1>0, <1>1, <3>3
      <4> QED BY <1>2, <3>1, <4>1 DEF OnQueue
    <3> QED BY <3>2, <3>3
  <2> QED BY <2>1, <2>2, <2>3
<1> QED BY <1>2, <1>8, <1>9, <1>10 DEF PendingOK, r

\* The first interrupt is the earliest, and leaves the others as they are.
LEMMA HeadPending ==
    ASSUME NEW s, PendingOK(s), s # <<>>
    PROVE  /\ Head(s) \in PendingInterrupt
           /\ \A x \in OnQueue(s) : Head(s).key <= x.key
           /\ PendingOK(Tail(s))
           /\ OnQueue(s) = OnQueue(Tail(s)) \cup {Head(s)}
           /\ \A x \in OnQueue(Tail(s)) : x.item # Head(s).item
<1> DEFINE L == Len(s)
           r == Tail(s)
           h == Head(s)
<1>0. s \in Seq(PendingInterrupt)
  BY DEF PendingOK
<1>1. /\ L \in Nat \ {0} /\ Len(r) = L - 1 /\ r \in Seq(PendingInterrupt)
      /\ h = s[1] /\ \A i \in 1..L : s[i] \in PendingInterrupt
      /\ \A i \in 1..L-1 : r[i] = s[i + 1]
  BY <1>0
<1>2. /\ 1 \in 1..L
      /\ \A i \in 1..L-1 : i + 1 \in 1..L /\ i + 1 # 1
      /\ \A i \in 1..L : i # 1 => i - 1 \in 1..L-1 /\ (i - 1) + 1 = i /\ 1 < i
  BY <1>1
<1>3. \A i, j \in 1..L-1 : (i < j => i + 1 < j + 1) /\ (i + 1 = j + 1 => i = j)
  BY <1>1
<1>4. \A i \in 1..L : s[i].key \in Nat
  BY <1>1 DEF PendingInterrupt
<1>5. h.key <= h.key
  BY <1>1, <1>2, <1>4
<1> HIDE DEF L, r, h
<1>6. \A i, j \in 1..L : i < j => s[i].key <= s[j].key
  BY DEF PendingOK, Sorted, L
<1>7. \A i, j \in 1..L : s[i].item = s[j].item => i = j
  BY DEF PendingOK, ItemsOnce, L
<1>8. Sorted(r) /\ ItemsOnce(r)
  <2>1. ASSUME NEW i \in 1..L-1, NEW j \in 1..L-1
        PROVE  /\ i < j => r[i].key <= r[j].key
               /\ r[i].item = r[j].item => i = j
    <3>1. r[i] = s[i + 1] /\ r[j] = s[j + 1] /\ i + 1 \in 1..L /\ j + 1 \in 1..L
      BY <1>1, <1>2
    <3> QED BY <1>3, <1>6, <1>7, <3>1
  <2> QED BY <1>1, <2>1 DEF Sorted, ItemsOnce
<1>9. \A x \in OnQueue(s) : h.key <= x.key
  BY <1>1, <1>2, <1>5, <1>6 DEF OnQueue, L
<1>10. \A x \in OnQueue(r) : x.item # h.item
  BY <1>1, <1>2, <1>7 DEF OnQueue
<1>11. OnQueue(s) = OnQueue(r) \cup {h}
  <2>1. ASSUME NEW x \in OnQueue(s) PROVE x \in OnQueue(r) \cup {h}
    <3>1. PICK i \in 1..L : x = s[i]
      BY DEF OnQueue, L
    <3>2. CASE i = 1
      BY <1>1, <3>1, <3>2
    <3>3. CASE i # 1
      <4>1. i - 1 \in 1..Len(r) /\ r[i - 1] = x
        BY <1>1, <1>2, <3>1, <3>3
      <4> QED BY <4>1 DEF OnQueue
    <3> QED BY <3>2, <3>3
  <2>2. OnQueue(r) \subseteq OnQueue(s)
    BY <1>1, <1>2 DEF OnQueue, L
  <2>3. h \in OnQueue(s)
    BY <1>1, <1>2 DEF OnQueue, L
  <2> QED BY <2>1, <2>2, <2>3
<1> QED BY <1>1, <1>2, <1>8, <1>9, <1>10, <1>11 DEF PendingOK, r, h

\* CheckIfDue puts an interrupt back that is not due.
LEMMA PutBackKeeps ==
    ASSUME PendingOK(pending)
    PROVE  PendingOK(PutBack) /\ OnQueue(PutBack) = OnQueue(pending)
<1>1. CASE pending = <<>>
  BY <1>1 DEF PutBack
<1>2. CASE pending # <<>>
  <2>1. PutBack = SortedInsertInto(Tail(pending), Head(pending))
    BY <1>2 DEF PutBack
  <2>2. /\ PendingOK(Tail(pending)) /\ Head(pending) \in PendingInterrupt
        /\ OnQueue(pending) = OnQueue(Tail(pending)) \cup {Head(pending)}
        /\ \A x \in OnQueue(Tail(pending)) : x.item # Head(pending).item
    BY <1>2, HeadPending
  <2> QED BY <2>1, <2>2, InsertPending
<1> QED BY <1>1, <1>2

-----------------------------------------------------------------------------
(***************************************************************************)
(* The inductive invariant.                                                *)
(***************************************************************************)
IntTypeOK ==
    /\ SchedOK
    /\ totalTicks \in Nat
    /\ mode \in Mode
    /\ code \in [Thread -> {"user", "kernel"}]
    /\ inTick \subseteq Thread
    /\ old \in [Thread -> Mode]
    /\ waiter \in [Device -> Thread \cup {NoThread}]
    /\ phase \in {"run", "due", "idle", "idledue", "halted"}

\* The timer is armed, and a device exactly while a thread waits for it.
Armed(i) == \E x \in OnQueue(pending) : x.item = i
PendingInv ==
    /\ PendingOK(pending)
    /\ Armed(Timer)
    /\ \A d \in Device : Armed(d) <=> waiter[d] # NoThread

\* A thread that waits for a device sleeps, and waits for one device only.
WaitersBlocked ==
    \A d \in Device : waiter[d] # NoThread =>
        /\ status[waiter[d]] = "BLOCKED"
        /\ \A e \in Device : waiter[e] = waiter[d] => e = d

\* Who has the processor in each phase.
PhaseInv ==
    /\ phase \in {"run", "due"} => status[currentThread] = "RUNNING"
    /\ phase \in {"idle", "idledue", "halted"} => Idling
    /\ phase \in {"idle", "halted"} => readyList = <<>>
    /\ phase = "halted" => \A d \in Device : waiter[d] = NoThread
    /\ \A t \in Thread : status[t] # "JUST_CREATED"

\* The mode belongs to the code that runs: OneTick has saved it for a thread
\* that it made yield, and a thread that gave the processor away by itself is
\* in the kernel.
ModeOf(t) == IF code[t] = "user" THEN "UserMode" ELSE "SystemMode"
OnProcessor(t) == t = currentThread /\ phase \in {"run", "due"}
CodeInv ==
    /\ \A t \in inTick : old[t] = ModeOf(t)
    /\ \A t \in Thread : t \notin inTick /\ ~OnProcessor(t) => code[t] = "kernel"
    /\ \A t \in Thread : t \notin inTick /\ OnProcessor(t) => mode = ModeOf(t)

\* No device interrupt is overdue.
OnTime == \A x \in OnQueue(pending) : x.item # Timer => x.key > totalTicks

IntInv ==
    /\ IntTypeOK /\ PendingInv /\ WaitersBlocked /\ PhaseInv /\ CodeInv
    /\ phase = "run" => OnTime

-----------------------------------------------------------------------------
\* Steps that leave the pending interrupts alone or put them back.
LEMMA PendingStays ==
    ASSUME PendingInv, UNCHANGED waiter, pending' = pending \/ pending' = PutBack
    PROVE  PendingInv' /\ OnQueue(pending') = OnQueue(pending)
<1>1. PendingOK(pending') /\ OnQueue(pending') = OnQueue(pending)
  BY PutBackKeeps DEF PendingInv
<1> QED BY <1>1 DEF PendingInv, Armed

\* CheckIfDue calls the handler of the first interrupt: the timer is armed
\* again, or the thread that waits becomes ready.
LEMMA FireKeeps ==
    ASSUME SchedOK, PendingInv, WaitersBlocked, pending # <<>>,
           waiter \in [Device -> Thread \cup {NoThread}],
           NEW now \in Nat, Fire(now)
    PROVE  /\ SchedOK' /\ PendingInv' /\ WaitersBlocked'
           /\ waiter' \in [Device -> Thread \cup {NoThread}]
           /\ currentThread' = currentThread
           /\ \A t \in Thread : \/ status'[t] = status[t]
                                \/ status[t] = "BLOCKED" /\ status'[t] = "READY"
           /\ \A d \in Device : waiter[d] # NoThread /\ waiter'[d] = NoThread =>
                  Head(pending).item = d
<1> DEFINE h == Head(pending)
           rest == Tail(pending)
<1>1. /\ h \in PendingInterrupt /\ PendingOK(rest)
      /\ OnQueue(pending) = OnQueue(rest) \cup {h}
      /\ \A x \in OnQueue(rest) : x.item # h.item
  BY HeadPending DEF PendingInv
<1>2. h.item \in Device \cup {Timer}
  BY <1>1 DEF PendingInterrupt
<1>3. CASE h.item = Timer
  <2>1. PICK d \in TimerDelays : pending' = Schedule(rest, Timer, now + d)
    BY <1>3 DEF Fire, TimerExpired
  <2>2. UNCHANGED <<schedVars, waiter>>
    BY <1>3 DEF Fire, TimerExpired
  <2> DEFINE e == Element(Timer, now + d)
  <2>3. e \in PendingInterrupt /\ e.item = Timer
    BY DelaysAssumption DEF Element, PendingInterrupt
  <2>4. pending' = SortedInsertInto(rest, e)
    BY <2>1 DEF Schedule
  <2> HIDE DEF e
  <2>5. PendingOK(pending') /\ OnQueue(pending') = OnQueue(rest) \cup {e}
    BY <1>1, <1>3, <2>3, <2>4, InsertPending
  <2>6. Armed(Timer)'
    BY <2>3, <2>5 DEF Armed
  <2>7. \A d2 \in Device : Armed(d2)' <=> Armed(d2)
    BY <1>1, <1>3, <2>3, <2>5, DeviceAssumption DEF Armed
  <2>8. PendingInv'
    BY <2>2, <2>5, <2>6, <2>7 DEF PendingInv
  <2>9. SchedOK' /\ WaitersBlocked'
    BY <2>2 DEF schedVars, SchedOK, SchedTypeOK, SchedulerInv, OneRunning, ReadyExact, ReadyOnce,
                WaitersBlocked
  <2> QED BY <2>2, <2>8, <2>9 DEF schedVars
<1>4. CASE h.item # Timer
  <2>0. PICK d \in Device : d = h.item
    BY <1>2, <1>4
  <2>1. /\ pending' = rest /\ waiter' = [waiter EXCEPT ![d] = NoThread]
        /\ ReadyToRun(waiter[d])
    BY <1>4, <2>0 DEF Fire, DeviceDone
  <2>2. Armed(d)
    BY <1>1, <2>0 DEF Armed
  <2>3. PICK w \in Thread : /\ w = waiter[d] /\ status[w] = "BLOCKED"
                            /\ \A e \in Device : waiter[e] = w => e = d
    BY <2>2 DEF PendingInv, WaitersBlocked
  <2>4. SchedOK'
    BY <2>1, <2>3, ReadyToRunOK
  <2>5. PendingInv'
    <3>1. \A i : i # d => (Armed(i)' <=> Armed(i))
      BY <1>1, <2>0, <2>1 DEF Armed
    <3>2. ~Armed(d)'
      BY <1>1, <2>0, <2>1 DEF Armed
    <3>3. \A e \in Device : waiter'[e] = IF e = d THEN NoThread ELSE waiter[e]
      BY <2>1
    <3> QED BY <1>1, <1>4, <2>0, <2>1, <3>1, <3>2, <3>3 DEF PendingInv
  <2>6. currentThread' = currentThread /\ status' = [status EXCEPT ![w] = "READY"]
    BY <2>1, <2>3 DEF ReadyToRun
  <2>7. \A e \in Device : waiter'[e] = IF e = d THEN NoThread ELSE waiter[e]
    BY <2>1
  <2>8. status \in [Thread -> ThreadStatus]
    BY DEF SchedOK, SchedTypeOK
  <2>9. WaitersBlocked'
    <3> SUFFICES ASSUME NEW e \in Device, waiter'[e] # NoThread
                 PROVE  /\ status'[waiter'[e]] = "BLOCKED"
                        /\ \A f \in Device : waiter'[f] = waiter'[e] => f = e
      BY DEF WaitersBlocked
    <3>1. e # d /\ waiter'[e] = waiter[e] /\ waiter[e] # NoThread /\ waiter[e] \in Thread
      BY <2>7
    <3>2. waiter[e] # w
      BY <2>3, <3>1
    <3>3. status[waiter[e]] = "BLOCKED"
      BY <3>1 DEF WaitersBlocked
    <3>4. status'[waiter'[e]] = "BLOCKED"
      BY <2>6, <2>8, <3>1, <3>2, <3>3
    <3>5. \A f \in Device : waiter'[f] = waiter'[e] => f = e
      BY <2>7, <3>1 DEF WaitersBlocked
    <3> QED BY <3>4, <3>5
  <2>10. waiter' \in [Device -> Thread \cup {NoThread}]
    BY <2>1
  <2>11. \A t \in Thread : \/ status'[t] = status[t]
                           \/ status[t] = "BLOCKED" /\ status'[t] = "READY"
    <3>1. status'[w] = "READY" /\ \A t \in Thread : t # w => status'[t] = status[t]
      BY <2>6, <2>8
    <3> QED BY <2>3, <3>1
  <2>12. \A e \in Device : waiter[e] # NoThread /\ waiter'[e] = NoThread => h.item = e
    BY <2>0, <2>7
  <2> QED BY <2>4, <2>5, <2>6, <2>9, <2>10, <2>11, <2>12
<1> QED BY <1>3, <1>4

\* Who runs after an operation of the dispatcher.
LEMMA SleepRuns ==
    ASSUME SchedOK, status[currentThread] = "RUNNING", SleepCPU,
           \A t \in Thread : status[t] # "JUST_CREATED"
    PROVE  /\ readyList = <<>> => /\ currentThread' = currentThread /\ readyList' = <<>>
                                  /\ status'[currentThread'] = "BLOCKED"
           /\ readyList # <<>> => /\ currentThread' # currentThread
                                  /\ status'[currentThread'] = "RUNNING"
           /\ \A t \in Thread : status'[t] # "JUST_CREATED"
<1>0. status \in [Thread -> ThreadStatus] /\ currentThread \in Thread
  BY DEF SchedOK, SchedTypeOK
<1>1. CASE readyList = <<>>
  BY <1>0, <1>1 DEF SleepCPU
<1>2. CASE readyList # <<>>
  <2>1. /\ currentThread' = Head(readyList) /\ Head(readyList) \in Thread
        /\ status' = [[status EXCEPT ![currentThread] = "BLOCKED"]
                        EXCEPT ![Head(readyList)] = "RUNNING"]
        /\ status[Head(readyList)] = "READY"
    BY <1>2, ReadyListShape DEF SleepCPU, Run
  <2> QED BY <1>0, <1>2, <2>1
<1> QED BY <1>1, <1>2

\* Thread::Yield leaves a thread on the processor.
LEMMA YieldRuns ==
    ASSUME SchedOK, status[currentThread] = "RUNNING", YieldCPU,
           \A t \in Thread : status[t] # "JUST_CREATED"
    PROVE  /\ SchedOK' /\ status'[currentThread'] = "RUNNING"
           /\ \A t \in Thread : status'[t] # "JUST_CREATED"
<1>0. status \in [Thread -> ThreadStatus] /\ currentThread \in Thread
  BY DEF SchedOK, SchedTypeOK
<1>1. CASE readyList = <<>>
  BY <1>1 DEF YieldCPU, schedVars, SchedOK, SchedTypeOK, SchedulerInv, OneRunning, ReadyExact,
              ReadyOnce
<1>2. CASE readyList # <<>>
  <2>1. /\ currentThread' = Head(readyList) /\ Head(readyList) \in Thread
        /\ status' = [[status EXCEPT ![currentThread] = "READY"]
                        EXCEPT ![Head(readyList)] = "RUNNING"]
    BY <1>2, ReadyListShape DEF YieldCPU, Run
  <2> QED BY <1>0, <1>2, <2>1, YieldOK
<1> QED BY <1>1, <1>2

\* So does the end of the idle loop.
LEMMA LeaveIdleRuns ==
    ASSUME SchedOK, LeaveIdle, \A t \in Thread : status[t] # "JUST_CREATED"
    PROVE  /\ SchedOK' /\ status'[currentThread'] = "RUNNING"
           /\ \A t \in Thread : status'[t] # "JUST_CREATED"
<1>0. status \in [Thread -> ThreadStatus] /\ readyList # <<>>
  BY DEF SchedOK, SchedTypeOK, LeaveIdle
<1>1. /\ currentThread' = Head(readyList) /\ Head(readyList) \in Thread
      /\ status' = [status EXCEPT ![Head(readyList)] = "RUNNING"]
  BY <1>0, ReadyListShape DEF LeaveIdle, Run
<1> QED BY <1>0, <1>1, LeaveIdleOK

\* A waiter stays one as long as nobody is woken.
LEMMA WaitersStay ==
    ASSUME WaitersBlocked, UNCHANGED waiter, waiter \in [Device -> Thread \cup {NoThread}],
           \A t \in Thread : status[t] = "BLOCKED" => status'[t] = "BLOCKED"
    PROVE  WaitersBlocked'
  BY DEF WaitersBlocked

\* When CheckIfDue finds nothing more to serve, no device is overdue.
LEMMA NoneDue ==
    ASSUME PendingInv, totalTicks \in Nat, ~Due \/ OnlyTimerLeft
    PROVE  OnTime
<1>1. \A x \in OnQueue(pending) : x \in PendingInterrupt
  BY DEF PendingInv, PendingOK, OnQueue
<1>2. \A x \in PendingInterrupt : x.key \in Nat
  BY DEF PendingInterrupt
<1>3. CASE pending = <<>>
  BY <1>3 DEF OnQueue, OnTime
<1>4. CASE pending # <<>> /\ ~Due
  <2>1. /\ ~(Head(pending).key <= totalTicks) /\ Head(pending) \in PendingInterrupt
        /\ \A x \in OnQueue(pending) : Head(pending).key <= x.key
    BY <1>4, HeadPending DEF Due, PendingInv
  <2> QED BY <1>1, <1>2, <2>1 DEF OnTime
<1>5. CASE pending # <<>> /\ OnlyTimerLeft
  <2>1. Len(pending) = 1 /\ Head(pending).item = Timer /\ Head(pending) = pending[1]
    BY <1>5 DEF OnlyTimerLeft, PendingInv, PendingOK
  <2>2. \A x \in OnQueue(pending) : x = pending[1]
    BY <2>1 DEF OnQueue
  <2> QED BY <2>1, <2>2 DEF OnTime
<1> QED BY <1>3, <1>4, <1>5

\* The list of interrupts that stays as it is has the same devices overdue.
LEMMA OnTimeStays ==
    ASSUME OnTime, OnQueue(pending') = OnQueue(pending), UNCHANGED totalTicks
    PROVE  OnTime'
  BY DEF OnTime

\* With only the timer left, no thread waits for a device.
LEMMA NobodyWaits ==
    ASSUME PendingInv, OnlyTimerLeft, NEW d \in Device
    PROVE  waiter[d] = NoThread
<1>1. Len(pending) = 1 /\ Head(pending).item = Timer /\ Head(pending) = pending[1]
  BY DEF OnlyTimerLeft, PendingInv, PendingOK
<1>2. \A x \in OnQueue(pending) : x.item = Timer
  BY <1>1 DEF OnQueue
<1>3. ~Armed(d)
  BY <1>2, DeviceAssumption DEF Armed
<1> QED BY <1>3 DEF PendingInv

-----------------------------------------------------------------------------
\* The machine after Interrupt::Interrupt and the Timer's constructor.
LEMMA IntInvInit == Init => IntInv
<1> SUFFICES ASSUME Init PROVE IntInv
  OBVIOUS
<1>1. SchedOK
  BY StartedOK, StartAssumption DEF Init, StartThreads
<1>2. Head(Start) \in Thread
  BY StartAssumption
<1>3. IntTypeOK
  BY <1>1, TickAssumption DEF Init, IntTypeOK, Mode
<1>4. PICK d \in TimerDelays : pending = <<Element(Timer, d)>>
  BY DEF Init
<1>5. /\ Element(Timer, d) \in PendingInterrupt /\ Element(Timer, d).item = Timer
      /\ d \in Nat /\ d > 0
  BY DelaysAssumption DEF Element, PendingInterrupt
<1>6. /\ pending \in Seq(PendingInterrupt) /\ Len(pending) = 1
      /\ pending[1] = Element(Timer, d)
  BY <1>4, <1>5
<1>7. OnQueue(pending) = {Element(Timer, d)}
  BY <1>6 DEF OnQueue
<1>8. PendingOK(pending)
  BY <1>6 DEF PendingOK, Sorted, ItemsOnce
<1>9. PendingInv
  BY <1>5, <1>7, <1>8, DeviceAssumption DEF PendingInv, Armed, Init
<1>10. WaitersBlocked
  BY DEF Init, WaitersBlocked
<1>11. PhaseInv
  BY <1>2 DEF Init, StartThreads, PhaseInv
<1>12. CodeInv
  BY DEF Init, CodeInv, ModeOf
<1>13. OnTime
  BY <1>5, <1>7 DEF OnTime
<1> QED BY <1>3, <1>9, <1>10, <1>11, <1>12, <1>13 DEF IntInv

\* Machine::Run and Machine::RaiseException.
LEMMA ModeSwitchKeeps ==
    ASSUME IntInv, EnterUser \/ RaiseException
    PROVE  IntInv'
<1>1. /\ UNCHANGED <<schedVars, totalTicks, pending, inTick, old, waiter, phase>>
      /\ phase = "run" /\ currentThread \notin inTick
      /\ \/ code' = [code EXCEPT ![currentThread] = "user"] /\ mode' = "UserMode"
         \/ code' = [code EXCEPT ![currentThread] = "kernel"] /\ mode' = "SystemMode"
  BY DEF EnterUser, RaiseException, Executing
<1>2. /\ SchedOK /\ currentThread \in Thread /\ code \in [Thread -> {"user", "kernel"}]
      /\ inTick \subseteq Thread
  BY DEF IntInv, IntTypeOK, SchedOK, SchedTypeOK
<1>3. SchedOK'
  BY <1>1, <1>2 DEF schedVars, SchedOK, SchedTypeOK, SchedulerInv, OneRunning, ReadyExact,
                    ReadyOnce
<1>4. IntTypeOK'
  BY <1>1, <1>3 DEF IntInv, IntTypeOK, Mode
<1>5. PendingInv' /\ OnQueue(pending') = OnQueue(pending)
  BY <1>1, PendingStays DEF IntInv
<1>6. WaitersBlocked' /\ PhaseInv' /\ OnTime'
  BY <1>1 DEF IntInv, schedVars, WaitersBlocked, PhaseInv, Idling, OnTime
<1>7. CodeInv'
  <2>1. /\ \A t \in Thread : t # currentThread => code'[t] = code[t]
        /\ currentThread' = currentThread
        /\ mode' = IF code'[currentThread] = "user" THEN "UserMode" ELSE "SystemMode"
    BY <1>1, <1>2 DEF schedVars
  <2>2. \A t \in inTick : t \in Thread /\ t # currentThread
    BY <1>1, <1>2
  <2> QED BY <1>1, <2>1, <2>2 DEF IntInv, CodeInv, ModeOf, OnProcessor
<1> QED BY <1>4, <1>5, <1>6, <1>7 DEF IntInv

\* OneTick advances the clock.
LEMMA OneTickKeeps ==
    ASSUME IntInv, OneTick
    PROVE  IntInv'
<1>1. /\ UNCHANGED <<schedVars, pending, mode, code, inTick, old, waiter>>
      /\ phase = "run" /\ phase' = "due"
  BY DEF OneTick, Executing
<1>2. totalTicks' \in Nat
  BY TickAssumption DEF OneTick, IntInv, IntTypeOK
<1>3. SchedOK'
  BY <1>1 DEF IntInv, IntTypeOK, schedVars, SchedOK, SchedTypeOK, SchedulerInv, OneRunning,
              ReadyExact, ReadyOnce
<1>4. IntTypeOK'
  BY <1>1, <1>2, <1>3 DEF IntInv, IntTypeOK
<1>5. PendingInv'
  BY <1>1, PendingStays DEF IntInv
<1>6. WaitersBlocked' /\ PhaseInv'
  BY <1>1 DEF IntInv, schedVars, WaitersBlocked, PhaseInv
<1>7. CodeInv'
  BY <1>1 DEF IntInv, CodeInv, ModeOf, OnProcessor, schedVars
<1> QED BY <1>1, <1>4, <1>5, <1>6, <1>7 DEF IntInv

\* Thread::Sleep, by a thread in the kernel: what Request and Finish share.
LEMMA SleepKeeps ==
    ASSUME IntInv, Executing, currentThread \notin inTick,
           code[currentThread] = "kernel", SleepCPU,
           phase' = (IF readyList = <<>> THEN "idle" ELSE "run"),
           UNCHANGED <<totalTicks, mode, code, inTick, old>>,
           waiter' \in [Device -> Thread \cup {NoThread}]
    PROVE  IntTypeOK' /\ PhaseInv' /\ CodeInv'
<1>1. /\ SchedOK /\ currentThread \in Thread /\ phase = "run"
      /\ status[currentThread] = "RUNNING"
      /\ \A t \in Thread : status[t] # "JUST_CREATED"
  BY DEF IntInv, IntTypeOK, SchedOK, SchedTypeOK, PhaseInv, Executing
<1>2. SchedOK'
  BY <1>1, SleepOK
<1>3. IntTypeOK'
  BY <1>2 DEF IntInv, IntTypeOK
<1>4. /\ readyList = <<>> => /\ currentThread' = currentThread /\ readyList' = <<>>
                             /\ status'[currentThread'] = "BLOCKED"
      /\ readyList # <<>> => /\ currentThread' # currentThread
                             /\ status'[currentThread'] = "RUNNING"
      /\ \A t \in Thread : status'[t] # "JUST_CREATED"
  BY <1>1, SleepRuns
<1>5. PhaseInv'
  BY <1>4 DEF PhaseInv, Idling
<1>6. \A t \in Thread : t \notin inTick => code[t] = "kernel"
  BY DEF IntInv, CodeInv, OnProcessor
<1>7. mode = "SystemMode"
  BY <1>1 DEF IntInv, CodeInv, OnProcessor, ModeOf
<1>8. CodeInv'
  BY <1>6, <1>7 DEF IntInv, CodeInv, ModeOf
<1> QED BY <1>3, <1>5, <1>8

\* Thread::Finish.
LEMMA FinishKeeps ==
    ASSUME IntInv, Finish
    PROVE  IntInv'
<1>1. UNCHANGED <<totalTicks, pending, mode, code, inTick, old, waiter>> /\ phase = "run"
  BY DEF Finish, intVars, Executing
<1>2. waiter \in [Device -> Thread \cup {NoThread}]
  BY DEF IntInv, IntTypeOK
<1>3. IntTypeOK' /\ PhaseInv' /\ CodeInv'
  BY <1>1, <1>2, SleepKeeps DEF Finish
<1>4. PendingInv' /\ OnQueue(pending') = OnQueue(pending)
  BY <1>1, PendingStays DEF IntInv
<1>5. \A t \in Thread : status[t] = "BLOCKED" => status'[t] = "BLOCKED"
  BY <1>1, SleepBlocks DEF IntInv, IntTypeOK, PhaseInv, Finish
<1>6. WaitersBlocked'
  BY <1>1, <1>2, <1>5, WaitersStay DEF IntInv
<1>7. OnTime'
  BY <1>1, <1>4, OnTimeStays DEF IntInv
<1> QED BY <1>3, <1>4, <1>6, <1>7 DEF IntInv

\* A device driver schedules its interrupt and sleeps.
LEMMA RequestKeeps ==
    ASSUME IntInv, NEW d \in Device, Request(d)
    PROVE  IntInv'
<1>1. UNCHANGED <<totalTicks, mode, code, inTick, old>> /\ phase = "run"
  BY DEF Request, Executing
<1>2. /\ waiter \in [Device -> Thread \cup {NoThread}] /\ currentThread \in Thread
      /\ waiter' = [waiter EXCEPT ![d] = currentThread] /\ waiter[d] = NoThread
      /\ status[currentThread] = "RUNNING" /\ SchedOK /\ totalTicks \in Nat
      /\ currentThread # NoThread
  BY <1>1, NoThreadAssumption
     DEF IntInv, IntTypeOK, SchedOK, SchedTypeOK, PhaseInv, Request
<1>3. waiter' \in [Device -> Thread \cup {NoThread}]
  BY <1>2
<1>4. IntTypeOK' /\ PhaseInv' /\ CodeInv'
  BY <1>1, <1>3, SleepKeeps DEF Request
<1>5. PICK delay \in DeviceDelays : pending' = Schedule(pending, d, totalTicks + delay)
  BY DEF Request
<1> DEFINE e == Element(d, totalTicks + delay)
<1>6. e \in PendingInterrupt /\ e.item = d /\ e.key > totalTicks
  BY <1>2, DelaysAssumption DEF Element, PendingInterrupt
<1>7. pending' = SortedInsertInto(pending, e)
  BY <1>5 DEF Schedule
<1> HIDE DEF e
<1>8. \A x \in OnQueue(pending) : x.item # d
  BY DEF Request, OnQueue
<1>9. PendingOK(pending') /\ OnQueue(pending') = OnQueue(pending) \cup {e}
  BY <1>6, <1>7, <1>8, InsertPending DEF IntInv, PendingInv
<1>10. \A c \in Device : waiter'[c] = IF c = d THEN currentThread ELSE waiter[c]
  BY <1>2
<1>11. PendingInv'
  <2>1. \A i : i # d => (Armed(i)' <=> Armed(i))
    BY <1>6, <1>9 DEF Armed
  <2>2. Armed(d)'
    BY <1>6, <1>9 DEF Armed
  <2> QED BY <1>2, <1>9, <1>10, <2>1, <2>2, DeviceAssumption DEF IntInv, PendingInv
<1>12. OnTime'
  BY <1>1, <1>6, <1>9 DEF IntInv, OnTime
<1>13. WaitersBlocked'
  <2>1. \A t \in Thread : status'[t] = "BLOCKED"
                            <=> t = currentThread \/ status[t] = "BLOCKED"
    BY <1>2, SleepBlocks DEF Request
  <2>2. \A c \in Device : waiter[c] # NoThread =>
            waiter[c] \in Thread /\ status[waiter[c]] = "BLOCKED" /\ waiter[c] # currentThread
    BY <1>2 DEF IntInv, WaitersBlocked
  <2> SUFFICES ASSUME NEW c \in Device, waiter'[c] # NoThread
               PROVE  /\ status'[waiter'[c]] = "BLOCKED"
                      /\ \A f \in Device : waiter'[f] = waiter'[c] => f = c
    BY DEF WaitersBlocked
  <2>3. CASE c = d
    BY <1>2, <1>10, <2>1, <2>2, <2>3
  <2>4. CASE c # d
    BY <1>2, <1>10, <2>1, <2>2, <2>4 DEF IntInv, WaitersBlocked
  <2> QED BY <2>3, <2>4
<1> QED BY <1>4, <1>11, <1>12, <1>13 DEF IntInv

\* OneTick ends without a yield.
LEMMA EndTickKeeps ==
    ASSUME IntInv, EndTick
    PROVE  IntInv'
<1>1. /\ phase = "due" /\ ~Due /\ pending' = PutBack /\ phase' = "run"
      /\ mode' = (IF currentThread \in inTick THEN old[currentThread] ELSE mode)
      /\ inTick' = inTick \ {currentThread}
      /\ UNCHANGED <<currentThread, status, readyList, totalTicks, code, old, waiter>>
  BY DEF EndTick, schedVars
<1>2. /\ SchedOK /\ currentThread \in Thread /\ totalTicks \in Nat
      /\ inTick \subseteq Thread /\ old \in [Thread -> Mode]
  BY DEF IntInv, IntTypeOK, SchedOK, SchedTypeOK
<1>3. SchedOK'
  BY <1>1, <1>2 DEF SchedOK, SchedTypeOK, SchedulerInv, OneRunning, ReadyExact, ReadyOnce
<1>4. IntTypeOK'
  BY <1>1, <1>2, <1>3 DEF IntInv, IntTypeOK
<1>5. PendingInv' /\ OnQueue(pending') = OnQueue(pending)
  BY <1>1, PendingStays DEF IntInv
<1>6. WaitersBlocked' /\ PhaseInv'
  BY <1>1 DEF IntInv, WaitersBlocked, PhaseInv
<1>7. OnTime'
  BY <1>1, <1>2, <1>5, NoneDue, OnTimeStays DEF IntInv
<1>8. CodeInv'
  <2>1. \A t : ModeOf(t)' = ModeOf(t)
    BY <1>1 DEF ModeOf
  <2>2. mode' = ModeOf(currentThread)
    BY <1>1, <1>2 DEF IntInv, CodeInv, OnProcessor
  <2>3. \A t \in Thread : (t \notin inTick' <=> t \notin inTick \/ t = currentThread)
    BY <1>1
  <2>4. \A t : OnProcessor(t) <=> t = currentThread
    BY <1>1 DEF OnProcessor
  <2>5. \A t : OnProcessor(t)' <=> t = currentThread
    BY <1>1 DEF OnProcessor
  <2>6. \A t \in inTick' : old'[t] = ModeOf(t)'
    BY <1>1, <2>1 DEF IntInv, CodeInv
  <2>7. \A t \in Thread : t \notin inTick' /\ ~OnProcessor(t)' => code'[t] = "kernel"
    BY <1>1, <2>3, <2>4, <2>5 DEF IntInv, CodeInv
  <2>8. \A t \in Thread : t \notin inTick' /\ OnProcessor(t)' => mode' = ModeOf(t)'
    BY <2>1, <2>2, <2>5
  <2> QED BY <2>6, <2>7, <2>8 DEF CodeInv
<1> QED BY <1>4, <1>5, <1>6, <1>7, <1>8 DEF IntInv

\* OneTick makes the thread yield.
LEMMA YieldAfterTickKeeps ==
    ASSUME IntInv, YieldAfterTick
    PROVE  IntInv'
<1>1. /\ phase = "due" /\ ~Due /\ pending' = PutBack /\ phase' = "run"
      /\ old' = (IF currentThread \in inTick THEN old
                 ELSE [old EXCEPT ![currentThread] = mode])
      /\ inTick' = inTick \cup {currentThread} /\ mode' = "SystemMode" /\ YieldCPU
      /\ UNCHANGED <<totalTicks, code, waiter>>
  BY DEF YieldAfterTick
<1>2. /\ SchedOK /\ currentThread \in Thread /\ totalTicks \in Nat /\ mode \in Mode
      /\ inTick \subseteq Thread /\ old \in [Thread -> Mode]
      /\ status[currentThread] = "RUNNING"
      /\ \A t \in Thread : status[t] # "JUST_CREATED"
      /\ waiter \in [Device -> Thread \cup {NoThread}]
  BY <1>1 DEF IntInv, IntTypeOK, SchedOK, SchedTypeOK, PhaseInv
<1>3. /\ SchedOK' /\ status'[currentThread'] = "RUNNING"
      /\ \A t \in Thread : status'[t] # "JUST_CREATED"
  BY <1>1, <1>2, YieldRuns
<1>4. IntTypeOK'
  BY <1>1, <1>2, <1>3 DEF IntInv, IntTypeOK, Mode
<1>5. PendingInv' /\ OnQueue(pending') = OnQueue(pending)
  BY <1>1, PendingStays DEF IntInv
<1>6. PhaseInv'
  BY <1>1, <1>3 DEF PhaseInv
<1>7. \A t \in Thread : status[t] = "BLOCKED" => status'[t] = "BLOCKED"
  BY <1>1, <1>2, SwitchBlocksNone
<1>8. WaitersBlocked'
  BY <1>1, <1>2, <1>7, WaitersStay DEF IntInv
<1>9. OnTime'
  BY <1>1, <1>2, <1>5, NoneDue, OnTimeStays DEF IntInv
<1>10. CodeInv'
  <2>1. \A t : ModeOf(t)' = ModeOf(t)
    BY <1>1 DEF ModeOf
  <2>2. \A t : OnProcessor(t) <=> t = currentThread
    BY <1>1 DEF OnProcessor
  <2>3. \A t \in Thread : t \notin inTick' => t \notin inTick /\ t # currentThread
    BY <1>1
  <2>4. \A t \in Thread : t \notin inTick' => code[t] = "kernel"
    BY <2>2, <2>3 DEF IntInv, CodeInv
  <2>5. \A t \in inTick' : old'[t] = ModeOf(t)
    <3> SUFFICES ASSUME NEW t \in inTick' PROVE old'[t] = ModeOf(t)
      OBVIOUS
    <3>1. CASE t \in inTick
      BY <1>1, <1>2, <3>1 DEF IntInv, CodeInv
    <3>2. CASE t \notin inTick
      BY <1>1, <1>2, <2>2, <3>2 DEF IntInv, CodeInv
    <3> QED BY <3>1, <3>2
  <2>6. \A t \in Thread : t \notin inTick' => ModeOf(t) = "SystemMode"
    BY <2>4 DEF ModeOf
  <2> QED BY <1>1, <2>1, <2>4, <2>5, <2>6 DEF CodeInv
<1> QED BY <1>4, <1>5, <1>6, <1>8, <1>9, <1>10 DEF IntInv

\* CheckIfDue serves an interrupt, in OneTick or in Idle.
LEMMA FireStepKeeps ==
    ASSUME IntInv, FireDue \/ IdleFire \/ IdleFireDue
    PROVE  IntInv'
<1>1. PICK now \in Nat :
          /\ Fire(now) /\ totalTicks' = now /\ pending # <<>>
          /\ UNCHANGED <<code, inTick, old>>
          /\ \/ phase = "due" /\ phase' = "due" /\ mode' = mode
             \/ /\ phase \in {"idle", "idledue"} /\ phase' = "idledue"
                /\ mode' \in {mode, "IdleMode"}
  <2>1. totalTicks \in Nat
    BY DEF IntInv, IntTypeOK
  <2>2. CASE FireDue \/ IdleFireDue
    BY <2>1, <2>2 DEF FireDue, IdleFireDue, Due
  <2>3. CASE IdleFire
    <3> DEFINE when == Head(pending).key
               n == IF when > totalTicks THEN when ELSE totalTicks
    <3>1. totalTicks' = n /\ Fire(n)
      BY <2>3 DEF IdleFire
    <3>2. Head(pending) \in PendingInterrupt
      BY <2>3, HeadPending DEF IdleFire, IntInv, PendingInv
    <3>3. n \in Nat
      BY <2>1, <3>2 DEF PendingInterrupt
    <3> HIDE DEF n
    <3> QED BY <2>3, <3>1, <3>3 DEF IdleFire
  <2> QED BY <2>2, <2>3
<1>2. /\ SchedOK' /\ PendingInv' /\ WaitersBlocked'
      /\ waiter' \in [Device -> Thread \cup {NoThread}]
      /\ currentThread' = currentThread
      /\ \A t \in Thread : \/ status'[t] = status[t]
                           \/ status[t] = "BLOCKED" /\ status'[t] = "READY"
  BY <1>1, FireKeeps DEF IntInv, IntTypeOK
<1>3. IntTypeOK'
  BY <1>1, <1>2 DEF IntInv, IntTypeOK, Mode
<1>4. currentThread \in Thread
  BY DEF IntInv, IntTypeOK, SchedOK, SchedTypeOK
<1>5. PhaseInv'
  BY <1>1, <1>2, <1>4 DEF IntInv, PhaseInv, Idling
<1>6. CodeInv'
  BY <1>1, <1>2 DEF IntInv, CodeInv, ModeOf, OnProcessor
<1>7. phase' # "run"
  BY <1>1
<1> QED BY <1>2, <1>3, <1>5, <1>6, <1>7 DEF IntInv

\* Idle returns.
LEMMA EndIdleKeeps ==
    ASSUME IntInv, EndIdle
    PROVE  IntInv'
<1>1. /\ phase = "idledue" /\ (~Due \/ OnlyTimerLeft) /\ pending' = PutBack
      /\ mode' = "SystemMode" /\ UNCHANGED <<totalTicks, code, inTick, old, waiter>>
      /\ \/ readyList = <<>> /\ phase' = "idle" /\ UNCHANGED schedVars
         \/ phase' = "run" /\ LeaveIdle
  BY DEF EndIdle
<1>2. /\ SchedOK /\ totalTicks \in Nat /\ waiter \in [Device -> Thread \cup {NoThread}]
      /\ Idling /\ \A t \in Thread : status[t] # "JUST_CREATED"
  BY <1>1 DEF IntInv, IntTypeOK, PhaseInv
<1>3. SchedOK' /\ PhaseInv'
  <2>1. CASE UNCHANGED schedVars /\ phase' = "idle" /\ readyList = <<>>
    BY <1>1, <1>2, <2>1
       DEF schedVars, SchedOK, SchedTypeOK, SchedulerInv, OneRunning, ReadyExact, ReadyOnce,
           PhaseInv, Idling
  <2>2. CASE phase' = "run" /\ LeaveIdle
    BY <1>2, <2>2, LeaveIdleRuns DEF PhaseInv
  <2> QED BY <1>1, <2>1, <2>2
<1>4. IntTypeOK'
  BY <1>1, <1>3 DEF IntInv, IntTypeOK, Mode
<1>5. PendingInv' /\ OnQueue(pending') = OnQueue(pending)
  BY <1>1, PendingStays DEF IntInv
<1>6. \A t \in Thread : status[t] = "BLOCKED" => status'[t] = "BLOCKED"
  BY <1>1, <1>2, SwitchBlocksNone
<1>7. WaitersBlocked'
  BY <1>1, <1>2, <1>6, WaitersStay DEF IntInv
<1>8. OnTime'
  BY <1>1, <1>2, <1>5, NoneDue, OnTimeStays DEF IntInv
<1>9. \A t \in Thread : t \notin inTick => code[t] = "kernel"
  BY <1>1 DEF IntInv, CodeInv, OnProcessor
<1>10. CodeInv'
  BY <1>1, <1>9 DEF IntInv, CodeInv, ModeOf
<1> QED BY <1>3, <1>4, <1>5, <1>7, <1>8, <1>10 DEF IntInv

\* Interrupt::Halt: only the timer is left, so no thread waits for a device.
LEMMA HaltKeeps ==
    ASSUME IntInv, Halt
    PROVE  IntInv'
<1>1. /\ phase = "idle" /\ phase' = "halted" /\ mode' = "IdleMode"
      /\ UNCHANGED <<schedVars, pending, code, inTick, old, waiter>>
  BY DEF Halt
<1>2. pending # <<>>
  BY DEF IntInv, PendingInv, Armed, OnQueue
<1>3. Head(pending) \in PendingInterrupt /\ totalTicks \in Nat
  BY <1>2, HeadPending DEF IntInv, IntTypeOK, PendingInv
<1>4. totalTicks' \in Nat
  BY <1>3 DEF Halt, PendingInterrupt
<1>5. SchedOK'
  BY <1>1 DEF IntInv, IntTypeOK, schedVars, SchedOK, SchedTypeOK, SchedulerInv, OneRunning,
              ReadyExact, ReadyOnce
<1>6. IntTypeOK'
  BY <1>1, <1>4, <1>5 DEF IntInv, IntTypeOK, Mode
<1>7. PendingInv'
  BY <1>1, PendingStays DEF IntInv
<1>8. \A d \in Device : waiter[d] = NoThread
  BY <1>2, NobodyWaits DEF Halt, IntInv
<1>9. WaitersBlocked' /\ PhaseInv'
  BY <1>1, <1>8 DEF IntInv, schedVars, WaitersBlocked, PhaseInv, Idling
<1>10. CodeInv'
  BY <1>1 DEF IntInv, CodeInv, ModeOf, OnProcessor
<1> QED BY <1>1, <1>6, <1>7, <1>9, <1>10 DEF IntInv

\* Every step keeps the invariant.
LEMMA IntInvStep == IntInv /\ [Next]_vars => IntInv'
<1> SUFFICES ASSUME IntInv, [Next]_vars PROVE IntInv'
  OBVIOUS
<1>1. CASE EnterUser \/ RaiseException
  BY <1>1, ModeSwitchKeeps
<1>2. CASE Finish
  BY <1>2, FinishKeeps
<1>3. CASE OneTick
  BY <1>3, OneTickKeeps
<1>4. CASE \E d \in Device : Request(d)
  BY <1>4, RequestKeeps
<1>5. CASE FireDue \/ IdleFire \/ IdleFireDue
  BY <1>5, FireStepKeeps
<1>6. CASE EndTick
  BY <1>6, EndTickKeeps
<1>7. CASE YieldAfterTick
  BY <1>7, YieldAfterTickKeeps
<1>8. CASE EndIdle
  BY <1>8, EndIdleKeeps
<1>9. CASE Halt
  BY <1>9, HaltKeeps
<1>10. CASE UNCHANGED vars
  <2>1. UNCHANGED <<currentThread, status, readyList, totalTicks, pending, mode, code, inTick,
                    old, waiter, phase>>
    BY <1>10 DEF vars, schedVars, intVars
  <2>2. PendingInv'
    BY <2>1, PendingStays DEF IntInv
  <2>3. IntTypeOK'
    BY <2>1 DEF IntInv, IntTypeOK, SchedOK, SchedTypeOK, SchedulerInv, OneRunning, ReadyExact,
                ReadyOnce
  <2> QED BY <2>1, <2>2, <2>3
          DEF IntInv, WaitersBlocked, PhaseInv, Idling, CodeInv, ModeOf, OnProcessor, OnTime
<1> QED BY <1>1, <1>2, <1>3, <1>4, <1>5, <1>6, <1>7, <1>8, <1>9, <1>10 DEF Next

\* A yield is asked for or not.
YieldTypeOK == yieldOnReturn \in BOOLEAN
\* Every step keeps that type.
LEMMA YieldTypeStep == YieldTypeOK /\ [Next]_vars => YieldTypeOK'
<1> SUFFICES ASSUME YieldTypeOK, [Next]_vars PROVE YieldTypeOK'
  OBVIOUS
<1>1. CASE \/ EnterUser \/ RaiseException \/ Finish \/ OneTick \/ EndTick \/ Halt
           \/ (\E d \in Device : Request(d)) \/ UNCHANGED vars
  <2>1. yieldOnReturn' = yieldOnReturn
    BY <1>1 DEF EnterUser, RaiseException, Finish, OneTick, EndTick, Halt, Request, intVars, vars
  <2> QED BY <2>1, Zenon DEF YieldTypeOK
<1>2. CASE YieldAfterTick \/ EndIdle
  <2>1. yieldOnReturn' = FALSE
    BY <1>2 DEF YieldAfterTick, EndIdle
  <2> QED BY <2>1, Zenon DEF YieldTypeOK
<1>3. CASE FireDue \/ IdleFire \/ IdleFireDue
  <2>1. \E now : Fire(now)
    BY <1>3, Zenon DEF FireDue, IdleFire, IdleFireDue
  <2>2. yieldOnReturn' \in {yieldOnReturn, TRUE} \/ UNCHANGED yieldOnReturn
    BY <2>1, Zenon DEF Fire, TimerExpired, DeviceDone
  <2> QED BY <2>2, Zenon DEF YieldTypeOK
<1> QED BY <1>1, <1>2, <1>3 DEF Next

\* The inductive invariant says what the run's invariants say.
LEMMA IntInvImplies ==
    ASSUME IntInv, YieldTypeOK
    PROVE  InterruptInv /\ NoDeviceOverdue
<1>1. /\ pending \in Seq(PendingInterrupt) /\ ItemsOnce(pending)
      /\ Len(pending) \in Nat
      /\ \A i \in 1..Len(pending) : /\ pending[i].item \in Device \cup {Timer}
                                    /\ pending[i].key \in Nat
  <2>1. pending \in Seq(PendingInterrupt) /\ ItemsOnce(pending)
    BY DEF IntInv, PendingInv, PendingOK
  <2>2. \A x \in PendingInterrupt : x.item \in Device \cup {Timer} /\ x.key \in Nat
    BY DEF PendingInterrupt
  <2> QED BY <2>1, <2>2
<1>2. TypeOK
  <2>1. SchedTypeOK /\ totalTicks \in Nat
    BY DEF IntInv, IntTypeOK, SchedOK
  <2> QED BY <1>1, <2>1, Zenon DEF IntInv, IntTypeOK, TypeOK, YieldTypeOK
<1>3. TimerArmedOnce
  <2> DEFINE T == {i \in 1..Len(pending) : pending[i].item = Timer}
  <2>1. PICK k \in 1..Len(pending) : pending[k].item = Timer
    BY DEF IntInv, PendingInv, Armed, OnQueue
  <2>2. T = {k}
    BY <1>1, <2>1 DEF ItemsOnce
  <2>3. Cardinality({k}) = 1
    BY FS_Singleton
  <2> QED BY <2>2, <2>3 DEF TimerArmedOnce
<1>4. currentThread \in Thread
  BY DEF IntInv, IntTypeOK, SchedOK, SchedTypeOK
<1>5. ModeMatchesCode
  BY <1>4 DEF ModeMatchesCode, IntInv, CodeInv, ModeOf, OnProcessor
<1>6. WaiterHasInterrupt
  <2>1. \A d \in Device : waiter[d] # NoThread
                            <=> \E i \in 1..Len(pending) : pending[i].item = d
    BY DEF IntInv, PendingInv, Armed, OnQueue
  <2>2. ASSUME phase = "halted", NEW t \in Thread
        PROVE  status[t] = "BLOCKED" /\ \A d \in Device : waiter[d] # t
    <3>1. /\ status[currentThread] # "RUNNING" /\ readyList = <<>>
          /\ \A d \in Device : waiter[d] = NoThread
          /\ status[t] # "JUST_CREATED"
      BY <2>2 DEF IntInv, PhaseInv, Idling
    <3>2. /\ status[t] \in ThreadStatus
          /\ status[t] = "RUNNING" => t = currentThread
          /\ status[t] # "READY"
      BY <3>1 DEF IntInv, IntTypeOK, SchedOK, SchedTypeOK, SchedulerInv, OneRunning, ReadyExact
    <3> QED BY <3>1, <3>2, NoThreadAssumption DEF ThreadStatus
  <2> QED BY <2>1, <2>2 DEF WaiterHasInterrupt
<1>7. NoDeviceOverdue
  <2>1. totalTicks \in Nat
    BY DEF IntInv, IntTypeOK
  <2> QED BY <1>1, <2>1 DEF NoDeviceOverdue, IntInv, OnTime, OnQueue
<1> QED BY <1>2, <1>3, <1>5, <1>6, <1>7 DEF InterruptInv

\* The inductive invariant holds in every state.
LEMMA AlwaysIntInv == Spec => [](IntInv /\ YieldTypeOK)
<1>1. Init => YieldTypeOK
  BY Zenon DEF Init, YieldTypeOK
<1> QED BY <1>1, IntInvInit, IntInvStep, YieldTypeStep, PTL DEF Spec

\* OneTick, Idle and the interrupt handlers keep exactly one timer interrupt
\* pending, leave the mode that belongs to the code that runs, and keep an
\* interrupt to come for every thread that waits for a device; when Idle halts
\* the machine, every thread is blocked for good and none waits for a device.
THEOREM InterruptSafe == Spec => []InterruptInv
<1>1. IntInv /\ YieldTypeOK => InterruptInv
  BY IntInvImplies
<1> QED BY <1>1, AlwaysIntInv, PTL

\* When a thread executes, no device interrupt is overdue: OneTick and Idle
\* serve all that are due, and the clock of Idle never jumps over one.
THEOREM NoDeviceOverdueSafe == Spec => []NoDeviceOverdue
<1>1. IntInv /\ YieldTypeOK => NoDeviceOverdue
  BY IntInvImplies
<1> QED BY <1>1, AlwaysIntInv, PTL

\* The handler's interrupt was the first of the list, and its time had come.
Served(d) ==
    \E i \in 1..Len(pending) :
        /\ pending[i].item = d
        /\ pending[i].key <= totalTicks'
        /\ \A j \in 1..Len(pending) : pending[j].key >= pending[i].key

\* The three steps of CheckIfDue that call a handler.
LEMMA HeadServed ==
    ASSUME IntInv, FireDue \/ IdleFire \/ IdleFireDue,
           NEW d \in Device, waiter[d] # NoThread, waiter'[d] = NoThread
    PROVE  Served(d)
<1>0. /\ pending # <<>> /\ totalTicks \in Nat
      /\ pending \in Seq(PendingInterrupt)
  BY DEF FireDue, IdleFire, IdleFireDue, Due, IntInv, IntTypeOK, PendingInv, PendingOK
<1>1. /\ Head(pending) \in PendingInterrupt /\ Head(pending).key \in Nat
      /\ \A x \in OnQueue(pending) : Head(pending).key <= x.key
  BY <1>0, HeadPending DEF IntInv, PendingInv, PendingInterrupt
<1>2. PICK now \in Nat : Fire(now) /\ totalTicks' = now /\ Head(pending).key <= now
  <2>1. CASE FireDue \/ IdleFireDue
    BY <1>0, <2>1 DEF FireDue, IdleFireDue, Due
  <2>2. CASE IdleFire
    <3> DEFINE n == IF Head(pending).key > totalTicks THEN Head(pending).key ELSE totalTicks
    <3>1. totalTicks' = n /\ Fire(n)
      BY <2>2 DEF IdleFire
    <3>2. n \in Nat /\ Head(pending).key <= n
      BY <1>0, <1>1
    <3> HIDE DEF n
    <3> QED BY <3>1, <3>2
  <2> QED BY <2>1, <2>2
<1>3. Head(pending).item = d
  BY <1>0, <1>2, FireKeeps DEF IntInv, IntTypeOK
<1>4. Len(pending) \in Nat /\ 1 \in 1..Len(pending) /\ pending[1] = Head(pending)
  BY <1>0
<1>5. \A j \in 1..Len(pending) : pending[j].key \in Nat /\ pending[1].key <= pending[j].key
  <2>1. \A x \in PendingInterrupt : x.key \in Nat
    BY DEF PendingInterrupt
  <2>2. \A j \in 1..Len(pending) : pending[j] \in PendingInterrupt
    BY <1>0
  <2>3. \A j \in 1..Len(pending) : pending[j] \in OnQueue(pending)
    BY DEF OnQueue
  <2> QED BY <1>1, <1>4, <2>1, <2>2, <2>3
<1>6. \A j \in 1..Len(pending) : pending[j].key >= pending[1].key
  BY <1>4, <1>5
<1> QED BY <1>2, <1>3, <1>4, <1>6 DEF Served

\* No other step ends a wait.
LEMMA ServedStep ==
    ASSUME IntInv, [Next]_vars, NEW d \in Device, waiter[d] # NoThread, waiter'[d] = NoThread
    PROVE  Served(d)
<1>1. CASE \/ EnterUser \/ RaiseException \/ Finish \/ OneTick \/ EndTick \/ YieldAfterTick
           \/ EndIdle \/ Halt \/ UNCHANGED vars
  BY <1>1 DEF EnterUser, RaiseException, Finish, OneTick, EndTick, YieldAfterTick, EndIdle,
              Halt, vars
<1>2. CASE \E c \in Device : Request(c)
  BY <1>2 DEF Request, IntInv, IntTypeOK
<1>3. CASE FireDue \/ IdleFire \/ IdleFireDue
  BY <1>3, HeadServed
<1> QED BY <1>1, <1>2, <1>3 DEF Next

\* CheckIfDue serves interrupts in the order of their times and never early: a
\* thread stops waiting for a device only when the device's interrupt was first
\* by time and the clock had reached it.
THEOREM ServedInOrderSafe == Spec => ServedInOrder
<1> DEFINE Order == \A d \in Device : waiter[d] # NoThread /\ waiter'[d] = NoThread => Served(d)
<1>1. IntInv /\ [Next]_vars => [Order]_vars
  BY ServedStep
<1>2. [Order]_vars =>
        [\A d \in Device :
          waiter[d] # NoThread /\ waiter'[d] = NoThread =>
              \E i \in 1..Len(pending) :
                  /\ pending[i].item = d
                  /\ pending[i].key <= totalTicks'
                  /\ \A j \in 1..Len(pending) : pending[j].key >= pending[i].key]_vars
  BY DEF Served
<1> QED BY <1>1, <1>2, AlwaysIntInv, PTL DEF Spec, ServedInOrder
=============================================================================
