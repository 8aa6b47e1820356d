---------------------------- MODULE LinksProofs ----------------------------
(***************************************************************************)
(* Proofs about the pointers of the intrusive lists: for every number of    *)
(* lists and elements, list.h implements sequences.                         *)
(***************************************************************************)
EXTENDS LinkedLists, FiniteSetTheorems, TLAPS

SeqFacts == INSTANCE ListsProofs

Pointer == Cell \cup {NIL}
Heap == [next : [Cell -> Pointer], prev : [Cell -> Pointer]]

-----------------------------------------------------------------------------
(* What a heap stands for.                                                  *)

\* The i-th cell of the circular chain of list h, the sentinel being at both
\* ends.
At(h, q, i) == IF i \in 1..Len(q) THEN q[i] ELSE h

\* next and prev link the sentinel h and the elements q in a circle.
Chain(m, h, q) ==
  \A i \in 0..Len(q) :
    m.next[At(h, q, i)] = At(h, q, i + 1) /\ m.prev[At(h, q, i + 1)] = At(h, q, i)

Apart(ls) ==
  \A g, h \in Heads : \A i \in 1..Len(ls[g]), j \in 1..Len(ls[h]) :
    ls[g][i] = ls[h][j] => g = h /\ i = j

In(e, ls) == \E h \in Heads : \E i \in 1..Len(ls[h]) : ls[h][i] = e

\* The heap m stands for the lists ls: no element is in two places, and an
\* element in none has null pointers.
Represents(m, ls) ==
  /\ m \in Heap
  /\ ls \in [Heads -> Seq(Nodes)]
  /\ Apart(ls)
  /\ \A h \in Heads : Chain(m, h, ls[h])
  /\ \A e \in Nodes : ~In(e, ls) => list_null(m, e)

\* The lists as list_for_each meets them.
Lists_ == [h \in Heads |-> list_for_each(heap, h)]

HeapInv == Represents(heap, Lists_)

-----------------------------------------------------------------------------
(* The loops.                                                               *)

IsLoop(pos, m, h) ==
  pos = [k \in Nat |-> IF k = 0 THEN m.next[h]
                       ELSE IF pos[k - 1] \in {h, NIL} THEN pos[k - 1]
                       ELSE m.next[pos[k - 1]]]

\* The recursive definition of the loop variable has a solution.
LEMMA LoopDefined ==
  ASSUME NEW m, m.next \in [Cell -> Pointer], NEW h \in Cell
  PROVE  LET pos == LoopVariable(m, h)
         IN  /\ pos[0] = m.next[h]
             /\ \A k \in Nat : pos[k + 1] = IF pos[k] \in {h, NIL} THEN pos[k]
                                            ELSE m.next[pos[k]]
<1> DEFINE s == [c \in Pointer |-> IF c \in {h, NIL} THEN c ELSE m.next[c]]
<1>1. s \in [Pointer -> Pointer] /\ m.next[h] \in Pointer
  BY DEF Pointer
<1>2. PICK f \in [Nat -> Pointer] :
        f[0] = m.next[h] /\ \A n \in Nat : f[n + 1] = s[f[n]]
  <2> HIDE DEF s
  <2>1. PICK V, b, t : V = Pointer /\ b = m.next[h] /\ t = s
    OBVIOUS
  <2>2. b \in V /\ t \in [V -> V]
    BY <1>1, <2>1
  <2>3. \E f \in [Nat -> V] : f[0] = b /\ \A n \in Nat : f[n + 1] = t[f[n]]
    BY <2>2, SeqFacts!PrimitiveRecursion
  <2> QED BY <2>1, <2>3
<1>3. \A n \in Nat : f[n + 1] = IF f[n] \in {h, NIL} THEN f[n] ELSE m.next[f[n]]
  BY <1>2
<1>4. IsLoop(f, m, h)
  <2> DEFINE g == [k \in Nat |-> IF k = 0 THEN m.next[h]
                                 ELSE IF f[k - 1] \in {h, NIL} THEN f[k - 1]
                                 ELSE m.next[f[k - 1]]]
  <2>1. ASSUME NEW k \in Nat PROVE f[k] = g[k]
    <3>1. CASE k = 0
      BY <1>2, <3>1
    <3>2. CASE k # 0
      <4>1. k - 1 \in Nat /\ (k - 1) + 1 = k
        BY <3>2
      <4>2. f[k] = IF f[k - 1] \in {h, NIL} THEN f[k - 1] ELSE m.next[f[k - 1]]
        BY <1>3, <4>1
      <4> QED BY <3>2, <4>2
    <3> QED BY <3>1, <3>2
  <2>2. f = g
    <3>1. DOMAIN f = Nat /\ f = [k \in Nat |-> f[k]]
      BY <1>2
    <3> QED BY <2>1, <3>1
  <2> QED BY <2>2 DEF IsLoop
<1> DEFINE pos == LoopVariable(m, h)
<1>5. IsLoop(pos, m, h)
  <2>1. pos = CHOOSE p : IsLoop(p, m, h)
    BY Zenon DEF LoopVariable, IsLoop
  <2> QED BY <1>4, <2>1, Zenon
<1> HIDE DEF pos
<1>6. pos[0] = m.next[h]
  BY <1>5 DEF IsLoop
<1>7. ASSUME NEW k \in Nat
      PROVE  pos[k + 1] = IF pos[k] \in {h, NIL} THEN pos[k] ELSE m.next[pos[k]]
  <2>1. k + 1 \in Nat /\ k + 1 # 0 /\ (k + 1) - 1 = k
    OBVIOUS
  <2> QED BY <1>5, <2>1 DEF IsLoop
<1> QED BY <1>6, <1>7 DEF pos

\* A list has no more elements than there are cells.
LEMMA ChainShort ==
  ASSUME NEW q \in Seq(Nodes), \A i, j \in 1..Len(q) : q[i] = q[j] => i = j
  PROVE  Len(q) <= Cardinality(Cell) /\ Cardinality(Cell) \in Nat
<1>1. IsFiniteSet(Cell) /\ Nodes \subseteq Cell
  BY LinksAssumption DEF Cell
<1>2. q \in [1..Len(q) -> Cell] /\ Len(q) \in Nat
  BY <1>1
<1>3. q \in Injection(1..Len(q), Cell)
  BY <1>2 DEF Injection, IsInjective
<1>4. Cardinality(1..Len(q)) = Len(q)
  <2>1. 1 \in Int /\ Len(q) \in Int
    BY <1>2
  <2>2. Cardinality(1..Len(q)) = IF 1 > Len(q) THEN 0 ELSE Len(q) - 1 + 1
    BY <2>1, FS_Interval
  <2> QED BY <1>2, <2>2
<1>5. Cardinality(1..Len(q)) <= Cardinality(Cell)
  BY <1>1, <1>3, FS_Injection
<1> QED BY <1>1, <1>4, <1>5, FS_CardinalityType

\* list_for_each meets the elements of the chain, in its order, and ends.
LEMMA ForEach ==
  ASSUME NEW m, m.next \in [Cell -> Pointer], NEW h \in Heads, NEW q \in Seq(Nodes),
         \A i, j \in 1..Len(q) : q[i] = q[j] => i = j,
         \A i \in 0..Len(q) : m.next[At(h, q, i)] = At(h, q, i + 1)
  PROVE  list_for_each(m, h) = q
<1> DEFINE pos == LoopVariable(m, h)
           S == {k \in Nat : pos[k] = IF k < Len(q) THEN q[k + 1] ELSE h}
           N == Cardinality(Cell)
<1>1. /\ pos[0] = m.next[h]
      /\ \A k \in Nat : pos[k + 1] = IF pos[k] \in {h, NIL} THEN pos[k] ELSE m.next[pos[k]]
  <2>1. h \in Cell
    BY DEF Cell
  <2> QED BY <2>1, LoopDefined
<1> HIDE DEF pos
<1>2. Len(q) \in Nat /\ N \in Nat /\ Len(q) <= N
  BY ChainShort
<1>3. \A i \in 1..Len(q) : q[i] \in Nodes /\ q[i] \notin {h, NIL}
  BY LinksAssumption
<1>4. 0 \in S
  <2>1. 0 \in 0..Len(q)
    BY <1>2
  <2>2. m.next[At(h, q, 0)] = At(h, q, 0 + 1)
    BY <2>1
  <2>3. At(h, q, 0) = h /\ At(h, q, 0 + 1) = IF 0 < Len(q) THEN q[0 + 1] ELSE h
    BY <1>2 DEF At
  <2> QED BY <1>1, <2>2, <2>3
<1>5. ASSUME NEW k \in Nat, k \in S PROVE k + 1 \in S
  <2>1. CASE k < Len(q)
    <3>1. pos[k] = q[k + 1] /\ k + 1 \in 1..Len(q) /\ k + 1 \in 0..Len(q)
      BY <1>2, <1>5, <2>1
    <3>2. pos[k + 1] = m.next[q[k + 1]]
      BY <1>1, <1>3, <3>1
    <3>3. m.next[At(h, q, k + 1)] = At(h, q, k + 1 + 1)
      BY <3>1
    <3>4. At(h, q, k + 1) = q[k + 1]
      BY <3>1 DEF At
    <3>5. At(h, q, k + 1 + 1) = IF k + 1 < Len(q) THEN q[k + 1 + 1] ELSE h
      BY <1>2 DEF At
    <3> QED BY <3>2, <3>3, <3>4, <3>5
  <2>2. CASE ~(k < Len(q))
    <3>1. pos[k] = h /\ ~(k + 1 < Len(q))
      BY <1>2, <1>5, <2>2
    <3>2. pos[k + 1] = h
      BY <1>1, <3>1
    <3> QED BY <3>1, <3>2
  <2> QED BY <2>1, <2>2
<1> HIDE DEF S
<1>6. Nat \subseteq S
  BY <1>4, <1>5, SeqFacts!SetInduction
<1>7. ASSUME NEW k \in 1..N
      PROVE  /\ k <= Len(q) => pos[k - 1] = q[k] /\ pos[k - 1] \notin {h, NIL}
             /\ k > Len(q) => pos[k - 1] \in {h, NIL}
  <2>1. k - 1 \in Nat /\ (k - 1) + 1 = k
    OBVIOUS
  <2>2. pos[k - 1] = IF k - 1 < Len(q) THEN q[k] ELSE h
    BY <1>6, <2>1 DEF S
  <2> QED BY <1>2, <1>3, <2>2
<1>8. {k \in 1..N : pos[k - 1] \notin {h, NIL}} = 1..Len(q)
  BY <1>2, <1>7
<1>9. list_for_each(m, h) = [k \in {k \in 1..N : pos[k - 1] \notin {h, NIL}} |-> pos[k - 1]]
  BY DEF list_for_each, pos
<1>10. list_for_each(m, h) = [k \in 1..Len(q) |-> pos[k - 1]]
  BY <1>8, <1>9
<1>11. [k \in 1..Len(q) |-> pos[k - 1]] = [k \in 1..Len(q) |-> q[k]]
  BY <1>2, <1>7
<1>12. q = [k \in 1..Len(q) |-> q[k]]
  OBVIOUS
<1> QED BY <1>10, <1>11, <1>12

Reversed(q) == [i \in 1..Len(q) |-> q[Len(q) + 1 - i]]

\* A list read backwards.
LEMMA ReversedList ==
  ASSUME NEW q \in Seq(Nodes), \A i, j \in 1..Len(q) : q[i] = q[j] => i = j
  PROVE  /\ Reversed(q) \in Seq(Nodes) /\ Len(Reversed(q)) = Len(q)
         /\ \A i \in 1..Len(q) : Reversed(q)[i] = q[Len(q) + 1 - i]
         /\ \A i, j \in 1..Len(q) : Reversed(q)[i] = Reversed(q)[j] => i = j
         /\ \A h, i : i \in 0..(Len(q) + 1) =>
               At(h, Reversed(q), i) = At(h, q, Len(q) + 1 - i)
<1>1. Len(q) \in Nat
  OBVIOUS
<1>2. \A i \in 1..Len(q) : Len(q) + 1 - i \in 1..Len(q) /\ q[Len(q) + 1 - i] \in Nodes
  BY <1>1
<1>3. Reversed(q) \in Seq(Nodes) /\ Len(Reversed(q)) = Len(q)
  BY <1>1, <1>2 DEF Reversed
<1>4. \A i \in 1..Len(q) : Reversed(q)[i] = q[Len(q) + 1 - i]
  BY DEF Reversed
<1>5. ASSUME NEW i \in 1..Len(q), NEW j \in 1..Len(q), Reversed(q)[i] = Reversed(q)[j]
      PROVE  i = j
  <2>1. Len(q) + 1 - i = Len(q) + 1 - j
    BY <1>2, <1>4, <1>5
  <2> QED BY <1>1, <2>1
<1>6. ASSUME NEW h, NEW i \in 0..(Len(q) + 1)
      PROVE  At(h, Reversed(q), i) = At(h, q, Len(q) + 1 - i)
  <2>1. i \in 1..Len(q) <=> Len(q) + 1 - i \in 1..Len(q)
    BY <1>1
  <2> QED BY <1>3, <1>4, <2>1 DEF At
<1> QED BY <1>3, <1>4, <1>5, <1>6

\* list_for_each_prev meets them in the opposite order.
LEMMA ForEachPrev ==
  ASSUME NEW m, m.prev \in [Cell -> Pointer], NEW h \in Heads, NEW q \in Seq(Nodes),
         \A i, j \in 1..Len(q) : q[i] = q[j] => i = j,
         \A i \in 0..Len(q) : m.prev[At(h, q, i + 1)] = At(h, q, i)
  PROVE  list_for_each_prev(m, h) = Reversed(q)
<1> DEFINE n == [next |-> m.prev, prev |-> m.next]
<1>1. n.next = m.prev
  OBVIOUS
<1>2. list_for_each_prev(m, h) = list_for_each(n, h)
  BY DEF list_for_each_prev
<1> HIDE DEF n
<1>3. ASSUME NEW i \in 0..Len(q)
      PROVE  n.next[At(h, Reversed(q), i)] = At(h, Reversed(q), i + 1)
  <2>1. /\ Len(q) \in Nat /\ Len(q) - i \in 0..Len(q)
        /\ i \in 0..(Len(q) + 1) /\ i + 1 \in 0..(Len(q) + 1)
        /\ (Len(q) - i) + 1 = Len(q) + 1 - i /\ Len(q) + 1 - (i + 1) = Len(q) - i
    OBVIOUS
  <2>2. m.prev[At(h, q, (Len(q) - i) + 1)] = At(h, q, Len(q) - i)
    BY <2>1
  <2>0. \A j : j \in 0..(Len(q) + 1) => At(h, Reversed(q), j) = At(h, q, Len(q) + 1 - j)
    BY ReversedList
  <2>3. At(h, Reversed(q), i) = At(h, q, Len(q) + 1 - i)
    BY <2>0, <2>1
  <2>4. At(h, Reversed(q), i + 1) = At(h, q, Len(q) + 1 - (i + 1))
    BY <2>0, <2>1
  <2> QED BY <1>1, <2>1, <2>2, <2>3, <2>4
<1>4. list_for_each(n, h) = Reversed(q)
  <2>1. PICK r : r = Reversed(q)
    OBVIOUS
  <2>2. r \in Seq(Nodes) /\ \A i, j \in 1..Len(r) : r[i] = r[j] => i = j
    BY <2>1, ReversedList
  <2>3. \A i \in 0..Len(r) : n.next[At(h, r, i)] = At(h, r, i + 1)
    BY <1>3, <2>1, ReversedList
  <2>4. n.next \in [Cell -> Pointer]
    BY <1>1
  <2>5. list_for_each(n, h) = r
    BY <2>2, <2>3, <2>4, ForEach
  <2> QED BY <2>1, <2>5
<1> QED BY <1>2, <1>4

\* What a heap stands for is what the loops meet.
LEMMA LoopsMeetLists ==
  ASSUME NEW m, NEW ls, Represents(m, ls)
  PROVE  /\ ls = [h \in Heads |-> list_for_each(m, h)]
         /\ \A h \in Heads : /\ list_for_each(m, h) = ls[h]
                             /\ list_for_each_prev(m, h) = Reversed(ls[h])
<1>1. ASSUME NEW h \in Heads
      PROVE  /\ list_for_each(m, h) = ls[h]
             /\ list_for_each_prev(m, h) = Reversed(ls[h])
  <2>1. /\ m.next \in [Cell -> Pointer] /\ m.prev \in [Cell -> Pointer]
        /\ ls[h] \in Seq(Nodes)
    BY DEF Represents, Heap
  <2>2. \A i, j \in 1..Len(ls[h]) : ls[h][i] = ls[h][j] => i = j
    BY DEF Represents, Apart
  <2>3. \A i \in 0..Len(ls[h]) : /\ m.next[At(h, ls[h], i)] = At(h, ls[h], i + 1)
                                 /\ m.prev[At(h, ls[h], i + 1)] = At(h, ls[h], i)
    BY DEF Represents, Chain
  <2>4. PICK q : q = ls[h]
    OBVIOUS
  <2>5. /\ q \in Seq(Nodes) /\ \A i, j \in 1..Len(q) : q[i] = q[j] => i = j
        /\ \A i \in 0..Len(q) : m.next[At(h, q, i)] = At(h, q, i + 1)
        /\ \A i \in 0..Len(q) : m.prev[At(h, q, i + 1)] = At(h, q, i)
    BY <2>1, <2>2, <2>3, <2>4
  <2>6. list_for_each(m, h) = q
    BY <2>1, <2>5, ForEach
  <2>7. list_for_each_prev(m, h) = Reversed(q)
    BY <2>1, <2>5, ForEachPrev
  <2> QED BY <2>4, <2>6, <2>7
<1>2. ls = [h \in Heads |-> ls[h]]
  BY DEF Represents
<1> QED BY <1>1, <1>2

-----------------------------------------------------------------------------
(* The cells of the chains.                                                 *)

\* Every cell of a chain is its sentinel or an element in the lists; between
\* the two ends a chain meets no cell twice, and two chains share none.
LEMMA ChainCells ==
  ASSUME NEW m, NEW ls, Represents(m, ls), NEW h \in Heads, NEW q, q = ls[h]
  PROVE  /\ q \in Seq(Nodes) /\ Len(q) \in Nat
         /\ At(h, q, 0) = h /\ At(h, q, Len(q) + 1) = h
         /\ \A i \in 0..(Len(q) + 1) :
               /\ At(h, q, i) \in Cell
               /\ \A e \in Nodes : ~In(e, ls) => At(h, q, i) # e
         /\ \A i, j \in 0..Len(q) : At(h, q, i) = At(h, q, j) => i = j
         /\ \A i, j \in 1..(Len(q) + 1) : At(h, q, i) = At(h, q, j) => i = j
<1>1. q \in Seq(Nodes) /\ Len(q) \in Nat
  BY DEF Represents
<1>2. At(h, q, 0) = h /\ At(h, q, Len(q) + 1) = h
  BY <1>1 DEF At
<1>3. \A i \in 1..Len(q) : q[i] \in Nodes /\ q[i] # h /\ At(h, q, i) = q[i]
  BY <1>1, LinksAssumption DEF At
<1>4. \A i, j \in 1..Len(q) : q[i] = q[j] => i = j
  BY DEF Represents, Apart
<1>5. ASSUME NEW i \in 0..(Len(q) + 1)
      PROVE  /\ At(h, q, i) \in Cell
             /\ \A e \in Nodes : ~In(e, ls) => At(h, q, i) # e
  <2>1. CASE i \in 1..Len(q)
    <3>1. In(q[i], ls)
      BY <2>1 DEF In
    <3> QED BY <1>3, <2>1, <3>1 DEF Cell
  <2>2. CASE i \notin 1..Len(q)
    <3>1. At(h, q, i) = h
      BY <2>2 DEF At
    <3> QED BY <3>1, LinksAssumption DEF Cell
  <2> QED BY <2>1, <2>2
<1>6. ASSUME NEW i \in 0..Len(q), NEW j \in 0..Len(q), At(h, q, i) = At(h, q, j)
      PROVE  i = j
  <2>1. (i = 0 \/ i \in 1..Len(q)) /\ (j = 0 \/ j \in 1..Len(q))
    BY <1>1
  <2> QED BY <1>2, <1>3, <1>4, <1>6, <2>1
<1>7. ASSUME NEW i \in 1..(Len(q) + 1), NEW j \in 1..(Len(q) + 1), At(h, q, i) = At(h, q, j)
      PROVE  i = j
  <2>1. (i = Len(q) + 1 \/ i \in 1..Len(q)) /\ (j = Len(q) + 1 \/ j \in 1..Len(q))
    BY <1>1
  <2> QED BY <1>2, <1>3, <1>4, <1>7, <2>1
<1> QED BY <1>1, <1>2, <1>5, <1>6, <1>7

LEMMA ChainsApart ==
  ASSUME NEW m, NEW ls, Represents(m, ls), NEW g \in Heads, NEW h \in Heads, g # h,
         NEW i, NEW j
  PROVE  At(g, ls[g], i) # At(h, ls[h], j)
<1>1. /\ \A k \in 1..Len(ls[g]) : ls[g][k] \in Nodes
      /\ \A k \in 1..Len(ls[h]) : ls[h][k] \in Nodes
  BY DEF Represents
<1>2. \A x \in 1..Len(ls[g]), y \in 1..Len(ls[h]) : ls[g][x] # ls[h][y]
  BY DEF Represents, Apart
<1> QED BY <1>1, <1>2, LinksAssumption DEF At

\* A chain whose cells keep their pointers stays.
LEMMA ChainStays ==
  ASSUME NEW m, NEW d, NEW h, NEW q, Len(q) \in Nat, Chain(m, h, q),
         \A i \in 0..(Len(q) + 1) :
           d.next[At(h, q, i)] = m.next[At(h, q, i)] /\ d.prev[At(h, q, i)] = m.prev[At(h, q, i)]
  PROVE  Chain(d, h, q)
<1>1. \A i \in 0..Len(q) : i \in 0..(Len(q) + 1) /\ i + 1 \in 0..(Len(q) + 1)
  OBVIOUS
<1> QED BY <1>1 DEF Chain

-----------------------------------------------------------------------------
(* Insertion.                                                               *)

\* The pointers after the four assignments of __list_add.
HeapAfterInsert(d, m, e, p, n) ==
  /\ d \in Heap
  /\ \A c \in Cell :
       /\ d.next[c] = IF c = p THEN e ELSE IF c = e THEN n ELSE m.next[c]
       /\ d.prev[c] = IF c = e THEN p ELSE IF c = n THEN e ELSE m.prev[c]

LEMMA InsertFields ==
  ASSUME NEW m \in Heap, NEW e \in Cell, NEW p \in Cell, NEW n \in Cell,
         NEW d, d = list_insert(m, e, p, n)
  PROVE  HeapAfterInsert(d, m, e, p, n)
<1>0. e \in Pointer /\ p \in Pointer /\ n \in Pointer
  BY DEF Pointer
<1>1. PICK a : a = SetNextPrev(m, e, n)
  OBVIOUS
<1>2. a \in Heap /\ a.next = m.next /\ a.prev = [m.prev EXCEPT ![n] = e]
  BY <1>0, <1>1 DEF SetNextPrev, Heap
<1>3. PICK b : b = SetNewNext(a, e, n)
  OBVIOUS
<1>4. b \in Heap /\ b.next = [a.next EXCEPT ![e] = n] /\ b.prev = a.prev
  BY <1>0, <1>2, <1>3 DEF SetNewNext, Heap
<1>5. PICK f : f = SetNewPrev(b, e, p)
  OBVIOUS
<1>6. f \in Heap /\ f.next = b.next /\ f.prev = [b.prev EXCEPT ![e] = p]
  BY <1>0, <1>4, <1>5 DEF SetNewPrev, Heap
<1>7. d = SetPrevNext(f, e, p)
  BY <1>1, <1>3, <1>5 DEF list_insert
<1>8. d \in Heap /\ d.next = [f.next EXCEPT ![p] = e] /\ d.prev = f.prev
  BY <1>0, <1>6, <1>7 DEF SetPrevNext, Heap
<1>9. m.next \in [Cell -> Pointer] /\ m.prev \in [Cell -> Pointer]
  BY DEF Heap
<1> QED BY <1>2, <1>4, <1>6, <1>8, <1>9 DEF HeapAfterInsert

\* q with e after its first k elements.
Inserted(q, k, e) ==
  [j \in 1..(Len(q) + 1) |-> IF j <= k THEN q[j] ELSE IF j = k + 1 THEN e ELSE q[j - 1]]

IsInserted(r, q, k, e, h) ==
  /\ r \in Seq(Nodes) /\ Len(r) = Len(q) + 1
  /\ \A j \in 1..Len(r) : r[j] = IF j <= k THEN q[j] ELSE IF j = k + 1 THEN e ELSE q[j - 1]
  /\ \A i \in 0..(Len(q) + 2) :
       At(h, r, i) = IF i <= k THEN At(h, q, i) ELSE IF i = k + 1 THEN e
                     ELSE At(h, q, i - 1)

LEMMA InsertedList ==
  ASSUME NEW q \in Seq(Nodes), NEW k \in 0..Len(q), NEW e \in Nodes, NEW h
  PROVE  IsInserted(Inserted(q, k, e), q, k, e, h)
<1> DEFINE r == Inserted(q, k, e)
<1>1. Len(q) \in Nat /\ \A i \in 1..Len(q) : q[i] \in Nodes
  OBVIOUS
<1>2. r \in Seq(Nodes) /\ Len(r) = Len(q) + 1
  <2>1. r \in [1..(Len(q) + 1) -> Nodes]
    BY <1>1 DEF Inserted
  <2>2. Len(q) + 1 \in Nat
    BY <1>1
  <2> QED BY <2>1, <2>2
<1>3. \A j \in 1..Len(r) : r[j] = IF j <= k THEN q[j] ELSE IF j = k + 1 THEN e ELSE q[j - 1]
  BY <1>2 DEF Inserted
<1>4. ASSUME NEW i \in 0..(Len(q) + 2)
      PROVE  At(h, r, i) = IF i <= k THEN At(h, q, i) ELSE IF i = k + 1 THEN e
                           ELSE At(h, q, i - 1)
  <2>1. /\ i \in 1..Len(r) <=> i \in 1..(Len(q) + 1)
        /\ i <= k => (i \in 1..(Len(q) + 1) <=> i \in 1..Len(q))
        /\ i = k + 1 => i \in 1..(Len(q) + 1)
        /\ i > k + 1 => (i \in 1..(Len(q) + 1) <=> i - 1 \in 1..Len(q))
    BY <1>1, <1>2
  <2> QED BY <1>1, <1>3, <2>1 DEF At
<1> HIDE DEF r
<1>5. IsInserted(r, q, k, e, h)
  BY <1>2, <1>3, <1>4 DEF IsInserted
<1> QED BY <1>5 DEF r

\* __list_add between the k-th cell of a chain and the next one puts the element
\* there, and leaves the other lists as they are.
LEMMA Insert ==
  ASSUME NEW m, NEW ls, Represents(m, ls), NEW h \in Heads, NEW e \in Nodes, ~In(e, ls),
         NEW k \in 0..Len(ls[h]),
         NEW d, d = list_insert(m, e, At(h, ls[h], k), At(h, ls[h], k + 1))
  PROVE  Represents(d, [ls EXCEPT ![h] = Inserted(ls[h], k, e)])
<1>1. PICK q, r, p, n : /\ q = ls[h] /\ r = Inserted(q, k, e)
                        /\ p = At(h, q, k) /\ n = At(h, q, k + 1)
  OBVIOUS
<1> DEFINE lt == [ls EXCEPT ![h] = r]
<1>2. /\ q \in Seq(Nodes) /\ Len(q) \in Nat
      /\ At(h, q, 0) = h /\ At(h, q, Len(q) + 1) = h
      /\ \A i \in 0..(Len(q) + 1) : At(h, q, i) \in Cell /\ At(h, q, i) # e
      /\ \A i, j \in 0..Len(q) : At(h, q, i) = At(h, q, j) => i = j
      /\ \A i, j \in 1..(Len(q) + 1) : At(h, q, i) = At(h, q, j) => i = j
  BY <1>1, ChainCells
<1>3. k \in 0..Len(q) /\ k + 1 \in 1..(Len(q) + 1)
  BY <1>1, <1>2
<1>4. p \in Cell /\ n \in Cell /\ e \in Cell /\ p # e /\ n # e /\ m \in Heap
  BY <1>1, <1>2, <1>3 DEF Cell, Represents
<1>5. /\ d \in Heap
      /\ \A c \in Cell :
           /\ d.next[c] = IF c = p THEN e ELSE IF c = e THEN n ELSE m.next[c]
           /\ d.prev[c] = IF c = e THEN p ELSE IF c = n THEN e ELSE m.prev[c]
  <2>1. d = list_insert(m, e, p, n)
    BY <1>1
  <2>2. HeapAfterInsert(d, m, e, p, n)
    BY <1>4, <2>1, InsertFields
  <2> QED BY <2>2 DEF HeapAfterInsert
<1>6. /\ r \in Seq(Nodes) /\ Len(r) = Len(q) + 1
      /\ \A j \in 1..Len(r) : r[j] = IF j <= k THEN q[j] ELSE IF j = k + 1 THEN e ELSE q[j - 1]
      /\ \A i \in 0..(Len(q) + 2) :
           At(h, r, i) = IF i <= k THEN At(h, q, i) ELSE IF i = k + 1 THEN e
                         ELSE At(h, q, i - 1)
  <2>1. IsInserted(Inserted(q, k, e), q, k, e, h)
    BY <1>2, <1>3, InsertedList
  <2> QED BY <1>1, <2>1 DEF IsInserted
<1>7. /\ ls \in [Heads -> Seq(Nodes)] /\ lt \in [Heads -> Seq(Nodes)]
      /\ lt[h] = r /\ \A g \in Heads \ {h} : lt[g] = ls[g]
  BY <1>6 DEF Represents
<1> HIDE DEF lt
<1>8. Chain(d, h, r)
  <2> SUFFICES ASSUME NEW i \in 0..(Len(q) + 1)
               PROVE  /\ d.next[At(h, r, i)] = At(h, r, i + 1)
                      /\ d.prev[At(h, r, i + 1)] = At(h, r, i)
    BY <1>6 DEF Chain
  <2>1. \A j \in 0..Len(q) : /\ m.next[At(h, q, j)] = At(h, q, j + 1)
                             /\ m.prev[At(h, q, j + 1)] = At(h, q, j)
    BY <1>1 DEF Represents, Chain
  <2>2. i \in 0..(Len(q) + 2) /\ i + 1 \in 0..(Len(q) + 2)
    BY <1>2
  <2>3. CASE i < k
    <3>1. At(h, r, i) = At(h, q, i) /\ At(h, r, i + 1) = At(h, q, i + 1)
      BY <1>3, <1>6, <2>2, <2>3
    <3>2. i \in 0..Len(q) /\ i + 1 \in 1..(Len(q) + 1) /\ i + 1 \in 0..(Len(q) + 1)
          /\ i \in 0..(Len(q) + 1) /\ i # k /\ i + 1 # k + 1
      BY <1>2, <1>3, <2>3
    <3>3. At(h, q, i) # p /\ At(h, q, i) # e /\ At(h, q, i + 1) # n /\ At(h, q, i + 1) # e
      BY <1>1, <1>2, <1>3, <3>2
    <3>4. At(h, q, i) \in Cell /\ At(h, q, i + 1) \in Cell
      BY <1>2, <3>2
    <3>5. d.next[At(h, q, i)] = m.next[At(h, q, i)]
          /\ d.prev[At(h, q, i + 1)] = m.prev[At(h, q, i + 1)]
      BY <1>5, <3>3, <3>4
    <3> QED BY <2>1, <3>1, <3>2, <3>5
  <2>4. CASE i = k
    <3>1. At(h, r, i) = p /\ At(h, r, i + 1) = e
      BY <1>1, <1>3, <1>6, <2>2, <2>4
    <3> QED BY <1>4, <1>5, <3>1
  <2>5. CASE i = k + 1
    <3>1. At(h, r, i) = e /\ At(h, r, i + 1) = n
      BY <1>1, <1>3, <1>6, <2>2, <2>5
    <3> QED BY <1>4, <1>5, <3>1
  <2>6. CASE i > k + 1
    <3> DEFINE j == i - 1
    <3>1. /\ j \in 0..Len(q) /\ j + 1 = i /\ j + 1 \in 1..(Len(q) + 1) /\ j # k /\ j + 1 # k + 1
          /\ j \in 0..(Len(q) + 1) /\ j + 1 \in 0..(Len(q) + 1) /\ (i + 1) - 1 = j + 1
          /\ i > k + 1 /\ i + 1 > k + 1
      BY <1>2, <1>3, <2>6
    <3>2. At(h, r, i) = At(h, q, j) /\ At(h, r, i + 1) = At(h, q, j + 1)
      BY <1>3, <1>6, <2>2, <3>1
    <3> HIDE DEF j
    <3>3. At(h, q, j) # p /\ At(h, q, j) # e /\ At(h, q, j + 1) # n /\ At(h, q, j + 1) # e
      BY <1>1, <1>2, <1>3, <3>1
    <3>4. At(h, q, j) \in Cell /\ At(h, q, j + 1) \in Cell
      BY <1>2, <3>1
    <3>5. d.next[At(h, q, j)] = m.next[At(h, q, j)]
          /\ d.prev[At(h, q, j + 1)] = m.prev[At(h, q, j + 1)]
      BY <1>5, <3>3, <3>4
    <3> QED BY <2>1, <3>1, <3>2, <3>5
  <2> QED BY <1>3, <2>3, <2>4, <2>5, <2>6
<1>9. ASSUME NEW g \in Heads \ {h} PROVE Chain(d, g, ls[g])
  <2>1. /\ Len(ls[g]) \in Nat
        /\ \A i \in 0..(Len(ls[g]) + 1) : At(g, ls[g], i) \in Cell /\ At(g, ls[g], i) # e
    BY ChainCells
  <2>2. Chain(m, g, ls[g])
    BY DEF Represents
  <2>3. \A i : At(g, ls[g], i) # p /\ At(g, ls[g], i) # n
    BY <1>1, ChainsApart
  <2>4. \A i \in 0..(Len(ls[g]) + 1) :
          /\ d.next[At(g, ls[g], i)] = m.next[At(g, ls[g], i)]
          /\ d.prev[At(g, ls[g], i)] = m.prev[At(g, ls[g], i)]
    BY <1>5, <2>1, <2>3
  <2> QED BY <2>1, <2>2, <2>4, ChainStays
<1>10. \A g \in Heads : Chain(d, g, lt[g])
  BY <1>7, <1>8, <1>9
<1>11. ASSUME NEW i \in 1..Len(r)
       PROVE  r[i] = e \/ \E j \in 1..Len(q) : r[i] = q[j] /\ j = IF i <= k THEN i ELSE i - 1
  <2>1. CASE i <= k
    BY <1>2, <1>3, <1>6, <2>1
  <2>2. CASE i = k + 1
    BY <1>3, <1>6, <2>2
  <2>3. CASE i > k + 1
    <3>1. r[i] = q[i - 1] /\ i - 1 \in 1..Len(q) /\ ~(i <= k)
      BY <1>2, <1>3, <1>6, <2>3
    <3> QED BY <3>1
  <2> QED BY <1>3, <2>1, <2>2, <2>3
<1>12. \A g \in Heads : \A i \in 1..Len(ls[g]) : ls[g][i] # e
  BY DEF In
<1>13. \A i \in 1..Len(r) : r[i] = e <=> i = k + 1
  <2> SUFFICES ASSUME NEW i \in 1..Len(r) PROVE r[i] = e <=> i = k + 1
    OBVIOUS
  <2>1. CASE i = k + 1
    BY <1>3, <1>6, <2>1
  <2>2. CASE i <= k
    <3>1. r[i] = q[i] /\ i \in 1..Len(q) /\ i # k + 1
      BY <1>2, <1>3, <1>6, <2>2
    <3> QED BY <1>1, <1>12, <3>1
  <2>3. CASE i > k + 1
    <3>1. r[i] = q[i - 1] /\ i - 1 \in 1..Len(q)
      BY <1>2, <1>3, <1>6, <2>3
    <3> QED BY <1>1, <1>12, <2>3, <3>1
  <2> QED BY <1>3, <2>1, <2>2, <2>3
<1>14. Apart(lt)
  <2>1. ASSUME NEW i \in 1..Len(r), NEW j \in 1..Len(r), r[i] = r[j]
        PROVE  i = j
    <3>1. CASE r[i] = e
      BY <1>13, <2>1, <3>1
    <3>2. CASE r[i] # e
      <4>1. PICK x \in 1..Len(q) : r[i] = q[x] /\ x = IF i <= k THEN i ELSE i - 1
        BY <1>11, <3>2
      <4>2. PICK y \in 1..Len(q) : r[j] = q[y] /\ y = IF j <= k THEN j ELSE j - 1
        BY <1>11, <2>1, <3>2
      <4>3. x = y
        <5>1. \A a, b \in 1..Len(q) : q[a] = q[b] => a = b
          BY <1>1 DEF Represents, Apart
        <5> QED BY <2>1, <4>1, <4>2, <5>1
      <4>4. i # k + 1 /\ j # k + 1
        BY <1>13, <2>1, <3>2
      <4> QED BY <1>3, <4>1, <4>2, <4>3, <4>4
    <3> QED BY <3>1, <3>2
  <2>2. ASSUME NEW g \in Heads \ {h}, NEW i \in 1..Len(r), NEW j \in 1..Len(ls[g])
        PROVE  r[i] # ls[g][j]
    <3>1. CASE r[i] = e
      BY <1>12, <3>1
    <3>2. CASE r[i] # e
      <4>1. PICK x \in 1..Len(q) : r[i] = q[x]
        BY <1>11, <3>2
      <4> QED BY <1>1, <4>1 DEF Represents, Apart
    <3> QED BY <3>1, <3>2
  <2>3. \A g, f \in Heads \ {h} : \A i \in 1..Len(ls[g]), j \in 1..Len(ls[f]) :
          ls[g][i] = ls[f][j] => g = f /\ i = j
    BY DEF Represents, Apart
  <2> SUFFICES ASSUME NEW g \in Heads, NEW f \in Heads,
                      NEW i \in 1..Len(lt[g]), NEW j \in 1..Len(lt[f]), lt[g][i] = lt[f][j]
               PROVE  g = f /\ i = j
    BY DEF Apart
  <2>4. CASE g = h /\ f = h
    BY <1>7, <2>1, <2>4
  <2>5. CASE g = h /\ f # h
    BY <1>7, <2>2, <2>5
  <2>6. CASE g # h /\ f = h
    BY <1>7, <2>2, <2>6
  <2>7. CASE g # h /\ f # h
    BY <1>7, <2>3, <2>7
  <2> QED BY <2>4, <2>5, <2>6, <2>7
<1>15. ASSUME NEW c \in Nodes, ~In(c, lt) PROVE list_null(d, c)
  <2>1. c # e
    <3>1. k + 1 \in 1..Len(r) /\ r[k + 1] = e
      BY <1>3, <1>6, <1>13
    <3> QED BY <1>7, <1>15, <3>1 DEF In
  <2>2. ~In(c, ls)
    <3> SUFFICES ASSUME NEW g \in Heads, NEW i \in 1..Len(ls[g]), ls[g][i] = c
                 PROVE  FALSE
      BY DEF In
    <3>1. CASE g # h
      BY <1>7, <1>15, <3>1 DEF In
    <3>2. CASE g = h
      <4>1. i \in 1..Len(q) /\ q[i] = c
        BY <1>1, <3>2
      <4>2. CASE i <= k
        <5>1. i \in 1..Len(r) /\ r[i] = c
          BY <1>2, <1>6, <4>1, <4>2
        <5> QED BY <1>7, <1>15, <5>1 DEF In
      <4>3. CASE i > k
        <5>1. i + 1 \in 1..Len(r) /\ r[i + 1] = c
          BY <1>2, <1>3, <1>6, <4>1, <4>3
        <5> QED BY <1>7, <1>15, <5>1 DEF In
      <4> QED BY <1>3, <4>1, <4>2, <4>3
    <3> QED BY <3>1, <3>2
  <2>3. list_null(m, c)
    BY <2>2 DEF Represents
  <2>4. c # p /\ c # n /\ c \in Cell
    <3>1. k \in 0..(Len(q) + 1) /\ k + 1 \in 0..(Len(q) + 1)
      BY <1>2, <1>3
    <3> QED BY <1>1, <2>2, <3>1, ChainCells DEF Cell
  <2> QED BY <1>5, <2>1, <2>3, <2>4 DEF list_null
<1> QED BY <1>1, <1>5, <1>7, <1>10, <1>14, <1>15 DEF Represents, lt

-----------------------------------------------------------------------------
(* Deletion.                                                                *)

\* The pointers after list_sdel of an element e between p and n.
HeapAfterDelete(d, m, e, p, n) ==
  /\ d \in Heap
  /\ \A c \in Cell :
       /\ d.next[c] = IF c = e THEN NIL ELSE IF c = p THEN n ELSE m.next[c]
       /\ d.prev[c] = IF c = e THEN NIL ELSE IF c = n THEN p ELSE m.prev[c]

LEMMA DeleteFields ==
  ASSUME NEW m \in Heap, NEW e \in Cell, m.prev[e] \in Cell, m.next[e] \in Cell
  PROVE  HeapAfterDelete(list_sdel(m, e), m, e, m.prev[e], m.next[e])
<1>1. PICK p, n, d : p = m.prev[e] /\ n = m.next[e] /\ d = list_sdel(m, e)
  OBVIOUS
<1>2. p \in Pointer /\ n \in Pointer /\ NIL \in Pointer /\ p \in Cell /\ n \in Cell
  BY <1>1 DEF Pointer
<1>3. m.next \in [Cell -> Pointer] /\ m.prev \in [Cell -> Pointer]
  BY DEF Heap
<1>4. ~list_null(m, e)
  BY LinksAssumption DEF list_null, Cell
<1>5. PICK a : a = list_unlink(m, p, n)
  OBVIOUS
<1>6. a = [next |-> [m.next EXCEPT ![p] = n], prev |-> [m.prev EXCEPT ![n] = p]]
  BY <1>2, <1>5 DEF list_unlink, Heap
<1>7. d = [a EXCEPT !.next[e] = NIL, !.prev[e] = NIL]
  BY <1>1, <1>4, <1>5 DEF list_sdel, list_del
<1>8. d = [next |-> [a.next EXCEPT ![e] = NIL], prev |-> [a.prev EXCEPT ![e] = NIL]]
  BY <1>6, <1>7
<1>9. d.next = [a.next EXCEPT ![e] = NIL] /\ d.prev = [a.prev EXCEPT ![e] = NIL]
  BY <1>8
<1>10. /\ a.next = [m.next EXCEPT ![p] = n] /\ a.prev = [m.prev EXCEPT ![n] = p]
       /\ a.next \in [Cell -> Pointer] /\ a.prev \in [Cell -> Pointer]
  BY <1>2, <1>3, <1>6
<1>11. d \in Heap
  BY <1>2, <1>8, <1>10 DEF Heap
<1>12. ASSUME NEW c \in Cell
       PROVE  /\ d.next[c] = IF c = e THEN NIL ELSE IF c = p THEN n ELSE m.next[c]
              /\ d.prev[c] = IF c = e THEN NIL ELSE IF c = n THEN p ELSE m.prev[c]
  BY <1>2, <1>3, <1>9, <1>10
<1> QED BY <1>1, <1>11, <1>12 DEF HeapAfterDelete

\* q without its x-th element.
Removed(q, x) == [j \in 1..(Len(q) - 1) |-> IF j < x THEN q[j] ELSE q[j + 1]]

IsRemoved(r, q, x, h) ==
  /\ r \in Seq(Nodes) /\ Len(r) = Len(q) - 1
  /\ \A j \in 1..Len(r) : r[j] = IF j < x THEN q[j] ELSE q[j + 1]
  /\ \A i \in 0..Len(q) : At(h, r, i) = IF i < x THEN At(h, q, i) ELSE At(h, q, i + 1)

LEMMA RemovedList ==
  ASSUME NEW q \in Seq(Nodes), NEW x \in 1..Len(q), NEW h
  PROVE  IsRemoved(Removed(q, x), q, x, h)
<1> DEFINE r == Removed(q, x)
<1>1. Len(q) \in Nat /\ \A i \in 1..Len(q) : q[i] \in Nodes
  OBVIOUS
<1>2. r \in Seq(Nodes) /\ Len(r) = Len(q) - 1
  <2>1. r \in [1..(Len(q) - 1) -> Nodes]
    BY <1>1 DEF Removed
  <2>2. Len(q) - 1 \in Nat
    BY <1>1
  <2> QED BY <2>1, <2>2
<1>3. \A j \in 1..Len(r) : r[j] = IF j < x THEN q[j] ELSE q[j + 1]
  BY <1>2 DEF Removed
<1> HIDE DEF r
<1>4. ASSUME NEW i \in 0..Len(q)
      PROVE  At(h, r, i) = IF i < x THEN At(h, q, i) ELSE At(h, q, i + 1)
  <2>1. /\ i \in 1..Len(r) <=> i \in 1..(Len(q) - 1)
        /\ i < x => (i \in 1..(Len(q) - 1) <=> i \in 1..Len(q))
        /\ ~(i < x) => (i \in 1..(Len(q) - 1) <=> i + 1 \in 1..Len(q))
    BY <1>1, <1>2
  <2> QED BY <1>1, <1>3, <2>1 DEF At
<1>5. IsRemoved(r, q, x, h)
  BY <1>2, <1>3, <1>4 DEF IsRemoved
<1> QED BY <1>5 DEF r

\* list_sdel of an element that is in a list takes it out, nulls its pointers and
\* leaves the other lists as they are.
LEMMA Remove ==
  ASSUME NEW m, NEW ls, Represents(m, ls), NEW h \in Heads, NEW x \in 1..Len(ls[h])
  PROVE  Represents(list_sdel(m, ls[h][x]), [ls EXCEPT ![h] = Removed(ls[h], x)])
<1>1. PICK q, r, e, p, n, d : /\ q = ls[h] /\ r = Removed(q, x) /\ e = q[x]
                              /\ p = At(h, q, x - 1) /\ n = At(h, q, x + 1)
                              /\ d = list_sdel(m, e)
  OBVIOUS
<1> DEFINE lt == [ls EXCEPT ![h] = r]
<1>2. /\ q \in Seq(Nodes) /\ Len(q) \in Nat
      /\ \A i \in 0..(Len(q) + 1) : At(h, q, i) \in Cell
      /\ \A i, j \in 0..Len(q) : At(h, q, i) = At(h, q, j) => i = j
      /\ \A i, j \in 1..(Len(q) + 1) : At(h, q, i) = At(h, q, j) => i = j
  BY <1>1, ChainCells
<1>3. /\ x \in 1..Len(q) /\ x - 1 \in 0..Len(q) /\ x + 1 \in 1..(Len(q) + 1)
      /\ x - 1 \in 0..(Len(q) + 1) /\ x + 1 \in 0..(Len(q) + 1) /\ (x - 1) + 1 = x
      /\ x \in 0..Len(q) /\ x \in 1..(Len(q) + 1)
  BY <1>1, <1>2
<1>4. e \in Nodes /\ At(h, q, x) = e
  BY <1>1, <1>2, <1>3 DEF At
<1>5. p \in Cell /\ n \in Cell /\ e \in Cell /\ p # e /\ n # e /\ m \in Heap
  <2>1. p \in Cell /\ n \in Cell
    BY <1>1, <1>2, <1>3
  <2>2. p # e /\ n # e
    BY <1>1, <1>2, <1>3, <1>4
  <2> QED BY <1>4, <2>1, <2>2 DEF Represents, Cell
<1>6. \A j \in 0..Len(q) : /\ m.next[At(h, q, j)] = At(h, q, j + 1)
                           /\ m.prev[At(h, q, j + 1)] = At(h, q, j)
  BY <1>1 DEF Represents, Chain
<1>7. m.next[e] = n /\ m.prev[e] = p
  BY <1>1, <1>3, <1>4, <1>6
<1>8. /\ d \in Heap
      /\ \A c \in Cell :
           /\ d.next[c] = IF c = e THEN NIL ELSE IF c = p THEN n ELSE m.next[c]
           /\ d.prev[c] = IF c = e THEN NIL ELSE IF c = n THEN p ELSE m.prev[c]
  <2>1. HeapAfterDelete(list_sdel(m, e), m, e, m.prev[e], m.next[e])
    BY <1>5, <1>7, DeleteFields
  <2> QED BY <1>1, <1>7, <2>1 DEF HeapAfterDelete
<1>9. /\ r \in Seq(Nodes) /\ Len(r) = Len(q) - 1
      /\ \A j \in 1..Len(r) : r[j] = IF j < x THEN q[j] ELSE q[j + 1]
      /\ \A i \in 0..Len(q) : At(h, r, i) = IF i < x THEN At(h, q, i) ELSE At(h, q, i + 1)
  <2>1. IsRemoved(Removed(q, x), q, x, h)
    BY <1>2, <1>3, RemovedList
  <2> QED BY <1>1, <2>1 DEF IsRemoved
<1>10. /\ ls \in [Heads -> Seq(Nodes)] /\ lt \in [Heads -> Seq(Nodes)]
       /\ lt[h] = r /\ \A g \in Heads \ {h} : lt[g] = ls[g]
  BY <1>9 DEF Represents
<1> HIDE DEF lt
<1>11. Chain(d, h, r)
  <2> SUFFICES ASSUME NEW i \in 0..(Len(q) - 1)
               PROVE  /\ d.next[At(h, r, i)] = At(h, r, i + 1)
                      /\ d.prev[At(h, r, i + 1)] = At(h, r, i)
    BY <1>9 DEF Chain
  <2>1. i \in 0..Len(q) /\ i + 1 \in 0..Len(q)
    BY <1>2
  <2>2. ASSUME NEW j \in 0..Len(q), j # x - 1, j # x
        PROVE  /\ d.next[At(h, q, j)] = At(h, q, j + 1)
               /\ d.prev[At(h, q, j + 1)] = At(h, q, j)
    <3>1. /\ j \in 0..(Len(q) + 1) /\ j + 1 \in 1..(Len(q) + 1) /\ j + 1 \in 0..(Len(q) + 1)
          /\ j + 1 # x /\ j + 1 # x + 1
      BY <1>2, <1>3, <2>2
    <3>2. At(h, q, j) # p /\ At(h, q, j) # e
      BY <1>1, <1>2, <1>3, <1>4, <2>2
    <3>3. At(h, q, j + 1) # n /\ At(h, q, j + 1) # e
      BY <1>1, <1>2, <1>3, <1>4, <3>1
    <3>4. At(h, q, j) \in Cell /\ At(h, q, j + 1) \in Cell
      BY <1>2, <3>1
    <3> QED BY <1>6, <1>8, <3>2, <3>3, <3>4
  <2>3. CASE i < x - 1
    <3>1. i < x /\ i + 1 < x /\ i # x - 1 /\ i # x
      BY <1>3, <2>3
    <3>2. At(h, r, i) = At(h, q, i) /\ At(h, r, i + 1) = At(h, q, i + 1)
      BY <1>9, <2>1, <3>1
    <3> QED BY <2>1, <2>2, <3>1, <3>2
  <2>4. CASE i = x - 1
    <3>1. i < x /\ ~(i + 1 < x) /\ (i + 1) + 1 = x + 1
      BY <1>3, <2>4
    <3>2. At(h, r, i) = p /\ At(h, r, i + 1) = n
      BY <1>1, <1>9, <2>1, <2>4, <3>1
    <3> QED BY <1>5, <1>8, <3>2
  <2>5. CASE i > x - 1
    <3>1. ~(i < x) /\ ~(i + 1 < x) /\ i + 1 # x - 1 /\ i + 1 # x
      BY <1>3, <2>5
    <3>2. At(h, r, i) = At(h, q, i + 1) /\ At(h, r, i + 1) = At(h, q, (i + 1) + 1)
      BY <1>9, <2>1, <3>1
    <3> QED BY <2>1, <2>2, <3>1, <3>2
  <2> QED BY <1>3, <2>3, <2>4, <2>5
<1>12. ASSUME NEW g \in Heads \ {h} PROVE Chain(d, g, ls[g])
  <2>1. /\ Len(ls[g]) \in Nat
        /\ \A i \in 0..(Len(ls[g]) + 1) : At(g, ls[g], i) \in Cell
    BY ChainCells
  <2>2. Chain(m, g, ls[g])
    BY DEF Represents
  <2>3. ASSUME NEW i PROVE At(g, ls[g], i) # p /\ At(g, ls[g], i) # n /\ At(g, ls[g], i) # e
    <3>1. \A j : At(g, ls[g], i) # At(h, q, j)
      BY <1>1, ChainsApart
    <3> QED BY <1>1, <1>4, <3>1
  <2>4. \A i \in 0..(Len(ls[g]) + 1) :
          /\ d.next[At(g, ls[g], i)] = m.next[At(g, ls[g], i)]
          /\ d.prev[At(g, ls[g], i)] = m.prev[At(g, ls[g], i)]
    BY <1>8, <2>1, <2>3
  <2> QED BY <2>1, <2>2, <2>4, ChainStays
<1>13. \A g \in Heads : Chain(d, g, lt[g])
  BY <1>10, <1>11, <1>12
<1>14. ASSUME NEW i \in 1..Len(r)
       PROVE  \E j \in 1..Len(q) : r[i] = q[j] /\ j = IF i < x THEN i ELSE i + 1
  <2>1. CASE i < x
    BY <1>2, <1>3, <1>9, <2>1
  <2>2. CASE ~(i < x)
    <3>1. r[i] = q[i + 1] /\ i + 1 \in 1..Len(q)
      BY <1>2, <1>3, <1>9, <2>2
    <3> QED BY <2>2, <3>1
  <2> QED BY <2>1, <2>2
<1>15. Apart(lt)
  <2>0. \A a, b \in 1..Len(q) : q[a] = q[b] => a = b
    BY <1>1 DEF Represents, Apart
  <2>1. ASSUME NEW i \in 1..Len(r), NEW j \in 1..Len(r), r[i] = r[j]
        PROVE  i = j
    <3>1. PICK a \in 1..Len(q) : r[i] = q[a] /\ a = IF i < x THEN i ELSE i + 1
      BY <1>14
    <3>2. PICK b \in 1..Len(q) : r[j] = q[b] /\ b = IF j < x THEN j ELSE j + 1
      BY <1>14
    <3>3. a = b
      BY <2>0, <2>1, <3>1, <3>2
    <3> QED BY <1>3, <3>1, <3>2, <3>3
  <2>2. ASSUME NEW g \in Heads \ {h}, NEW i \in 1..Len(r), NEW j \in 1..Len(ls[g])
        PROVE  r[i] # ls[g][j]
    <3>1. PICK a \in 1..Len(q) : r[i] = q[a]
      BY <1>14
    <3> QED BY <1>1, <3>1 DEF Represents, Apart
  <2>3. \A g, f \in Heads \ {h} : \A i \in 1..Len(ls[g]), j \in 1..Len(ls[f]) :
          ls[g][i] = ls[f][j] => g = f /\ i = j
    BY DEF Represents, Apart
  <2> SUFFICES ASSUME NEW g \in Heads, NEW f \in Heads,
                      NEW i \in 1..Len(lt[g]), NEW j \in 1..Len(lt[f]), lt[g][i] = lt[f][j]
               PROVE  g = f /\ i = j
    BY DEF Apart
  <2>4. CASE g = h /\ f = h
    BY <1>10, <2>1, <2>4
  <2>5. CASE g = h /\ f # h
    BY <1>10, <2>2, <2>5
  <2>6. CASE g # h /\ f = h
    BY <1>10, <2>2, <2>6
  <2>7. CASE g # h /\ f # h
    BY <1>10, <2>3, <2>7
  <2> QED BY <2>4, <2>5, <2>6, <2>7
<1>16. ASSUME NEW c \in Nodes, ~In(c, lt) PROVE list_null(d, c)
  <2>1. CASE c = e
    BY <1>5, <1>8, <2>1 DEF list_null
  <2>2. CASE c # e
    <3>1. ~In(c, ls)
      <4> SUFFICES ASSUME NEW g \in Heads, NEW i \in 1..Len(ls[g]), ls[g][i] = c
                   PROVE  FALSE
        BY DEF In
      <4>1. CASE g # h
        BY <1>10, <1>16, <4>1 DEF In
      <4>2. CASE g = h
        <5>1. i \in 1..Len(q) /\ q[i] = c /\ i # x
          BY <1>1, <2>2, <4>2
        <5>2. CASE i < x
          <6>1. i \in 1..Len(r) /\ r[i] = c
            BY <1>2, <1>3, <1>9, <5>1, <5>2
          <6> QED BY <1>10, <1>16, <6>1 DEF In
        <5>3. CASE i > x
          <6>1. i - 1 \in 1..Len(r) /\ r[i - 1] = c
            BY <1>2, <1>3, <1>9, <5>1, <5>3
          <6> QED BY <1>10, <1>16, <6>1 DEF In
        <5> QED BY <1>3, <5>1, <5>2, <5>3
      <4> QED BY <4>1, <4>2
    <3>2. list_null(m, c)
      BY <3>1 DEF Represents
    <3>3. c # p /\ c # n /\ c \in Cell
      BY <1>1, <1>3, <3>1, ChainCells DEF Cell
    <3> QED BY <1>8, <2>2, <3>2, <3>3 DEF list_null
  <2> QED BY <2>1, <2>2
<1>17. Represents(d, lt)
  BY <1>8, <1>10, <1>13, <1>15, <1>16 DEF Represents
<1> QED BY <1>1, <1>17 DEF lt

-----------------------------------------------------------------------------
(* The steps of the specification.                                          *)

\* An element in a list has no null pointers: list_null is what tells whether an
\* element may be added.
LEMMA LinkedNotNull ==
  ASSUME NEW m, NEW ls, Represents(m, ls), NEW e \in Nodes
  PROVE  list_null(m, e) <=> ~In(e, ls)
<1>1. ASSUME In(e, ls) PROVE ~list_null(m, e)
  <2>0. PICK h \in Heads : \E i \in 1..Len(ls[h]) : ls[h][i] = e
    BY <1>1 DEF In
  <2>1. PICK i \in 1..Len(ls[h]) : ls[h][i] = e
    BY <2>0
  <2>2. PICK q : q = ls[h]
    OBVIOUS
  <2>3. i \in 0..Len(q) /\ i + 1 \in 0..(Len(q) + 1) /\ At(h, q, i) = e
    BY <2>1, <2>2, ChainCells DEF At
  <2>4. m.next[At(h, q, i)] = At(h, q, i + 1)
    BY <2>2, <2>3 DEF Represents, Chain
  <2>5. At(h, q, i + 1) \in Cell
    BY <2>2, <2>3, ChainCells
  <2> QED BY <2>3, <2>4, <2>5, LinksAssumption DEF list_null, Cell
<1> QED BY <1>1 DEF Represents

LEMMA InitLists ==
  Init => HeapInv /\ Lists_ = [h \in Heads |-> << >>]
<1> SUFFICES ASSUME Init PROVE HeapInv /\ Lists_ = [h \in Heads |-> << >>]
  OBVIOUS
<1> DEFINE ls == [h \in Heads |-> << >>]
<1>1. /\ heap \in Heap /\ \A h \in Heads : heap.next[h] = h /\ heap.prev[h] = h
      /\ \A e \in Nodes : heap.next[e] = NIL /\ heap.prev[e] = NIL
  BY LinksAssumption DEF Init, EmptyHeap, Heap, Pointer, Cell
<1>2. ls \in [Heads -> Seq(Nodes)] /\ \A h \in Heads : ls[h] = << >> /\ Len(ls[h]) = 0
  OBVIOUS
<1>3. \A h, i : At(h, << >>, i) = h
  BY DEF At
<1>4. \A h \in Heads : Chain(heap, h, ls[h])
  BY <1>1, <1>2, <1>3 DEF Chain
<1>5. Apart(ls)
  BY <1>2 DEF Apart
<1>6. \A e \in Nodes : list_null(heap, e)
  BY <1>1 DEF list_null
<1>7. Represents(heap, ls)
  BY <1>1, <1>2, <1>4, <1>5, <1>6 DEF Represents
<1> HIDE DEF ls
<1>8. Lists_ = ls
  BY <1>7, LoopsMeetLists DEF Lists_
<1> QED BY <1>7, <1>8 DEF HeapInv, ls

\* list_add puts the element first.
LEMMA AddStep ==
  ASSUME HeapInv, NEW h \in Heads, NEW e \in Nodes, Add(h, e)
  PROVE  /\ HeapInv' /\ ~In(e, Lists_)
         /\ Lists_' = [Lists_ EXCEPT ![h] = << e >> \o @]
<1>1. PICK ls, q : ls = Lists_ /\ q = ls[h]
  OBVIOUS
<1>2. Represents(heap, ls)
  BY <1>1 DEF HeapInv
<1>3. ~In(e, ls)
  BY <1>2, LinkedNotNull DEF Add
<1>4. q \in Seq(Nodes) /\ Len(q) \in Nat /\ At(h, q, 0) = h
  BY <1>1, <1>2, ChainCells
<1>5. heap.next[h] = At(h, q, 0 + 1)
  BY <1>1, <1>2, <1>4 DEF Represents, Chain
<1>6. heap' = list_insert(heap, e, At(h, ls[h], 0), At(h, ls[h], 0 + 1))
  BY <1>1, <1>4, <1>5 DEF Add, list_add
<1>7. 0 \in 0..Len(ls[h])
  BY <1>1, <1>4
<1>8. Represents(heap', [ls EXCEPT ![h] = Inserted(ls[h], 0, e)])
  BY <1>2, <1>3, <1>6, <1>7, Insert
<1>9. Inserted(q, 0, e) = << e >> \o q
  <2>1. << e >> \o q = [j \in 1..(1 + Len(q)) |-> IF j <= 1 THEN e ELSE q[j - 1]]
    BY <1>4
  <2>2. Inserted(q, 0, e) = [j \in 1..(Len(q) + 1) |-> IF j = 1 THEN e ELSE q[j - 1]]
    BY <1>4 DEF Inserted
  <2> QED BY <1>4, <2>1, <2>2
<1>10. Represents(heap', [ls EXCEPT ![h] = << e >> \o @])
  BY <1>1, <1>8, <1>9
<1>11. Lists_' = [ls EXCEPT ![h] = << e >> \o @]
  BY <1>10, LoopsMeetLists DEF Lists_
<1> QED BY <1>1, <1>3, <1>10, <1>11 DEF HeapInv

\* list_add_tail puts it last.
LEMMA AddTailStep ==
  ASSUME HeapInv, NEW h \in Heads, NEW e \in Nodes, AddTail(h, e)
  PROVE  /\ HeapInv' /\ ~In(e, Lists_)
         /\ Lists_' = [Lists_ EXCEPT ![h] = Append(@, e)]
<1>1. PICK ls, q : ls = Lists_ /\ q = ls[h]
  OBVIOUS
<1>2. Represents(heap, ls)
  BY <1>1 DEF HeapInv
<1>3. ~In(e, ls)
  BY <1>2, LinkedNotNull DEF AddTail
<1>4. q \in Seq(Nodes) /\ Len(q) \in Nat /\ At(h, q, Len(q) + 1) = h
  BY <1>1, <1>2, ChainCells
<1>5. heap.prev[h] = At(h, q, Len(q))
  BY <1>1, <1>2, <1>4 DEF Represents, Chain
<1>6. heap' = list_insert(heap, e, At(h, ls[h], Len(q)), At(h, ls[h], Len(q) + 1))
  BY <1>1, <1>4, <1>5 DEF AddTail, list_add_tail
<1>7. Len(q) \in 0..Len(ls[h])
  BY <1>1, <1>4
<1>8. Represents(heap', [ls EXCEPT ![h] = Inserted(ls[h], Len(q), e)])
  BY <1>2, <1>3, <1>6, <1>7, Insert
<1>9. Inserted(q, Len(q), e) = Append(q, e)
  <2>1. Append(q, e) = [j \in 1..(Len(q) + 1) |-> IF j = Len(q) + 1 THEN e ELSE q[j]]
    <3>1. PICK r : r = Append(q, e)
      OBVIOUS
    <3>2. /\ r \in Seq(Nodes) /\ Len(r) = Len(q) + 1
          /\ \A j \in 1..(Len(q) + 1) : r[j] = IF j = Len(q) + 1 THEN e ELSE q[j]
      BY <1>4, <3>1
    <3>3. r = [j \in 1..Len(r) |-> r[j]]
      BY <3>2
    <3> QED BY <3>1, <3>2, <3>3
  <2>2. Inserted(q, Len(q), e) = [j \in 1..(Len(q) + 1) |-> IF j = Len(q) + 1 THEN e ELSE q[j]]
    BY <1>4 DEF Inserted
  <2> QED BY <2>1, <2>2
<1>10. Represents(heap', [ls EXCEPT ![h] = Append(@, e)])
  BY <1>1, <1>8, <1>9
<1>11. Lists_' = [ls EXCEPT ![h] = Append(@, e)]
  BY <1>10, LoopsMeetLists DEF Lists_
<1> QED BY <1>1, <1>3, <1>10, <1>11 DEF HeapInv

\* list_sdel takes an element out of the list it is in, if it is in one.
LEMMA DeleteStep ==
  ASSUME HeapInv, NEW e \in Nodes, Delete(e)
  PROVE  /\ HeapInv'
         /\ \/ ~In(e, Lists_) /\ Lists_' = Lists_
            \/ \E h \in Heads : \E x \in 1..Len(Lists_[h]) :
                 Lists_[h][x] = e /\ Lists_' = [Lists_ EXCEPT ![h] = Removed(@, x)]
<1>1. PICK ls : ls = Lists_
  OBVIOUS
<1>2. Represents(heap, ls)
  BY <1>1 DEF HeapInv
<1>3. CASE ~In(e, ls)
  <2>1. heap' = heap
    BY <1>2, <1>3, LinkedNotNull DEF Delete, list_sdel
  <2> QED BY <1>1, <1>2, <1>3, <2>1 DEF HeapInv, Lists_
<1>4. CASE In(e, ls)
  <2>0. PICK h \in Heads : \E x \in 1..Len(ls[h]) : ls[h][x] = e
    BY <1>4 DEF In
  <2>1. PICK x \in 1..Len(ls[h]) : ls[h][x] = e
    BY <2>0
  <2>2. Represents(heap', [ls EXCEPT ![h] = Removed(ls[h], x)])
    BY <1>2, <2>1, Remove DEF Delete
  <2>3. Lists_' = [ls EXCEPT ![h] = Removed(ls[h], x)]
    BY <2>2, LoopsMeetLists DEF Lists_
  <2> QED BY <1>1, <2>1, <2>2, <2>3 DEF HeapInv
<1> QED BY <1>3, <1>4

LEMMA HeapInvKept ==
  HeapInv /\ [Next]_vars => HeapInv'
<1> SUFFICES ASSUME HeapInv, [Next]_vars PROVE HeapInv'
  OBVIOUS
<1>1. CASE UNCHANGED vars
  BY <1>1 DEF HeapInv, Lists_, vars
<1>2. CASE Next
  BY <1>2, AddStep, AddTailStep, DeleteStep DEF Next
<1> QED BY <1>1, <1>2

\* In every reachable heap the pointers of each list form a circle, no element
\* is in two places, and one in none has null pointers.
THEOREM PointersConsistent == Spec => []HeapInv
<1>1. Init => HeapInv
  BY InitLists
<1> QED BY <1>1, HeapInvKept, PTL DEF Spec

-----------------------------------------------------------------------------
(* The refinement.                                                          *)

\* The elements of a list by position, in Links and in ListSpec.
LEMMA RangeOfList ==
  ASSUME NEW q \in Seq(Nodes)
  PROVE  Range(q) = {q[i] : i \in 1..Len(q)} /\ AsSequences!Range(q) = Range(q)
BY DEF Range, AsSequences!Range

\* What ListSpec asks of an element that is added.
LEMMA LinkedIn ==
  ASSUME NEW e \in Nodes, Lists_ \in [Heads -> Seq(Nodes)]
  PROVE  AsSequences!Linked(e) <=> In(e, Lists_)
<1>1. \A h \in Heads :
        AsSequences!Range(Lists_[h]) = {Lists_[h][i] : i \in 1..Len(Lists_[h])}
  BY RangeOfList
<1> QED BY <1>1 DEF AsSequences!Linked, AsSequences!list_contains, In, Lists_

\* list_sdel of Lists, on the list the element is in and on another one.
LEMMA SdelOfSequence ==
  ASSUME NEW q \in Seq(Nodes), NEW e \in Nodes,
         \A i, j \in 1..Len(q) : q[i] = q[j] => i = j
  PROVE  /\ (\A i \in 1..Len(q) : q[i] # e) => AsSequences!list_sdel(e, q) = q
         /\ \A x \in 1..Len(q) : q[x] = e => AsSequences!list_sdel(e, q) = Removed(q, x)
<1>1. AsSequences!Range(q) = {q[i] : i \in 1..Len(q)}
  BY RangeOfList
<1>2. ASSUME \A i \in 1..Len(q) : q[i] # e PROVE AsSequences!list_sdel(e, q) = q
  BY <1>1, <1>2 DEF AsSequences!list_sdel, AsSequences!list_contains
<1>3. ASSUME NEW x \in 1..Len(q), q[x] = e PROVE AsSequences!list_sdel(e, q) = Removed(q, x)
  <2>1. e \in AsSequences!Range(q)
    BY <1>1, <1>3
  <2>2. (CHOOSE k \in 1..Len(q) : q[k] = e) = x
    BY <1>3
  <2> QED BY <2>1, <2>2 DEF AsSequences!list_sdel, AsSequences!list_contains, Removed
<1> QED BY <1>2, <1>3

LEMMA StepRefines ==
  ASSUME HeapInv, [Next]_vars
  PROVE  [AsSequences!Next]_<< Lists_, call >>
<1>1. Lists_ \in [Heads -> Seq(Nodes)] /\ Apart(Lists_)
  BY DEF HeapInv, Represents
<1>2. CASE UNCHANGED vars
  BY <1>2 DEF Lists_, vars
<1>3. ASSUME NEW e \in Nodes, NEW h \in Heads, Add(h, e) PROVE AsSequences!Add(h, e)
  <2>1. ~In(e, Lists_) /\ Lists_' = [Lists_ EXCEPT ![h] = << e >> \o @]
    BY <1>3, AddStep
  <2>2. ~AsSequences!Linked(e)
    BY <1>1, <2>1, LinkedIn
  <2> QED BY <1>3, <2>1, <2>2 DEF AsSequences!Add, AsSequences!list_add, Add, Lists_
<1>4. ASSUME NEW e \in Nodes, NEW h \in Heads, AddTail(h, e) PROVE AsSequences!AddTail(h, e)
  <2>1. ~In(e, Lists_) /\ Lists_' = [Lists_ EXCEPT ![h] = Append(@, e)]
    BY <1>4, AddTailStep
  <2>2. ~AsSequences!Linked(e)
    BY <1>1, <2>1, LinkedIn
  <2> QED BY <1>4, <2>1, <2>2 DEF AsSequences!AddTail, AsSequences!list_add_tail, AddTail, Lists_
<1>5. ASSUME NEW e \in Nodes, Delete(e) PROVE AsSequences!Delete(e)
  <2>1. Lists_' = [g \in Heads |-> AsSequences!list_sdel(e, Lists_[g])]
    <3>1. \A g \in Heads : /\ Lists_[g] \in Seq(Nodes)
                           /\ \A i, j \in 1..Len(Lists_[g]) : Lists_[g][i] = Lists_[g][j] => i = j
      BY <1>1 DEF Apart
    <3>2. CASE ~In(e, Lists_) /\ Lists_' = Lists_
      <4>1. \A g \in Heads : AsSequences!list_sdel(e, Lists_[g]) = Lists_[g]
        BY <3>1, <3>2, SdelOfSequence DEF In
      <4> QED BY <1>1, <3>2, <4>1
    <3>3. CASE \E h \in Heads : \E x \in 1..Len(Lists_[h]) :
                 Lists_[h][x] = e /\ Lists_' = [Lists_ EXCEPT ![h] = Removed(@, x)]
      <4>1. PICK h \in Heads : \E x \in 1..Len(Lists_[h]) :
                 Lists_[h][x] = e /\ Lists_' = [Lists_ EXCEPT ![h] = Removed(@, x)]
        BY <3>3
      <4>2. PICK x \in 1..Len(Lists_[h]) :
                 Lists_[h][x] = e /\ Lists_' = [Lists_ EXCEPT ![h] = Removed(@, x)]
        BY <4>1
      <4>3. AsSequences!list_sdel(e, Lists_[h]) = Removed(Lists_[h], x)
        BY <3>1, <4>2, SdelOfSequence
      <4>4. ASSUME NEW g \in Heads \ {h} PROVE AsSequences!list_sdel(e, Lists_[g]) = Lists_[g]
        <5>1. \A i \in 1..Len(Lists_[g]) : Lists_[g][i] # e
          BY <1>1, <4>2 DEF Apart
        <5> QED BY <3>1, <5>1, SdelOfSequence
      <4> QED BY <1>1, <4>2, <4>3, <4>4
    <3> QED BY <1>5, <3>2, <3>3, DeleteStep
  <2> QED BY <1>5, <2>1 DEF AsSequences!Delete, Delete, Lists_
<1>6. CASE Next
  BY <1>3, <1>4, <1>5, <1>6 DEF Next, AsSequences!Next
<1> QED BY <1>2, <1>6

\* The pointer operations of list.h and util.h implement the lists as sequences
\* that the model of the kernel uses: list_add, list_add_tail and list_sdel, on
\* any number of lists and elements, do what ListSpec says.
THEOREM PointersImplementLists == Spec => ImplementsLists
<1>1. Init => AsSequences!Init
  BY InitLists DEF Init, AsSequences!Init, Lists_
<1>2. HeapInv /\ [Next]_vars => [AsSequences!Next]_(AsSequences!listVars)
  BY StepRefines DEF AsSequences!listVars, Lists_
<1> QED BY <1>1, <1>2, PointersConsistent, PTL DEF Spec, ImplementsLists, AsSequences!Spec

-----------------------------------------------------------------------------
(* The helpers.                                                             *)

\* HeapInv gives everything ChainsAgree says.
LEMMA HelpersAgree == HeapInv => ChainsAgree
<1> SUFFICES ASSUME HeapInv, NEW h \in Heads
             PROVE  LET q == list_for_each(heap, h)
                        r == list_for_each_prev(heap, h)
                    IN  /\ Len(r) = Len(q) /\ \A i \in 1..Len(q) : r[i] = q[Len(q) + 1 - i]
                        /\ list_empty(heap, h) <=> q = << >>
                        /\ list_size(heap, h) = Len(q)
                        /\ q # << >> => /\ list_next(heap, h) = q[1]
                                         /\ list_prev(heap, h) = q[Len(q)]
                                         /\ list_is_last(heap, q[Len(q)], h)
                        /\ \A e \in Nodes : list_contains(heap, e, h) =>
                             \A g \in Heads \ {h} : ~list_contains(heap, e, g)
                        /\ \A e \in Nodes : list_null(heap, e) => ~list_contains(heap, e, h)
  BY Zenon DEF ChainsAgree
<1>1. PICK ls, q, r : ls = Lists_ /\ q = list_for_each(heap, h) /\ r = list_for_each_prev(heap, h)
  OBVIOUS
<1>2. Represents(heap, ls)
  BY <1>1 DEF HeapInv
<1>3. \A g \in Heads : list_for_each(heap, g) = ls[g]
  BY <1>2, LoopsMeetLists
<1>4. q = ls[h] /\ r = Reversed(q)
  BY <1>1, <1>2, LoopsMeetLists
<1>5. /\ q \in Seq(Nodes) /\ Len(q) \in Nat
      /\ \A i, j \in 1..Len(q) : q[i] = q[j] => i = j
  BY <1>2, <1>4 DEF Represents, Apart
<1>6. Len(r) = Len(q) /\ \A i \in 1..Len(q) : r[i] = q[Len(q) + 1 - i]
  BY <1>4, <1>5, ReversedList
<1>7. \A j \in 0..Len(q) : /\ heap.next[At(h, q, j)] = At(h, q, j + 1)
                           /\ heap.prev[At(h, q, j + 1)] = At(h, q, j)
  BY <1>2, <1>4 DEF Represents, Chain
<1>8. At(h, q, 0) = h /\ At(h, q, Len(q) + 1) = h
      /\ \A i \in 1..Len(q) : At(h, q, i) = q[i] /\ q[i] # h
  BY <1>5, LinksAssumption DEF At
<1>9. heap.next[h] = At(h, q, 1) /\ heap.prev[h] = At(h, q, Len(q))
  BY <1>5, <1>7, <1>8
<1>10. q = << >> <=> Len(q) = 0
  BY <1>5
<1>11. list_empty(heap, h) <=> q = << >>
  <2>1. CASE Len(q) = 0
    BY <1>8, <1>9, <1>10, <2>1 DEF list_empty, At
  <2>2. CASE Len(q) # 0
    <3>1. 1 \in 1..Len(q)
      BY <1>5, <2>2
    <3> QED BY <1>8, <1>9, <1>10, <2>2, <3>1 DEF list_empty
  <2> QED BY <2>1, <2>2
<1>12. list_size(heap, h) = Len(q)
  BY <1>1 DEF list_size
<1>13. ASSUME q # << >>
       PROVE  /\ list_next(heap, h) = q[1] /\ list_prev(heap, h) = q[Len(q)]
              /\ list_is_last(heap, q[Len(q)], h)
  <2>1. 1 \in 1..Len(q) /\ Len(q) \in 1..Len(q) /\ Len(q) \in 0..Len(q)
    BY <1>5, <1>10, <1>13
  <2>2. ~list_empty(heap, h)
    BY <1>11, <1>13
  <2>3. heap.next[h] = q[1] /\ heap.prev[h] = q[Len(q)] /\ heap.next[q[Len(q)]] = h
    BY <1>7, <1>8, <1>9, <2>1
  <2> QED BY <2>2, <2>3 DEF list_next, list_prev, list_is_last
<1>14. ASSUME NEW e \in Nodes, NEW g \in Heads
       PROVE  list_contains(heap, e, g) <=> \E i \in 1..Len(ls[g]) : ls[g][i] = e
  <2>1. ls[g] \in Seq(Nodes)
    BY <1>2 DEF Represents
  <2>2. Range(ls[g]) = {ls[g][i] : i \in 1..Len(ls[g])}
    BY <2>1, RangeOfList
  <2>3. e # NIL
    BY LinksAssumption
  <2>4. list_contains(heap, e, g) <=> e \in Range(ls[g])
    BY <1>3, <2>3 DEF list_contains, list_search
  <2> QED BY <2>2, <2>4
<1>15. ASSUME NEW e \in Nodes, list_contains(heap, e, h), NEW g \in Heads \ {h}
       PROVE  ~list_contains(heap, e, g)
  BY <1>2, <1>14, <1>15 DEF Represents, Apart
<1>16. ASSUME NEW e \in Nodes, list_null(heap, e) PROVE ~list_contains(heap, e, h)
  BY <1>2, <1>14, <1>16, LinkedNotNull DEF In
<1> QED BY <1>1, <1>6, <1>11, <1>12, <1>13, <1>15, <1>16

\* In every reachable heap the loops forwards and backwards and the helpers
\* list_empty, list_next, list_prev, list_is_last, list_size and list_contains
\* tell the same list.
THEOREM HelpersTellTheList == Spec => []ChainsAgree
BY PointersConsistent, HelpersAgree, PTL

=============================================================================
