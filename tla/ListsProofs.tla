---------------------------- MODULE ListsProofs ----------------------------
(***************************************************************************)
(* Facts that the proofs about the components cite: what each list          *)
(* operation does to the length, the elements and the injectivity of a      *)
(* list, and induction over the natural numbers.                            *)
(***************************************************************************)
EXTENDS Lists, SequenceTheorems, WellFoundedInduction, TLAPS

-----------------------------------------------------------------------------
(* Induction and recursion, for sets and functions instead of predicates    *)
(* and operators.                                                           *)

\* A set of natural numbers that is not empty has a least element.
LEMMA LeastElement ==
  ASSUME NEW T, T \subseteq Nat, T # {}
  PROVE  \E i \in T : \A j \in T : i <= j
<1> DEFINE R == OpToRel(<, Nat)
<1>1. IsWellFoundedOn(R, Nat)
  BY NatLessThanWellFounded, Zenon
<1> HIDE DEF R
<1>2. PICK i \in T : \A j \in T : ~ (<< j, i >> \in R)
  BY <1>1, WFMin
<1>3. ASSUME NEW j \in T, ~(i <= j) PROVE FALSE
  <2>1. j < i /\ i \in Nat /\ j \in Nat
    BY <1>3
  <2>2. << j, i >> \in R
    BY <2>1 DEF R, OpToRel
  <2> QED BY <1>2, <2>2
<1> QED BY <1>2, <1>3

\* Induction: a set with 0 and with the successor of each of its members holds
\* every natural number.
LEMMA SetInduction ==
  ASSUME NEW S, 0 \in S, \A n \in Nat : n \in S => n + 1 \in S
  PROVE  Nat \subseteq S
<1> SUFFICES ASSUME Nat \ S # {} PROVE FALSE
  OBVIOUS
<1>1. PICK i \in Nat \ S : \A j \in Nat \ S : i <= j
  BY LeastElement
<1>2. i # 0 /\ i - 1 \in Nat /\ i - 1 < i
  BY <1>1
<1>3. i - 1 \in S
  BY <1>1, <1>2
<1>4. (i - 1) + 1 \in S
  BY <1>2, <1>3
<1> QED BY <1>1, <1>4

\* The first n + 1 values of the sequence that starts at b and goes on with s.
Iterates(V, b, s, n) ==
  {g \in [0..n -> V] : g[0] = b /\ \A k \in 0..(n - 1) : g[k + 1] = s[g[k]]}

\* Primitive recursion: that sequence exists.
LEMMA PrimitiveRecursion ==
  ASSUME NEW V, NEW b \in V, NEW s \in [V -> V]
  PROVE  \E f \in [Nat -> V] : f[0] = b /\ \A n \in Nat : f[n + 1] = s[f[n]]
<1>1. \A n \in Nat : Iterates(V, b, s, n) # {}
  <2> DEFINE S == {n \in Nat : Iterates(V, b, s, n) # {}}
  <2>1. 0 \in S
    <3>1. [k \in 0..0 |-> b] \in Iterates(V, b, s, 0)
      BY DEF Iterates
    <3> QED BY <3>1
  <2>2. ASSUME NEW n \in Nat, n \in S PROVE n + 1 \in S
    <3>1. PICK g : g \in Iterates(V, b, s, n)
      BY <2>2
    <3>2. g \in [0..n -> V] /\ g[0] = b /\ \A k \in 0..(n - 1) : g[k + 1] = s[g[k]]
      BY <3>1 DEF Iterates
    <3> DEFINE e == [k \in 0..(n + 1) |-> IF k = n + 1 THEN s[g[n]] ELSE g[k]]
    <3>3. e \in [0..(n + 1) -> V] /\ e[0] = b
      BY <3>2
    <3>4. ASSUME NEW k \in 0..((n + 1) - 1) PROVE e[k + 1] = s[e[k]]
      BY <3>2
    <3> HIDE DEF e
    <3>5. e \in Iterates(V, b, s, n + 1)
      BY <3>3, <3>4 DEF Iterates
    <3> QED BY <3>5
  <2> HIDE DEF S
  <2>3. Nat \subseteq S
    BY <2>1, <2>2, SetInduction
  <2> QED BY <2>3 DEF S
<1>2. ASSUME NEW n \in Nat, NEW m \in Nat, n <= m,
             NEW g \in Iterates(V, b, s, n), NEW h \in Iterates(V, b, s, m)
      PROVE  \A k \in 0..n : g[k] = h[k]
  <2> DEFINE S == {k \in Nat : k \in 0..n => g[k] = h[k]}
  <2>1. 0 \in S
    BY DEF Iterates
  <2>2. ASSUME NEW k \in Nat, k \in S PROVE k + 1 \in S
    <3>1. CASE k + 1 \in 0..n
      <4>1. k \in 0..(n - 1) /\ k \in 0..(m - 1) /\ k \in 0..n
        BY <1>2, <3>1
      <4>2. g[k + 1] = s[g[k]] /\ h[k + 1] = s[h[k]]
        BY <4>1 DEF Iterates
      <4> QED BY <2>2, <4>1, <4>2
    <3>2. CASE k + 1 \notin 0..n
      BY <3>2
    <3> QED BY <3>1, <3>2
  <2> HIDE DEF S
  <2>3. Nat \subseteq S
    BY <2>1, <2>2, SetInduction
  <2> QED BY <2>3 DEF S
<1> DEFINE G == [n \in Nat |-> CHOOSE g : g \in Iterates(V, b, s, n)]
           f == [n \in Nat |-> G[n][n]]
<1>3. \A n \in Nat : G[n] \in Iterates(V, b, s, n)
  BY <1>1
<1> HIDE DEF G
<1>4. \A n \in Nat : G[n] \in [0..n -> V] /\ G[n][0] = b
                     /\ \A k \in 0..(n - 1) : G[n][k + 1] = s[G[n][k]]
  BY <1>3 DEF Iterates
<1>5. f \in [Nat -> V] /\ f[0] = b
  BY <1>4
<1>6. ASSUME NEW n \in Nat PROVE f[n + 1] = s[f[n]]
  <2>1. n + 1 \in Nat /\ n <= n + 1 /\ n \in 0..n /\ n \in 0..((n + 1) - 1)
    OBVIOUS
  <2>2. G[n][n] = G[n + 1][n]
    BY <1>2, <1>3, <2>1
  <2>3. G[n + 1][n + 1] = s[G[n + 1][n]]
    BY <1>4, <2>1
  <2> QED BY <2>1, <2>2, <2>3
<1> QED BY <1>5, <1>6

Iterations(V, b, s) ==
  {f \in [Nat -> V] : f[0] = b /\ \A n \in Nat : f[n + 1] = s[f[n]]}

LEMMA IterationsExist ==
  ASSUME NEW V, NEW b \in V, NEW s \in [V -> V]
  PROVE  Iterations(V, b, s) # {}
  BY PrimitiveRecursion DEF Iterations

\* The functions defined by recursion along d, with end points Z.
Descents(D, V, d, b, g, Z) ==
  {f \in [D -> V] : f = [x \in D |-> IF x \in Z THEN b[x] ELSE g[<< x, f[d[x]] >>]]}

\* There is one if a measure m falls along d.
LEMMA Descent ==
  ASSUME NEW D, NEW V, NEW m \in [D -> Nat], NEW d \in [D -> D], NEW b \in [D -> V],
         NEW g \in [D \X V -> V], NEW Z,
         \A x \in D : x \notin Z => m[d[x]] < m[x]
  PROVE  Descents(D, V, d, b, g, Z) # {}
<1>a. PICK W : W = [D -> V]
  OBVIOUS
<1>b. PICK s : s = [h \in W |-> [x \in D |-> IF x \in Z THEN b[x]
                                             ELSE g[<< x, h[d[x]] >>]]]
  OBVIOUS
<1>1. b \in W /\ s \in [W -> W]
  BY <1>a, <1>b
<1>2. \A h \in W : \A x \in D : s[h][x] = IF x \in Z THEN b[x] ELSE g[<< x, h[d[x]] >>]
  BY <1>b
<1>c. Iterations(W, b, s) # {}
  BY <1>1, IterationsExist
<1>3. PICK F \in [Nat -> W] : F[0] = b /\ \A n \in Nat : F[n + 1] = s[F[n]]
  BY <1>c DEF Iterations
<1>4. \A n \in Nat : F[n] \in W
  BY <1>3
<1>5. \A n \in Nat : \A x \in D :
        F[n + 1][x] = IF x \in Z THEN b[x] ELSE g[<< x, F[n][d[x]] >>]
  <2> SUFFICES ASSUME NEW n \in Nat, NEW x \in D
               PROVE  F[n + 1][x] = IF x \in Z THEN b[x] ELSE g[<< x, F[n][d[x]] >>]
    OBVIOUS
  <2>1. F[n + 1] = s[F[n]] /\ F[n] \in W
    BY <1>3, <1>4
  <2> QED BY <1>2, <2>1
<1>6. \A n \in Nat : \A x \in D : m[x] < n => F[n + 1][x] = F[n][x]
  <2> DEFINE S == {n \in Nat : \A x \in D : m[x] < n => F[n + 1][x] = F[n][x]}
  <2>1. 0 \in S
    OBVIOUS
  <2>2. ASSUME NEW n \in Nat, n \in S PROVE n + 1 \in S
    <3>1. ASSUME NEW x \in D, m[x] < n + 1
          PROVE  F[(n + 1) + 1][x] = F[n + 1][x]
      <4> DEFINE k == n + 1
      <4>k. k \in Nat /\ F[k + 1][x] = IF x \in Z THEN b[x] ELSE g[<< x, F[k][d[x]] >>]
        BY <1>5
      <4>n. F[n + 1][x] = IF x \in Z THEN b[x] ELSE g[<< x, F[n][d[x]] >>]
        BY <1>5
      <4>1. CASE x \in Z
        BY <4>1, <4>k, <4>n
      <4>2. CASE x \notin Z
        <5>1. d[x] \in D /\ m[d[x]] < n
          BY <3>1, <4>2
        <5>2. F[n + 1][d[x]] = F[n][d[x]]
          BY <2>2, <5>1
        <5> QED BY <4>2, <4>k, <4>n, <5>2
      <4> QED BY <4>1, <4>2
    <3> QED BY <3>1
  <2> HIDE DEF S
  <2>3. Nat \subseteq S
    BY <2>1, <2>2, SetInduction
  <2> QED BY <2>3 DEF S
<1>7. ASSUME NEW x \in D PROVE \A k \in Nat : F[m[x] + 1 + k][x] = F[m[x] + 1][x]
  <2> DEFINE S == {k \in Nat : F[m[x] + 1 + k][x] = F[m[x] + 1][x]}
  <2>1. 0 \in S
    OBVIOUS
  <2>2. ASSUME NEW k \in Nat, k \in S PROVE k + 1 \in S
    <3>1. m[x] + 1 + k \in Nat /\ m[x] < m[x] + 1 + k
          /\ (m[x] + 1 + k) + 1 = m[x] + 1 + (k + 1)
      OBVIOUS
    <3>2. F[m[x] + 1 + (k + 1)][x] = F[m[x] + 1 + k][x]
      BY <1>6, <3>1
    <3> QED BY <2>2, <3>2
  <2> HIDE DEF S
  <2>3. Nat \subseteq S
    BY <2>1, <2>2, SetInduction
  <2> QED BY <2>3 DEF S
<1> DEFINE f == [x \in D |-> F[m[x] + 1][x]]
<1>8. f \in [D -> V]
  BY <1>4, <1>a
<1>9. ASSUME NEW x \in D
      PROVE  f[x] = IF x \in Z THEN b[x] ELSE g[<< x, f[d[x]] >>]
  <2>1. m[x] \in Nat
    OBVIOUS
  <2>2. f[x] = IF x \in Z THEN b[x] ELSE g[<< x, F[m[x]][d[x]] >>]
    BY <1>5, <2>1
  <2>3. CASE x \notin Z
    <3>1. d[x] \in D /\ m[d[x]] \in Nat /\ m[x] - m[d[x]] - 1 \in Nat
          /\ m[d[x]] + 1 + (m[x] - m[d[x]] - 1) = m[x]
      BY <2>3
    <3>2. F[m[x]][d[x]] = f[d[x]]
      BY <1>7, <3>1
    <3> QED BY <2>2, <2>3, <3>2
  <2> QED BY <2>2, <2>3
<1> HIDE DEF f
<1>10. f = [x \in D |-> IF x \in Z THEN b[x] ELSE g[<< x, f[d[x]] >>]]
  BY <1>8, <1>9
<1> QED BY <1>8, <1>10 DEF Descents

-----------------------------------------------------------------------------
(* The lists.                                                               *)

\* The elements of a list by position.
LEMMA RangeByIndex ==
  ASSUME NEW S, NEW q \in Seq(S)
  PROVE  /\ Range(q) = {q[i] : i \in 1..Len(q)}
         /\ Range(q) \subseteq S
         /\ IsInjective(q) <=> \A i, j \in 1..Len(q) : q[i] = q[j] => i = j
  BY DEF Range, IsInjective

\* A list is empty exactly if it has no element.
LEMMA EmptyList ==
  ASSUME NEW S, NEW q \in Seq(S)
  PROVE  /\ q = << >> <=> Range(q) = {}
         /\ q = << >> <=> Len(q) = 0
         /\ Len(q) \in Nat
<1>1. q = << >> <=> Len(q) = 0
  OBVIOUS
<1>2. Range(q) = {q[i] : i \in 1..Len(q)}
  BY RangeByIndex
<1> QED
  BY <1>1, <1>2

\* The empty list.
LEMMA NilList ==
  ASSUME NEW S
  PROVE  << >> \in Seq(S) /\ Range(<< >>) = {} /\ IsInjective(<< >>)
         /\ Len(<< >>) = 0
  BY DEF Range, IsInjective

\* list_add_tail (list.h) appends, and the result holds no element twice if the
\* element is new.
LEMMA AddTailNew ==
  ASSUME NEW S, NEW q \in Seq(S), IsInjective(q), NEW p \in S, p \notin Range(q),
         NEW r, r = list_add_tail(p, q)
  PROVE  r \in Seq(S) /\ IsInjective(r) /\ Range(r) = Range(q) \cup {p}
<1>1. r \in Seq(S) /\ Len(r) = Len(q) + 1
  BY DEF list_add_tail
<1>2. \A i \in 1..Len(r) : r[i] = IF i = Len(q) + 1 THEN p ELSE q[i]
  BY DEF list_add_tail
<1>3. Range(r) = Range(q) \cup {p}
  <2>1. Range(r) = {r[i] : i \in 1..Len(r)} /\ Range(q) = {q[i] : i \in 1..Len(q)}
    BY <1>1, RangeByIndex
  <2>2. r[Len(q) + 1] = p /\ Len(q) + 1 \in 1..Len(r)
    BY <1>1, <1>2
  <2>3. \A i \in 1..Len(q) : i \in 1..Len(r) /\ r[i] = q[i]
    BY <1>1, <1>2
  <2>4. \A i \in 1..Len(r) : i = Len(q) + 1 \/ i \in 1..Len(q)
    BY <1>1
  <2> QED
    BY <2>1, <2>2, <2>3, <2>4, <1>2
<1>4. IsInjective(r)
  <2>1. \A i, j \in 1..Len(q) : q[i] = q[j] => i = j
    BY RangeByIndex
  <2>2. \A i \in 1..Len(q) : q[i] # p
    BY RangeByIndex
  <2>3. \A i, j \in 1..Len(r) : r[i] = r[j] => i = j
    BY <1>1, <1>2, <2>1, <2>2
  <2> QED
    BY <1>1, <2>3, RangeByIndex
<1> QED
  BY <1>1, <1>3, <1>4

\* list_add (list.h) puts an element first, and the result holds no element
\* twice if the element is new.
LEMMA AddHeadNew ==
  ASSUME NEW S, NEW q \in Seq(S), IsInjective(q), NEW p \in S, p \notin Range(q),
         NEW r, r = list_add(p, q)
  PROVE  r \in Seq(S) /\ IsInjective(r) /\ Range(r) = Range(q) \cup {p}
<1>1. r \in Seq(S) /\ Len(r) = Len(q) + 1
  BY DEF list_add
<1>2. \A i \in 1..Len(r) : r[i] = IF i = 1 THEN p ELSE q[i - 1]
  BY DEF list_add
<1>3. r[1] = p /\ \A i \in 1..Len(q) : r[i + 1] = q[i]
  BY <1>1, <1>2
<1>4. Range(r) = Range(q) \cup {p}
  <2>1. Range(r) = {r[i] : i \in 1..Len(r)} /\ Range(q) = {q[i] : i \in 1..Len(q)}
    BY <1>1, RangeByIndex
  <2>2. 1 \in 1..Len(r) /\ \A i \in 1..Len(q) : i + 1 \in 1..Len(r)
    BY <1>1
  <2>3. \A i \in 1..Len(r) : r[i] = p \/ r[i] \in Range(q)
    BY <1>1, <1>2, <2>1
  <2>4. p \in Range(r) /\ \A i \in 1..Len(q) : q[i] \in Range(r)
    BY <2>1, <2>2, <1>3
  <2>5. \A x \in Range(r) : x \in Range(q) \cup {p}
    BY <2>1, <2>3
  <2>6. \A x \in Range(q) \cup {p} : x \in Range(r)
    BY <2>1, <2>4
  <2> QED
    BY <2>5, <2>6
<1>5. IsInjective(r)
  <2>1. \A i, j \in 1..Len(q) : q[i] = q[j] => i = j
    BY RangeByIndex
  <2>2. \A i \in 1..Len(q) : q[i] # p
    BY RangeByIndex
  <2>3. \A i \in 1..Len(r) : i # 1 => i - 1 \in 1..Len(q) /\ r[i] = q[i - 1]
    BY <1>1, <1>2
  <2>4. \A i \in 1..Len(r) : i # 1 => r[i] # p
    BY <2>2, <2>3
  <2>5. \A i, j \in 1..Len(r) : r[i] = r[j] /\ i # 1 /\ j # 1 => i = j
    <3> TAKE i, j \in 1..Len(r)
    <3> HAVE r[i] = r[j] /\ i # 1 /\ j # 1
    <3>1. i - 1 = j - 1
      BY <2>1, <2>3
    <3> QED
      BY <3>1, <1>1
  <2>6. \A i, j \in 1..Len(r) : r[i] = r[j] => i = j
    BY <1>3, <2>4, <2>5
  <2> QED
    BY <1>1, <2>6, RangeByIndex
<1> QED
  BY <1>1, <1>4, <1>5

\* Taking the head off a list.
LEMMA TakeHead ==
  ASSUME NEW S, NEW q \in Seq(S), q # << >>
  PROVE  /\ Head(q) \in S /\ Head(q) \in Range(q) /\ Head(q) = q[1]
         /\ Tail(q) \in Seq(S)
         /\ Len(Tail(q)) = Len(q) - 1 /\ Len(q) \in Nat \ {0}
         /\ \A i \in 1..(Len(q) - 1) : Tail(q)[i] = q[i + 1]
         /\ IsInjective(q) => /\ IsInjective(Tail(q))
                              /\ Range(Tail(q)) = Range(q) \ {Head(q)}
<1> DEFINE r == Tail(q)
<1>1. Len(q) \in Nat \ {0} /\ Head(q) = q[1] /\ r \in Seq(S) /\ Len(r) = Len(q) - 1
  OBVIOUS
<1>2. \A i \in 1..(Len(q) - 1) : r[i] = q[i + 1]
  OBVIOUS
<1> HIDE DEF r
<1>3. Range(q) = {q[i] : i \in 1..Len(q)} /\ Range(r) = {r[i] : i \in 1..Len(r)}
  BY <1>1, RangeByIndex
<1>4. ASSUME IsInjective(q)
      PROVE  IsInjective(r) /\ Range(r) = Range(q) \ {Head(q)}
  <2>1. \A i, j \in 1..Len(q) : q[i] = q[j] => i = j
    BY <1>4, RangeByIndex
  <2>2. IsInjective(r)
    BY <1>1, <1>2, <2>1, RangeByIndex
  <2>3. \A i \in 1..Len(r) : i + 1 \in 1..Len(q) /\ q[i + 1] # q[1]
    BY <1>1, <2>1
  <2>4. \A i \in 1..Len(q) : i = 1 \/ (i - 1 \in 1..Len(r) /\ r[i - 1] = q[i])
    BY <1>1, <1>2
  <2>5. \A x \in Range(r) : x \in Range(q) /\ x # q[1]
    BY <1>1, <1>2, <1>3, <2>3
  <2>6. \A x \in Range(q) : x # q[1] => x \in Range(r)
    BY <1>3, <2>4
  <2> QED
    BY <1>1, <2>2, <2>5, <2>6
<1>5. Head(q) \in S /\ Head(q) \in Range(q)
  BY <1>1, <1>3
<1> QED
  BY <1>1, <1>2, <1>4, <1>5 DEF r

\* list_sdel (util.h) removes one element and keeps the order of the others;
\* applied to an element of another list it does nothing.
LEMMA Sdel ==
  ASSUME NEW S, NEW q \in Seq(S), NEW p
  PROVE  /\ list_sdel(p, q) \in Seq(S)
         /\ p \in Range(q) => Len(list_sdel(p, q)) = Len(q) - 1
         /\ p \notin Range(q) => list_sdel(p, q) = q
         /\ IsInjective(q) => /\ IsInjective(list_sdel(p, q))
                              /\ Range(list_sdel(p, q)) = Range(q) \ {p}
<1>1. CASE p \notin Range(q)
  BY <1>1 DEF list_sdel, list_contains
<1>2. CASE p \in Range(q)
  <2> DEFINE i == CHOOSE k \in 1..Len(q) : q[k] = p
             r == [j \in 1..(Len(q) - 1) |-> IF j < i THEN q[j] ELSE q[j + 1]]
  <2>1. list_sdel(p, q) = r
    BY <1>2 DEF list_sdel, list_contains
  <2>2. Range(q) = {q[k] : k \in 1..Len(q)}
    BY RangeByIndex
  <2>3. i \in 1..Len(q) /\ q[i] = p /\ Len(q) \in Nat
    BY <1>2, <2>2
  <2> HIDE DEF i
  <2>4. r \in [1..(Len(q) - 1) -> S]
    BY <2>3
  <2>5. r \in Seq(S) /\ Len(r) = Len(q) - 1
    BY <2>3, <2>4
  <2>6. \A j \in 1..Len(r) : r[j] = IF j < i THEN q[j] ELSE q[j + 1]
    BY <2>5
  <2> HIDE DEF r
  <2>7. ASSUME IsInjective(q)
        PROVE  IsInjective(r) /\ Range(r) = Range(q) \ {p}
    <3>1. \A j, k \in 1..Len(q) : q[j] = q[k] => j = k
      BY <2>7, RangeByIndex
    <3>2. IsInjective(r)
      BY <2>3, <2>5, <2>6, <3>1, RangeByIndex
    <3>3. Range(r) = {r[j] : j \in 1..Len(r)}
      BY <2>5, RangeByIndex
    <3>4. \A j \in 1..Len(r) : r[j] \in Range(q) /\ r[j] # p
      BY <2>2, <2>3, <2>5, <2>6, <3>1
    <3>5. \A k \in 1..Len(q) : k # i =>
            LET j == IF k < i THEN k ELSE k - 1
            IN  j \in 1..Len(r) /\ r[j] = q[k]
      BY <2>3, <2>5, <2>6
    <3>6. \A x \in Range(q) \ {p} : x \in Range(r)
      BY <2>2, <2>3, <3>3, <3>5
    <3> QED
      BY <3>2, <3>3, <3>4, <3>6
  <2> QED
    BY <1>2, <2>1, <2>5, <2>7
<1> QED
  BY <1>1, <1>2

=============================================================================
