---------------------------- MODULE PrintfProofs ----------------------------
(***************************************************************************)
(* Proofs about formatted printing: for every width of an int, every size   *)
(* of a buffer and every length and number of the lines of a log, numbers   *)
(* are printed right, str_writer keeps inside its buffer and fills it, and   *)
(* the ring of a log shows the last lines printed.                          *)
(***************************************************************************)
EXTENDS MCPrintf, ListsProofs

-----------------------------------------------------------------------------
(* Arithmetic.                                                              *)

\* Quotient and remainder, and what tells them.
LEMMA DivMod ==
  ASSUME NEW a \in Nat, NEW n \in Nat \ {0}
  PROVE  /\ a \div n \in Nat /\ a % n \in 0..(n - 1)
         /\ a = (a \div n) * n + (a % n)
<1>1. a % n = a - n * (a \div n)
  BY SMTT(30)
<1>2. a % n \in 0..(n - 1)
  OBVIOUS
<1>3. a \div n \in Nat
  OBVIOUS
<1> QED BY <1>1, <1>2, <1>3

LEMMA DivModUnique ==
  ASSUME NEW a \in Nat, NEW n \in Nat \ {0}, NEW q \in Nat, NEW r \in 0..(n - 1),
         a = q * n + r
  PROVE  a \div n = q /\ a % n = r
<1>1. /\ a \div n \in Nat /\ a % n \in 0..(n - 1)
      /\ a = (a \div n) * n + (a % n)
  BY DivMod
<1> DEFINE p == a \div n
           s == a % n
<1> HIDE DEF p, s
<1>2. p \in Nat /\ s \in 0..(n - 1) /\ p * n + s = q * n + r
  BY <1>1 DEF p, s
<1>3. p = q
  <2>1. CASE p < q
    <3>1. p + 1 <= q
      BY <1>2, <2>1
    <3>2. (p + 1) * n <= q * n
      BY <1>2, <3>1
    <3>3. (p + 1) * n = p * n + n
      BY <1>2
    <3> QED BY <1>2, <3>2, <3>3
  <2>2. CASE q < p
    <3>1. q + 1 <= p
      BY <1>2, <2>2
    <3>2. (q + 1) * n <= p * n
      BY <1>2, <3>1
    <3>3. (q + 1) * n = q * n + n
      BY <1>2
    <3> QED BY <1>2, <3>2, <3>3
  <2> QED BY <1>2, <2>1, <2>2
<1> QED BY <1>2, <1>3 DEF p, s

\* Division by x * y, in two stages.
Divides(u, x, y) ==
  /\ x * y \in Nat \ {0}
  /\ u \div (x * y) = (u \div x) \div y
  /\ (u % (x * y)) \div x = (u \div x) % y
  /\ (u % (x * y)) % x = u % x

LEMMA DivTwice ==
  ASSUME NEW u \in Nat, NEW x \in Nat \ {0}, NEW y \in Nat \ {0}
  PROVE  Divides(u, x, y)
<1> DEFINE q == u \div x
           r == u % x
           s == q \div y
           d == q % y
<1>1. q \in Nat /\ r \in 0..(x - 1) /\ u = q * x + r
  BY DivMod
<1>2. s \in Nat /\ d \in 0..(y - 1) /\ q = s * y + d
  BY <1>1, DivMod
<1> HIDE DEF q, r, s, d
<1>3. x * y \in Nat \ {0}
  OBVIOUS
<1>4. d * x + r \in 0..(x * y - 1)
  <2>1. d + 1 <= y /\ d * x \in Nat
    BY <1>2
  <2>2. (d + 1) * x <= y * x
    BY <1>2, <2>1
  <2>3. (d + 1) * x = d * x + x /\ y * x = x * y
    BY <1>2
  <2> QED BY <1>1, <1>2, <1>3, <2>1, <2>2, <2>3
<1>5. u = s * (x * y) + (d * x + r)
  <2>1. q * x = (s * y) * x + d * x
    BY <1>2
  <2>2. (s * y) * x = s * (x * y)
    BY <1>2
  <2> QED BY <1>1, <1>2, <2>1, <2>2
<1>6. u \div (x * y) = s /\ u % (x * y) = d * x + r
  BY <1>2, <1>3, <1>4, <1>5, DivModUnique
<1>7. (d * x + r) \div x = d /\ (d * x + r) % x = r
  <2>1. d * x + r \in Nat /\ d \in Nat
    BY <1>3, <1>4, <1>2
  <2>2. PICK e : e = d * x + r
    OBVIOUS
  <2>3. e \div x = d /\ e % x = r
    BY <1>1, <2>1, <2>2, DivModUnique
  <2> QED BY <2>2, <2>3
<1>8. u % (x * y) = d * x + r /\ (u % (x * y)) \div x = d /\ (u % (x * y)) % x = r
  BY <1>6, <1>7
<1> QED BY <1>3, <1>6, <1>8, Zenon DEF q, r, s, d, Divides

-----------------------------------------------------------------------------
(* Powers.                                                                  *)

IsPower(p, b) == p = [k \in Nat |-> IF k = 0 THEN 1 ELSE b * p[k - 1]]

LEMMA PowerValues ==
  ASSUME NEW b \in Nat \ {0}
  PROVE  /\ Power(b, 0) = 1
         /\ \A n \in Nat : Power(b, n) \in Nat \ {0} /\ Power(b, n + 1) = b * Power(b, n)
<1>1. \E p : IsPower(p, b)
  <2>1. PICK V : V = Nat
    OBVIOUS
  <2>2. PICK e : e = 1
    OBVIOUS
  <2>3. PICK s : s = [x \in V |-> b * x]
    OBVIOUS
  <2>4. e \in V /\ s \in [V -> V]
    BY <2>1, <2>2, <2>3
  <2>5. Iterations(V, e, s) # {}
    BY <2>4, IterationsExist
  <2>6. PICK p \in [Nat -> V] : p[0] = e /\ \A n \in Nat : p[n + 1] = s[p[n]]
    BY <2>5 DEF Iterations
  <2>7. ASSUME NEW k \in Nat, k # 0 PROVE p[k] = b * p[k - 1]
    <3>1. k - 1 \in Nat /\ (k - 1) + 1 = k
      BY <2>7
    <3>2. p[(k - 1) + 1] = s[p[k - 1]] /\ p[k - 1] \in V
      BY <2>6, <3>1
    <3> QED BY <2>3, <3>1, <3>2
  <2> QED BY <2>2, <2>6, <2>7 DEF IsPower
<1>2. PICK p : p = CHOOSE q : IsPower(q, b)
  OBVIOUS
<1>3. \A n : Power(b, n) = p[n]
  BY <1>2, Zenon DEF Power, IsPower
<1>4. p = [k \in Nat |-> IF k = 0 THEN 1 ELSE b * p[k - 1]]
  BY <1>1, <1>2 DEF IsPower
<1>5. p[0] = 1 /\ \A n \in Nat : p[n + 1] = b * p[n]
  <2>1. ASSUME NEW n \in Nat PROVE p[n + 1] = b * p[n]
    <3>1. n + 1 \in Nat /\ n + 1 # 0 /\ (n + 1) - 1 = n
      OBVIOUS
    <3>2. p[n + 1] = IF n + 1 = 0 THEN 1 ELSE b * p[(n + 1) - 1]
      BY <1>4, <3>1
    <3> QED BY <3>1, <3>2
  <2> QED BY <1>4, <2>1
<1>6. \A n \in Nat : p[n] \in Nat \ {0}
  <2> DEFINE S == {n \in Nat : p[n] \in Nat \ {0}}
  <2>1. 0 \in S
    BY <1>5
  <2>2. ASSUME NEW n \in Nat, n \in S PROVE n + 1 \in S
    BY <1>5, <2>2
  <2> HIDE DEF S
  <2>3. Nat \subseteq S
    BY <2>1, <2>2, SetInduction
  <2> QED BY <2>3 DEF S
<1> QED BY <1>3, <1>5, <1>6

LEMMA PowerType ==
  ASSUME NEW b \in Nat \ {0}, NEW n \in Nat
  PROVE  Power(b, n) \in Nat \ {0}
  BY PowerValues

\* Exponents add up.
LEMMA PowerSum ==
  ASSUME NEW b \in Nat \ {0}, NEW m \in Nat, NEW n \in Nat
  PROVE  Power(b, m + n) = Power(b, m) * Power(b, n)
<1> DEFINE S == {k \in Nat : Power(b, m + k) = Power(b, m) * Power(b, k)}
<1>1. 0 \in S
  BY PowerValues
<1>2. ASSUME NEW k \in Nat, k \in S PROVE k + 1 \in S
  <2>1. m + k \in Nat /\ (m + k) + 1 = m + (k + 1)
    OBVIOUS
  <2>2. /\ Power(b, m + (k + 1)) = b * Power(b, m + k)
        /\ Power(b, k + 1) = b * Power(b, k)
        /\ Power(b, m) \in Nat /\ Power(b, k) \in Nat
    BY <2>1, PowerValues
  <2>3. b * (Power(b, m) * Power(b, k)) = Power(b, m) * (b * Power(b, k))
    BY <2>2
  <2> QED BY <1>2, <2>2, <2>3
<1> HIDE DEF S
<1>3. Nat \subseteq S
  BY <1>1, <1>2, SetInduction
<1> QED BY <1>3 DEF S

\* Powers grow.
LEMMA PowerGrows ==
  ASSUME NEW b \in Nat \ {0}, NEW m \in Nat, NEW n \in Nat, m <= n
  PROVE  Power(b, m) <= Power(b, n)
<1>1. n - m \in Nat /\ m + (n - m) = n
  OBVIOUS
<1>2. Power(b, n) = Power(b, m) * Power(b, n - m)
  BY <1>1, PowerSum
<1>3. Power(b, m) \in Nat \ {0} /\ Power(b, n - m) \in Nat \ {0}
  BY <1>1, PowerValues
<1> QED BY <1>2, <1>3

-----------------------------------------------------------------------------
(* Words.                                                                   *)

\* No power of two is one of ten.
LEMMA TwoNotTen ==
  ASSUME NEW n \in Nat
  PROVE  Power(2, n) % 10 \in {1, 2, 4, 6, 8}
<1> DEFINE S == {k \in Nat : Power(2, k) % 10 \in {1, 2, 4, 6, 8}}
<1>1. 0 \in S
  BY PowerValues
<1>2. ASSUME NEW k \in Nat, k \in S PROVE k + 1 \in S
  <2>1. Power(2, k) \in Nat /\ Power(2, k + 1) = 2 * Power(2, k)
    BY PowerValues
  <2> QED BY <1>2, <2>1
<1> HIDE DEF S
<1>3. Nat \subseteq S
  BY <1>1, <1>2, SetInduction
<1> QED BY <1>3 DEF S

\* The range of ints, and the conversions of what is in range.
LEMMA Words ==
  /\ HALF \in Nat /\ HALF > 18 /\ MODULUS = 2 * HALF /\ HALF % 10 # 0
  /\ \A n \in Ints : Int_(n) = n
  /\ \A n \in 0..(MODULUS - 1) : Unsigned(n) = n
  /\ \A n \in (-HALF)..(-1) : Unsigned(n) = n + MODULUS
<1>1. WIDTH - 1 \in Nat /\ (WIDTH - 1) + 1 = WIDTH
  BY WidthAssumption
<1>2. HALF \in Nat \ {0} /\ MODULUS = 2 * HALF
  BY <1>1, PowerValues DEF HALF, MODULUS
<1>3. HALF % 10 # 0
  BY <1>1, TwoNotTen DEF HALF
<1>4. HALF > 18
  BY <1>2, BoundsAssumption DEF Ints
<1> HIDE DEF HALF, MODULUS
<1>5. ASSUME NEW n \in Ints PROVE Int_(n) = n
  BY <1>2 DEF Ints, Int_
<1>6. ASSUME NEW n \in 0..(MODULUS - 1) PROVE Unsigned(n) = n
  BY <1>2 DEF Unsigned
<1>7. ASSUME NEW n \in (-HALF)..(-1) PROVE Unsigned(n) = n + MODULUS
  BY <1>2 DEF Unsigned
<1> QED BY <1>2, <1>3, <1>4, <1>5, <1>6, <1>7

-----------------------------------------------------------------------------
(* The number of digits.                                                    *)

Bases == {10, 16}

IsCount(c, b) == c = [n \in Int |-> IF n = 0 THEN 0 ELSE 1 + c[Quotient(n, b)]]

Magnitude(n) == IF n < 0 THEN -n ELSE n

LEMMA QuotientFalls ==
  ASSUME NEW b \in Bases, NEW n \in Int
  PROVE  /\ Quotient(n, b) \in Int /\ Quotient(-n, b) = -Quotient(n, b)
         /\ Magnitude(n) \in Nat
         /\ n # 0 => Magnitude(Quotient(n, b)) < Magnitude(n)
<1>1. CASE b = 10
  BY <1>1 DEF Quotient, Magnitude
<1>2. CASE b = 16
  BY <1>2 DEF Quotient, Magnitude
<1> QED BY <1>1, <1>2 DEF Bases

LEMMA CountExists ==
  ASSUME NEW b \in Bases
  PROVE  \E c : IsCount(c, b)
<1>1. PICK D : D = Int
  OBVIOUS
<1>2. PICK V : V = Nat
  OBVIOUS
<1>3. PICK m : m = [n \in D |-> Magnitude(n)]
  OBVIOUS
<1>4. PICK d : d = [n \in D |-> Quotient(n, b)]
  OBVIOUS
<1>5. PICK z : z = [n \in D |-> 0]
  OBVIOUS
<1>6. PICK g : g = [p \in D \X V |-> 1 + p[2]]
  OBVIOUS
<1>7. PICK Z : Z = {0}
  OBVIOUS
<1>8. m \in [D -> Nat] /\ d \in [D -> D] /\ z \in [D -> V] /\ g \in [D \X V -> V]
  BY <1>1, <1>2, <1>3, <1>4, <1>5, <1>6, QuotientFalls
<1>9. \A n \in D : n \notin Z => m[d[n]] < m[n]
  BY <1>1, <1>3, <1>4, <1>7, QuotientFalls
<1>10. Descents(D, V, d, z, g, Z) # {}
  BY <1>8, <1>9, Descent
<1>11. PICK c \in [D -> V] :
         c = [x \in D |-> IF x \in Z THEN z[x] ELSE g[<< x, c[d[x]] >>]]
  BY <1>10 DEF Descents
<1>12. ASSUME NEW n \in Int PROVE c[n] = IF n = 0 THEN 0 ELSE 1 + c[Quotient(n, b)]
  <2>1. c[n] = IF n \in Z THEN z[n] ELSE g[<< n, c[d[n]] >>]
    BY <1>1, <1>11
  <2>2. z[n] = 0 /\ d[n] = Quotient(n, b) /\ d[n] \in D
    BY <1>1, <1>4, <1>5, <1>8
  <2>3. g[<< n, c[d[n]] >>] = 1 + c[d[n]]
    BY <1>1, <1>6, <1>11, <2>2
  <2> QED BY <1>7, <2>1, <2>2, <2>3
<1>13. c \in [Int -> V]
  BY <1>1, <1>11
<1> QED BY <1>12, <1>13 DEF IsCount

LEMMA CountValues ==
  ASSUME NEW b \in Bases
  PROVE  /\ CountDigits(0, b) = 0
         /\ \A n \in Int : /\ CountDigits(n, b) \in Nat
                           /\ CountDigits(-n, b) = CountDigits(n, b)
                           /\ n # 0 => CountDigits(n, b) = 1 + CountDigits(Quotient(n, b), b)
<1>1. PICK c : c = CHOOSE e : IsCount(e, b)
  OBVIOUS
<1>2. \A n : CountDigits(n, b) = c[n]
  BY <1>1, Zenon DEF CountDigits, IsCount
<1>3. c = [n \in Int |-> IF n = 0 THEN 0 ELSE 1 + c[Quotient(n, b)]]
  BY <1>1, CountExists DEF IsCount
<1>4. c[0] = 0 /\ \A n \in Int \ {0} : c[n] = 1 + c[Quotient(n, b)]
  BY <1>3
<1>5. \A n \in Int : c[n] \in Nat /\ c[-n] = c[n]
  <2> DEFINE S == {k \in Nat : \A n \in Int : Magnitude(n) <= k => c[n] \in Nat /\ c[-n] = c[n]}
  <2>1. 0 \in S
    <3>1. ASSUME NEW n \in Int, Magnitude(n) <= 0 PROVE n = 0
      BY <3>1 DEF Magnitude
    <3> QED BY <1>4, <3>1
  <2>2. ASSUME NEW k \in Nat, k \in S PROVE k + 1 \in S
    <3>1. ASSUME NEW n \in Int, Magnitude(n) <= k + 1 PROVE c[n] \in Nat /\ c[-n] = c[n]
      <4>1. CASE n = 0
        BY <1>4, <4>1
      <4>2. CASE n # 0
        <5> DEFINE q == Quotient(n, b)
        <5>1. q \in Int /\ Quotient(-n, b) = -q /\ Magnitude(q) \in Nat /\ Magnitude(n) \in Nat
              /\ Magnitude(q) < Magnitude(n)
          BY <4>2, QuotientFalls
        <5>2. Magnitude(q) <= k
          BY <3>1, <5>1
        <5>3. c[q] \in Nat /\ c[-q] = c[q]
          BY <2>2, <5>1, <5>2
        <5>4. c[n] = 1 + c[q] /\ c[-n] = 1 + c[-q]
          <6>1. -n \in Int \ {0} /\ n \in Int \ {0}
            BY <4>2
          <6> QED BY <1>4, <5>1, <6>1
        <5> QED BY <5>3, <5>4
      <4> QED BY <4>1, <4>2
    <3> QED BY <3>1
  <2> HIDE DEF S
  <2>3. Nat \subseteq S
    BY <2>1, <2>2, SetInduction
  <2>4. ASSUME NEW n \in Int PROVE c[n] \in Nat /\ c[-n] = c[n]
    <3>1. Magnitude(n) \in Nat /\ Magnitude(n) \in S
      BY <2>3, QuotientFalls
    <3> QED BY <3>1 DEF S
  <2> QED BY <2>4
<1> QED BY <1>2, <1>4, <1>5

\* A number of n digits lies between two powers of the base.
InDigits(u, b) ==
  LET n == CountDigits(u, b)
  IN  n \in Nat \ {0} /\ Power(b, n - 1) <= u /\ u < Power(b, n)

LEMMA DivBase ==
  ASSUME NEW b \in Bases, NEW u \in Nat \ {0}
  PROVE  /\ b \in Nat \ {0} /\ b >= 10 /\ Quotient(u, b) = u \div b
         /\ u \div b \in Nat /\ u \div b < u /\ u % b \in 0..(b - 1)
         /\ u = b * (u \div b) + (u % b)
         /\ u < b <=> u \div b = 0
<1>1. CASE b = 10
  BY <1>1 DEF Quotient
<1>2. CASE b = 16
  BY <1>2 DEF Quotient
<1> QED BY <1>1, <1>2 DEF Bases

LEMMA CountBounds ==
  ASSUME NEW b \in Bases, NEW u \in Nat \ {0}
  PROVE  InDigits(u, b)
<1> DEFINE S == {k \in Nat : \A v \in 1..k : InDigits(v, b)}
<1>1. 0 \in S
  OBVIOUS
<1>2. ASSUME NEW k \in Nat, k \in S PROVE k + 1 \in S
  <2>1. SUFFICES ASSUME NEW v \in 1..(k + 1) PROVE InDigits(v, b)
    OBVIOUS
  <2> DEFINE w == v \div b
             r == v % b
  <2>2. /\ b \in Nat \ {0} /\ b >= 10 /\ Quotient(v, b) = w
        /\ w \in Nat /\ w < v /\ r \in 0..(b - 1) /\ v = b * w + r
        /\ (v < b <=> w = 0) /\ v \in Int /\ v # 0
    BY DivBase
  <2> HIDE DEF w, r
  <2>3. CountDigits(v, b) = 1 + CountDigits(w, b)
    BY <2>2, CountValues
  <2>4. CASE v < b
    <3>1. CountDigits(v, b) = 1
      BY <2>2, <2>3, <2>4, CountValues
    <3>2. Power(b, 0) = 1 /\ Power(b, 1) = b * 1
      <4>1. Power(b, 0 + 1) = b * Power(b, 0) /\ Power(b, 0) = 1
        BY <2>2, PowerValues
      <4> QED BY <4>1
    <3> QED BY <2>2, <2>4, <3>1, <3>2 DEF InDigits
  <2>5. CASE ~(v < b)
    <3>1. w \in 1..k
      BY <2>2, <2>5
    <3> DEFINE n == CountDigits(w, b)
    <3>2. n \in Nat \ {0} /\ Power(b, n - 1) <= w /\ w < Power(b, n)
      BY <1>2, <3>1 DEF InDigits
    <3>3. /\ Power(b, n) = b * Power(b, n - 1) /\ Power(b, n + 1) = b * Power(b, n)
          /\ Power(b, n - 1) \in Nat /\ Power(b, n) \in Nat
      <4>1. n - 1 \in Nat /\ (n - 1) + 1 = n /\ n \in Nat
        BY <3>2
      <4>2. Power(b, (n - 1) + 1) = b * Power(b, n - 1) /\ Power(b, n + 1) = b * Power(b, n)
        BY <2>2, <4>1, PowerValues
      <4>3. Power(b, n - 1) \in Nat /\ Power(b, n) \in Nat
        BY <2>2, <4>1, PowerValues
      <4> QED BY <4>1, <4>2, <4>3
    <3>4. CountDigits(v, b) = n + 1
      BY <2>3, <3>2
    <3> HIDE DEF n
    <3>5. b * Power(b, n - 1) <= b * w
      BY <2>2, <3>2, <3>3
    <3>6. b * (w + 1) <= b * Power(b, n)
      <4>1. w + 1 <= Power(b, n)
        BY <2>2, <3>2, <3>3
      <4> QED BY <2>2, <3>3, <4>1
    <3>7. b * (w + 1) = b * w + b
      BY <2>2
    <3>8. Power(b, n) <= v /\ v < Power(b, n + 1)
      BY <2>2, <3>3, <3>5, <3>6, <3>7
    <3>9. (n + 1) - 1 = n /\ n + 1 \in Nat \ {0}
      BY <3>2
    <3> QED BY <3>4, <3>8, <3>9 DEF InDigits
  <2> QED BY <2>4, <2>5
<1> HIDE DEF S
<1>3. Nat \subseteq S
  BY <1>1, <1>2, SetInduction
<1>4. u \in S /\ u \in 1..u
  BY <1>3
<1> QED BY <1>4 DEF S

-----------------------------------------------------------------------------
(* The numeral that is meant.                                               *)

\* Digit by digit, from the front.
DigitsOf(u, b) ==
  [k \in 1..CountDigits(u, b) |-> (u \div Power(b, CountDigits(u, b) - k)) % b]

IsNumeral(f, b) ==
  f = [m \in Nat |-> IF m < b THEN << m >> ELSE f[m \div b] \o << m % b >>]

LEMMA NumeralExists ==
  ASSUME NEW b \in Bases
  PROVE  \E f : IsNumeral(f, b)
<1>0. b \in Nat \ {0} /\ b >= 10
  BY DEF Bases
<1>1. PICK D : D = Nat
  OBVIOUS
<1>2. PICK V : V = Seq(Nat)
  OBVIOUS
<1>3. PICK m : m = [n \in D |-> n]
  OBVIOUS
<1>4. PICK d : d = [n \in D |-> n \div b]
  OBVIOUS
<1>5. PICK z : z = [n \in D |-> << n >>]
  OBVIOUS
<1>6. PICK g : g = [p \in D \X V |-> p[2] \o << p[1] % b >>]
  OBVIOUS
<1>7. PICK Z : Z = {n \in Nat : n < b}
  OBVIOUS
<1>a. \A n \in Nat : n \div b \in Nat /\ n % b \in Nat /\ (n >= b => n \div b < n)
  <2>1. CASE b = 10
    BY <2>1
  <2>2. CASE b = 16
    BY <2>2
  <2> QED BY <2>1, <2>2 DEF Bases
<1>8. m \in [D -> Nat] /\ d \in [D -> D] /\ z \in [D -> V]
  BY <1>1, <1>2, <1>3, <1>4, <1>5, <1>a
<1>b. g \in [D \X V -> V]
  <2>1. ASSUME NEW n \in Nat, NEW q \in Seq(Nat) PROVE q \o << n % b >> \in Seq(Nat)
    <3>1. PICK x \in Nat : x = n % b
      BY <1>a
    <3>2. << x >> \in Seq(Nat)
      OBVIOUS
    <3>3. q \o << x >> \in Seq(Nat)
      BY <3>2
    <3> QED BY <3>1, <3>3
  <2>2. ASSUME NEW p \in D \X V PROVE p[2] \o << p[1] % b >> \in V
    <3>1. p[1] \in Nat /\ p[2] \in Seq(Nat)
      BY <1>1, <1>2
    <3> QED BY <1>2, <2>1, <3>1
  <2> QED BY <1>6, <2>2
<1>9. \A n \in D : n \notin Z => m[d[n]] < m[n]
  BY <1>0, <1>1, <1>3, <1>4, <1>7, <1>a
<1>10. Descents(D, V, d, z, g, Z) # {}
  BY <1>8, <1>b, <1>9, Descent
<1>11. PICK f \in [D -> V] :
         f = [x \in D |-> IF x \in Z THEN z[x] ELSE g[<< x, f[d[x]] >>]]
  BY <1>10 DEF Descents
<1>12. ASSUME NEW n \in Nat PROVE f[n] = IF n < b THEN << n >> ELSE f[n \div b] \o << n % b >>
  <2>1. f[n] = IF n \in Z THEN z[n] ELSE g[<< n, f[d[n]] >>]
    BY <1>1, <1>11
  <2>2. z[n] = << n >> /\ d[n] = n \div b /\ d[n] \in D
    BY <1>1, <1>4, <1>5, <1>8
  <2>3. g[<< n, f[d[n]] >>] = f[d[n]] \o << n % b >>
    BY <1>1, <1>6, <1>11, <2>2
  <2> QED BY <1>7, <2>1, <2>2, <2>3
<1>13. f \in [Nat -> V]
  BY <1>1, <1>11
<1> QED BY <1>12, <1>13 DEF IsNumeral

LEMMA ConcatOne ==
  ASSUME NEW S, NEW q \in Seq(S), NEW x \in S
  PROVE  q \o << x >> = [k \in 1..(Len(q) + 1) |-> IF k = Len(q) + 1 THEN x ELSE q[k]]
  OBVIOUS

LEMMA NumeralDigits ==
  ASSUME NEW b \in Bases
  PROVE  /\ Numeral(0, b) = << 0 >>
         /\ \A u \in Nat \ {0} : Numeral(u, b) = DigitsOf(u, b)
<1>0. b \in Nat \ {0} /\ b >= 10
  BY DEF Bases
<1>1. PICK f : f = CHOOSE e : IsNumeral(e, b)
  OBVIOUS
<1>2. \A n : Numeral(n, b) = f[n]
  BY <1>1, Zenon DEF Numeral, IsNumeral
<1>3. f = [m \in Nat |-> IF m < b THEN << m >> ELSE f[m \div b] \o << m % b >>]
  BY <1>1, NumeralExists DEF IsNumeral
<1>4. \A v \in Nat : f[v] = IF v < b THEN << v >> ELSE f[v \div b] \o << v % b >>
  BY <1>3
<1> DEFINE S == {k \in Nat : \A v \in 1..k : f[v] = DigitsOf(v, b)}
<1>5. 0 \in S
  OBVIOUS
<1>6. ASSUME NEW k \in Nat, k \in S PROVE k + 1 \in S
  <2>1. SUFFICES ASSUME NEW v \in 1..(k + 1) PROVE f[v] = DigitsOf(v, b)
    OBVIOUS
  <2> DEFINE w == v \div b
             r == v % b
  <2>2. /\ Quotient(v, b) = w /\ w \in Nat /\ w < v /\ r \in 0..(b - 1)
        /\ (v < b <=> w = 0) /\ v \in Nat \ {0} /\ v \in Int /\ v # 0
    BY DivBase
  <2>3. CountDigits(v, b) = 1 + CountDigits(w, b) /\ CountDigits(w, b) \in Nat
    BY <2>2, CountValues
  <2>4. CASE v < b
    <3>1. CountDigits(v, b) = 1
      BY <2>2, <2>3, <2>4, CountValues
    <3>2. (v \div Power(b, 1 - 1)) % b = v
      <4>1. Power(b, 0) = 1
        BY <1>0, PowerValues
      <4>2. v \div 1 = v /\ v % b = v
        BY <1>0, <2>2, <2>4
      <4> QED BY <4>1, <4>2
    <3>3. DigitsOf(v, b) = [j \in 1..1 |-> (v \div Power(b, 1 - j)) % b]
      BY <3>1 DEF DigitsOf
    <3>4. DigitsOf(v, b) = << v >>
      BY <3>2, <3>3
    <3> QED BY <1>4, <2>2, <2>4, <3>4
  <2>5. CASE ~(v < b)
    <3>1. w \in 1..k
      BY <2>2, <2>5
    <3>2. f[w] = DigitsOf(w, b)
      BY <1>6, <3>1
    <3> DEFINE n == CountDigits(w, b)
               q == DigitsOf(w, b)
    <3>3. q = [j \in 1..n |-> (w \div Power(b, n - j)) % b]
      BY DEF DigitsOf
    <3>4. DigitsOf(v, b) = [j \in 1..(n + 1) |-> (v \div Power(b, (n + 1) - j)) % b]
      <4>1. CountDigits(v, b) = n + 1
        BY <2>3
      <4> QED BY <4>1 DEF DigitsOf
    <3>5. n \in Nat
      BY <2>3
    <3> HIDE DEF n, q, w
    <3>6. ASSUME NEW j \in 1..n
          PROVE  /\ (w \div Power(b, n - j)) % b \in Nat
                 /\ (v \div Power(b, (n + 1) - j)) % b = (w \div Power(b, n - j)) % b
      <4>1. n - j \in Nat /\ (n + 1) - j = (n - j) + 1
        BY <3>5
      <4>2. PICK y \in Nat \ {0} : y = Power(b, n - j)
        BY <1>0, <4>1, PowerValues
      <4>3. Power(b, (n + 1) - j) = b * y
        BY <1>0, <4>1, <4>2, PowerValues
      <4>4. v \div (b * y) = w \div y
        <5>1. Divides(v, b, y)
          BY <1>0, <2>2, DivTwice
        <5> QED BY <5>1 DEF Divides, w
      <4>5. PICK c \in Nat : c = w \div y
        BY <2>2, DivMod
      <4>6. c % b \in Nat
        BY <1>0, DivMod
      <4> QED BY <4>2, <4>3, <4>4, <4>5, <4>6
    <3>7. q \in Seq(Nat) /\ Len(q) = n
      BY <3>3, <3>5, <3>6
    <3>8. r \in Nat
      BY <1>0, <2>2
    <3>9. q \o << r >> = [j \in 1..(Len(q) + 1) |-> IF j = Len(q) + 1 THEN r ELSE q[j]]
      BY <3>7, <3>8, ConcatOne
    <3>10. (v \div Power(b, (n + 1) - (n + 1))) % b = r
      <4>1. (n + 1) - (n + 1) = 0 /\ Power(b, 0) = 1 /\ v \div 1 = v
        BY <1>0, <2>2, <3>5, PowerValues
      <4> QED BY <4>1
    <3>11. ASSUME NEW j \in 1..(n + 1)
           PROVE  (v \div Power(b, (n + 1) - j)) % b = IF j = n + 1 THEN r ELSE q[j]
      <4>1. CASE j = n + 1
        BY <3>10, <4>1
      <4>2. CASE j # n + 1
        <5>1. j \in 1..n
          BY <3>5, <4>2
        <5> QED BY <3>3, <3>6, <4>2, <5>1
      <4> QED BY <4>1, <4>2
    <3>12. q \o << r >> = DigitsOf(v, b)
      BY <3>4, <3>7, <3>9, <3>11
    <3>13. f[v] = f[w] \o << r >>
      BY <1>4, <2>2, <2>5 DEF w
    <3> QED BY <3>2, <3>12, <3>13 DEF q
  <2> QED BY <2>4, <2>5
<1> HIDE DEF S
<1>7. Nat \subseteq S
  BY <1>5, <1>6, SetInduction
<1>8. ASSUME NEW u \in Nat \ {0} PROVE f[u] = DigitsOf(u, b)
  <2>1. u \in S /\ u \in 1..u
    BY <1>7
  <2> QED BY <2>1 DEF S
<1>9. f[0] = << 0 >>
  <2>1. f[0] = IF 0 < b THEN << 0 >> ELSE f[0 \div b] \o << 0 % b >>
    BY <1>4
  <2> QED BY <1>0, <2>1
<1> QED BY <1>2, <1>8, <1>9

-----------------------------------------------------------------------------
(* pandos_pow.                                                              *)

Squared(e, b, x) == Int_((IF e % 2 = 0 THEN 1 ELSE b) * x * x)
IsPow(p, b) == p = [e \in Nat |-> IF e = 0 THEN 1
                                  ELSE Int_((IF e % 2 = 0 THEN 1 ELSE b)
                                            * p[e \div 2] * p[e \div 2])]

LEMMA PowExists ==
  ASSUME NEW b \in Bases
  PROVE  \E p : IsPow(p, b)
<1>0. b \in Int /\ HALF \in Nat /\ MODULUS \in Nat \ {0}
  BY Words DEF Bases
<1>1. PICK D : D = Nat
  OBVIOUS
<1>2. PICK V : V = Int
  OBVIOUS
<1>3. PICK m : m = [n \in D |-> n]
  OBVIOUS
<1>4. PICK d : d = [n \in D |-> n \div 2]
  OBVIOUS
<1>5. PICK z : z = [n \in D |-> 1]
  OBVIOUS
<1>6. PICK g : g = [p \in D \X V |-> Squared(p[1], b, p[2])]
  OBVIOUS
<1>7. PICK Z : Z = {0}
  OBVIOUS
<1>8. m \in [D -> Nat] /\ d \in [D -> D] /\ z \in [D -> V]
  BY <1>1, <1>2, <1>3, <1>4, <1>5
<1>b. g \in [D \X V -> V]
  <2>1. ASSUME NEW x \in Int PROVE Int_(x) \in Int
    BY <1>0 DEF Int_
  <2>2. ASSUME NEW p \in D \X V PROVE Squared(p[1], b, p[2]) \in V
    <3>1. PICK x \in Int : x = p[2]
      BY <1>2
    <3>2. PICK y \in Int : y = IF p[1] % 2 = 0 THEN 1 ELSE b
      BY <1>0
    <3>3. y * x * x \in Int
      OBVIOUS
    <3> QED BY <1>2, <2>1, <3>1, <3>2, <3>3 DEF Squared
  <2> QED BY <1>6, <2>2
<1>9. \A n \in D : n \notin Z => m[d[n]] < m[n]
  BY <1>1, <1>3, <1>4, <1>7
<1>10. Descents(D, V, d, z, g, Z) # {}
  BY <1>8, <1>b, <1>9, Descent
<1>11. PICK p \in [D -> V] :
         p = [x \in D |-> IF x \in Z THEN z[x] ELSE g[<< x, p[d[x]] >>]]
  BY <1>10 DEF Descents
<1>12. ASSUME NEW e \in Nat PROVE p[e] = IF e = 0 THEN 1 ELSE Squared(e, b, p[e \div 2])
  <2>1. p[e] = IF e \in Z THEN z[e] ELSE g[<< e, p[d[e]] >>]
    BY <1>1, <1>11
  <2>2. z[e] = 1 /\ d[e] = e \div 2 /\ d[e] \in D
    BY <1>1, <1>4, <1>5, <1>8
  <2>3. g[<< e, p[d[e]] >>] = Squared(e, b, p[d[e]])
    BY <1>1, <1>6, <1>11, <2>2
  <2> QED BY <1>7, <2>1, <2>2, <2>3
<1>13. p \in [Nat -> V]
  BY <1>1, <1>11
<1>14. p = [e \in Nat |-> IF e = 0 THEN 1 ELSE Squared(e, b, p[e \div 2])]
  BY <1>12, <1>13
<1> QED BY <1>14, Zenon DEF IsPow, Squared

\* Repeated squaring yields the power as long as that is an int.
LEMMA PowIsPower ==
  ASSUME NEW b \in Bases, NEW n \in Nat, Power(b, n) < HALF
  PROVE  pandos_pow(b, n) = Power(b, n)
<1>0. b \in Nat \ {0} /\ HALF \in Nat
  BY Words DEF Bases
<1>1. PICK p : p = CHOOSE q : IsPow(q, b)
  OBVIOUS
<1>2. \A e : pandos_pow(b, e) = p[e]
  BY <1>1, Zenon DEF pandos_pow, IsPow
<1>3. p = [e \in Nat |-> IF e = 0 THEN 1 ELSE Squared(e, b, p[e \div 2])]
  <2>1. IsPow(p, b)
    BY <1>1, PowExists
  <2> QED BY <2>1, Zenon DEF IsPow, Squared
<1>4. \A e \in Nat : p[e] = IF e = 0 THEN 1 ELSE Squared(e, b, p[e \div 2])
  BY <1>3
<1> DEFINE S == {k \in Nat : \A e \in 0..k : Power(b, e) < HALF => p[e] = Power(b, e)}
<1>z. p[0] = 1 /\ Power(b, 0) = 1
  BY <1>0, <1>4, PowerValues
<1>5. 0 \in S
  BY <1>z
<1>6. ASSUME NEW k \in Nat, k \in S PROVE k + 1 \in S
  <2>1. SUFFICES ASSUME NEW e \in 0..(k + 1), Power(b, e) < HALF
                 PROVE  p[e] = Power(b, e)
    OBVIOUS
  <2>2. CASE e = 0
    BY <1>z, <2>2
  <2>3. CASE e # 0
    <3>1. PICK h \in Nat : h = e \div 2 /\ h \in 0..k /\ h <= e
      BY <2>3
    <3>2. PICK x \in Nat : x = Power(b, h)
      BY <1>0, PowerValues
    <3>3. p[h] = x
      <4>1. e \in Nat /\ Power(b, e) \in Nat /\ Power(b, h) \in Nat
        BY <1>0, PowerType
      <4>2. Power(b, h) <= Power(b, e)
        BY <1>0, <3>1, <4>1, PowerGrows
      <4>3. Power(b, h) < HALF
        BY <1>0, <2>1, <4>1, <4>2
      <4> QED BY <1>6, <3>1, <3>2, <4>3
    <3>4. Power(b, h + h) = x * x /\ h + h \in Nat
      BY <1>0, <3>2, PowerSum
    <3>5. Power(b, (h + h) + 1) = b * (x * x)
      BY <1>0, <3>4, PowerValues
    <3>6. Power(b, e) = (IF e % 2 = 0 THEN 1 ELSE b) * x * x
      <4>1. CASE e % 2 = 0
        <5>1. e = h + h
          BY <3>1, <4>1
        <5> QED BY <3>4, <4>1, <5>1
      <4>2. CASE e % 2 # 0
        <5>1. e = (h + h) + 1
          BY <3>1, <4>2
        <5>2. b * (x * x) = b * x * x
          BY <1>0
        <5> QED BY <3>5, <4>2, <5>1, <5>2
      <4> QED BY <4>1, <4>2
    <3>7. Power(b, e) \in Ints
      <4>1. e \in Nat /\ Power(b, e) \in Nat
        BY <1>0, PowerType
      <4> QED BY <1>0, <2>1, <4>1 DEF Ints
    <3>8. Squared(e, b, x) = Power(b, e)
      <4>1. Int_(Power(b, e)) = Power(b, e)
        BY <3>7, Words
      <4> QED BY <3>6, <4>1, Zenon DEF Squared
    <3> QED BY <1>4, <2>3, <3>1, <3>3, <3>8
  <2> QED BY <2>2, <2>3
<1> HIDE DEF S
<1>7. Nat \subseteq S
  BY <1>5, <1>6, SetInduction
<1>8. n \in S /\ n \in 0..n
  BY <1>7
<1> QED BY <1>2, <1>8 DEF S

-----------------------------------------------------------------------------
(* The loop of __itoa.                                                      *)

IsExp(e, n, b) ==
  e = [k \in 0..(n - 1) |-> IF k = 0 THEN pandos_pow(b, n - 1) ELSE Quotient(e[k - 1], b)]
IsRest(w, e, n, i) ==
  w = [k \in 0..(n - 1) |-> IF k = 0 THEN Unsigned(i) ELSE w[k - 1] % Unsigned(e[k - 1])]

\* At the start of round k exp is the power of the base of that place, and what
\* is left of the number u is its remainder by the next higher one.
Round(b, n, u, k) ==
  LET exp == Power(b, (n - 1) - k)
      rest == u % Power(b, n - k)
  IN  /\ exp \in Nat \ {0} /\ Unsigned(exp) = exp
      /\ k # n - 1 => /\ Quotient(exp, b) = Power(b, (n - 1) - (k + 1))
                      /\ rest % exp = u % Power(b, n - (k + 1))
      /\ rest \div exp = (u \div exp) % b

LEMMA Rounds ==
  ASSUME NEW b \in Bases, NEW n \in Nat \ {0}, NEW u \in Nat, u < Power(b, n),
         Power(b, n - 1) < HALF, NEW k \in 0..(n - 1)
  PROVE  Round(b, n, u, k)
<1>0. b \in Nat \ {0} /\ b >= 10 /\ HALF \in Nat /\ MODULUS = 2 * HALF
  BY Words DEF Bases
<1>1. (n - 1) - k \in Nat /\ ((n - 1) - k) + 1 = n - k /\ n - 1 \in Nat /\ (n - 1) - k <= n - 1
  OBVIOUS
<1>2. PICK x \in Nat \ {0} : x = Power(b, (n - 1) - k)
  BY <1>0, <1>1, PowerType
<1>3. Power(b, n - k) = b * x
  BY <1>0, <1>1, <1>2, PowerValues
<1>4. x < HALF
  <2>1. Power(b, (n - 1) - k) <= Power(b, n - 1) /\ Power(b, n - 1) \in Nat
    BY <1>0, <1>1, PowerGrows, PowerType
  <2> QED BY <1>0, <1>2, <2>1
<1>5. Unsigned(x) = x
  <2>1. x \in 0..(MODULUS - 1)
    BY <1>0, <1>4
  <2> QED BY <2>1, Words
<1>6. /\ (u % (b * x)) \div x = (u \div x) % b
      /\ (u % (b * x)) % x = u % x
  <2>1. Divides(u, x, b) /\ x * b = b * x
    BY <1>0, DivTwice
  <2> QED BY <2>1 DEF Divides
<1>7. CASE k # n - 1
  <2>1. PICK y \in Nat \ {0} : y = Power(b, (n - 1) - (k + 1))
    <3>1. (n - 1) - (k + 1) \in Nat
      BY <1>7
    <3> QED BY <1>0, <3>1, PowerType
  <2>2. x = b * y
    <3>1. (n - 1) - (k + 1) \in Nat /\ ((n - 1) - (k + 1)) + 1 = (n - 1) - k
      BY <1>7
    <3> QED BY <1>0, <1>2, <2>1, <3>1, PowerValues
  <2>3. Quotient(x, b) = y
    <3>1. CASE b = 10
      BY <2>2, <3>1 DEF Quotient
    <3>2. CASE b = 16
      BY <2>2, <3>2 DEF Quotient
    <3> QED BY <3>1, <3>2 DEF Bases
  <2>4. n - (k + 1) = (n - 1) - k
    OBVIOUS
  <2> QED BY <1>2, <1>3, <1>5, <1>6, <2>1, <2>3, <2>4 DEF Round
<1>8. CASE k = n - 1
  BY <1>2, <1>3, <1>5, <1>6, <1>8 DEF Round
<1> QED BY <1>7, <1>8

Exp(n, b) == CHOOSE e : IsExp(e, n, b)
Rest(n, i, b) == CHOOSE w : IsRest(w, Exp(n, b), n, i)

LEMMA LoopUnfolded ==
  ASSUME NEW i, NEW b
  PROVE  FrontDigits(i, b) =
           [k \in 1..CountDigits(i, b) |->
              Int_(Rest(CountDigits(i, b), i, b)[k - 1]
                   \div Unsigned(Exp(CountDigits(i, b), b)[k - 1]))]
  BY Zenon DEF FrontDigits, Exp, Rest, IsExp, IsRest

LEMMA LoopIsSeq ==
  ASSUME NEW i, NEW b, CountDigits(i, b) \in Nat
  PROVE  \E S : FrontDigits(i, b) \in Seq(S)
<1>1. PICK n \in Nat : n = CountDigits(i, b)
  OBVIOUS
<1>2. PICK e : e = [k \in 1..n |-> Int_(Rest(n, i, b)[k - 1] \div Unsigned(Exp(n, b)[k - 1]))]
  OBVIOUS
<1>3. FrontDigits(i, b) = e
  BY <1>1, <1>2, LoopUnfolded
<1>4. e \in Seq({e[k] : k \in 1..n})
  <2>1. DOMAIN e = 1..n
    BY <1>2
  <2>2. e = [k \in 1..n |-> e[k]]
    BY <1>2
  <2> QED BY <2>1, <2>2
<1> QED BY <1>3, <1>4

LEMMA FrontDigitsRight ==
  ASSUME NEW b \in Bases, NEW i \in Int, NEW u \in Nat \ {0}, Unsigned(i) = u,
         CountDigits(i, b) = CountDigits(u, b),
         Power(b, CountDigits(u, b) - 1) < HALF
  PROVE  FrontDigits(i, b) = DigitsOf(u, b)
<1>0. b \in Nat \ {0} /\ b >= 10
  BY DEF Bases
<1>1. PICK n : n = CountDigits(u, b)
  OBVIOUS
<1>2. n \in Nat \ {0} /\ u < Power(b, n)
  BY <1>1, CountBounds DEF InDigits
<1>3. Power(b, n - 1) < HALF /\ n - 1 \in Nat
  BY <1>1, <1>2
<1>4. pandos_pow(b, n - 1) = Power(b, n - 1)
  BY <1>3, PowIsPower
<1>5. u % Power(b, n) = u
  <2>1. PICK x \in Nat \ {0} : x = Power(b, n)
    BY <1>0, <1>2, PowerType
  <2>2. u < x
    BY <1>2, <2>1
  <2> QED BY <2>1, <2>2
<1>6. PICK e : e = Exp(n, b)
  OBVIOUS
<1>7. PICK w : w = Rest(n, i, b)
  OBVIOUS
<1>8. FrontDigits(i, b) = [k \in 1..n |-> Int_(w[k - 1] \div Unsigned(e[k - 1]))]
  <2>1. n = CountDigits(i, b)
    BY <1>1
  <2> QED BY <1>6, <1>7, <2>1, LoopUnfolded
<1>9. ASSUME NEW k \in 0..(n - 1) PROVE Round(b, n, u, k)
  BY <1>2, <1>3, Rounds
<1>10. e = [k \in 0..(n - 1) |-> Power(b, (n - 1) - k)]
  <2> DEFINE f == [k \in 0..(n - 1) |-> Power(b, (n - 1) - k)]
  <2>1. IsExp(f, n, b)
    <3>1. ASSUME NEW k \in 0..(n - 1)
          PROVE  f[k] = IF k = 0 THEN pandos_pow(b, n - 1) ELSE Quotient(f[k - 1], b)
      <4>1. CASE k = 0
        <5>1. (n - 1) - 0 = n - 1
          BY <1>2
        <5> QED BY <1>4, <4>1, <5>1
      <4>2. CASE k # 0
        <5>1. k - 1 \in 0..(n - 1) /\ k - 1 # n - 1 /\ (k - 1) + 1 = k
          BY <1>2, <4>2
        <5>2. Quotient(Power(b, (n - 1) - (k - 1)), b) = Power(b, (n - 1) - k)
          BY <1>9, <5>1 DEF Round
        <5> QED BY <4>2, <5>1, <5>2
      <4> QED BY <4>1, <4>2
    <3> QED BY <3>1 DEF IsExp
  <2>2. IsExp(e, n, b)
    BY <1>6, <2>1 DEF Exp
  <2>3. e = [k \in 0..(n - 1) |-> IF k = 0 THEN pandos_pow(b, n - 1) ELSE Quotient(e[k - 1], b)]
    BY <2>2 DEF IsExp
  <2> DEFINE S == {k \in Nat : k \in 0..(n - 1) => e[k] = Power(b, (n - 1) - k)}
  <2>4. 0 \in S
    <3>1. 0 \in 0..(n - 1) /\ (n - 1) - 0 = n - 1
      BY <1>2
    <3>2. e[0] = pandos_pow(b, n - 1)
      BY <2>3, <3>1
    <3> QED BY <1>4, <3>1, <3>2
  <2>5. ASSUME NEW k \in Nat, k \in S PROVE k + 1 \in S
    <3>1. CASE k + 1 \in 0..(n - 1)
      <4>1. k \in 0..(n - 1) /\ k # n - 1 /\ (k + 1) - 1 = k /\ k + 1 # 0
        BY <1>2, <3>1
      <4>2. e[k + 1] = Quotient(e[(k + 1) - 1], b)
        BY <2>3, <3>1, <4>1
      <4>3. e[k] = Power(b, (n - 1) - k)
        BY <2>5, <4>1
      <4>4. Quotient(Power(b, (n - 1) - k), b) = Power(b, (n - 1) - (k + 1))
        BY <1>9, <4>1 DEF Round
      <4>5. e[k + 1] = Power(b, (n - 1) - (k + 1))
        BY <4>1, <4>2, <4>3, <4>4
      <4> QED BY <4>5
    <3>2. CASE k + 1 \notin 0..(n - 1)
      BY <3>2
    <3> QED BY <3>1, <3>2
  <2> HIDE DEF S
  <2>6. Nat \subseteq S
    BY <2>4, <2>5, SetInduction
  <2>7. ASSUME NEW k \in 0..(n - 1) PROVE e[k] = Power(b, (n - 1) - k)
    BY <2>6 DEF S
  <2> QED BY <2>3, <2>7
<1>11. w = [k \in 0..(n - 1) |-> u % Power(b, n - k)]
  <2> DEFINE f == [k \in 0..(n - 1) |-> u % Power(b, n - k)]
  <2>0. ASSUME NEW k \in 0..(n - 1), k # n - 1
        PROVE  (u % Power(b, n - k)) % Unsigned(e[k]) = u % Power(b, n - (k + 1))
    <3>1. Unsigned(e[k]) = Power(b, (n - 1) - k)
      BY <1>9, <1>10 DEF Round
    <3> QED BY <1>9, <2>0, <3>1 DEF Round
  <2>1. IsRest(f, e, n, i)
    <3>1. ASSUME NEW k \in 0..(n - 1)
          PROVE  f[k] = IF k = 0 THEN Unsigned(i) ELSE f[k - 1] % Unsigned(e[k - 1])
      <4>1. CASE k = 0
        <5>1. n - 0 = n
          BY <1>2
        <5> QED BY <1>5, <4>1, <5>1
      <4>2. CASE k # 0
        <5>1. k - 1 \in 0..(n - 1) /\ k - 1 # n - 1 /\ (k - 1) + 1 = k
          BY <1>2, <4>2
        <5>2. (u % Power(b, n - (k - 1))) % Unsigned(e[k - 1]) = u % Power(b, n - k)
          BY <2>0, <5>1
        <5> QED BY <4>2, <5>1, <5>2
      <4> QED BY <4>1, <4>2
    <3> QED BY <3>1 DEF IsRest
  <2>2. IsRest(w, e, n, i)
    BY <1>6, <1>7, <2>1 DEF Rest
  <2>3. w = [k \in 0..(n - 1) |-> IF k = 0 THEN Unsigned(i) ELSE w[k - 1] % Unsigned(e[k - 1])]
    BY <2>2 DEF IsRest
  <2> DEFINE S == {k \in Nat : k \in 0..(n - 1) => w[k] = u % Power(b, n - k)}
  <2>4. 0 \in S
    <3>1. 0 \in 0..(n - 1) /\ n - 0 = n
      BY <1>2
    <3>2. w[0] = u
      BY <2>3, <3>1
    <3> QED BY <1>5, <3>1, <3>2
  <2>5. ASSUME NEW k \in Nat, k \in S PROVE k + 1 \in S
    <3>1. CASE k + 1 \in 0..(n - 1)
      <4>1. k \in 0..(n - 1) /\ k # n - 1 /\ (k + 1) - 1 = k /\ k + 1 # 0
        BY <1>2, <3>1
      <4>2. w[k + 1] = w[(k + 1) - 1] % Unsigned(e[(k + 1) - 1])
        BY <2>3, <3>1, <4>1
      <4>3. w[k] = u % Power(b, n - k)
        BY <2>5, <4>1
      <4>4. w[k + 1] = u % Power(b, n - (k + 1))
        BY <2>0, <4>1, <4>2, <4>3
      <4> QED BY <4>4
    <3>2. CASE k + 1 \notin 0..(n - 1)
      BY <3>2
    <3> QED BY <3>1, <3>2
  <2> HIDE DEF S
  <2>6. Nat \subseteq S
    BY <2>4, <2>5, SetInduction
  <2>7. ASSUME NEW k \in 0..(n - 1) PROVE w[k] = u % Power(b, n - k)
    BY <2>6 DEF S
  <2> QED BY <2>3, <2>7
<1>12. ASSUME NEW k \in 1..n
       PROVE  Int_(w[k - 1] \div Unsigned(e[k - 1])) = (u \div Power(b, n - k)) % b
  <2>1. k - 1 \in 0..(n - 1) /\ (n - 1) - (k - 1) = n - k
    BY <1>2
  <2>2. /\ w[k - 1] = u % Power(b, n - (k - 1))
        /\ Unsigned(e[k - 1]) = Power(b, n - k)
        /\ Power(b, n - k) \in Nat \ {0}
    <3>1. e[k - 1] = Power(b, (n - 1) - (k - 1)) /\ w[k - 1] = u % Power(b, n - (k - 1))
      BY <1>10, <1>11, <2>1
    <3>2. Unsigned(e[k - 1]) = Power(b, n - k) /\ Power(b, n - k) \in Nat \ {0}
      BY <1>9, <2>1, <3>1 DEF Round
    <3> QED BY <3>1, <3>2
  <2>3. w[k - 1] \div Unsigned(e[k - 1]) = (u \div Power(b, n - k)) % b
    BY <1>9, <2>1, <2>2 DEF Round
  <2>4. PICK c \in Nat : c = u \div Power(b, n - k)
    BY <2>2, DivMod
  <2>5. c % b \in Ints
    <3>1. c % b \in 0..15
      <4>1. CASE b = 10
        BY <4>1
      <4>2. CASE b = 16
        BY <4>2
      <4> QED BY <4>1, <4>2 DEF Bases
    <3> QED BY <3>1, Words DEF Ints
  <2> QED BY <2>3, <2>4, <2>5, Words
<1>13. DigitsOf(u, b) = [k \in 1..n |-> (u \div Power(b, n - k)) % b]
  BY <1>1 DEF DigitsOf
<1> QED BY <1>8, <1>12, <1>13

\* The digits of an int other than 0, or of the smallest one in base 10.
LEMMA IntDigits ==
  ASSUME NEW b \in Bases, NEW i \in Ints, i > 0 \/ (i = -HALF /\ b = 10)
  PROVE  FrontDigits(i, b) = Numeral(Magnitude(i), b)
<1>0. /\ HALF \in Nat /\ HALF > 18 /\ MODULUS = 2 * HALF /\ HALF % 10 # 0
      /\ b \in Nat \ {0} /\ i \in Int
  BY Words DEF Bases, Ints
<1>1. PICK u \in Nat \ {0} : u = Magnitude(i) /\ u <= HALF /\ (i > 0 => u < HALF)
  BY <1>0 DEF Magnitude, Ints
<1>2. Unsigned(i) = u
  <2>1. CASE i > 0
    <3>1. i \in 0..(MODULUS - 1) /\ i = u
      BY <1>0, <1>1, <2>1 DEF Magnitude
    <3> QED BY <3>1, Words
  <2>2. CASE i = -HALF
    <3>1. i \in (-HALF)..(-1)
      BY <1>0, <2>2
    <3>2. u = HALF
      BY <1>0, <1>1, <2>2 DEF Magnitude
    <3>3. i + MODULUS = u
      BY <1>0, <2>2, <3>2
    <3> QED BY <3>1, <3>3, Words
  <2> QED BY <2>1, <2>2
<1>3. CountDigits(i, b) = CountDigits(u, b)
  <2>1. i = u \/ i = -u
    BY <1>1 DEF Magnitude, Ints
  <2> QED BY <2>1, CountValues
<1>4. PICK n \in Nat \ {0} : n = CountDigits(u, b) /\ Power(b, n - 1) <= u
  BY CountBounds DEF InDigits
<1>5. PICK x \in Nat : x = Power(b, n - 1)
  BY <1>0, PowerType
<1>6. x < HALF
  <2>1. CASE u < HALF
    BY <1>0, <1>4, <1>5, <2>1
  <2>2. CASE ~(u < HALF)
    <3>1. b = 10 /\ u = HALF
      BY <1>0, <1>1, <2>2
    <3>2. CASE n = 1
      BY <1>0, <1>5, <3>2, PowerValues
    <3>3. CASE n # 1
      <4>1. n - 2 \in Nat /\ (n - 2) + 1 = n - 1
        BY <3>3
      <4>2. PICK y \in Nat : y = Power(b, n - 2)
        BY <1>0, <4>1, PowerType
      <4>3. x = 10 * y
        BY <1>0, <1>5, <3>1, <4>1, <4>2, PowerValues
      <4>4. x # HALF
        BY <1>0, <4>3
      <4> QED BY <1>0, <1>4, <1>5, <3>1, <4>4
    <3> QED BY <3>2, <3>3
  <2> QED BY <2>1, <2>2
<1>7. i \in Int
  BY <1>0 DEF Ints
<1>8. FrontDigits(i, b) = DigitsOf(u, b)
  BY <1>2, <1>3, <1>4, <1>5, <1>6, <1>7, FrontDigitsRight
<1> QED BY <1>1, <1>8, NumeralDigits

\* __itoa prints every int in base 10, the smallest one included, although its
\* opposite is no int, and every int that is not negative in base 16, with
\* powers that pandos_pow computes by repeated squaring in ints: for every width
\* of an int.
THEOREM NumbersPrintedRight ==
  ASSUME NEW i \in Ints
  PROVE  /\ itoa(i, 10) = ReferenceNumeral(i, 10)
         /\ i >= 0 => itoa(i, 16) = ReferenceNumeral(i, 16)
<1>0. /\ HALF \in Nat /\ HALF > 18 /\ MODULUS = 2 * HALF /\ 10 \in Bases /\ 16 \in Bases
      /\ i \in Int /\ -HALF <= i /\ i < HALF
  BY Words DEF Bases, Ints
<1>1. CASE i > 0
  <2>1. Unsigned(i) = i /\ Magnitude(i) = i
    <3>1. i \in 0..(MODULUS - 1)
      BY <1>0, <1>1
    <3> QED BY <1>1, <3>1, Words DEF Magnitude
  <2>2. FrontDigits(i, 10) = Numeral(i, 10) /\ FrontDigits(i, 16) = Numeral(i, 16)
    BY <1>0, <1>1, <2>1, IntDigits
  <2>3. \A b \in Bases : itoa(i, b) = << >> \o FrontDigits(i, b)
    <3>1. ~(i < 0) /\ i # 0
      BY <1>0, <1>1
    <3> QED BY <3>1, Zenon DEF itoa
  <2>4. \A b \in Bases : ReferenceNumeral(i, b) = Numeral(i, b)
    BY <1>0, <1>1, <2>1 DEF ReferenceNumeral
  <2>5. \A b \in Bases : << >> \o FrontDigits(i, b) = FrontDigits(i, b)
    <3>1. ASSUME NEW b \in Bases PROVE << >> \o FrontDigits(i, b) = FrontDigits(i, b)
      <4>1. CountDigits(i, b) \in Nat
        BY <1>0, CountValues
      <4>2. PICK q : q = FrontDigits(i, b)
        OBVIOUS
      <4>3. PICK S : q \in Seq(S)
        BY <4>1, <4>2, LoopIsSeq
      <4>4. << >> \o q = q
        BY <4>3
      <4> QED BY <4>2, <4>4
    <3> QED BY <3>1
  <2> QED BY <1>0, <2>2, <2>3, <2>4, <2>5
<1>2. CASE i = 0
  <2>1. Unsigned(i) = 0
    <3>1. 0 \in 0..(MODULUS - 1)
      BY <1>0
    <3> QED BY <1>2, <3>1, Words
  <2>2. \A b \in Bases : itoa(i, b) = << >> \o << 0 >>
    BY <1>2 DEF itoa
  <2>3. \A b \in Bases : ReferenceNumeral(i, b) = << 0 >>
    <3>1. \A b \in Bases : Numeral(0, b) = << 0 >>
      BY NumeralDigits
    <3> QED BY <1>2, <2>1, <3>1 DEF ReferenceNumeral
  <2>4. << >> \o << 0 >> = << 0 >>
    OBVIOUS
  <2> QED BY <1>0, <2>2, <2>3, <2>4
<1>3. CASE i < 0
  <2>1. PICK j \in Ints : /\ j = Int_(-i) /\ Magnitude(j) = -i
                          /\ j > 0 \/ j = -HALF
    <3>1. CASE i = -HALF
      <4>1. Int_(-i) = -HALF
        BY <1>0, <3>1 DEF Int_
      <4>2. -HALF \in Ints /\ Magnitude(-HALF) = -i
        BY <1>0, <3>1 DEF Ints, Magnitude
      <4> QED BY <4>1, <4>2
    <3>2. CASE i # -HALF
      <4>1. -i \in Ints /\ -i > 0 /\ Magnitude(-i) = -i
        BY <1>0, <1>3, <3>2 DEF Ints, Magnitude
      <4> QED BY <4>1, Words
    <3> QED BY <3>1, <3>2
  <2>2. FrontDigits(j, 10) = Numeral(-i, 10)
    BY <1>0, <2>1, IntDigits
  <2>3. j # 0
    BY <1>0, <2>1
  <2>4. itoa(i, 10) = << NEG >> \o FrontDigits(j, 10)
    BY <1>3, <2>1, <2>3 DEF itoa
  <2>5. ReferenceNumeral(i, 10) = << NEG >> \o Numeral(-i, 10)
    BY <1>3 DEF ReferenceNumeral
  <2> QED BY <1>0, <1>3, <2>2, <2>4, <2>5
<1> QED BY <1>0, <1>1, <1>2, <1>3

-----------------------------------------------------------------------------
(* Folds.                                                                   *)

\* The largest element of a set of indices.
LEMMA LargestIndex ==
  ASSUME NEW n \in Nat, NEW s \in SUBSET (1..n), s # {}
  PROVE  Max(s) \in s /\ \A y \in s : y <= Max(s)
<1> DEFINE T == {n - x : x \in s}
<1>1. T \subseteq Nat /\ T # {}
  <2>1. PICK x : x \in s
    OBVIOUS
  <2>2. n - x \in T
    BY <2>1
  <2>3. \A y \in s : n - y \in Nat
    OBVIOUS
  <2> QED BY <2>2, <2>3
<1> HIDE DEF T
<1>2. PICK t \in T : \A j \in T : t <= j
  BY <1>1, LeastElement
<1>3. PICK x \in s : t = n - x
  BY <1>2 DEF T
<1>4. ASSUME NEW y \in s PROVE x >= y
  <2>1. n - y \in T
    BY DEF T
  <2>2. n - x <= n - y
    BY <1>2, <1>3, <2>1
  <2>3. x \in Int /\ y \in Int
    OBVIOUS
  <2> QED BY <2>2, <2>3
<1>5. Max(s) \in s /\ \A y \in s : Max(s) >= y
  BY <1>4 DEF Max
<1> QED BY <1>5

LEMMA LastIndex ==
  ASSUME NEW n \in Nat, NEW k \in 0..(n - 1)
  PROVE  /\ 1..(k + 1) \in SUBSET (1..n) /\ 1..(k + 1) # {}
         /\ Max(1..(k + 1)) = k + 1 /\ (1..(k + 1)) \ {k + 1} = 1..k
<1>1. 1..(k + 1) \in SUBSET (1..n) /\ k + 1 \in 1..(k + 1)
  OBVIOUS
<1>2. Max(1..(k + 1)) \in 1..(k + 1) /\ k + 1 <= Max(1..(k + 1))
  BY <1>1, LargestIndex
<1>3. (1..(k + 1)) \ {k + 1} = 1..k
  OBVIOUS
<1> QED BY <1>1, <1>2, <1>3

\* FoldLeft goes down the sets of indices, with g for its operator.
FoldsOf(A, q, n, b, g) ==
  {f \in [SUBSET (1..n) -> A] :
     f = [s \in SUBSET (1..n) |-> IF s = {} THEN b ELSE g[<< f[s \ {Max(s)}], q[Max(s)] >>]]}

LEMMA FoldExists ==
  ASSUME NEW A, NEW E, NEW n \in Nat, NEW q \in [1..n -> E], NEW b \in A,
         NEW g \in [A \X E -> A]
  PROVE  FoldsOf(A, q, n, b, g) # {}
<1>1. PICK D : D = SUBSET (1..n)
  OBVIOUS
<1>2. PICK V : V = A
  OBVIOUS
<1>3. PICK m : m = [s \in D |-> IF s = {} THEN 0 ELSE Max(s)]
  OBVIOUS
<1>4. PICK d : d = [s \in D |-> IF s = {} THEN {} ELSE s \ {Max(s)}]
  OBVIOUS
<1>5. PICK z : z = [s \in D |-> b]
  OBVIOUS
<1>6. PICK G : G = [p \in D \X V |-> IF p[1] = {} THEN b ELSE g[<< p[2], q[Max(p[1])] >>]]
  OBVIOUS
<1>7. PICK Z : Z = {{}}
  OBVIOUS
<1>8. ASSUME NEW s \in D, s # {}
      PROVE  Max(s) \in s /\ Max(s) \in 1..n /\ \A y \in s : y <= Max(s)
  <2>1. s \in SUBSET (1..n)
    BY <1>1
  <2>2. Max(s) \in s /\ \A y \in s : y <= Max(s)
    BY <1>8, <2>1, LargestIndex
  <2> QED BY <2>1, <2>2
<1>9. m \in [D -> Nat]
  <2>1. ASSUME NEW s \in D PROVE (IF s = {} THEN 0 ELSE Max(s)) \in Nat
    BY <1>8
  <2> QED BY <1>3, <2>1
<1>10. d \in [D -> D] /\ z \in [D -> V]
  BY <1>1, <1>2, <1>4, <1>5
<1>11. G \in [D \X V -> V]
  <2>1. ASSUME NEW p \in D \X V
        PROVE  (IF p[1] = {} THEN b ELSE g[<< p[2], q[Max(p[1])] >>]) \in V
    <3>1. PICK s \in D : s = p[1]
      OBVIOUS
    <3>2. PICK a \in A : a = p[2]
      BY <1>2
    <3>3. CASE s # {}
      <4>1. q[Max(s)] \in E
        BY <1>8, <3>3
      <4>2. g[<< a, q[Max(s)] >>] \in A
        BY <4>1
      <4> QED BY <1>2, <3>1, <3>2, <3>3, <4>2
    <3> QED BY <1>2, <3>1, <3>3
  <2> QED BY <1>6, <2>1
<1>12. \A s \in D : s \notin Z => m[d[s]] < m[s]
  <2>1. SUFFICES ASSUME NEW s \in D, s # {} PROVE m[d[s]] < m[s]
    BY <1>7
  <2>2. d[s] = s \ {Max(s)} /\ d[s] \in D /\ m[s] = Max(s)
    BY <1>3, <1>4, <1>10, <2>1
  <2>3. Max(s) \in s /\ Max(s) \in 1..n /\ \A y \in s : y <= Max(s)
    BY <1>8, <2>1
  <2>4. CASE d[s] = {}
    <3>1. m[d[s]] = 0
      BY <1>3, <2>2, <2>4
    <3> QED BY <2>2, <2>3, <3>1
  <2>5. CASE d[s] # {}
    <3>1. m[d[s]] = Max(d[s]) /\ Max(d[s]) \in d[s] /\ Max(d[s]) \in 1..n
      BY <1>3, <1>8, <2>2, <2>5
    <3> QED BY <2>2, <2>3, <3>1
  <2> QED BY <2>4, <2>5
<1>13. Descents(D, V, d, z, G, Z) # {}
  BY <1>9, <1>10, <1>11, <1>12, Descent
<1>14. PICK f \in [D -> V] :
         f = [x \in D |-> IF x \in Z THEN z[x] ELSE G[<< x, f[d[x]] >>]]
  BY <1>13 DEF Descents
<1>15. ASSUME NEW s \in D
       PROVE  f[s] = IF s = {} THEN b ELSE g[<< f[s \ {Max(s)}], q[Max(s)] >>]
  <2>1. f[s] = IF s \in Z THEN z[s] ELSE G[<< s, f[d[s]] >>]
    BY <1>14
  <2>2. CASE s = {}
    BY <1>5, <1>7, <2>1, <2>2
  <2>3. CASE s # {}
    <3>1. d[s] = s \ {Max(s)} /\ f[d[s]] \in V
      BY <1>4, <1>10, <1>14, <2>3
    <3>2. << s, f[d[s]] >> \in D \X V
      BY <3>1
    <3>3. G[<< s, f[d[s]] >>] = g[<< f[d[s]], q[Max(s)] >>]
      BY <1>6, <2>3, <3>2
    <3> QED BY <1>7, <2>1, <2>3, <3>1, <3>3
  <2> QED BY <2>2, <2>3
<1>16. f \in [SUBSET (1..n) -> A]
  BY <1>1, <1>2, <1>14
<1>17. f = [s \in SUBSET (1..n) |-> IF s = {} THEN b
                                   ELSE g[<< f[s \ {Max(s)}], q[Max(s)] >>]]
  BY <1>1, <1>15, <1>16
<1> QED BY <1>16, <1>17 DEF FoldsOf

\* The states that a fold of q passes through.
Runs(A, q, b, g) ==
  {h \in [0..Len(q) -> A] :
     h[0] = b /\ \A k \in 0..(Len(q) - 1) : h[k + 1] = g[<< h[k], q[k + 1] >>]}

EndsRun(v, A, q, b, g) == \E h \in Runs(A, q, b, g) : v = h[Len(q)]

FoldsBy(f, A, q, b, g) ==
  /\ f[1..0] = b
  /\ \A k \in 0..(Len(q) - 1) :
       f[1..k] \in A => f[1..(k + 1)] = g[<< f[1..k], q[k + 1] >>]

LEMMA FoldRun ==
  ASSUME NEW A, NEW E, NEW q \in Seq(E), NEW b \in A, NEW g \in [A \X E -> A],
         NEW f, FoldsBy(f, A, q, b, g)
  PROVE  EndsRun(f[1..Len(q)], A, q, b, g)
<1> USE DEF FoldsBy
<1> DEFINE n == Len(q)
           h == [k \in 0..n |-> f[1..k]]
           S == {k \in Nat : k \in 0..n => f[1..k] \in A}
<1>1. 0 \in S
  OBVIOUS
<1>2. ASSUME NEW k \in Nat, k \in S PROVE k + 1 \in S
  <2>1. CASE k + 1 \in 0..n
    <3>1. k \in 0..(n - 1) /\ k \in 0..n /\ q[k + 1] \in E
      BY <2>1
    <3>2. f[1..k] \in A
      BY <1>2, <3>1
    <3>3. f[1..(k + 1)] = g[<< f[1..k], q[k + 1] >>]
      BY <3>1, <3>2
    <3> QED BY <3>1, <3>2, <3>3
  <2>2. CASE k + 1 \notin 0..n
    BY <2>2
  <2> QED BY <2>1, <2>2
<1> HIDE DEF S
<1>3. Nat \subseteq S
  BY <1>1, <1>2, SetInduction
<1>4. \A k \in 0..n : f[1..k] \in A
  BY <1>3 DEF S
<1>5. h \in [0..n -> A] /\ h[0] = b /\ h[n] = f[1..n]
  <2>1. n \in Nat
    OBVIOUS
  <2> QED BY <1>4, <2>1
<1>6. ASSUME NEW k \in 0..(n - 1) PROVE h[k + 1] = g[<< h[k], q[k + 1] >>]
  <2>1. k \in 0..n /\ k + 1 \in 0..n
    OBVIOUS
  <2> QED BY <1>4, <2>1
<1> HIDE DEF h
<1>7. h \in Runs(A, q, b, g)
  BY <1>5, <1>6 DEF Runs
<1> QED BY <1>5, <1>7 DEF EndsRun

LEMMA FoldTyped ==
  ASSUME NEW A, NEW E, NEW n \in Nat, NEW q \in [1..n -> E], NEW b, NEW g,
         NEW x \in FoldsOf(A, q, n, b, g), NEW s \in SUBSET (1..n), s # {}
  PROVE  x[s \ {Max(s)}] \in A /\ q[Max(s)] \in E
<1>1. Max(s) \in 1..n /\ s \ {Max(s)} \in SUBSET (1..n)
  BY LargestIndex
<1>2. x \in [SUBSET (1..n) -> A]
  BY DEF FoldsOf
<1> QED BY <1>1, <1>2

-----------------------------------------------------------------------------
(* The operators that are folded in the models.                             *)

IsFold_kputchar(f, b, q) ==
  f = [s \in SUBSET DOMAIN q |->
         IF s = {} THEN b ELSE kputchar(f[s \ {Max(s)}], q[Max(s)])]

LEMMA Fold_kputchar ==
  ASSUME NEW A, NEW E, NEW b \in A, NEW q \in Seq(E), NEW g \in [A \X E -> A],
         \A a \in A, c \in E : g[<< a, c >>] = kputchar(a, c)
  PROVE  EndsRun(FoldLeft(kputchar, b, q), A, q, b, g)
<1>1. PICK f : f = CHOOSE x : IsFold_kputchar(x, b, q)
  OBVIOUS
<1>2. FoldLeft(kputchar, b, q) = f[DOMAIN q]
  BY <1>1, Zenon DEF FoldLeft, MapThenFoldSet, IsFold_kputchar
<1>3. PICK n \in Nat : n = Len(q) /\ DOMAIN q = 1..n /\ q \in [1..n -> E]
  OBVIOUS
<1>4. \E x : IsFold_kputchar(x, b, q)
  <2>0. FoldsOf(A, q, n, b, g) # {}
    BY <1>3, FoldExists
  <2>1. PICK x : x \in FoldsOf(A, q, n, b, g)
    BY <2>0
  <2>2. \A s \in SUBSET (1..n) : s # {} => x[s \ {Max(s)}] \in A /\ q[Max(s)] \in E
    BY <1>3, <2>1, FoldTyped
  <2>3. x = [s \in SUBSET (1..n) |-> IF s = {} THEN b
                                     ELSE g[<< x[s \ {Max(s)}], q[Max(s)] >>]]
    BY <2>1 DEF FoldsOf
  <2>4. ASSUME NEW s \in SUBSET (1..n)
        PROVE  x[s] = IF s = {} THEN b ELSE kputchar(x[s \ {Max(s)}], q[Max(s)])
    <3>1. x[s] = IF s = {} THEN b ELSE g[<< x[s \ {Max(s)}], q[Max(s)] >>]
      BY <2>3
    <3> QED BY <2>2, <3>1
  <2>5. x = [s \in SUBSET (1..n) |-> IF s = {} THEN b
                                     ELSE kputchar(x[s \ {Max(s)}], q[Max(s)])]
    BY <2>3, <2>4
  <2> QED BY <1>3, <2>5, Zenon DEF IsFold_kputchar
<1>5. f = [s \in SUBSET (1..n) |->
             IF s = {} THEN b ELSE kputchar(f[s \ {Max(s)}], q[Max(s)])]
  BY <1>1, <1>3, <1>4 DEF IsFold_kputchar
<1>6. f[1..0] = b
  <2>1. 1..0 = {}
    OBVIOUS
  <2> QED BY <1>5, <2>1
<1>7. ASSUME NEW k \in 0..(Len(q) - 1), f[1..k] \in A
      PROVE  f[1..(k + 1)] = g[<< f[1..k], q[k + 1] >>]
  <2>1. PICK s \in SUBSET (1..n) : /\ s = 1..(k + 1) /\ s # {} /\ Max(s) = k + 1
                                  /\ s \ {k + 1} = 1..k
    BY <1>3, LastIndex
  <2>2. q[k + 1] \in E
    OBVIOUS
  <2>3. f[s] = kputchar(f[s \ {Max(s)}], q[Max(s)])
    BY <1>5, <2>1
  <2>4. f[1..(k + 1)] = kputchar(f[1..k], q[k + 1])
    BY <2>1, <2>3, Zenon
  <2>5. g[<< f[1..k], q[k + 1] >>] = kputchar(f[1..k], q[k + 1])
    BY <1>7, <2>2, Zenon
  <2> QED BY <2>4, <2>5, Zenon
<1>8. FoldsBy(f, A, q, b, g)
  BY <1>6, <1>7 DEF FoldsBy
<1>9. EndsRun(f[1..Len(q)], A, q, b, g)
  BY <1>8, FoldRun
<1> QED BY <1>2, <1>3, <1>9

IsFold_LogChar(f, b, q) ==
  f = [s \in SUBSET DOMAIN q |->
         IF s = {} THEN b ELSE LogChar(f[s \ {Max(s)}], q[Max(s)])]

LEMMA Fold_LogChar ==
  ASSUME NEW A, NEW E, NEW b \in A, NEW q \in Seq(E), NEW g \in [A \X E -> A],
         \A a \in A, c \in E : g[<< a, c >>] = LogChar(a, c)
  PROVE  EndsRun(FoldLeft(LogChar, b, q), A, q, b, g)
<1>1. PICK f : f = CHOOSE x : IsFold_LogChar(x, b, q)
  OBVIOUS
<1>2. FoldLeft(LogChar, b, q) = f[DOMAIN q]
  BY <1>1, Zenon DEF FoldLeft, MapThenFoldSet, IsFold_LogChar
<1>3. PICK n \in Nat : n = Len(q) /\ DOMAIN q = 1..n /\ q \in [1..n -> E]
  OBVIOUS
<1>4. \E x : IsFold_LogChar(x, b, q)
  <2>0. FoldsOf(A, q, n, b, g) # {}
    BY <1>3, FoldExists
  <2>1. PICK x : x \in FoldsOf(A, q, n, b, g)
    BY <2>0
  <2>2. \A s \in SUBSET (1..n) : s # {} => x[s \ {Max(s)}] \in A /\ q[Max(s)] \in E
    BY <1>3, <2>1, FoldTyped
  <2>3. x = [s \in SUBSET (1..n) |-> IF s = {} THEN b
                                     ELSE g[<< x[s \ {Max(s)}], q[Max(s)] >>]]
    BY <2>1 DEF FoldsOf
  <2>4. ASSUME NEW s \in SUBSET (1..n)
        PROVE  x[s] = IF s = {} THEN b ELSE LogChar(x[s \ {Max(s)}], q[Max(s)])
    <3>1. x[s] = IF s = {} THEN b ELSE g[<< x[s \ {Max(s)}], q[Max(s)] >>]
      BY <2>3
    <3> QED BY <2>2, <3>1
  <2>5. x = [s \in SUBSET (1..n) |-> IF s = {} THEN b
                                     ELSE LogChar(x[s \ {Max(s)}], q[Max(s)])]
    BY <2>3, <2>4
  <2> QED BY <1>3, <2>5, Zenon DEF IsFold_LogChar
<1>5. f = [s \in SUBSET (1..n) |->
             IF s = {} THEN b ELSE LogChar(f[s \ {Max(s)}], q[Max(s)])]
  BY <1>1, <1>3, <1>4 DEF IsFold_LogChar
<1>6. f[1..0] = b
  <2>1. 1..0 = {}
    OBVIOUS
  <2> QED BY <1>5, <2>1
<1>7. ASSUME NEW k \in 0..(Len(q) - 1), f[1..k] \in A
      PROVE  f[1..(k + 1)] = g[<< f[1..k], q[k + 1] >>]
  <2>1. PICK s \in SUBSET (1..n) : /\ s = 1..(k + 1) /\ s # {} /\ Max(s) = k + 1
                                  /\ s \ {k + 1} = 1..k
    BY <1>3, LastIndex
  <2>2. q[k + 1] \in E
    OBVIOUS
  <2>3. f[s] = LogChar(f[s \ {Max(s)}], q[Max(s)])
    BY <1>5, <2>1
  <2>4. f[1..(k + 1)] = LogChar(f[1..k], q[k + 1])
    BY <2>1, <2>3, Zenon
  <2>5. g[<< f[1..k], q[k + 1] >>] = LogChar(f[1..k], q[k + 1])
    BY <1>7, <2>2, Zenon
  <2> QED BY <2>4, <2>5, Zenon
<1>8. FoldsBy(f, A, q, b, g)
  BY <1>6, <1>7 DEF FoldsBy
<1>9. EndsRun(f[1..Len(q)], A, q, b, g)
  BY <1>8, FoldRun
<1> QED BY <1>2, <1>3, <1>9

IsFold_BufferDigit(f, b, q) ==
  f = [s \in SUBSET DOMAIN q |->
         IF s = {} THEN b ELSE ToBuffer!PutDigit(f[s \ {Max(s)}], q[Max(s)])]

LEMMA Fold_BufferDigit ==
  ASSUME NEW A, NEW E, NEW b \in A, NEW q \in Seq(E), NEW g \in [A \X E -> A],
         \A a \in A, c \in E : g[<< a, c >>] = ToBuffer!PutDigit(a, c)
  PROVE  EndsRun(ToBuffer!FoldLeft(ToBuffer!PutDigit, b, q), A, q, b, g)
<1>1. PICK f : f = CHOOSE x : IsFold_BufferDigit(x, b, q)
  OBVIOUS
<1>2. ToBuffer!FoldLeft(ToBuffer!PutDigit, b, q) = f[DOMAIN q]
  BY <1>1, Zenon DEF ToBuffer!FoldLeft, ToBuffer!MapThenFoldSet, IsFold_BufferDigit, Max, ToBuffer!Max
<1>3. PICK n \in Nat : n = Len(q) /\ DOMAIN q = 1..n /\ q \in [1..n -> E]
  OBVIOUS
<1>4. \E x : IsFold_BufferDigit(x, b, q)
  <2>0. FoldsOf(A, q, n, b, g) # {}
    BY <1>3, FoldExists
  <2>1. PICK x : x \in FoldsOf(A, q, n, b, g)
    BY <2>0
  <2>2. \A s \in SUBSET (1..n) : s # {} => x[s \ {Max(s)}] \in A /\ q[Max(s)] \in E
    BY <1>3, <2>1, FoldTyped
  <2>3. x = [s \in SUBSET (1..n) |-> IF s = {} THEN b
                                     ELSE g[<< x[s \ {Max(s)}], q[Max(s)] >>]]
    BY <2>1 DEF FoldsOf
  <2>4. ASSUME NEW s \in SUBSET (1..n)
        PROVE  x[s] = IF s = {} THEN b ELSE ToBuffer!PutDigit(x[s \ {Max(s)}], q[Max(s)])
    <3>1. x[s] = IF s = {} THEN b ELSE g[<< x[s \ {Max(s)}], q[Max(s)] >>]
      BY <2>3
    <3> QED BY <2>2, <3>1
  <2>5. x = [s \in SUBSET (1..n) |-> IF s = {} THEN b
                                     ELSE ToBuffer!PutDigit(x[s \ {Max(s)}], q[Max(s)])]
    BY <2>3, <2>4
  <2> QED BY <1>3, <2>5, Zenon DEF IsFold_BufferDigit
<1>5. f = [s \in SUBSET (1..n) |->
             IF s = {} THEN b ELSE ToBuffer!PutDigit(f[s \ {Max(s)}], q[Max(s)])]
  BY <1>1, <1>3, <1>4 DEF IsFold_BufferDigit
<1>6. f[1..0] = b
  <2>1. 1..0 = {}
    OBVIOUS
  <2> QED BY <1>5, <2>1
<1>7. ASSUME NEW k \in 0..(Len(q) - 1), f[1..k] \in A
      PROVE  f[1..(k + 1)] = g[<< f[1..k], q[k + 1] >>]
  <2>1. PICK s \in SUBSET (1..n) : /\ s = 1..(k + 1) /\ s # {} /\ Max(s) = k + 1
                                  /\ s \ {k + 1} = 1..k
    BY <1>3, LastIndex
  <2>2. q[k + 1] \in E
    OBVIOUS
  <2>3. f[s] = ToBuffer!PutDigit(f[s \ {Max(s)}], q[Max(s)])
    BY <1>5, <2>1
  <2>4. f[1..(k + 1)] = ToBuffer!PutDigit(f[1..k], q[k + 1])
    BY <2>1, <2>3, Zenon
  <2>5. g[<< f[1..k], q[k + 1] >>] = ToBuffer!PutDigit(f[1..k], q[k + 1])
    BY <1>7, <2>2, Zenon
  <2> QED BY <2>4, <2>5, Zenon
<1>8. FoldsBy(f, A, q, b, g)
  BY <1>6, <1>7 DEF FoldsBy
<1>9. EndsRun(f[1..Len(q)], A, q, b, g)
  BY <1>8, FoldRun
<1> QED BY <1>2, <1>3, <1>9

IsFold_BufferItem(f, b, q) ==
  f = [s \in SUBSET DOMAIN q |->
         IF s = {} THEN b ELSE ToBuffer!PutItem(f[s \ {Max(s)}], q[Max(s)])]

LEMMA Fold_BufferItem ==
  ASSUME NEW A, NEW E, NEW b \in A, NEW q \in Seq(E), NEW g \in [A \X E -> A],
         \A a \in A, c \in E : g[<< a, c >>] = ToBuffer!PutItem(a, c)
  PROVE  EndsRun(ToBuffer!FoldLeft(ToBuffer!PutItem, b, q), A, q, b, g)
<1>1. PICK f : f = CHOOSE x : IsFold_BufferItem(x, b, q)
  OBVIOUS
<1>2. ToBuffer!FoldLeft(ToBuffer!PutItem, b, q) = f[DOMAIN q]
  BY <1>1, Zenon DEF ToBuffer!FoldLeft, ToBuffer!MapThenFoldSet, IsFold_BufferItem, Max, ToBuffer!Max
<1>3. PICK n \in Nat : n = Len(q) /\ DOMAIN q = 1..n /\ q \in [1..n -> E]
  OBVIOUS
<1>4. \E x : IsFold_BufferItem(x, b, q)
  <2>0. FoldsOf(A, q, n, b, g) # {}
    BY <1>3, FoldExists
  <2>1. PICK x : x \in FoldsOf(A, q, n, b, g)
    BY <2>0
  <2>2. \A s \in SUBSET (1..n) : s # {} => x[s \ {Max(s)}] \in A /\ q[Max(s)] \in E
    BY <1>3, <2>1, FoldTyped
  <2>3. x = [s \in SUBSET (1..n) |-> IF s = {} THEN b
                                     ELSE g[<< x[s \ {Max(s)}], q[Max(s)] >>]]
    BY <2>1 DEF FoldsOf
  <2>4. ASSUME NEW s \in SUBSET (1..n)
        PROVE  x[s] = IF s = {} THEN b ELSE ToBuffer!PutItem(x[s \ {Max(s)}], q[Max(s)])
    <3>1. x[s] = IF s = {} THEN b ELSE g[<< x[s \ {Max(s)}], q[Max(s)] >>]
      BY <2>3
    <3> QED BY <2>2, <3>1
  <2>5. x = [s \in SUBSET (1..n) |-> IF s = {} THEN b
                                     ELSE ToBuffer!PutItem(x[s \ {Max(s)}], q[Max(s)])]
    BY <2>3, <2>4
  <2> QED BY <1>3, <2>5, Zenon DEF IsFold_BufferItem
<1>5. f = [s \in SUBSET (1..n) |->
             IF s = {} THEN b ELSE ToBuffer!PutItem(f[s \ {Max(s)}], q[Max(s)])]
  BY <1>1, <1>3, <1>4 DEF IsFold_BufferItem
<1>6. f[1..0] = b
  <2>1. 1..0 = {}
    OBVIOUS
  <2> QED BY <1>5, <2>1
<1>7. ASSUME NEW k \in 0..(Len(q) - 1), f[1..k] \in A
      PROVE  f[1..(k + 1)] = g[<< f[1..k], q[k + 1] >>]
  <2>1. PICK s \in SUBSET (1..n) : /\ s = 1..(k + 1) /\ s # {} /\ Max(s) = k + 1
                                  /\ s \ {k + 1} = 1..k
    BY <1>3, LastIndex
  <2>2. q[k + 1] \in E
    OBVIOUS
  <2>3. f[s] = ToBuffer!PutItem(f[s \ {Max(s)}], q[Max(s)])
    BY <1>5, <2>1
  <2>4. f[1..(k + 1)] = ToBuffer!PutItem(f[1..k], q[k + 1])
    BY <2>1, <2>3, Zenon
  <2>5. g[<< f[1..k], q[k + 1] >>] = ToBuffer!PutItem(f[1..k], q[k + 1])
    BY <1>7, <2>2, Zenon
  <2> QED BY <2>4, <2>5, Zenon
<1>8. FoldsBy(f, A, q, b, g)
  BY <1>6, <1>7 DEF FoldsBy
<1>9. EndsRun(f[1..Len(q)], A, q, b, g)
  BY <1>8, FoldRun
<1> QED BY <1>2, <1>3, <1>9

IsFold_LogDigit(f, b, q) ==
  f = [s \in SUBSET DOMAIN q |->
         IF s = {} THEN b ELSE ToLog!PutDigit(f[s \ {Max(s)}], q[Max(s)])]

LEMMA Fold_LogDigit ==
  ASSUME NEW A, NEW E, NEW b \in A, NEW q \in Seq(E), NEW g \in [A \X E -> A],
         \A a \in A, c \in E : g[<< a, c >>] = ToLog!PutDigit(a, c)
  PROVE  EndsRun(ToLog!FoldLeft(ToLog!PutDigit, b, q), A, q, b, g)
<1>1. PICK f : f = CHOOSE x : IsFold_LogDigit(x, b, q)
  OBVIOUS
<1>2. ToLog!FoldLeft(ToLog!PutDigit, b, q) = f[DOMAIN q]
  BY <1>1, Zenon DEF ToLog!FoldLeft, ToLog!MapThenFoldSet, IsFold_LogDigit, Max, ToLog!Max
<1>3. PICK n \in Nat : n = Len(q) /\ DOMAIN q = 1..n /\ q \in [1..n -> E]
  OBVIOUS
<1>4. \E x : IsFold_LogDigit(x, b, q)
  <2>0. FoldsOf(A, q, n, b, g) # {}
    BY <1>3, FoldExists
  <2>1. PICK x : x \in FoldsOf(A, q, n, b, g)
    BY <2>0
  <2>2. \A s \in SUBSET (1..n) : s # {} => x[s \ {Max(s)}] \in A /\ q[Max(s)] \in E
    BY <1>3, <2>1, FoldTyped
  <2>3. x = [s \in SUBSET (1..n) |-> IF s = {} THEN b
                                     ELSE g[<< x[s \ {Max(s)}], q[Max(s)] >>]]
    BY <2>1 DEF FoldsOf
  <2>4. ASSUME NEW s \in SUBSET (1..n)
        PROVE  x[s] = IF s = {} THEN b ELSE ToLog!PutDigit(x[s \ {Max(s)}], q[Max(s)])
    <3>1. x[s] = IF s = {} THEN b ELSE g[<< x[s \ {Max(s)}], q[Max(s)] >>]
      BY <2>3
    <3> QED BY <2>2, <3>1
  <2>5. x = [s \in SUBSET (1..n) |-> IF s = {} THEN b
                                     ELSE ToLog!PutDigit(x[s \ {Max(s)}], q[Max(s)])]
    BY <2>3, <2>4
  <2> QED BY <1>3, <2>5, Zenon DEF IsFold_LogDigit
<1>5. f = [s \in SUBSET (1..n) |->
             IF s = {} THEN b ELSE ToLog!PutDigit(f[s \ {Max(s)}], q[Max(s)])]
  BY <1>1, <1>3, <1>4 DEF IsFold_LogDigit
<1>6. f[1..0] = b
  <2>1. 1..0 = {}
    OBVIOUS
  <2> QED BY <1>5, <2>1
<1>7. ASSUME NEW k \in 0..(Len(q) - 1), f[1..k] \in A
      PROVE  f[1..(k + 1)] = g[<< f[1..k], q[k + 1] >>]
  <2>1. PICK s \in SUBSET (1..n) : /\ s = 1..(k + 1) /\ s # {} /\ Max(s) = k + 1
                                  /\ s \ {k + 1} = 1..k
    BY <1>3, LastIndex
  <2>2. q[k + 1] \in E
    OBVIOUS
  <2>3. f[s] = ToLog!PutDigit(f[s \ {Max(s)}], q[Max(s)])
    BY <1>5, <2>1
  <2>4. f[1..(k + 1)] = ToLog!PutDigit(f[1..k], q[k + 1])
    BY <2>1, <2>3, Zenon
  <2>5. g[<< f[1..k], q[k + 1] >>] = ToLog!PutDigit(f[1..k], q[k + 1])
    BY <1>7, <2>2, Zenon
  <2> QED BY <2>4, <2>5, Zenon
<1>8. FoldsBy(f, A, q, b, g)
  BY <1>6, <1>7 DEF FoldsBy
<1>9. EndsRun(f[1..Len(q)], A, q, b, g)
  BY <1>8, FoldRun
<1> QED BY <1>2, <1>3, <1>9

IsFold_LogItem(f, b, q) ==
  f = [s \in SUBSET DOMAIN q |->
         IF s = {} THEN b ELSE ToLog!PutItem(f[s \ {Max(s)}], q[Max(s)])]

LEMMA Fold_LogItem ==
  ASSUME NEW A, NEW E, NEW b \in A, NEW q \in Seq(E), NEW g \in [A \X E -> A],
         \A a \in A, c \in E : g[<< a, c >>] = ToLog!PutItem(a, c)
  PROVE  EndsRun(ToLog!FoldLeft(ToLog!PutItem, b, q), A, q, b, g)
<1>1. PICK f : f = CHOOSE x : IsFold_LogItem(x, b, q)
  OBVIOUS
<1>2. ToLog!FoldLeft(ToLog!PutItem, b, q) = f[DOMAIN q]
  BY <1>1, Zenon DEF ToLog!FoldLeft, ToLog!MapThenFoldSet, IsFold_LogItem, Max, ToLog!Max
<1>3. PICK n \in Nat : n = Len(q) /\ DOMAIN q = 1..n /\ q \in [1..n -> E]
  OBVIOUS
<1>4. \E x : IsFold_LogItem(x, b, q)
  <2>0. FoldsOf(A, q, n, b, g) # {}
    BY <1>3, FoldExists
  <2>1. PICK x : x \in FoldsOf(A, q, n, b, g)
    BY <2>0
  <2>2. \A s \in SUBSET (1..n) : s # {} => x[s \ {Max(s)}] \in A /\ q[Max(s)] \in E
    BY <1>3, <2>1, FoldTyped
  <2>3. x = [s \in SUBSET (1..n) |-> IF s = {} THEN b
                                     ELSE g[<< x[s \ {Max(s)}], q[Max(s)] >>]]
    BY <2>1 DEF FoldsOf
  <2>4. ASSUME NEW s \in SUBSET (1..n)
        PROVE  x[s] = IF s = {} THEN b ELSE ToLog!PutItem(x[s \ {Max(s)}], q[Max(s)])
    <3>1. x[s] = IF s = {} THEN b ELSE g[<< x[s \ {Max(s)}], q[Max(s)] >>]
      BY <2>3
    <3> QED BY <2>2, <3>1
  <2>5. x = [s \in SUBSET (1..n) |-> IF s = {} THEN b
                                     ELSE ToLog!PutItem(x[s \ {Max(s)}], q[Max(s)])]
    BY <2>3, <2>4
  <2> QED BY <1>3, <2>5, Zenon DEF IsFold_LogItem
<1>5. f = [s \in SUBSET (1..n) |->
             IF s = {} THEN b ELSE ToLog!PutItem(f[s \ {Max(s)}], q[Max(s)])]
  BY <1>1, <1>3, <1>4 DEF IsFold_LogItem
<1>6. f[1..0] = b
  <2>1. 1..0 = {}
    OBVIOUS
  <2> QED BY <1>5, <2>1
<1>7. ASSUME NEW k \in 0..(Len(q) - 1), f[1..k] \in A
      PROVE  f[1..(k + 1)] = g[<< f[1..k], q[k + 1] >>]
  <2>1. PICK s \in SUBSET (1..n) : /\ s = 1..(k + 1) /\ s # {} /\ Max(s) = k + 1
                                  /\ s \ {k + 1} = 1..k
    BY <1>3, LastIndex
  <2>2. q[k + 1] \in E
    OBVIOUS
  <2>3. f[s] = ToLog!PutItem(f[s \ {Max(s)}], q[Max(s)])
    BY <1>5, <2>1
  <2>4. f[1..(k + 1)] = ToLog!PutItem(f[1..k], q[k + 1])
    BY <2>1, <2>3, Zenon
  <2>5. g[<< f[1..k], q[k + 1] >>] = ToLog!PutItem(f[1..k], q[k + 1])
    BY <1>7, <2>2, Zenon
  <2> QED BY <2>4, <2>5, Zenon
<1>8. FoldsBy(f, A, q, b, g)
  BY <1>6, <1>7 DEF FoldsBy
<1>9. EndsRun(f[1..Len(q)], A, q, b, g)
  BY <1>8, FoldRun
<1> QED BY <1>2, <1>3, <1>9

-----------------------------------------------------------------------------
(* The ring of a log.                                                       *)

Cells == (0..(MEM_WRITER_LINES - 1)) \X (0..(MEM_WRITER_LINE_LENGTH - 1))
Columns == 0..(MEM_WRITER_LINE_LENGTH - 1)

\* A ring, in which the current line may just have been filled, and one between
\* two characters.
Rings == [buffer : [Cells -> Int], line : 0..(MEM_WRITER_LINES - 1),
          ch : 0..MEM_WRITER_LINE_LENGTH]
Idle == {m \in Rings : m.ch < MEM_WRITER_LINE_LENGTH}

\* The lines it should show, the last of which is not full.
LineLists == {q \in Seq(Seq(Int)) : Len(q) \in 1..(MEM_WRITER_LINES - 1)}
LogLines == {q \in LineLists : Len(q[Len(q)]) < MEM_WRITER_LINE_LENGTH}

\* The k-th line back from line a, the one after it, and the j-th place of a line.
Back(a, k) == IF k <= a THEN a - k ELSE a + MEM_WRITER_LINES - k
Ahead(a) == IF a + 1 = MEM_WRITER_LINES THEN 0 ELSE a + 1
Place(line, j) == IF j + 1 <= Len(line) THEN line[j + 1] ELSE BLANK

\* RingShows place by place, without the place of the next character.
Shows(m, q) ==
  /\ \A k \in 0..(Len(q) - 1) : \A j \in Columns :
       m.buffer[<< Back(m.line, k), j >>] = Place(q[Len(q) - k], j)
  /\ \A j \in Columns : m.buffer[<< Ahead(m.line), j >>] \in {BLANK, DASH}

LEMMA RingIndices ==
  ASSUME NEW a \in 0..(MEM_WRITER_LINES - 1)
  PROVE  /\ MEM_WRITER_LINES \in Nat /\ MEM_WRITER_LINES >= 3
         /\ MEM_WRITER_LINE_LENGTH \in Nat \ {0}
         /\ (a + 1) % MEM_WRITER_LINES = Ahead(a)
         /\ Ahead(a) \in 0..(MEM_WRITER_LINES - 1)
         /\ Ahead(Ahead(a)) # Ahead(a) /\ Ahead(a) # a
         /\ \A k \in 0..(MEM_WRITER_LINES - 1) :
              /\ (a + MEM_WRITER_LINES - k) % MEM_WRITER_LINES = Back(a, k)
              /\ Back(a, k) \in 0..(MEM_WRITER_LINES - 1)
              /\ k # 0 => Back(a, k) # a /\ Back(Ahead(a), k) = Back(a, k - 1)
              /\ k # 0 => Back(Ahead(a), k) # Ahead(a)
              /\ k # 0 /\ k # MEM_WRITER_LINES - 1 => Back(Ahead(a), k) # Ahead(Ahead(a))
              /\ k # MEM_WRITER_LINES - 1 => Back(a, k) # Ahead(a)
         /\ Back(a, 0) = a
<1>1. PICK n \in Nat : n = MEM_WRITER_LINES /\ n >= 3
  BY RingAssumption
<1>2. /\ (a + 1) % MEM_WRITER_LINES = Ahead(a)
      /\ Ahead(a) \in 0..(MEM_WRITER_LINES - 1)
      /\ Ahead(Ahead(a)) # Ahead(a) /\ Ahead(a) # a /\ Back(a, 0) = a
  BY <1>1 DEF Ahead, Back
<1>3. ASSUME NEW k \in 0..(MEM_WRITER_LINES - 1)
      PROVE  /\ (a + MEM_WRITER_LINES - k) % MEM_WRITER_LINES = Back(a, k)
             /\ Back(a, k) \in 0..(MEM_WRITER_LINES - 1)
             /\ k # 0 => Back(a, k) # a /\ Back(Ahead(a), k) = Back(a, k - 1)
             /\ k # 0 => Back(Ahead(a), k) # Ahead(a)
             /\ k # 0 /\ k # MEM_WRITER_LINES - 1 => Back(Ahead(a), k) # Ahead(Ahead(a))
             /\ k # MEM_WRITER_LINES - 1 => Back(a, k) # Ahead(a)
  BY <1>1 DEF Ahead, Back
<1> QED BY <1>2, <1>3, RingAssumption

LEMMA ShowsIsRingShows ==
  ASSUME NEW m \in Rings, NEW q \in LineLists
  PROVE  RingShows(m, q) <=> Shows(m, q) /\ m.ch = Len(q[Len(q)])
<1>1. /\ m.line \in 0..(MEM_WRITER_LINES - 1) /\ m.buffer \in [Cells -> Int]
      /\ Len(q) \in 1..(MEM_WRITER_LINES - 1)
  BY DEF Rings, LineLists
<1>2. /\ MEM_WRITER_LINE_LENGTH \in Nat \ {0}
      /\ \A k \in 0..(Len(q) - 1) :
           (m.line + MEM_WRITER_LINES - k) % MEM_WRITER_LINES = Back(m.line, k)
      /\ (m.line + 1) % MEM_WRITER_LINES = Ahead(m.line)
  <2>1. PICK a \in 0..(MEM_WRITER_LINES - 1) : a = m.line
    BY <1>1
  <2>2. \A k \in 0..(Len(q) - 1) : k \in 0..(MEM_WRITER_LINES - 1)
    BY <1>1, RingAssumption
  <2>3. /\ (a + 1) % MEM_WRITER_LINES = Ahead(a)
        /\ \A k \in 0..(MEM_WRITER_LINES - 1) :
             (a + MEM_WRITER_LINES - k) % MEM_WRITER_LINES = Back(a, k)
    BY RingIndices
  <2> QED BY <2>1, <2>2, <2>3, RingAssumption
<1>3. ASSUME NEW k \in 0..(Len(q) - 1)
      PROVE  Row(m, m.line + MEM_WRITER_LINES - k) = Shown(q[Len(q) - k])
             <=> \A j \in Columns :
                   m.buffer[<< Back(m.line, k), j >>] = Place(q[Len(q) - k], j)
  <2>1. Row(m, m.line + MEM_WRITER_LINES - k)
          = [j \in 1..MEM_WRITER_LINE_LENGTH |-> m.buffer[<< Back(m.line, k), j - 1 >>]]
    BY <1>2 DEF Row
  <2>2. Shown(q[Len(q) - k])
          = [j \in 1..MEM_WRITER_LINE_LENGTH |-> Place(q[Len(q) - k], j - 1)]
    <3>1. ASSUME NEW j \in 1..MEM_WRITER_LINE_LENGTH
          PROVE  Place(q[Len(q) - k], j - 1) =
                   IF j <= Len(q[Len(q) - k]) THEN q[Len(q) - k][j] ELSE BLANK
      <4>1. (j - 1) + 1 = j
        BY <1>2
      <4> QED BY <4>1 DEF Place
    <3> QED BY <3>1 DEF Shown
  <2>3. Row(m, m.line + MEM_WRITER_LINES - k) = Shown(q[Len(q) - k])
        <=> \A j \in 1..MEM_WRITER_LINE_LENGTH :
              m.buffer[<< Back(m.line, k), j - 1 >>] = Place(q[Len(q) - k], j - 1)
    BY <2>1, <2>2
  <2>4. \A j \in Columns : j + 1 \in 1..MEM_WRITER_LINE_LENGTH /\ (j + 1) - 1 = j
    BY <1>2 DEF Columns
  <2>5. \A j \in 1..MEM_WRITER_LINE_LENGTH : j - 1 \in Columns
    BY <1>2 DEF Columns
  <2> QED BY <2>3, <2>4, <2>5
<1>4. Range(Row(m, m.line + 1)) \subseteq {BLANK, DASH}
      <=> \A j \in Columns : m.buffer[<< Ahead(m.line), j >>] \in {BLANK, DASH}
  <2>1. Row(m, m.line + 1)
          = [j \in 1..MEM_WRITER_LINE_LENGTH |-> m.buffer[<< Ahead(m.line), j - 1 >>]]
    BY <1>2 DEF Row
  <2>2. Range(Row(m, m.line + 1)) = {m.buffer[<< Ahead(m.line), j - 1 >>]
                                     : j \in 1..MEM_WRITER_LINE_LENGTH}
    BY <2>1 DEF Range
  <2>4. \A j \in Columns : j + 1 \in 1..MEM_WRITER_LINE_LENGTH /\ (j + 1) - 1 = j
    BY <1>2 DEF Columns
  <2>5. \A j \in 1..MEM_WRITER_LINE_LENGTH : j - 1 \in Columns
    BY <1>2 DEF Columns
  <2> QED BY <2>2, <2>4, <2>5
<1> QED BY <1>3, <1>4 DEF RingShows, Shows, Last

\* A new line at the end of the list.
NewLine(q) == Kept(Append(q, << >>))

LEMMA NewLineIs ==
  ASSUME NEW q \in LineLists
  PROVE  LET r == NewLine(q)
         IN  /\ r \in LogLines /\ r[Len(r)] = << >>
             /\ \A k \in 1..(Len(r) - 1) :
                  k - 1 \in 0..(Len(q) - 1) /\ r[Len(r) - k] = q[Len(q) - (k - 1)]
<1> DEFINE r == NewLine(q)
           p == Append(q, << >>)
<1>0. MEM_WRITER_LINES \in Nat /\ MEM_WRITER_LINES >= 3 /\ MEM_WRITER_LINE_LENGTH \in Nat \ {0}
  BY RingAssumption
<1>1. PICK n \in 1..(MEM_WRITER_LINES - 1) : n = Len(q)
  BY DEF LineLists
<1>2. q \in Seq(Seq(Int)) /\ << >> \in Seq(Int)
  BY DEF LineLists
<1>3. p \in Seq(Seq(Int)) /\ Len(p) = n + 1 /\ p[n + 1] = << >>
      /\ \A i \in 1..n : p[i] = q[i]
  BY <1>1, <1>2
<1> HIDE DEF p
<1>4. CASE n + 1 < MEM_WRITER_LINES
  <2>1. r = p
    BY <1>3, <1>4 DEF NewLine, Kept, p
  <2>2. r \in LineLists /\ Len(r) = n + 1
    BY <1>0, <1>3, <1>4, <2>1 DEF LineLists
  <2>3. r[n + 1] = << >> /\ Len(<< >>) = 0
    BY <1>3, <2>1
  <2>4. ASSUME NEW k \in 1..(Len(r) - 1)
        PROVE  k - 1 \in 0..(Len(q) - 1) /\ r[Len(r) - k] = q[Len(q) - (k - 1)]
    <3>1. k - 1 \in 0..(n - 1) /\ (n + 1) - k \in 1..n /\ (n + 1) - k = n - (k - 1)
      BY <1>0, <2>2
    <3> QED BY <1>1, <1>3, <2>1, <2>2, <3>1
  <2> HIDE DEF r
  <2>5. r \in LogLines
    BY <1>0, <2>2, <2>3 DEF LogLines
  <2> QED BY <2>2, <2>3, <2>4, <2>5 DEF r
<1>5. CASE ~(n + 1 < MEM_WRITER_LINES)
  <2>0. n + 1 = MEM_WRITER_LINES /\ p # << >>
    BY <1>0, <1>3, <1>5
  <2>1. r = Tail(p)
    BY <1>3, <1>5 DEF NewLine, Kept, p
  <2>2. r \in Seq(Seq(Int)) /\ Len(r) = n /\ \A i \in 1..n : r[i] = p[i + 1]
    BY <1>3, <2>0, <2>1
  <2> HIDE DEF r
  <2>3. r \in LineLists
    BY <1>0, <2>2 DEF LineLists
  <2>4. r[n] = << >> /\ Len(<< >>) = 0
    BY <1>0, <1>3, <2>2
  <2>5. ASSUME NEW k \in 1..(Len(r) - 1)
        PROVE  k - 1 \in 0..(Len(q) - 1) /\ r[Len(r) - k] = q[Len(q) - (k - 1)]
    <3>0. k \in 1..(n - 1) /\ n \in Nat
      BY <1>0, <2>2
    <3>1. /\ k - 1 \in 0..(n - 1) /\ n - k \in 1..n /\ (n - k) + 1 \in 1..n
          /\ (n - k) + 1 = n - (k - 1)
      BY <3>0
    <3> QED BY <1>1, <1>3, <2>2, <3>1
  <2>6. r \in LogLines
    BY <1>0, <2>2, <2>3, <2>4 DEF LogLines
  <2> QED BY <2>2, <2>4, <2>5, <2>6 DEF r
<1> QED BY <1>4, <1>5

LEMMA NextLineIs ==
  ASSUME NEW m \in Rings
  PROVE  /\ next_line(m) \in Idle
         /\ next_line(m).line = Ahead(m.line) /\ next_line(m).ch = 0
         /\ \A i \in 0..(MEM_WRITER_LINES - 1) : \A j \in Columns :
              next_line(m).buffer[<< i, j >>] =
                IF i = Ahead(Ahead(m.line)) THEN DASH
                ELSE IF i = Ahead(m.line) THEN BLANK ELSE m.buffer[<< i, j >>]
<1>0. MEM_WRITER_LINES \in Nat /\ MEM_WRITER_LINES >= 3 /\ MEM_WRITER_LINE_LENGTH \in Nat \ {0}
  BY RingAssumption
<1>1. PICK a \in 0..(MEM_WRITER_LINES - 1) : a = m.line
  BY DEF Rings
<1>2. PICK b \in 0..(MEM_WRITER_LINES - 1) : b = Ahead(a) /\ b = (a + 1) % MEM_WRITER_LINES
  BY RingIndices
<1>3. PICK c \in 0..(MEM_WRITER_LINES - 1) : c = Ahead(b) /\ c = (b + 1) % MEM_WRITER_LINES
  BY RingIndices
<1>4. PICK u : u = m.buffer /\ u \in [Cells -> Int]
  BY DEF Rings
<1>5. PICK v : v = clean_line(clean_line(u, b, BLANK), c, DASH)
  OBVIOUS
<1>6. next_line(m) = [buffer |-> v, line |-> b, ch |-> 0]
  BY <1>1, <1>2, <1>3, <1>4, <1>5 DEF next_line
<1>7. v = [k \in Cells |-> IF k[1] = c THEN DASH ELSE IF k[1] = b THEN BLANK ELSE u[k]]
  BY <1>4, <1>5 DEF clean_line
<1>8. v \in [Cells -> Int]
  BY <1>4, <1>7 DEF DASH, BLANK, NEG
<1>9. ASSUME NEW i \in 0..(MEM_WRITER_LINES - 1), NEW j \in Columns
      PROVE  v[<< i, j >>] = IF i = c THEN DASH ELSE IF i = b THEN BLANK ELSE u[<< i, j >>]
  <2>1. << i, j >> \in Cells
    BY DEF Cells, Columns
  <2> QED BY <1>7, <2>1
<1>10. next_line(m) \in Rings /\ next_line(m).ch = 0 /\ next_line(m).line = b
       /\ next_line(m).buffer = v
  BY <1>0, <1>6, <1>8 DEF Rings
<1>11. next_line(m) \in Idle
  BY <1>0, <1>10 DEF Idle
<1> QED BY <1>1, <1>2, <1>3, <1>4, <1>9, <1>10, <1>11

LEMMA NextLineShows ==
  ASSUME NEW m \in Rings, NEW q \in LineLists, Shows(m, q)
  PROVE  /\ next_line(m) \in Idle /\ next_line(m).ch = 0
         /\ NewLine(q) \in LogLines /\ Shows(next_line(m), NewLine(q))
         /\ NewLine(q)[Len(NewLine(q))] = << >>
<1>0. MEM_WRITER_LINES \in Nat /\ MEM_WRITER_LINES >= 3 /\ MEM_WRITER_LINE_LENGTH \in Nat \ {0}
  BY RingAssumption
<1>1. PICK a \in 0..(MEM_WRITER_LINES - 1) : a = m.line
  BY DEF Rings
<1>2. PICK w : w = next_line(m)
  OBVIOUS
<1>3. /\ w \in Idle /\ w.line = Ahead(a) /\ w.ch = 0
      /\ \A i \in 0..(MEM_WRITER_LINES - 1) : \A j \in Columns :
              w.buffer[<< i, j >>] =
                IF i = Ahead(Ahead(a)) THEN DASH
                ELSE IF i = Ahead(a) THEN BLANK ELSE m.buffer[<< i, j >>]
  BY <1>1, <1>2, NextLineIs
<1>4. PICK r : r = NewLine(q)
  OBVIOUS
<1>5. /\ r \in LogLines /\ r[Len(r)] = << >>
      /\ \A k \in 1..(Len(r) - 1) :
           k - 1 \in 0..(Len(q) - 1) /\ r[Len(r) - k] = q[Len(q) - (k - 1)]
  BY <1>4, NewLineIs
<1>6. Len(r) \in 1..(MEM_WRITER_LINES - 1) /\ Len(q) \in 1..(MEM_WRITER_LINES - 1)
  BY <1>5 DEF LogLines, LineLists
<1>7. Ahead(a) \in 0..(MEM_WRITER_LINES - 1)
  BY RingIndices
<1>8. /\ Ahead(Ahead(a)) \in 0..(MEM_WRITER_LINES - 1)
      /\ Ahead(Ahead(a)) # Ahead(a) /\ Back(Ahead(a), 0) = Ahead(a)
  BY <1>7, RingIndices
<1>9. ASSUME NEW k \in 0..(Len(r) - 1), NEW j \in Columns
      PROVE  w.buffer[<< Back(w.line, k), j >>] = Place(r[Len(r) - k], j)
  <2>1. CASE k = 0
    <3>1. w.buffer[<< Ahead(a), j >>] = BLANK
      BY <1>3, <1>7, <1>8
    <3>2. r[Len(r) - 0] = << >>
      BY <1>5, <1>6
    <3>3. Place(<< >>, j) = BLANK
      BY DEF Place, Columns
    <3> QED BY <1>3, <1>8, <2>1, <3>1, <3>2, <3>3
  <2>2. CASE k # 0
    <3>1. k \in 1..(Len(r) - 1) /\ k \in 0..(MEM_WRITER_LINES - 1)
          /\ k # MEM_WRITER_LINES - 1
      BY <1>0, <1>6, <2>2
    <3>2. /\ Back(Ahead(a), k) = Back(a, k - 1) /\ Back(Ahead(a), k) # Ahead(a)
          /\ Back(Ahead(a), k) # Ahead(Ahead(a))
      BY <2>2, <3>1, RingIndices
    <3>3. Back(Ahead(a), k) \in 0..(MEM_WRITER_LINES - 1)
      BY <1>7, <3>1, RingIndices
    <3>4. w.buffer[<< Back(Ahead(a), k), j >>] = m.buffer[<< Back(a, k - 1), j >>]
      BY <1>3, <3>2, <3>3
    <3>5. k - 1 \in 0..(Len(q) - 1) /\ r[Len(r) - k] = q[Len(q) - (k - 1)]
      BY <1>5, <3>1
    <3>6. m.buffer[<< Back(a, k - 1), j >>] = Place(q[Len(q) - (k - 1)], j)
      BY <1>1, <3>5 DEF Shows
    <3> QED BY <1>3, <3>4, <3>5, <3>6
  <2> QED BY <2>1, <2>2
<1>10. ASSUME NEW j \in Columns PROVE w.buffer[<< Ahead(w.line), j >>] \in {BLANK, DASH}
  BY <1>3, <1>8
<1>11. Shows(w, r)
  BY <1>9, <1>10 DEF Shows
<1> QED BY <1>2, <1>3, <1>4, <1>5, <1>11

\* A character in the current line.
PutAt(m, c) == [buffer |-> [m.buffer EXCEPT ![<< m.line, m.ch >>] = c],
                line |-> m.line, ch |-> m.ch + 1]
PutIn(q, c) == Append(Front(q), Append(Last(q), c))

LEMMA PutInIs ==
  ASSUME NEW q \in LineLists, NEW c \in Int
  PROVE  LET r == PutIn(q, c)
         IN  /\ r \in LineLists /\ Len(r) = Len(q)
             /\ r[Len(q)] = Append(q[Len(q)], c)
             /\ \A i \in 1..(Len(q) - 1) : r[i] = q[i]
<1>0. MEM_WRITER_LINES \in Nat /\ MEM_WRITER_LINES >= 3
  BY RingAssumption
<1>1. PICK n \in Nat : n = Len(q) /\ n \in 1..(MEM_WRITER_LINES - 1)
  BY <1>0 DEF LineLists
<1>2. q \in Seq(Seq(Int))
  BY DEF LineLists
<1>3. PICK f : f = SubSeq(q, 1, n - 1)
  OBVIOUS
<1>4. f \in Seq(Seq(Int)) /\ Len(f) = n - 1 /\ \A i \in 1..(n - 1) : f[i] = q[i]
  BY <1>0, <1>1, <1>2, <1>3
<1>5. PICK l \in Seq(Int) : l = q[n]
  BY <1>0, <1>1, <1>2
<1>a. Append(l, c) \in Seq(Int)
  OBVIOUS
<1>6. PICK e \in Seq(Int) : e = Append(l, c)
  BY <1>a
<1>7. PutIn(q, c) = Append(f, e)
  BY <1>1, <1>3, <1>5, <1>6 DEF PutIn, Front, Last
<1>8. PICK r : r = Append(f, e)
  OBVIOUS
<1>9. /\ r \in Seq(Seq(Int)) /\ Len(r) = n /\ r[n] = e
      /\ \A i \in 1..(n - 1) : r[i] = q[i]
  BY <1>0, <1>1, <1>4, <1>8
<1>10. r \in LineLists
  BY <1>1, <1>9 DEF LineLists
<1> QED BY <1>1, <1>5, <1>6, <1>7, <1>8, <1>9, <1>10

LEMMA PutShows ==
  ASSUME NEW m \in Idle, NEW q \in LogLines, Shows(m, q), m.ch = Len(q[Len(q)]),
         NEW c \in Int
  PROVE  /\ PutAt(m, c) \in Rings /\ PutAt(m, c).ch = m.ch + 1
         /\ Shows(PutAt(m, c), PutIn(q, c))
<1>0. MEM_WRITER_LINES \in Nat /\ MEM_WRITER_LINES >= 3 /\ MEM_WRITER_LINE_LENGTH \in Nat \ {0}
  BY RingAssumption
<1>1. PICK a \in 0..(MEM_WRITER_LINES - 1) : a = m.line
  BY DEF Rings, Idle
<1>2. PICK h \in Columns : h = m.ch
  BY <1>0 DEF Rings, Idle, Columns
<1>3. PICK u : u = m.buffer /\ u \in [Cells -> Int]
  BY DEF Rings, Idle
<1>4. PICK v : v = [u EXCEPT ![<< a, h >>] = c]
  OBVIOUS
<1>5. PutAt(m, c) = [buffer |-> v, line |-> a, ch |-> h + 1]
  BY <1>1, <1>2, <1>3, <1>4 DEF PutAt
<1>6. << a, h >> \in Cells
  BY DEF Cells, Columns
<1>7. v \in [Cells -> Int]
      /\ \A i \in 0..(MEM_WRITER_LINES - 1) : \A j \in Columns :
           v[<< i, j >>] = IF i = a /\ j = h THEN c ELSE u[<< i, j >>]
  <2>1. ASSUME NEW i \in 0..(MEM_WRITER_LINES - 1), NEW j \in Columns
        PROVE  v[<< i, j >>] = IF i = a /\ j = h THEN c ELSE u[<< i, j >>]
    <3>1. << i, j >> \in Cells
      BY DEF Cells, Columns
    <3>2. << i, j >> = << a, h >> <=> i = a /\ j = h
      OBVIOUS
    <3> QED BY <1>3, <1>4, <3>1, <3>2
  <2> QED BY <1>3, <1>4, <2>1
<1>8. PICK w : w = PutAt(m, c)
  OBVIOUS
<1>9. w \in Rings /\ w.ch = h + 1 /\ w.line = a /\ w.buffer = v
  <2>1. h + 1 \in 0..MEM_WRITER_LINE_LENGTH
    BY <1>0 DEF Columns
  <2> QED BY <1>5, <1>7, <1>8, <2>1 DEF Rings
<1>10. PICK r : r = PutIn(q, c)
  OBVIOUS
<1>11. q \in LineLists /\ Len(q) \in Nat /\ Len(q) \in 1..(MEM_WRITER_LINES - 1)
       /\ q[Len(q)] \in Seq(Int)
  BY <1>0 DEF LogLines, LineLists
<1>12. /\ r \in LineLists /\ Len(r) = Len(q)
       /\ r[Len(q)] = Append(q[Len(q)], c)
       /\ \A i \in 1..(Len(q) - 1) : r[i] = q[i]
  BY <1>10, <1>11, PutInIs
<1>13. Ahead(a) \in 0..(MEM_WRITER_LINES - 1) /\ Ahead(a) # a /\ Back(a, 0) = a
  BY RingIndices
<1>14. ASSUME NEW k \in 0..(Len(r) - 1), NEW j \in Columns
       PROVE  v[<< Back(a, k), j >>] = Place(r[Len(r) - k], j)
  <2>1. u[<< Back(a, k), j >>] = Place(q[Len(q) - k], j)
    BY <1>1, <1>3, <1>12 DEF Shows
  <2>2. CASE k = 0
    <3>1. PICK l \in Seq(Int) : l = q[Len(q)] /\ Len(l) = h
      BY <1>2, <1>11
    <3>2. r[Len(r) - 0] = Append(l, c) /\ q[Len(q) - 0] = l
      BY <1>11, <1>12, <3>1
    <3>3. u[<< a, j >>] = Place(l, j)
      BY <1>13, <2>1, <2>2, <3>2
    <3>4. Place(Append(l, c), j) = IF j = h THEN c ELSE Place(l, j)
      <4>1. j \in Nat /\ h \in Nat
        BY <1>0 DEF Columns
      <4> QED BY <3>1, <4>1 DEF Place
    <3>5. v[<< a, j >>] = IF j = h THEN c ELSE u[<< a, j >>]
      BY <1>7
    <3> QED BY <1>13, <2>2, <3>2, <3>3, <3>4, <3>5
  <2>3. CASE k # 0
    <3>1. k \in 0..(MEM_WRITER_LINES - 1) /\ Len(q) - k \in 1..(Len(q) - 1)
      BY <1>0, <1>11, <1>12, <2>3
    <3>2. Back(a, k) # a /\ Back(a, k) \in 0..(MEM_WRITER_LINES - 1)
      BY <2>3, <3>1, RingIndices
    <3>3. v[<< Back(a, k), j >>] = u[<< Back(a, k), j >>]
      BY <1>7, <3>2
    <3> QED BY <1>12, <2>1, <3>1, <3>3
  <2> QED BY <2>2, <2>3
<1>15. ASSUME NEW j \in Columns PROVE v[<< Ahead(a), j >>] \in {BLANK, DASH}
  <2>1. u[<< Ahead(a), j >>] \in {BLANK, DASH}
    BY <1>1, <1>3 DEF Shows
  <2>2. v[<< Ahead(a), j >>] = u[<< Ahead(a), j >>]
    BY <1>7, <1>13
  <2> QED BY <2>1, <2>2
<1>16. Shows(w, r)
  BY <1>9, <1>14, <1>15 DEF Shows
<1> QED BY <1>2, <1>8, <1>9, <1>10, <1>16

\* kputchar does to the ring what LogChar does to the lines.
ShowsLog(m, q) == m \in Idle /\ q \in LogLines /\ Shows(m, q) /\ m.ch = Len(q[Len(q)])

LEMMA CharShown ==
  ASSUME NEW m, NEW q, ShowsLog(m, q), NEW c \in Int
  PROVE  ShowsLog(kputchar(m, c), LogChar(q, c))
<1>0. MEM_WRITER_LINES \in Nat /\ MEM_WRITER_LINES >= 3 /\ MEM_WRITER_LINE_LENGTH \in Nat \ {0}
  BY RingAssumption
<1>1. /\ m \in Idle /\ m \in Rings /\ q \in LogLines /\ q \in LineLists /\ Shows(m, q)
      /\ m.ch = Len(q[Len(q)]) /\ Len(<< >>) = 0
  BY DEF ShowsLog, Idle, LogLines
<1>2. CASE c = NL
  <2>1. kputchar(m, c) = next_line(m) /\ LogChar(q, c) = NewLine(q)
    BY <1>2 DEF kputchar, LogChar, NewLine
  <2>2. /\ next_line(m) \in Idle /\ next_line(m).ch = 0
        /\ NewLine(q) \in LogLines /\ Shows(next_line(m), NewLine(q))
        /\ NewLine(q)[Len(NewLine(q))] = << >>
    BY <1>1, NextLineShows
  <2> QED BY <1>1, <2>1, <2>2 DEF ShowsLog
<1>3. CASE c # NL
  <2>1. PICK w : w = PutAt(m, c)
    OBVIOUS
  <2>2. PICK r : r = PutIn(q, c)
    OBVIOUS
  <2>3. w \in Rings /\ w.ch = m.ch + 1 /\ Shows(w, r)
    BY <1>1, <2>1, <2>2, PutShows
  <2>4. r \in LineLists /\ Len(r) = Len(q) /\ r[Len(r)] = Append(q[Len(q)], c)
    BY <1>1, <2>2, PutInIs
  <2>5. Len(Append(q[Len(q)], c)) = m.ch + 1 /\ m.ch \in Nat /\ m.ch < MEM_WRITER_LINE_LENGTH
    <3>1. q[Len(q)] \in Seq(Int)
      <4>1. q \in Seq(Seq(Int)) /\ Len(q) \in 1..Len(q)
        BY <1>0, <1>1 DEF LineLists
      <4> QED BY <4>1
    <3>2. Len(Append(q[Len(q)], c)) = Len(q[Len(q)]) + 1
      BY <3>1
    <3>3. m.ch \in Nat /\ m.ch < MEM_WRITER_LINE_LENGTH
      BY <1>0, <1>1 DEF Idle, Rings
    <3> QED BY <1>1, <3>2, <3>3
  <2>6. /\ kputchar(m, c) = IF w.ch >= MEM_WRITER_LINE_LENGTH THEN next_line(w) ELSE w
        /\ LogChar(q, c) = IF m.ch + 1 = MEM_WRITER_LINE_LENGTH THEN NewLine(r) ELSE r
    <3>1. kputchar(m, c) = IF w.ch >= MEM_WRITER_LINE_LENGTH THEN next_line(w) ELSE w
      BY <1>3, <2>1, Zenon DEF kputchar, PutAt
    <3>2. LogChar(q, c) = IF Len(Append(Last(q), c)) = MEM_WRITER_LINE_LENGTH
                          THEN NewLine(r) ELSE r
      BY <1>3, <2>2, Zenon DEF LogChar, PutIn, NewLine
    <3>3. Last(q) = q[Len(q)]
      BY DEF Last
    <3> QED BY <2>5, <3>1, <3>2, <3>3
  <2>7. CASE m.ch + 1 = MEM_WRITER_LINE_LENGTH
    <3>1. kputchar(m, c) = next_line(w) /\ LogChar(q, c) = NewLine(r)
      BY <1>0, <2>3, <2>6, <2>7
    <3>2. /\ next_line(w) \in Idle /\ next_line(w).ch = 0
          /\ NewLine(r) \in LogLines /\ Shows(next_line(w), NewLine(r))
          /\ NewLine(r)[Len(NewLine(r))] = << >>
      BY <2>3, <2>4, NextLineShows
    <3> QED BY <1>1, <3>1, <3>2 DEF ShowsLog
  <2>8. CASE m.ch + 1 # MEM_WRITER_LINE_LENGTH
    <3>1. kputchar(m, c) = w /\ LogChar(q, c) = r /\ m.ch + 1 < MEM_WRITER_LINE_LENGTH
      BY <1>0, <2>3, <2>5, <2>6, <2>8
    <3>2. w \in Idle /\ r \in LogLines
      BY <2>3, <2>4, <2>5, <3>1 DEF Idle, LogLines
    <3> QED BY <2>3, <2>4, <2>5, <3>1, <3>2 DEF ShowsLog
  <2> QED BY <2>7, <2>8
<1> QED BY <1>2, <1>3

-----------------------------------------------------------------------------
(* Folds of characters into a log.                                          *)

LEMMA LogCharType ==
  ASSUME NEW q \in LogLines, NEW c \in Int
  PROVE  LogChar(q, c) \in LogLines
<1>0. MEM_WRITER_LINE_LENGTH \in Nat \ {0} /\ q \in LineLists /\ q \in Seq(Seq(Int))
      /\ Len(q) \in 1..Len(q) /\ q[Len(q)] \in Seq(Int)
      /\ Len(q[Len(q)]) < MEM_WRITER_LINE_LENGTH
  BY RingAssumption DEF LogLines, LineLists
<1>1. NewLine(q) \in LogLines
  BY <1>0, NewLineIs
<1>2. PICK r : r = PutIn(q, c)
  OBVIOUS
<1>3. r \in LineLists /\ Len(r) = Len(q) /\ r[Len(q)] = Append(q[Len(q)], c)
  BY <1>0, <1>2, PutInIs
<1>4. NewLine(r) \in LogLines
  BY <1>3, NewLineIs
<1>5. LogChar(q, c) = IF c = NL THEN NewLine(q)
                      ELSE IF Len(Append(q[Len(q)], c)) = MEM_WRITER_LINE_LENGTH
                      THEN NewLine(r) ELSE r
  BY <1>2, Zenon DEF LogChar, PutIn, NewLine, Last
<1>6. Len(Append(q[Len(q)], c)) = Len(q[Len(q)]) + 1
  BY <1>0
<1>7. CASE Len(Append(q[Len(q)], c)) # MEM_WRITER_LINE_LENGTH
  <2>1. Len(r[Len(r)]) < MEM_WRITER_LINE_LENGTH
    BY <1>0, <1>3, <1>6, <1>7
  <2>2. r \in LogLines
    BY <1>3, <2>1 DEF LogLines
  <2> QED BY <1>1, <1>5, <1>7, <2>2
<1>8. CASE Len(Append(q[Len(q)], c)) = MEM_WRITER_LINE_LENGTH
  BY <1>1, <1>4, <1>5, <1>8
<1> QED BY <1>7, <1>8

LEMMA RingType ==
  ASSUME NEW m \in Idle, NEW c \in Int
  PROVE  kputchar(m, c) \in Idle
<1>0. MEM_WRITER_LINES \in Nat /\ MEM_WRITER_LINE_LENGTH \in Nat \ {0} /\ m \in Rings
  BY RingAssumption DEF Idle
<1>1. next_line(m) \in Idle
  BY <1>0, NextLineIs
<1>2. PICK w : w = PutAt(m, c)
  OBVIOUS
<1>3. PICK a \in 0..(MEM_WRITER_LINES - 1) : a = m.line
  BY <1>0 DEF Rings
<1>4. PICK h \in Columns : h = m.ch
  BY <1>0 DEF Rings, Idle, Columns
<1>5. PICK v \in [Cells -> Int] : v = [m.buffer EXCEPT ![<< a, h >>] = c]
  <2>1. m.buffer \in [Cells -> Int]
    BY <1>0 DEF Rings
  <2> QED BY <2>1
<1>6. w = [buffer |-> v, line |-> a, ch |-> h + 1] /\ h + 1 \in 0..MEM_WRITER_LINE_LENGTH
  BY <1>0, <1>2, <1>3, <1>4, <1>5 DEF PutAt, Columns
<1>7. w \in Rings /\ w.ch = h + 1
  BY <1>6 DEF Rings
<1>8. next_line(w) \in Idle
  BY <1>7, NextLineIs
<1>9. kputchar(m, c) = IF c = NL THEN next_line(m)
                       ELSE IF w.ch >= MEM_WRITER_LINE_LENGTH THEN next_line(w) ELSE w
  BY <1>2, Zenon DEF kputchar, PutAt
<1>10. CASE w.ch >= MEM_WRITER_LINE_LENGTH
  BY <1>1, <1>8, <1>9, <1>10
<1>11. CASE ~(w.ch >= MEM_WRITER_LINE_LENGTH)
  <2>1. w.ch < MEM_WRITER_LINE_LENGTH
    BY <1>0, <1>7, <1>11 DEF Columns
  <2>2. w \in Idle
    BY <1>7, <2>1 DEF Idle
  <2> QED BY <1>1, <1>9, <1>11, <2>2
<1> QED BY <1>10, <1>11

LogStep == [p \in LogLines \X Int |-> LogChar(p[1], p[2])]
RingStep == [p \in Idle \X Int |-> kputchar(p[1], p[2])]

LEMMA StepTypes ==
  /\ LogStep \in [LogLines \X Int -> LogLines]
  /\ \A q \in LogLines, c \in Int : LogStep[<< q, c >>] = LogChar(q, c)
  /\ RingStep \in [Idle \X Int -> Idle]
  /\ \A m \in Idle, c \in Int : RingStep[<< m, c >>] = kputchar(m, c)
<1>1. \A p \in LogLines \X Int : LogChar(p[1], p[2]) \in LogLines
  BY LogCharType
<1>2. \A p \in Idle \X Int : kputchar(p[1], p[2]) \in Idle
  BY RingType
<1>3. LogStep \in [LogLines \X Int -> LogLines]
  BY <1>1 DEF LogStep
<1>4. RingStep \in [Idle \X Int -> Idle]
  BY <1>2 DEF RingStep
<1>5. \A q \in LogLines, c \in Int : LogStep[<< q, c >>] = LogChar(q, c)
  BY DEF LogStep
<1>6. \A m \in Idle, c \in Int : RingStep[<< m, c >>] = kputchar(m, c)
  BY DEF RingStep
<1> QED BY <1>3, <1>4, <1>5, <1>6

\* The lines after text has been added to q.
Logged(q, text) == FoldLeft(LogChar, q, text)

LEMMA LogRun ==
  ASSUME NEW q \in LogLines, NEW text \in Seq(Int)
  PROVE  EndsRun(Logged(q, text), LogLines, text, q, LogStep)
<1>1. PICK g : g = LogStep
  OBVIOUS
<1>2. g \in [LogLines \X Int -> LogLines]
      /\ \A a \in LogLines, c \in Int : g[<< a, c >>] = LogChar(a, c)
  BY <1>1, StepTypes
<1>3. EndsRun(FoldLeft(LogChar, q, text), LogLines, text, q, g)
  BY <1>2, Fold_LogChar
<1> QED BY <1>1, <1>3, Zenon DEF Logged

LEMMA RingRun ==
  ASSUME NEW m \in Idle, NEW text \in Seq(Int)
  PROVE  EndsRun(FoldLeft(kputchar, m, text), Idle, text, m, RingStep)
<1>1. PICK g : g = RingStep
  OBVIOUS
<1>2. g \in [Idle \X Int -> Idle]
      /\ \A a \in Idle, c \in Int : g[<< a, c >>] = kputchar(a, c)
  BY <1>1, StepTypes
<1>3. EndsRun(FoldLeft(kputchar, m, text), Idle, text, m, g)
  BY <1>2, Fold_kputchar
<1> QED BY <1>1, <1>3

\* Text that is written to the ring.
LEMMA TextShown ==
  ASSUME NEW m, NEW q, ShowsLog(m, q), NEW text \in Seq(Int)
  PROVE  ShowsLog(FoldLeft(kputchar, m, text), Logged(q, text))
<1>0. m \in Idle /\ q \in LogLines
  BY DEF ShowsLog
<1>1. PICK n \in Nat : n = Len(text)
  OBVIOUS
<1>2. PICK x : x \in Runs(Idle, text, m, RingStep) /\ FoldLeft(kputchar, m, text) = x[n]
  BY <1>0, <1>1, RingRun DEF EndsRun
<1>3. PICK y : y \in Runs(LogLines, text, q, LogStep) /\ Logged(q, text) = y[n]
  BY <1>0, <1>1, LogRun DEF EndsRun
<1>4. x \in [0..n -> Idle] /\ x[0] = m /\ y \in [0..n -> LogLines] /\ y[0] = q
  BY <1>1, <1>2, <1>3 DEF Runs
<1>5. ASSUME NEW k \in 0..(n - 1)
      PROVE  /\ x[k + 1] = kputchar(x[k], text[k + 1])
             /\ y[k + 1] = LogChar(y[k], text[k + 1])
  <2>1. text[k + 1] \in Int /\ x[k] \in Idle /\ y[k] \in LogLines
    <3>1. k \in 0..n /\ k + 1 \in 1..Len(text)
      BY <1>1
    <3>2. text[k + 1] \in Int
      BY <3>1
    <3>3. x[k] \in Idle
      BY <1>4, <3>1
    <3>4. y[k] \in LogLines
      BY <1>4, <3>1
    <3> QED BY <3>2, <3>3, <3>4
  <2>2. x[k + 1] = RingStep[<< x[k], text[k + 1] >>]
    BY <1>1, <1>2 DEF Runs
  <2>3. y[k + 1] = LogStep[<< y[k], text[k + 1] >>]
    BY <1>1, <1>3 DEF Runs
  <2>4. RingStep[<< x[k], text[k + 1] >>] = kputchar(x[k], text[k + 1])
    BY <2>1, StepTypes
  <2>5. LogStep[<< y[k], text[k + 1] >>] = LogChar(y[k], text[k + 1])
    BY <2>1, StepTypes
  <2> QED BY <2>2, <2>3, <2>4, <2>5, Zenon
<1> DEFINE S == {k \in Nat : k \in 0..n => ShowsLog(x[k], y[k])}
<1>6. 0 \in S
  BY <1>4
<1>7. ASSUME NEW k \in Nat, k \in S PROVE k + 1 \in S
  <2>1. CASE k + 1 \in 0..n
    <3>1. k \in 0..(n - 1) /\ k \in 0..n /\ text[k + 1] \in Int
      BY <1>1, <2>1
    <3>2. ShowsLog(x[k], y[k])
      BY <1>7, <3>1
    <3>3. ShowsLog(kputchar(x[k], text[k + 1]), LogChar(y[k], text[k + 1]))
      BY <3>1, <3>2, CharShown
    <3> QED BY <1>5, <3>1, <3>3
  <2>2. CASE k + 1 \notin 0..n
    BY <2>2
  <2> QED BY <2>1, <2>2
<1> HIDE DEF S
<1>8. Nat \subseteq S
  BY <1>6, <1>7, SetInduction
<1>9. ShowsLog(x[n], y[n])
  BY <1>1, <1>8 DEF S
<1> QED BY <1>2, <1>3, <1>9

-----------------------------------------------------------------------------
(* Text in pieces.                                                          *)

\* A fold of two sequences one after the other.
LEMMA RunConcat ==
  ASSUME NEW A, NEW E, NEW a \in Seq(E), NEW c \in Seq(E), NEW b, NEW g, NEW u, NEW v, NEW w,
         EndsRun(u, A, a, b, g), EndsRun(v, A, c, u, g), EndsRun(w, A, a \o c, b, g)
  PROVE  w = v
<1>1. PICK m \in Nat, n \in Nat : m = Len(a) /\ n = Len(c)
  OBVIOUS
<1>2. PICK x \in Runs(A, a, b, g) : u = x[m]
  BY <1>1 DEF EndsRun
<1>3. PICK y \in Runs(A, c, u, g) : v = y[n]
  BY <1>1 DEF EndsRun
<1>4. PICK q \in Seq(E) : /\ q = a \o c /\ Len(q) = m + n
                          /\ \A k \in 1..m : q[k] = a[k]
                          /\ \A k \in 1..n : q[m + k] = c[k]
  <2>1. PICK q : q = a \o c
    OBVIOUS
  <2>2. q \in Seq(E) /\ Len(q) = m + n
    BY <1>1, <2>1
  <2>3. ASSUME NEW k \in 1..m PROVE q[k] = a[k]
    BY <1>1, <2>1
  <2>4. ASSUME NEW k \in 1..n PROVE q[m + k] = c[k]
    BY <1>1, <2>1
  <2> QED BY <2>1, <2>2, <2>3, <2>4
<1>5. PICK z \in Runs(A, q, b, g) : w = z[m + n]
  BY <1>4 DEF EndsRun
<1>6. /\ x[0] = b /\ \A k \in 0..(m - 1) : x[k + 1] = g[<< x[k], a[k + 1] >>]
      /\ y[0] = u /\ \A k \in 0..(n - 1) : y[k + 1] = g[<< y[k], c[k + 1] >>]
      /\ z[0] = b /\ \A k \in 0..(m + n - 1) : z[k + 1] = g[<< z[k], q[k + 1] >>]
  BY <1>1, <1>2, <1>3, <1>4, <1>5 DEF Runs
<1> DEFINE S == {k \in Nat : k <= m => z[k] = x[k]}
           T == {k \in Nat : k <= n => z[m + k] = y[k]}
<1>7. 0 \in S
  BY <1>6
<1>8. ASSUME NEW k \in Nat, k \in S PROVE k + 1 \in S
  <2>1. CASE k + 1 <= m
    <3>1. k \in 0..(m - 1) /\ k \in 0..(m + n - 1) /\ k + 1 \in 1..m /\ z[k] = x[k]
      BY <1>8, <2>1
    <3>2. z[k + 1] = x[k + 1]
      <4>1. z[k + 1] = g[<< z[k], q[k + 1] >>] /\ x[k + 1] = g[<< x[k], a[k + 1] >>]
        BY <1>6, <3>1, Zenon
      <4>2. q[k + 1] = a[k + 1]
        BY <1>4, <3>1, Zenon
      <4> QED BY <3>1, <4>1, <4>2, Zenon
    <3> QED BY <3>2
  <2>2. CASE ~(k + 1 <= m)
    BY <2>2
  <2> QED BY <2>1, <2>2
<1> HIDE DEF S
<1>9. Nat \subseteq S
  BY <1>7, <1>8, SetInduction
<1>10. z[m] = u
  BY <1>2, <1>9 DEF S
<1>11. 0 \in T
  BY <1>6, <1>10
<1>12. ASSUME NEW k \in Nat, k \in T PROVE k + 1 \in T
  <2>1. CASE k + 1 <= n
    <3>1. /\ k \in 0..(n - 1) /\ m + k \in 0..(m + n - 1) /\ k + 1 \in 1..n
          /\ z[m + k] = y[k] /\ m + (k + 1) = (m + k) + 1
      BY <1>12, <2>1
    <3>2. z[(m + k) + 1] = g[<< z[m + k], q[(m + k) + 1] >>]
      BY <1>6, <3>1
    <3>3. y[k + 1] = g[<< y[k], c[k + 1] >>] /\ q[m + (k + 1)] = c[k + 1]
      BY <1>4, <1>6, <3>1
    <3>4. z[m + (k + 1)] = y[k + 1]
      BY <3>1, <3>2, <3>3
    <3> QED BY <3>4
  <2>2. CASE ~(k + 1 <= n)
    BY <2>2
  <2> QED BY <2>1, <2>2
<1> HIDE DEF T
<1>13. Nat \subseteq T
  BY <1>11, <1>12, SetInduction
<1> QED BY <1>3, <1>5, <1>13 DEF T

\* A fold of nothing, and one that ends in A.
LEMMA RunEnds ==
  ASSUME NEW A, NEW E, NEW a \in Seq(E), NEW b, NEW g, NEW u, EndsRun(u, A, a, b, g)
  PROVE  u \in A /\ (a = << >> => u = b)
<1>1. PICK x \in Runs(A, a, b, g) : u = x[Len(a)]
  BY DEF EndsRun
<1>2. Len(a) \in Nat /\ x \in [0..Len(a) -> A] /\ x[0] = b
  BY <1>1 DEF Runs
<1>3. u \in A
  BY <1>1, <1>2
<1> QED BY <1>1, <1>2, <1>3

LEMMA LogConcat ==
  ASSUME NEW q \in LogLines, NEW a \in Seq(Int), NEW c \in Seq(Int)
  PROVE  /\ Logged(q, a) \in LogLines /\ Logged(q, << >>) = q
         /\ Logged(q, a \o c) = Logged(Logged(q, a), c)
<1>1. PICK u : u = Logged(q, a)
  OBVIOUS
<1>2. EndsRun(u, LogLines, a, q, LogStep)
  BY <1>1, LogRun
<1>3. u \in LogLines
  BY <1>2, RunEnds
<1>4. EndsRun(Logged(u, c), LogLines, c, u, LogStep)
  BY <1>3, LogRun
<1>5. EndsRun(Logged(q, a \o c), LogLines, a \o c, q, LogStep)
  <2>1. a \o c \in Seq(Int)
    OBVIOUS
  <2> QED BY <2>1, LogRun
<1>6. Logged(q, a \o c) = Logged(u, c)
  BY <1>2, <1>4, <1>5, RunConcat
<1>7. << >> \in Seq(Int)
  OBVIOUS
<1>8. EndsRun(Logged(q, << >>), LogLines, << >>, q, LogStep)
  BY <1>7, LogRun
<1>9. Logged(q, << >>) = q
  BY <1>7, <1>8, RunEnds
<1> QED BY <1>1, <1>3, <1>6, <1>9

-----------------------------------------------------------------------------
(* What a conversion sends to its writer.                                   *)

Conversions == [conv : {"d", "p", "b"}, arg : Ints] \cup
               [conv : {"text", "c", "s"}, arg : Seq(Int)]

\* The conversions of which Regular speaks.
RegularItems == {item \in Conversions : /\ Expand(item) # << >>
                                        /\ item.conv = "p" => item.arg >= 0}

Sent(item) ==
  IF item.conv = "d" THEN itoa(item.arg, 10)
  ELSE IF item.conv = "p" THEN IF item.arg = 0 THEN Nil ELSE << 0, X >> \o itoa(item.arg, 16)
  ELSE IF item.conv = "b" THEN ToBuffer!Bits(item.arg)
  ELSE item.arg

\* All the characters there are.
ItoaChars == UNION {Range(itoa(p[1], p[2])) : p \in Ints \X Bases}
Chars == Int \cup ItoaChars

LEMMA NumeralIsText ==
  ASSUME NEW b \in Bases, NEW u \in Nat
  PROVE  Numeral(u, b) \in Seq(Int) /\ Len(Numeral(u, b)) > 0
<1>1. CASE u = 0
  <2>1. << 0 >> \in Seq(Int) /\ Len(<< 0 >>) > 0
    OBVIOUS
  <2> QED BY <1>1, <2>1, NumeralDigits
<1>2. CASE u # 0
  <2>1. PICK n \in Nat \ {0} : n = CountDigits(u, b)
    BY <1>2, CountBounds DEF InDigits
  <2>2. PICK d : d = [k \in 1..n |-> (u \div Power(b, n - k)) % b]
    OBVIOUS
  <2>3. \A k \in 1..n : (u \div Power(b, n - k)) % b \in Int
    <3>1. ASSUME NEW k \in 1..n PROVE (u \div Power(b, n - k)) % b \in Int
      <4>1. b \in Nat \ {0} /\ n - k \in Nat
        BY DEF Bases
      <4>2. PICK p \in Nat \ {0} : p = Power(b, n - k)
        BY <4>1, PowerType
      <4>3. PICK a \in Nat : a = u \div p
        BY DivMod
      <4> QED BY <4>1, <4>2, <4>3, DivMod
    <3> QED BY <3>1
  <2>4. d \in Seq(Int) /\ Len(d) = n
    <3>1. d \in [1..n -> Int]
      BY <2>2, <2>3
    <3> QED BY <3>1
  <2>5. Numeral(u, b) = d
    BY <1>2, <2>1, <2>2, NumeralDigits DEF DigitsOf
  <2> QED BY <2>4, <2>5
<1> QED BY <1>1, <1>2

LEMMA ReferenceIsText ==
  ASSUME NEW i \in Ints, NEW b \in Bases
  PROVE  ReferenceNumeral(i, b) \in Seq(Int) /\ Len(ReferenceNumeral(i, b)) > 0
<1>1. i \in Int /\ 10 \in Bases
  BY Words DEF Ints, Bases
<1>2. CASE b = 10 /\ i < 0
  <2>1. PICK s \in Seq(Int) : s = Numeral(-i, 10)
    <3>1. -i \in Nat
      BY <1>1, <1>2
    <3> QED BY <1>1, <3>1, NumeralIsText
  <2>2. << NEG >> \o s \in Seq(Int) /\ Len(<< NEG >> \o s) > 0
    BY DEF NEG
  <2> QED BY <1>2, <2>1, <2>2 DEF ReferenceNumeral
<1>3. CASE ~(b = 10 /\ i < 0)
  <2>1. Unsigned(i) \in Nat
    <3>1. MODULUS \in Nat \ {0}
      BY Words
    <3> QED BY <1>1, <3>1 DEF Unsigned
  <2>2. Numeral(Unsigned(i), b) \in Seq(Int) /\ Len(Numeral(Unsigned(i), b)) > 0
    BY <2>1, NumeralIsText
  <2> QED BY <1>3, <2>2, Zenon DEF ReferenceNumeral
<1> QED BY <1>2, <1>3

LEMMA BitsAreText ==
  ASSUME NEW i \in Ints
  PROVE  /\ ToBuffer!Bits(i) \in Seq(Int) /\ Len(ToBuffer!Bits(i)) = WIDTH
         /\ WIDTH \in Nat \ {0} /\ ToLog!Bits(i) = ToBuffer!Bits(i)
<1>1. ToLog!Bits(i) = ToBuffer!Bits(i)
  BY Zenon DEF ToLog!Bits, ToBuffer!Bits, ToLog!Unsigned, ToBuffer!Unsigned, ToLog!Power,
               ToBuffer!Power, ToLog!MODULUS, ToBuffer!MODULUS
<1>2. ToBuffer!Bits(i) = [k \in 1..WIDTH |-> (Unsigned(i) \div Power(2, WIDTH - k)) % 2]
  BY Zenon DEF ToBuffer!Bits, Unsigned, ToBuffer!Unsigned, Power, ToBuffer!Power, MODULUS,
               ToBuffer!MODULUS
<1>3. PICK d : d = [k \in 1..WIDTH |-> (Unsigned(i) \div Power(2, WIDTH - k)) % 2]
  OBVIOUS
<1>4. PICK u \in Nat : u = Unsigned(i)
  <2>1. MODULUS \in Nat \ {0} /\ i \in Int
    BY Words DEF Ints
  <2> QED BY <2>1 DEF Unsigned
<1>5. ASSUME NEW k \in 1..WIDTH PROVE (u \div Power(2, WIDTH - k)) % 2 \in Int
  <2>1. WIDTH - k \in Nat /\ 2 \in Nat \ {0}
    BY WidthAssumption
  <2>2. PICK p \in Nat \ {0} : p = Power(2, WIDTH - k)
    BY <2>1, PowerType
  <2>3. PICK a \in Nat : a = u \div p
    BY DivMod
  <2> QED BY <2>2, <2>3
<1>6. d \in [1..WIDTH -> Int]
  BY <1>3, <1>4, <1>5
<1>7. d \in Seq(Int) /\ Len(d) = WIDTH
  BY <1>6, WidthAssumption
<1> QED BY <1>1, <1>2, <1>3, <1>7, WidthAssumption

LEMMA NilIsText == Nil \in Seq(Int) /\ Len(Nil) = 5
  BY DEF Nil

\* A regular conversion sends what it stands for.
LEMMA SentIsExpand ==
  ASSUME NEW item \in RegularItems
  PROVE  /\ Sent(item) = Expand(item) /\ Sent(item) \in Seq(Int) /\ Len(Sent(item)) > 0
         /\ item.conv \in {"d", "p", "b", "text", "c", "s"}
         /\ item.conv \in {"d", "p", "b"} => item.arg \in Ints
         /\ item.conv \in {"text", "c", "s"} => item.arg \in Seq(Int) /\ item.arg # << >>
<1>0. /\ item \in Conversions /\ Expand(item) # << >>
      /\ item.conv = "p" => item.arg >= 0
      /\ 10 \in Bases /\ 16 \in Bases
  BY DEF RegularItems, Bases
<1>1. CASE item \in [conv : {"d", "p", "b"}, arg : Ints]
  <2>0. item.conv \in {"d", "p", "b"} /\ item.arg \in Ints
    BY <1>1
  <2>1. CASE item.conv = "d"
    <3>1. Sent(item) = itoa(item.arg, 10) /\ Expand(item) = ReferenceNumeral(item.arg, 10)
      BY <2>1, Zenon DEF Sent, Expand
    <3>2. itoa(item.arg, 10) = ReferenceNumeral(item.arg, 10)
      BY <2>0, NumbersPrintedRight
    <3> QED BY <1>0, <2>0, <2>1, <3>1, <3>2, ReferenceIsText
  <2>2. CASE item.conv = "p" /\ item.arg = 0
    <3>1. Sent(item) = Nil /\ Expand(item) = Nil
      BY <2>2, Zenon DEF Sent, Expand
    <3> QED BY <2>0, <2>2, <3>1, NilIsText
  <2>3. CASE item.conv = "p" /\ item.arg # 0
    <3>1. Sent(item) = << 0, X >> \o itoa(item.arg, 16)
          /\ Expand(item) = << 0, X >> \o ReferenceNumeral(item.arg, 16)
      BY <2>3, Zenon DEF Sent, Expand
    <3>2. itoa(item.arg, 16) = ReferenceNumeral(item.arg, 16)
      BY <1>0, <2>0, <2>3, NumbersPrintedRight
    <3>3. PICK s \in Seq(Int) : s = ReferenceNumeral(item.arg, 16)
      BY <1>0, <2>0, ReferenceIsText
    <3>4. << 0, X >> \o s \in Seq(Int) /\ Len(<< 0, X >> \o s) > 0
      BY DEF X
    <3> QED BY <2>0, <2>3, <3>1, <3>2, <3>3, <3>4
  <2>4. CASE item.conv = "b"
    <3>1. Sent(item) = ToBuffer!Bits(item.arg) /\ Expand(item) = ToBuffer!Bits(item.arg)
      BY <2>4, Zenon DEF Sent, Expand
    <3>2. ToBuffer!Bits(item.arg) \in Seq(Int) /\ Len(ToBuffer!Bits(item.arg)) > 0
      BY <2>0, BitsAreText
    <3> QED BY <2>0, <2>4, <3>1, <3>2
  <2> QED BY <2>0, <2>1, <2>2, <2>3, <2>4
<1>2. CASE item \in [conv : {"text", "c", "s"}, arg : Seq(Int)]
  <2>0. item.conv \in {"text", "c", "s"} /\ item.arg \in Seq(Int)
    BY <1>2
  <2>1. item.conv # "d" /\ item.conv # "p" /\ item.conv # "b"
    BY <2>0
  <2>2. Sent(item) = item.arg /\ Expand(item) = item.arg
    BY <2>1, Zenon DEF Sent, Expand
  <2>3. PICK s \in Seq(Int) : s = item.arg /\ s # << >>
    BY <1>0, <2>0, <2>2
  <2>4. Len(s) > 0
    BY <2>3
  <2> QED BY <2>0, <2>2, <2>3, <2>4
<1>3. item \in [conv : {"d", "p", "b"}, arg : Ints]
      \/ item \in [conv : {"text", "c", "s"}, arg : Seq(Int)]
  BY <1>0, Zenon DEF Conversions
<1> QED BY <1>1, <1>2, <1>3, Zenon

LEMMA SameNumerals ==
  ASSUME NEW i, NEW b
  PROVE  ToLog!itoa(i, b) = itoa(i, b) /\ ToBuffer!itoa(i, b) = itoa(i, b)
<1>1. ToLog!itoa(i, b) = itoa(i, b)
  BY Zenon DEF itoa, ToLog!itoa, FrontDigits, ToLog!FrontDigits, Unsigned, ToLog!Unsigned,
               NEG, ToLog!NEG, Int_, ToLog!Int_, Quotient, ToLog!Quotient, pandos_pow,
               ToLog!pandos_pow, CountDigits, ToLog!CountDigits, Power, ToLog!Power,
               MODULUS, ToLog!MODULUS, HALF, ToLog!HALF
<1>2. ToBuffer!itoa(i, b) = itoa(i, b)
  BY Zenon DEF itoa, ToBuffer!itoa, FrontDigits, ToBuffer!FrontDigits, Unsigned,
               ToBuffer!Unsigned, NEG, ToBuffer!NEG, Int_, ToBuffer!Int_, Quotient,
               ToBuffer!Quotient, pandos_pow, ToBuffer!pandos_pow, CountDigits,
               ToBuffer!CountDigits, Power, ToBuffer!Power, MODULUS, ToBuffer!MODULUS,
               HALF, ToBuffer!HALF
<1> QED BY <1>1, <1>2

-----------------------------------------------------------------------------
(* Printing to a log.                                                       *)

\* A ring that shows the lines q, or one that has never been printed to.
Ready(m, q) ==
  \/ ShowsLog(m, q)
  \/ m \in Idle /\ m.line = 0 /\ m.ch = 0 /\ q = << << >> >>

First(m) ==
  IF m.line = 0 /\ m.ch = 0
  THEN [m EXCEPT !.buffer = clean_line(clean_line(@, 0, BLANK), 1, BLANK)]
  ELSE m

LEMMA NoLines == << << >> >> \in LogLines /\ Len(<< << >> >>) = 1 /\ << << >> >>[1] = << >>
<1>1. << >> \in Seq(Int) /\ Len(<< >>) = 0
  OBVIOUS
<1>2. << << >> >> \in Seq(Seq(Int)) /\ Len(<< << >> >>) = 1 /\ << << >> >>[1] = << >>
  BY <1>1
<1> QED BY <1>1, <1>2, RingAssumption DEF LogLines, LineLists

\* The cleaning of the first two lines shows no change.
LEMMA FirstShows ==
  ASSUME NEW m, NEW q, Ready(m, q)
  PROVE  ShowsLog(First(m), q)
<1>0. MEM_WRITER_LINES \in Nat /\ MEM_WRITER_LINES >= 3 /\ MEM_WRITER_LINE_LENGTH \in Nat \ {0}
  BY RingAssumption
<1>1. m \in Idle /\ m \in Rings /\ q \in LogLines /\ q \in LineLists
  BY NoLines DEF Ready, ShowsLog, Idle, LogLines
<1>2. CASE ~(m.line = 0 /\ m.ch = 0)
  BY <1>2 DEF Ready, First
<1>3. CASE m.line = 0 /\ m.ch = 0
  <2>1. PICK u \in [Cells -> Int] : u = m.buffer
    BY <1>1 DEF Rings
  <2>2. PICK v : v = clean_line(clean_line(u, 0, BLANK), 1, BLANK)
    OBVIOUS
  <2>3. v = [k \in Cells |-> IF k[1] = 0 \/ k[1] = 1 THEN BLANK ELSE u[k]]
    BY <2>2 DEF clean_line
  <2>4. v \in [Cells -> Int]
    BY <2>3 DEF BLANK
  <2>5. ASSUME NEW i \in 0..(MEM_WRITER_LINES - 1), NEW j \in Columns
        PROVE  v[<< i, j >>] = IF i = 0 \/ i = 1 THEN BLANK ELSE u[<< i, j >>]
    <3>1. << i, j >> \in Cells
      BY DEF Cells, Columns
    <3> QED BY <2>3, <3>1
  <2>6. PICK w : w = First(m)
    OBVIOUS
  <2>7. w = [m EXCEPT !.buffer = v]
    BY <1>3, <2>1, <2>2, <2>6, Zenon DEF First
  <2>8. w \in Rings /\ w.buffer = v /\ w.line = 0 /\ w.ch = 0
    BY <1>1, <1>3, <2>4, <2>7 DEF Rings
  <2>9. w \in Idle
    BY <1>0, <2>8 DEF Idle
  <2>10. /\ 0 \in 0..(MEM_WRITER_LINES - 1) /\ 1 \in 0..(MEM_WRITER_LINES - 1)
         /\ Back(0, 0) = 0 /\ Ahead(0) = 1
    BY <1>0 DEF Back, Ahead
  <2>11. /\ Len(q) \in Nat /\ Len(q) \in 1..(MEM_WRITER_LINES - 1)
         /\ q[Len(q)] \in Seq(Int) /\ Len(q[Len(q)]) = 0
    <3>1. CASE ShowsLog(m, q)
      <4>1. q \in Seq(Seq(Int)) /\ Len(q) \in 1..Len(q) /\ Len(q) \in 1..(MEM_WRITER_LINES - 1)
        BY <1>1 DEF LineLists
      <4> QED BY <1>3, <3>1, <4>1 DEF ShowsLog
    <3>2. CASE q = << << >> >>
      BY <1>0, <3>2
    <3> QED BY <3>1, <3>2 DEF Ready
  <2>12. ASSUME NEW k \in 0..(Len(q) - 1), NEW j \in Columns
         PROVE  v[<< Back(0, k), j >>] = Place(q[Len(q) - k], j)
    <3>1. CASE k = 0
      <4>1. q[Len(q) - k] = q[Len(q)]
        BY <2>11, <3>1
      <4>2. Place(q[Len(q)], j) = BLANK
        BY <1>0, <2>11 DEF Place, Columns
      <4>3. v[<< 0, j >>] = BLANK
        BY <2>5, <2>10
      <4> QED BY <2>10, <3>1, <4>1, <4>2, <4>3
    <3>2. CASE k # 0
      <4>1. ShowsLog(m, q)
        BY <2>11, <3>2 DEF Ready
      <4>2. u[<< Back(0, k), j >>] = Place(q[Len(q) - k], j)
        BY <1>3, <2>1, <4>1 DEF ShowsLog, Shows
      <4>3. /\ k \in 0..(MEM_WRITER_LINES - 1) /\ k # MEM_WRITER_LINES - 1
        BY <1>0, <2>11
      <4>4. Back(0, k) # 0 /\ Back(0, k) # 1 /\ Back(0, k) \in 0..(MEM_WRITER_LINES - 1)
        BY <1>0, <3>2, <4>3 DEF Back
      <4> QED BY <2>5, <4>2, <4>4
    <3> QED BY <3>1, <3>2
  <2>13. ASSUME NEW j \in Columns PROVE v[<< Ahead(0), j >>] \in {BLANK, DASH}
    BY <2>5, <2>10
  <2>14. Shows(w, q)
    BY <2>8, <2>12, <2>13 DEF Shows
  <2> QED BY <1>1, <2>6, <2>8, <2>9, <2>11, <2>14 DEF ShowsLog
<1> QED BY <1>2, <1>3

\* The writer of a log adds the text it is given.
LEMMA WriterShown ==
  ASSUME NEW m, NEW q, Ready(m, q), NEW data \in Seq(Int)
  PROVE  /\ ShowsLog(memory_writer(m, data).t, Logged(q, data))
         /\ Ready(memory_writer(m, data).t, Logged(q, data))
         /\ memory_writer(m, data).n = Len(data)
<1>1. memory_writer(m, data) = [t |-> FoldLeft(kputchar, First(m), data), n |-> Len(data)]
  BY Zenon DEF memory_writer, First
<1>2. PICK w : w = First(m)
  OBVIOUS
<1>3. ShowsLog(w, q)
  BY <1>2, FirstShows
<1>4. ShowsLog(FoldLeft(kputchar, w, data), Logged(q, data))
  BY <1>3, TextShown
<1>5. PICK x : x = FoldLeft(kputchar, w, data)
  OBVIOUS
<1>6. memory_writer(m, data) = [t |-> x, n |-> Len(data)]
  BY <1>1, <1>2, <1>5, Zenon
<1>7. ShowsLog(x, Logged(q, data))
  BY <1>4, <1>5, Zenon
<1>8. memory_writer(m, data).t = x /\ memory_writer(m, data).n = Len(data)
  BY <1>6
<1> QED BY <1>7, <1>8 DEF Ready

LEMMA LogOne ==
  ASSUME NEW q \in LogLines, NEW c \in Int
  PROVE  Logged(q, << c >>) = LogChar(q, c)
<1>1. << c >> \in Seq(Int) /\ Len(<< c >>) = 1 /\ << c >>[1] = c
  OBVIOUS
<1>2. EndsRun(Logged(q, << c >>), LogLines, << c >>, q, LogStep)
  BY <1>1, LogRun
<1>3. PICK y \in Runs(LogLines, << c >>, q, LogStep) : Logged(q, << c >>) = y[1]
  BY <1>1, <1>2 DEF EndsRun
<1>4. y[0] = q /\ y[0 + 1] = LogStep[<< y[0], << c >>[0 + 1] >>]
  BY <1>1, <1>3 DEF Runs
<1> QED BY <1>1, <1>3, <1>4, StepTypes

\* The rings that are ready for some lines, and the states of the loop of
\* __itoa, which no ring stops.
Showing == {m \in Idle : \E q \in LogLines : Ready(m, q)}
LogDigits == [t : Showing, n : Nat, wr : {1}]
LogDigitStep == [p \in LogDigits \X Int |-> ToLog!PutDigit(p[1], p[2])]

LEMMA ReadyIsShowing ==
  ASSUME NEW m, NEW q, Ready(m, q)
  PROVE  m \in Showing /\ q \in LogLines
  BY NoLines DEF Ready, ShowsLog, Showing

LEMMA LogDigit ==
  ASSUME NEW acc \in LogDigits, NEW q, Ready(acc.t, q), NEW c \in Int
  PROVE  /\ ToLog!PutDigit(acc, c) \in LogDigits
         /\ Ready(ToLog!PutDigit(acc, c).t, LogChar(q, c))
         /\ ToLog!PutDigit(acc, c).n = acc.n + 1
<1>1. acc.t \in Showing /\ acc.n \in Nat /\ acc.wr = 1 /\ q \in LogLines
  BY ReadyIsShowing DEF LogDigits
<1>2. << c >> \in Seq(Int) /\ Len(<< c >>) = 1
  OBVIOUS
<1>3. PICK r : r = memory_writer(acc.t, << c >>)
  OBVIOUS
<1>4. Ready(r.t, LogChar(q, c)) /\ r.n = 1
  BY <1>1, <1>2, <1>3, LogOne, WriterShown
<1>5. r.t \in Showing
  BY <1>4, ReadyIsShowing
<1>6. ToLog!PutDigit(acc, c) = [t |-> r.t, n |-> acc.n + r.n, wr |-> r.n]
  BY <1>1, <1>3 DEF ToLog!PutDigit
<1>7. PICK w : w = ToLog!PutDigit(acc, c)
  OBVIOUS
<1>8. w = [t |-> r.t, n |-> acc.n + 1, wr |-> 1]
  BY <1>4, <1>6, <1>7
<1>9. w \in LogDigits /\ w.t = r.t /\ w.n = acc.n + 1
  BY <1>1, <1>5, <1>8 DEF LogDigits
<1> QED BY <1>4, <1>7, <1>9

LEMMA LogDigitTypes ==
  /\ LogDigitStep \in [LogDigits \X Int -> LogDigits]
  /\ \A a \in LogDigits, c \in Int : LogDigitStep[<< a, c >>] = ToLog!PutDigit(a, c)
<1>1. ASSUME NEW a \in LogDigits, NEW c \in Int PROVE ToLog!PutDigit(a, c) \in LogDigits
  <2>1. PICK q : Ready(a.t, q)
    BY DEF LogDigits, Showing
  <2> QED BY <2>1, LogDigit
<1>2. \A p \in LogDigits \X Int : ToLog!PutDigit(p[1], p[2]) \in LogDigits
  BY <1>1
<1>3. LogDigitStep \in [LogDigits \X Int -> LogDigits]
  BY <1>2 DEF LogDigitStep
<1>4. \A a \in LogDigits, c \in Int : LogDigitStep[<< a, c >>] = ToLog!PutDigit(a, c)
  BY DEF LogDigitStep
<1> QED BY <1>3, <1>4

LEMMA LogNumber ==
  ASSUME NEW m, NEW q, Ready(m, q), NEW i, NEW b, itoa(i, b) \in Seq(Int)
  PROVE  /\ ShowsLog(ToLog!itoa_to(m, i, b).t, Logged(q, itoa(i, b)))
         /\ ToLog!itoa_to(m, i, b).n = Len(itoa(i, b))
<1>1. PICK s \in Seq(Int) : s = itoa(i, b)
  OBVIOUS
<1>2. PICK n \in Nat : n = Len(s)
  OBVIOUS
<1>3. PICK z : z = [t |-> m, n |-> 0, wr |-> 1]
  OBVIOUS
<1>4. z \in LogDigits /\ z.t = m /\ z.n = 0 /\ q \in LogLines
  BY <1>3, ReadyIsShowing DEF LogDigits
<1>5. PICK g : g = LogDigitStep
  OBVIOUS
<1>6. g \in [LogDigits \X Int -> LogDigits]
      /\ \A a \in LogDigits, c \in Int : g[<< a, c >>] = ToLog!PutDigit(a, c)
  BY <1>5, LogDigitTypes
<1>7. EndsRun(ToLog!FoldLeft(ToLog!PutDigit, z, s), LogDigits, s, z, g)
  BY <1>4, <1>6, Fold_LogDigit
<1>8. PICK all : all = ToLog!FoldLeft(ToLog!PutDigit, z, s)
  OBVIOUS
<1>9. EndsRun(all, LogDigits, s, z, g)
  BY <1>7, <1>8, Zenon
<1>10. PICK x : x \in Runs(LogDigits, s, z, g) /\ all = x[n]
  BY <1>2, <1>9 DEF EndsRun
<1>11. PICK y : y \in Runs(LogLines, s, q, LogStep) /\ Logged(q, s) = y[n]
  BY <1>2, <1>4, LogRun DEF EndsRun
<1>12. x \in [0..n -> LogDigits] /\ x[0] = z /\ y \in [0..n -> LogLines] /\ y[0] = q
  BY <1>2, <1>10, <1>11 DEF Runs
<1>13. ASSUME NEW k \in 0..(n - 1)
       PROVE  /\ s[k + 1] \in Int /\ x[k] \in LogDigits
              /\ x[k + 1] = ToLog!PutDigit(x[k], s[k + 1])
              /\ y[k + 1] = LogChar(y[k], s[k + 1])
  <2>1. s[k + 1] \in Int /\ x[k] \in LogDigits /\ y[k] \in LogLines
    <3>1. k \in 0..n /\ k + 1 \in 1..Len(s)
      BY <1>2
    <3>2. s[k + 1] \in Int
      BY <3>1
    <3> QED BY <1>12, <3>1, <3>2
  <2>2. x[k + 1] = g[<< x[k], s[k + 1] >>] /\ y[k + 1] = LogStep[<< y[k], s[k + 1] >>]
    BY <1>2, <1>10, <1>11 DEF Runs
  <2>3. x[k + 1] = ToLog!PutDigit(x[k], s[k + 1])
    BY <1>6, <2>1, <2>2
  <2> QED BY <2>1, <2>2, <2>3, StepTypes
<1> DEFINE S == {k \in Nat : k \in 0..n => Ready(x[k].t, y[k]) /\ x[k].n = k}
<1>14. 0 \in S
  BY <1>4, <1>12
<1>15. ASSUME NEW k \in Nat, k \in S PROVE k + 1 \in S
  <2>1. CASE k + 1 \in 0..n
    <3>1. k \in 0..(n - 1) /\ k \in 0..n
      BY <2>1
    <3>2. Ready(x[k].t, y[k]) /\ x[k].n = k /\ x[k] \in LogDigits /\ s[k + 1] \in Int
      BY <1>13, <1>15, <3>1
    <3>3. /\ Ready(ToLog!PutDigit(x[k], s[k + 1]).t, LogChar(y[k], s[k + 1]))
          /\ ToLog!PutDigit(x[k], s[k + 1]).n = k + 1
      BY <3>2, LogDigit
    <3>4. Ready(x[k + 1].t, y[k + 1]) /\ x[k + 1].n = k + 1
      BY <1>13, <3>1, <3>3
    <3> QED BY <3>4
  <2>2. CASE k + 1 \notin 0..n
    BY <2>2
  <2> QED BY <2>1, <2>2
<1> HIDE DEF S
<1>16. Nat \subseteq S
  BY <1>14, <1>15, SetInduction
<1>17. Ready(all.t, Logged(q, s)) /\ all.n = n
  BY <1>10, <1>11, <1>16 DEF S
<1>18. << >> \in Seq(Int) /\ Len(<< >>) = 0 /\ Logged(q, s) \in LogLines
  BY <1>4, LogConcat
<1>19. PICK end : end = memory_writer(all.t, << >>)
  OBVIOUS
<1>20. ShowsLog(end.t, Logged(q, s)) /\ end.n = 0
  <2>1. Logged(Logged(q, s), << >>) = Logged(q, s)
    BY <1>18, LogConcat
  <2> QED BY <1>17, <1>18, <1>19, <2>1, WriterShown
<1>21. ToLog!itoa_to(m, i, b) = [t |-> end.t, n |-> all.n + end.n]
  <2>1. ToLog!itoa(i, b) = s
    BY <1>1, SameNumerals
  <2> QED BY <1>3, <1>8, <1>19, <2>1, Zenon DEF ToLog!itoa_to
<1>22. ToLog!itoa_to(m, i, b).t = end.t /\ ToLog!itoa_to(m, i, b).n = n
  BY <1>17, <1>20, <1>21
<1> QED BY <1>1, <1>2, <1>20, <1>22

LEMMA LogConversion ==
  ASSUME NEW m, NEW q, Ready(m, q), NEW item \in RegularItems
  PROVE  /\ ShowsLog(ToLog!Convert(m, item).t, Logged(q, Sent(item)))
         /\ ToLog!Convert(m, item).n \in Nat \ {0}
<1>0. /\ Sent(item) \in Seq(Int) /\ Len(Sent(item)) > 0 /\ q \in LogLines
      /\ item.conv \in {"d", "p", "b", "text", "c", "s"}
      /\ item.conv \in {"d", "p", "b"} => item.arg \in Ints
  BY SentIsExpand, ReadyIsShowing
<1>1. CASE item.conv = "d"
  <2>1. Sent(item) = itoa(item.arg, 10)
    BY <1>1, Zenon DEF Sent
  <2>2. ToLog!Convert(m, item) = ToLog!itoa_to(m, item.arg, 10)
    BY <1>1, Zenon DEF ToLog!Convert
  <2>3. /\ ShowsLog(ToLog!itoa_to(m, item.arg, 10).t, Logged(q, itoa(item.arg, 10)))
        /\ ToLog!itoa_to(m, item.arg, 10).n = Len(itoa(item.arg, 10))
    BY <1>0, <2>1, LogNumber
  <2> QED BY <1>0, <2>1, <2>2, <2>3
<1>2. CASE item.conv = "p" /\ item.arg # 0
  <2>1. Sent(item) = << 0, X >> \o itoa(item.arg, 16)
    BY <1>2, Zenon DEF Sent
  <2>2. itoa(item.arg, 16) \in Seq(Int)
    <3>1. item.arg \in Ints /\ item.arg >= 0 /\ 16 \in Bases
      BY <1>0, <1>2 DEF RegularItems, Bases
    <3> QED BY <3>1, NumbersPrintedRight, ReferenceIsText
  <2>3. << 0, X >> \in Seq(Int) /\ Len(<< 0, X >>) = 2
    BY DEF X
  <2>4. PICK x : x = memory_writer(m, << 0, X >>)
    OBVIOUS
  <2>5. PICK i : i = ToLog!itoa_to(x.t, item.arg, 16)
    OBVIOUS
  <2>6. ToLog!Convert(m, item) = [t |-> i.t, n |-> x.n + i.n]
    <3>1. ToLog!X = X
      BY DEF X, ToLog!X
    <3>2. ToLog!Convert(m, item) =
            LET y == memory_writer(m, << 0, ToLog!X >>)
                j == ToLog!itoa_to(y.t, item.arg, 16)
            IN  [t |-> j.t, n |-> y.n + j.n]
      BY <1>2, Zenon DEF ToLog!Convert
    <3> QED BY <2>4, <2>5, <3>1, <3>2, Zenon
  <2>7. Ready(x.t, Logged(q, << 0, X >>)) /\ x.n = 2
    BY <2>3, <2>4, WriterShown
  <2>8. /\ ShowsLog(i.t, Logged(Logged(q, << 0, X >>), itoa(item.arg, 16)))
        /\ i.n = Len(itoa(item.arg, 16))
    BY <2>2, <2>5, <2>7, LogNumber
  <2>9. Logged(Logged(q, << 0, X >>), itoa(item.arg, 16)) = Logged(q, Sent(item))
    <3>1. PICK a \in Seq(Int) : a = << 0, X >>
      BY <2>3
    <3>2. PICK c \in Seq(Int) : c = itoa(item.arg, 16)
      BY <2>2
    <3>3. Logged(q, a \o c) = Logged(Logged(q, a), c)
      BY <1>0, LogConcat
    <3> QED BY <2>1, <3>1, <3>2, <3>3
  <2>10. i.n \in Nat
    BY <2>2, <2>8
  <2>11. ToLog!Convert(m, item).t = i.t /\ ToLog!Convert(m, item).n = 2 + i.n
    BY <2>6, <2>7
  <2> QED BY <2>8, <2>9, <2>10, <2>11
<1>3. CASE item.conv = "p" /\ item.arg = 0
  <2>1. Sent(item) = Nil
    BY <1>3, Zenon DEF Sent
  <2>2. ToLog!Convert(m, item) = memory_writer(m, Nil)
    BY <1>3, Zenon DEF ToLog!Convert, Nil, ToLog!Nil
  <2> QED BY <1>0, <2>1, <2>2, WriterShown
<1>4. CASE item.conv = "b"
  <2>1. Sent(item) = ToBuffer!Bits(item.arg)
    BY <1>4, Zenon DEF Sent
  <2>2. ToLog!Convert(m, item)
          = [t |-> memory_writer(m, ToLog!Bits(item.arg)).t, n |-> WIDTH]
    BY <1>4, Zenon DEF ToLog!Convert, ToLog!bin
  <2>3. ToLog!Bits(item.arg) = Sent(item) /\ WIDTH \in Nat \ {0}
    BY <1>0, <1>4, <2>1, BitsAreText
  <2>4. ToLog!Convert(m, item) = [t |-> memory_writer(m, Sent(item)).t, n |-> WIDTH]
    BY <2>2, <2>3
  <2>5. /\ ToLog!Convert(m, item).t = memory_writer(m, Sent(item)).t
        /\ ToLog!Convert(m, item).n = WIDTH
    BY <2>4
  <2> QED BY <1>0, <2>3, <2>5, WriterShown
<1>5. CASE item.conv \in {"text", "c", "s"}
  <2>1. item.conv # "d" /\ item.conv # "p" /\ item.conv # "b"
    BY <1>5
  <2>2. Sent(item) = item.arg
    BY <2>1, Zenon DEF Sent
  <2>3. ToLog!Convert(m, item) = memory_writer(m, item.arg)
    BY <1>5, <2>1, Zenon DEF ToLog!Convert
  <2> QED BY <1>0, <2>2, <2>3, WriterShown
<1> QED BY <1>0, <1>1, <1>2, <1>3, <1>4, <1>5

-----------------------------------------------------------------------------
(* The text that a format stands for.                                       *)

IsFlatten(f, s) == f = [i \in 1..Len(s) |-> IF i = 1 THEN s[i] ELSE f[i - 1] \o s[i]]

\* The texts before each piece of s and at its end.
Joins(S, s) ==
  {P \in [0..Len(s) -> Seq(S)] :
     P[0] = << >> /\ \A k \in 0..(Len(s) - 1) : P[k + 1] = P[k] \o s[k + 1]}

LEMMA FlattenExists ==
  ASSUME NEW S, NEW s \in Seq(Seq(S)), Len(s) > 0
  PROVE  \E f \in [1..Len(s) -> Seq(S)] : IsFlatten(f, s)
<1>0. PICK n \in Nat \ {0} : n = Len(s)
  OBVIOUS
<1>1. PICK D : D = 1..n
  OBVIOUS
<1>2. PICK V : V = Seq(S)
  OBVIOUS
<1>3. PICK m : m = [i \in D |-> i]
  OBVIOUS
<1>4. PICK d : d = [i \in D |-> IF i = 1 THEN 1 ELSE i - 1]
  OBVIOUS
<1>5. PICK z : z = [i \in D |-> s[i]]
  OBVIOUS
<1>6. PICK g : g = [p \in D \X V |-> p[2] \o s[p[1]]]
  OBVIOUS
<1>7. PICK Z : Z = {1}
  OBVIOUS
<1>8. m \in [D -> Nat] /\ d \in [D -> D] /\ z \in [D -> V]
  BY <1>0, <1>1, <1>2, <1>3, <1>4, <1>5
<1>9. g \in [D \X V -> V]
  <2>1. ASSUME NEW p \in D \X V PROVE p[2] \o s[p[1]] \in V
    <3>1. p[1] \in 1..n /\ p[2] \in Seq(S)
      BY <1>1, <1>2
    <3>2. s[p[1]] \in Seq(S)
      BY <1>0, <3>1
    <3> QED BY <1>2, <3>1, <3>2
  <2> QED BY <1>6, <2>1
<1>10. \A i \in D : i \notin Z => m[d[i]] < m[i]
  BY <1>1, <1>3, <1>4, <1>7
<1>11. Descents(D, V, d, z, g, Z) # {}
  BY <1>8, <1>9, <1>10, Descent
<1>12. PICK f \in [D -> V] :
         f = [x \in D |-> IF x \in Z THEN z[x] ELSE g[<< x, f[d[x]] >>]]
  BY <1>11 DEF Descents
<1>13. ASSUME NEW i \in 1..n PROVE f[i] = IF i = 1 THEN s[i] ELSE f[i - 1] \o s[i]
  <2>1. f[i] = IF i \in Z THEN z[i] ELSE g[<< i, f[d[i]] >>]
    BY <1>1, <1>12
  <2>2. CASE i = 1
    BY <1>1, <1>5, <1>7, <2>1, <2>2
  <2>3. CASE i # 1
    <3>1. d[i] = i - 1 /\ d[i] \in D /\ i \in D
      BY <1>1, <1>4, <1>8, <2>3
    <3>2. g[<< i, f[d[i]] >>] = f[d[i]] \o s[i]
      BY <1>6, <1>12, <3>1
    <3> QED BY <1>7, <2>1, <2>3, <3>1, <3>2
  <2> QED BY <2>2, <2>3
<1>14. f \in [1..Len(s) -> Seq(S)]
  BY <1>0, <1>1, <1>2, <1>12
<1>15. IsFlatten(f, s)
  BY <1>0, <1>13, <1>14 DEF IsFlatten
<1> QED BY <1>14, <1>15

LEMMA Flattened ==
  ASSUME NEW S, NEW s \in Seq(Seq(S))
  PROVE  \E P \in Joins(S, s) : FlattenSeq(s) = P[Len(s)]
<1>0. PICK n \in Nat : n = Len(s)
  OBVIOUS
<1>1. CASE n = 0
  <2>1. FlattenSeq(s) = s /\ s = << >>
    <3>1. Len(s) = 0
      BY <1>0, <1>1
    <3>2. FlattenSeq(s) = s
      BY <3>1, Zenon DEF FlattenSeq
    <3> QED BY <3>1, <3>2
  <2>2. PICK P : P = [k \in 0..0 |-> << >>]
    OBVIOUS
  <2>3. P \in [0..0 -> Seq(S)] /\ P[0] = << >>
    BY <2>2
  <2>4. P \in Joins(S, s)
    BY <1>0, <1>1, <2>3 DEF Joins
  <2> QED BY <1>0, <1>1, <2>1, <2>3, <2>4
<1>2. CASE n # 0
  <2>1. PICK f : f = CHOOSE x : IsFlatten(x, s)
    OBVIOUS
  <2>2. FlattenSeq(s) = f[n]
    <3>1. ~(Len(s) = 0)
      BY <1>0, <1>2
    <3> QED BY <1>0, <2>1, <3>1, Zenon DEF FlattenSeq, IsFlatten
  <2>3. PICK h \in [1..n -> Seq(S)] : IsFlatten(h, s)
    BY <1>0, <1>2, FlattenExists
  <2>4. f = [i \in 1..n |-> IF i = 1 THEN s[i] ELSE f[i - 1] \o s[i]]
    BY <1>0, <2>1, <2>3 DEF IsFlatten
  <2>5. ASSUME NEW i \in 1..n PROVE f[i] = IF i = 1 THEN s[i] ELSE f[i - 1] \o s[i]
    BY <2>4
  <2> DEFINE T == {k \in Nat : k \in 1..n => f[k] \in Seq(S)}
  <2>6. 0 \in T
    OBVIOUS
  <2>7. ASSUME NEW k \in Nat, k \in T PROVE k + 1 \in T
    <3>1. CASE k + 1 \in 1..n
      <4>1. s[k + 1] \in Seq(S)
        BY <1>0, <3>1
      <4>2. CASE k = 0
        BY <2>5, <3>1, <4>1, <4>2
      <4>3. CASE k # 0
        <5>1. k \in 1..n /\ k + 1 # 1 /\ (k + 1) - 1 = k
          BY <3>1, <4>3
        <5>2. f[k] \in Seq(S) /\ f[k + 1] = f[k] \o s[k + 1]
          BY <2>5, <2>7, <3>1, <5>1
        <5>3. f[k] \o s[k + 1] \in Seq(S)
          BY <4>1, <5>2
        <5>4. f[k + 1] \in Seq(S)
          BY <5>2, <5>3, Zenon
        <5>5. k + 1 \in Nat
          OBVIOUS
        <5> QED BY <5>4, <5>5, Zenon
      <4> QED BY <4>2, <4>3
    <3>2. CASE k + 1 \notin 1..n
      BY <3>2
    <3> QED BY <3>1, <3>2
  <2> HIDE DEF T
  <2>8. Nat \subseteq T
    BY <2>6, <2>7, SetInduction
  <2>9. PICK P : P = [k \in 0..n |-> IF k = 0 THEN << >> ELSE f[k]]
    OBVIOUS
  <2>10. P \in [0..n -> Seq(S)] /\ P[0] = << >> /\ P[n] = f[n]
    <3>1. \A k \in 1..n : f[k] \in Seq(S)
      BY <2>8 DEF T
    <3>2. ASSUME NEW k \in 0..n PROVE (IF k = 0 THEN << >> ELSE f[k]) \in Seq(S)
      BY <3>1
    <3> QED BY <1>2, <2>9, <3>2
  <2>11. ASSUME NEW k \in 0..(n - 1) PROVE P[k + 1] = P[k] \o s[k + 1]
    <3>1. k + 1 \in 1..n /\ k + 1 \in 0..n /\ k \in 0..n /\ (k + 1) - 1 = k /\ P[k + 1] = f[k + 1]
      BY <2>9
    <3>2. CASE k = 0
      <4>1. s[1] \in Seq(S)
        BY <1>0, <3>1, <3>2
      <4>2. << >> \o s[1] = s[1]
        BY <4>1
      <4>3. k + 1 = 1 /\ f[k + 1] = s[1] /\ P[k] = << >>
        BY <2>5, <2>10, <3>1, <3>2
      <4> QED BY <3>1, <4>2, <4>3
    <3>3. CASE k # 0
      <4>1. k + 1 # 1 /\ P[k] = f[k]
        BY <2>9, <3>1, <3>3
      <4> QED BY <2>5, <3>1, <4>1
    <3> QED BY <3>2, <3>3
  <2>12. P \in Joins(S, s)
    BY <1>0, <2>10, <2>11 DEF Joins
  <2> QED BY <1>0, <2>2, <2>10, <2>12
<1> QED BY <1>1, <1>2

\* The texts are those of any longer s.
LEMMA JoinsAgree ==
  ASSUME NEW S, NEW s \in Seq(Seq(S)), NEW r \in Seq(Seq(S)), Len(r) <= Len(s),
         \A k \in 1..Len(r) : r[k] = s[k],
         NEW P \in Joins(S, s), NEW Q \in Joins(S, r)
  PROVE  \A k \in 0..Len(r) : P[k] = Q[k]
<1>0. PICK n \in Nat : n = Len(r)
  OBVIOUS
<1>1. P[0] = << >> /\ \A k \in 0..(Len(s) - 1) : P[k + 1] = P[k] \o s[k + 1]
  BY DEF Joins
<1>2. Q[0] = << >> /\ \A k \in 0..(n - 1) : Q[k + 1] = Q[k] \o r[k + 1]
  BY <1>0 DEF Joins
<1> DEFINE T == {k \in Nat : k <= n => P[k] = Q[k]}
<1>3. 0 \in T
  BY <1>1, <1>2
<1>4. ASSUME NEW k \in Nat, k \in T PROVE k + 1 \in T
  <2>1. CASE k + 1 <= n
    <3>1. k \in 0..(n - 1) /\ k \in 0..(Len(s) - 1) /\ k + 1 \in 1..Len(r) /\ P[k] = Q[k]
      BY <1>0, <1>4, <2>1
    <3>2. P[k + 1] = P[k] \o s[k + 1] /\ Q[k + 1] = Q[k] \o r[k + 1] /\ r[k + 1] = s[k + 1]
      BY <1>1, <1>2, <3>1
    <3>3. P[k + 1] = Q[k + 1]
      BY <3>1, <3>2
    <3> QED BY <3>3
  <2>2. CASE ~(k + 1 <= n)
    BY <2>2
  <2> QED BY <2>1, <2>2
<1> HIDE DEF T
<1>5. Nat \subseteq T
  BY <1>3, <1>4, SetInduction
<1> QED BY <1>0, <1>5 DEF T

Pieces(f) == [k \in DOMAIN f |-> Expand(f[k])]

LEMMA PiecesAreText ==
  ASSUME NEW f \in Seq(RegularItems)
  PROVE  /\ Pieces(f) \in Seq(Seq(Int)) /\ Len(Pieces(f)) = Len(f)
         /\ \A k \in 1..Len(f) : Pieces(f)[k] = Sent(f[k])
         /\ Expansion(f) = FlattenSeq(Pieces(f))
<1>0. PICK n \in Nat : n = Len(f) /\ DOMAIN f = 1..n
  OBVIOUS
<1>1. PICK s : s = Pieces(f)
  OBVIOUS
<1>2. ASSUME NEW k \in 1..n PROVE Expand(f[k]) \in Seq(Int) /\ Expand(f[k]) = Sent(f[k])
  <2>1. f[k] \in RegularItems
    BY <1>0
  <2> QED BY <2>1, SentIsExpand
<1>3. s = [k \in 1..n |-> Expand(f[k])]
  BY <1>0, <1>1 DEF Pieces
<1>4. s \in [1..n -> Seq(Int)]
  BY <1>2, <1>3
<1>5. s \in Seq(Seq(Int)) /\ Len(s) = n
  BY <1>4
<1>6. \A k \in 1..n : s[k] = Sent(f[k])
  BY <1>2, <1>3
<1>7. Expansion(f) = FlattenSeq(Pieces(f))
  BY Zenon DEF Expansion, Pieces
<1> QED BY <1>0, <1>1, <1>5, <1>6, <1>7

-----------------------------------------------------------------------------
(* A log is printed to.                                                     *)

LogItems == [t : Showing, wr : Nat, stopped : {FALSE}]
LogItemStep == [p \in LogItems \X RegularItems |-> ToLog!PutItem(p[1], p[2])]

LEMMA LogItem ==
  ASSUME NEW acc \in LogItems, NEW q, Ready(acc.t, q), NEW item \in RegularItems
  PROVE  /\ ToLog!PutItem(acc, item) \in LogItems
         /\ ShowsLog(ToLog!PutItem(acc, item).t, Logged(q, Sent(item)))
<1>1. acc.t \in Showing /\ acc.wr \in Nat /\ acc.stopped = FALSE
  BY DEF LogItems
<1>2. PICK r : r = ToLog!Convert(acc.t, item)
  OBVIOUS
<1>3. ShowsLog(r.t, Logged(q, Sent(item))) /\ r.n \in Nat \ {0}
  BY <1>2, LogConversion
<1>4. r.t \in Showing
  <2>1. Ready(r.t, Logged(q, Sent(item)))
    BY <1>3 DEF Ready
  <2> QED BY <2>1, ReadyIsShowing
<1>5. PICK w : w = ToLog!PutItem(acc, item)
  OBVIOUS
<1>6. w = [t |-> r.t, wr |-> acc.wr + r.n, stopped |-> r.n = 0]
  BY <1>1, <1>2, <1>5, Zenon DEF ToLog!PutItem
<1>7. (r.n = 0) = FALSE
  BY <1>3
<1>8. w = [t |-> r.t, wr |-> acc.wr + r.n, stopped |-> FALSE]
  BY <1>6, <1>7, Zenon
<1>9. acc.wr + r.n \in Nat
  BY <1>1, <1>3
<1>10. w \in LogItems /\ w.t = r.t
  BY <1>4, <1>8, <1>9 DEF LogItems
<1> QED BY <1>3, <1>5, <1>10

LEMMA LogItemTypes ==
  /\ LogItemStep \in [LogItems \X RegularItems -> LogItems]
  /\ \A a \in LogItems, c \in RegularItems : LogItemStep[<< a, c >>] = ToLog!PutItem(a, c)
<1>1. ASSUME NEW a \in LogItems, NEW c \in RegularItems PROVE ToLog!PutItem(a, c) \in LogItems
  <2>1. PICK q : Ready(a.t, q)
    BY DEF LogItems, Showing
  <2> QED BY <2>1, LogItem
<1>2. \A p \in LogItems \X RegularItems : ToLog!PutItem(p[1], p[2]) \in LogItems
  BY <1>1
<1>3. LogItemStep \in [LogItems \X RegularItems -> LogItems]
  BY <1>2 DEF LogItemStep
<1>4. \A a \in LogItems, c \in RegularItems : LogItemStep[<< a, c >>] = ToLog!PutItem(a, c)
  BY DEF LogItemStep
<1> QED BY <1>3, <1>4

\* pandos_kfprintf adds to the lines what its format stands for.
LEMMA LogFormat ==
  ASSUME NEW m, NEW q, Ready(m, q), NEW f \in Seq(RegularItems), f # << >>
  PROVE  ShowsLog(pandos_kfprintf(m, f), Logged(q, Expansion(f)))
<1>0. PICK n \in Nat \ {0} : n = Len(f)
  OBVIOUS
<1>1. PICK z : z = [t |-> m, wr |-> 0, stopped |-> FALSE]
  OBVIOUS
<1>2. z \in LogItems /\ z.t = m /\ q \in LogLines
  BY <1>1, ReadyIsShowing DEF LogItems
<1>3. PICK g : g = LogItemStep
  OBVIOUS
<1>4. g \in [LogItems \X RegularItems -> LogItems]
      /\ \A a \in LogItems, c \in RegularItems : g[<< a, c >>] = ToLog!PutItem(a, c)
  BY <1>3, LogItemTypes
<1>5. EndsRun(ToLog!FoldLeft(ToLog!PutItem, z, f), LogItems, f, z, g)
  BY <1>2, <1>4, Fold_LogItem
<1>6. PICK all : all = ToLog!FoldLeft(ToLog!PutItem, z, f)
  OBVIOUS
<1>7. EndsRun(all, LogItems, f, z, g)
  BY <1>5, <1>6, Zenon
<1>8. PICK x : x \in Runs(LogItems, f, z, g) /\ all = x[n]
  BY <1>0, <1>7 DEF EndsRun
<1>9. PICK s \in Seq(Seq(Int)) : /\ s = Pieces(f) /\ Len(s) = n
                                 /\ \A k \in 1..n : s[k] = Sent(f[k])
                                 /\ Expansion(f) = FlattenSeq(s)
  BY <1>0, PiecesAreText
<1>10. PICK P \in Joins(Int, s) : Expansion(f) = P[n]
  BY <1>9, Flattened
<1>11. /\ x \in [0..n -> LogItems] /\ x[0] = z
       /\ P \in [0..n -> Seq(Int)] /\ P[0] = << >>
  BY <1>0, <1>8, <1>9, <1>10 DEF Runs, Joins
<1>12. ASSUME NEW k \in 0..(n - 1)
       PROVE  /\ f[k + 1] \in RegularItems /\ x[k] \in LogItems /\ P[k] \in Seq(Int)
              /\ x[k + 1] = ToLog!PutItem(x[k], f[k + 1])
              /\ P[k + 1] = P[k] \o Sent(f[k + 1])
  <2>1. k \in 0..n /\ k + 1 \in 1..n
    OBVIOUS
  <2>2. f[k + 1] \in RegularItems
    BY <1>0, <2>1
  <2>3. x[k] \in LogItems /\ P[k] \in Seq(Int)
    BY <1>11, <2>1
  <2>4. x[k + 1] = g[<< x[k], f[k + 1] >>]
    BY <1>0, <1>8 DEF Runs
  <2>5. P[k + 1] = P[k] \o s[k + 1]
    BY <1>9, <1>10 DEF Joins
  <2> QED BY <1>4, <1>9, <2>1, <2>2, <2>3, <2>4, <2>5
<1> DEFINE S == {k \in Nat : k \in 0..n => /\ Ready(x[k].t, Logged(q, P[k]))
                                           /\ k # 0 => ShowsLog(x[k].t, Logged(q, P[k]))}
<1>13. 0 \in S
  <2>1. Logged(q, << >>) = q
    <3>1. << >> \in Seq(Int)
      OBVIOUS
    <3> QED BY <1>2, <3>1, LogConcat
  <2> QED BY <1>2, <1>11, <2>1
<1>14. ASSUME NEW k \in Nat, k \in S PROVE k + 1 \in S
  <2>1. CASE k + 1 \in 0..n
    <3>1. k \in 0..(n - 1) /\ k \in 0..n
      BY <2>1
    <3>2. Ready(x[k].t, Logged(q, P[k]))
      BY <1>14, <3>1
    <3>3. ShowsLog(ToLog!PutItem(x[k], f[k + 1]).t, Logged(Logged(q, P[k]), Sent(f[k + 1])))
      BY <1>12, <3>1, <3>2, LogItem
    <3>4. Logged(Logged(q, P[k]), Sent(f[k + 1])) = Logged(q, P[k + 1])
      <4>1. PICK c \in Seq(Int) : c = Sent(f[k + 1])
        BY <1>12, <3>1, SentIsExpand
      <4>2. PICK a \in Seq(Int) : a = P[k]
        BY <1>12, <3>1
      <4>3. Logged(q, a \o c) = Logged(Logged(q, a), c)
        BY <1>2, LogConcat
      <4> QED BY <1>12, <3>1, <4>1, <4>2, <4>3
    <3>5. ShowsLog(x[k + 1].t, Logged(q, P[k + 1]))
      BY <1>12, <3>1, <3>3, <3>4
    <3>6. Ready(x[k + 1].t, Logged(q, P[k + 1]))
      BY <3>5 DEF Ready
    <3> QED BY <3>5, <3>6
  <2>2. CASE k + 1 \notin 0..n
    BY <2>2
  <2> QED BY <2>1, <2>2
<1> HIDE DEF S
<1>15. Nat \subseteq S
  BY <1>13, <1>14, SetInduction
<1>16. ShowsLog(all.t, Logged(q, Expansion(f))) /\ all.stopped = FALSE
  <2>1. x[n] \in LogItems
    BY <1>11
  <2>2. x[n].stopped = FALSE
    BY <2>1 DEF LogItems
  <2> QED BY <1>8, <1>10, <1>15, <2>2 DEF S
<1>17. ToLog!pandos_printf(m, f) = all
  BY <1>1, <1>6, <1>16, Zenon DEF ToLog!pandos_printf, ToLog!WithEnd
<1> QED BY <1>16, <1>17 DEF pandos_kfprintf

LEMMA EmptyRing ==
  ASSUME NEW c \in Int
  PROVE  /\ Ready(memory_target(c), << << >> >>)
         /\ c = BLANK => ShowsLog(memory_target(c), << << >> >>)
<1>0. MEM_WRITER_LINES \in Nat /\ MEM_WRITER_LINES >= 3 /\ MEM_WRITER_LINE_LENGTH \in Nat \ {0}
  BY RingAssumption
<1>1. PICK u \in [Cells -> Int] : u = [k \in Cells |-> c]
  OBVIOUS
<1>2. PICK m : m = memory_target(c)
  OBVIOUS
<1>3. m = [buffer |-> u, line |-> 0, ch |-> 0]
  BY <1>1, <1>2, Zenon DEF memory_target, Cells
<1>4. m \in Rings /\ m.buffer = u /\ m.line = 0 /\ m.ch = 0
  BY <1>0, <1>3 DEF Rings
<1>5. m \in Idle
  BY <1>0, <1>4 DEF Idle
<1>6. ASSUME c = BLANK PROVE ShowsLog(m, << << >> >>)
  <2>1. \A i \in 0..(MEM_WRITER_LINES - 1), j \in Columns : u[<< i, j >>] = BLANK
    BY <1>1, <1>6 DEF Cells, Columns
  <2>2. Back(0, 0) = 0 /\ Ahead(0) = 1 /\ 0 \in 0..(MEM_WRITER_LINES - 1)
        /\ 1 \in 0..(MEM_WRITER_LINES - 1)
    BY <1>0 DEF Back, Ahead
  <2>3. \A j \in Columns : Place(<< >>, j) = BLANK
    BY <1>0 DEF Place, Columns
  <2>4. PICK q : q = << << >> >>
    OBVIOUS
  <2>5. Len(q) = 1 /\ q[1] = << >> /\ q \in LogLines /\ Len(<< >>) = 0
    BY <2>4, NoLines
  <2>6. ASSUME NEW k \in 0..(Len(q) - 1), NEW j \in Columns
        PROVE  u[<< Back(0, k), j >>] = Place(q[Len(q) - k], j)
    <3>1. k = 0 /\ Len(q) - k = 1
      BY <2>5
    <3> QED BY <2>1, <2>2, <2>3, <2>5, <3>1
  <2>7. Shows(m, q)
    BY <1>4, <2>1, <2>2, <2>6 DEF Shows
  <2> QED BY <1>4, <1>5, <2>4, <2>5, <2>7 DEF ShowsLog
<1> QED BY <1>2, <1>4, <1>5, <1>6 DEF Ready

LEMMA LogFormatsRegular ==
  ASSUME NEW f \in LogFormats
  PROVE  f \in Seq(RegularItems) /\ f # << >>
<1>1. 7 \in Ints /\ 10 \in Bases
  BY Words DEF Ints, Bases
<1>2. PICK d : d = [conv |-> "d", arg |-> 7]
  OBVIOUS
<1>3. d \in RegularItems
  <2>1. d \in Conversions /\ d.conv = "d" /\ d.arg = 7
    BY <1>1, <1>2 DEF Conversions
  <2>2. Expand(d) = ReferenceNumeral(7, 10)
    BY <2>1, Zenon DEF Expand
  <2>3. PICK s \in Seq(Int) : s = ReferenceNumeral(7, 10) /\ Len(s) > 0
    BY <1>1, ReferenceIsText
  <2>4. s # << >>
    BY <2>3
  <2> QED BY <2>1, <2>2, <2>3, <2>4 DEF RegularItems
<1>4. ASSUME NEW item \in [conv : {"text", "c", "s"}, arg : Seq(Int)], item.arg # << >>
      PROVE  item \in RegularItems
  <2>1. item \in Conversions
    BY DEF Conversions
  <2>2. item.conv # "d" /\ item.conv # "p" /\ item.conv # "b"
    OBVIOUS
  <2>3. Expand(item) = item.arg
    BY <2>2, Zenon DEF Expand
  <2> QED BY <1>4, <2>1, <2>2, <2>3 DEF RegularItems
<1>5. PICK l : l = Newline
  OBVIOUS
<1>6. l \in RegularItems
  <2>1. << NL >> \in Seq(Int) /\ << NL >> # << >>
    BY DEF NL
  <2>2. l \in [conv : {"text", "c", "s"}, arg : Seq(Int)] /\ l.arg # << >>
    BY <1>5, <2>1 DEF Newline
  <2> QED BY <1>4, <2>2
<1>7. PICK s : s = [conv |-> "s", arg |-> << 50, 7, 50 >>]
  OBVIOUS
<1>8. s \in RegularItems
  <2>1. << 50, 7, 50 >> \in Seq(Int) /\ << 50, 7, 50 >> # << >>
    OBVIOUS
  <2>2. s \in [conv : {"text", "c", "s"}, arg : Seq(Int)] /\ s.arg # << >>
    BY <1>7, <2>1
  <2> QED BY <1>4, <2>2
<1>9. PICK t : t = [conv |-> "text", arg |-> << 50 >>]
  OBVIOUS
<1>10. t \in RegularItems
  <2>1. << 50 >> \in Seq(Int) /\ << 50 >> # << >>
    OBVIOUS
  <2>2. t \in [conv : {"text", "c", "s"}, arg : Seq(Int)] /\ t.arg # << >>
    BY <1>9, <2>1
  <2> QED BY <1>4, <2>2
<1>11. f = << d >> \/ f = << l >> \/ f = << s >> \/ f = << t, l >>
  BY <1>2, <1>5, <1>7, <1>9, Zenon DEF LogFormats
<1>12. /\ << d >> \in Seq(RegularItems) /\ << d >> # << >>
       /\ << l >> \in Seq(RegularItems) /\ << l >> # << >>
  BY <1>3, <1>6
<1>13. /\ << s >> \in Seq(RegularItems) /\ << s >> # << >>
       /\ << t, l >> \in Seq(RegularItems) /\ << t, l >> # << >>
  BY <1>6, <1>8, <1>10
<1> QED BY <1>11, <1>12, <1>13, Zenon

\* The inductive invariant: a log that is not in use is as at the start, and one
\* in use shows its lines.
LogInv ==
  /\ log = << >> => mem = memory_target(NUL)
  /\ log # << >> => ShowsLog(mem, log)

LEMMA LogKept ==
  LogInv /\ [Next]_vars => LogInv'
<1> SUFFICES ASSUME LogInv, [Next]_vars PROVE LogInv'
  OBVIOUS
<1>1. CASE Grow
  BY <1>1 DEF Grow, LogInv
<1>2. CASE Log
  <2>1. PICK f \in LogFormats :
          /\ mem' = pandos_kfprintf(mem, f)
          /\ log' = FoldLeft(LogChar, IF log = << >> THEN << << >> >> ELSE log, Expansion(f))
    BY <1>2 DEF Log
  <2>2. PICK q : q = IF log = << >> THEN << << >> >> ELSE log
    OBVIOUS
  <2>3. Ready(mem, q)
    <3>1. CASE log = << >>
      BY <2>2, <3>1, EmptyRing DEF LogInv, NUL
    <3>2. CASE log # << >>
      BY <2>2, <3>2 DEF LogInv, Ready
    <3> QED BY <3>1, <3>2
  <2>4. f \in Seq(RegularItems) /\ f # << >>
    BY LogFormatsRegular
  <2>5. ShowsLog(pandos_kfprintf(mem, f), Logged(q, Expansion(f)))
    BY <2>3, <2>4, LogFormat
  <2>6. log' = Logged(q, Expansion(f))
    BY <2>1, <2>2, Zenon DEF Logged
  <2>7. ShowsLog(mem', log')
    BY <2>1, <2>5, <2>6, Zenon
  <2>8. log' # << >>
    <3>1. log' \in LogLines
      BY <2>7 DEF ShowsLog
    <3>2. Len(log') \in 1..(MEM_WRITER_LINES - 1)
      BY <3>1 DEF LogLines, LineLists
    <3> QED BY <3>2, RingAssumption
  <2> QED BY <2>7, <2>8 DEF LogInv
<1>3. CASE Clear
  <2>1. mem' = memory_target(BLANK) /\ log' = << << >> >>
    BY <1>3 DEF Clear, pandos_kclear
  <2>2. ShowsLog(mem', log')
    BY <2>1, EmptyRing DEF BLANK
  <2>3. log' # << >>
    BY <2>1
  <2> QED BY <2>2, <2>3 DEF LogInv
<1>4. CASE Complete
  BY <1>4 DEF Complete, vars, LogInv
<1>5. CASE UNCHANGED vars
  BY <1>5 DEF vars, LogInv
<1> QED BY <1>1, <1>2, <1>3, <1>4, <1>5 DEF Next

\* Whatever is printed to a log of any size, and however often its ring wraps
\* around, it shows the last lines in their order and nothing else
\* (memory_writer, kputchar, next_line, pandos_kfprintf, pandos_kclear).
THEOREM LogShown == Spec => []RingShowsLog
<1>1. Init => LogInv
  BY DEF Init, LogInv
<1>2. LogInv => RingShowsLog
  <2> SUFFICES ASSUME LogInv, log # << >> PROVE RingShows(mem, log)
    BY DEF RingShowsLog
  <2>1. ShowsLog(mem, log)
    BY DEF LogInv
  <2>2. mem \in Rings /\ log \in LineLists /\ Shows(mem, log) /\ mem.ch = Len(log[Len(log)])
    BY <2>1 DEF ShowsLog, Idle, LogLines
  <2> QED BY <2>2, ShowsIsRingShows
<1> QED BY <1>1, <1>2, LogKept, PTL DEF Spec

-----------------------------------------------------------------------------
(* The target of a string.                                                  *)

Targets(size) == [str : [0..(size - 1) -> Chars], size : {size}, wrote : 0..(size - 1)]

\* The first n characters of w as far as they fit.
Fill(n, size) == IF n < size - 1 THEN n ELSE size - 1
Holds(d, size, w, n) ==
  /\ d \in Targets(size) /\ d.wrote = Fill(n, size)
  /\ \A k \in 1..d.wrote : d.str[k - 1] = w[k]

Full(d) == d.wrote = d.size - 1
Ended(d) == d.str[d.wrote] = NUL

\* The characters of data follow the first n of w.
Follows(w, n, data) == \A j \in 1..Len(data) : w[n + j] = data[j]

LEMMA Lesser ==
  ASSUME NEW a \in Int, NEW b \in Int
  PROVE  Min({a, b}) = IF a <= b THEN a ELSE b
  BY DEF Min

LEMMA IntsAreChars ==
  /\ Int \subseteq Chars /\ NUL \in Chars /\ GARBAGE \in Chars
  /\ \A q \in Seq(Int) : q \in Seq(Chars)
<1>1. Int \subseteq Chars
  BY Zenon DEF Chars
<1>2. NUL \in Int /\ GARBAGE \in Int
  BY DEF NUL, GARBAGE
<1> QED BY <1>1, <1>2

\* The outcome r of writing to d.
Copied(r, d, size, w, n) ==
  /\ Holds(r.t, size, w, n)
  /\ r.n = r.t.wrote - d.wrote /\ r.n \in Nat
  /\ r.n = 0 <=> Full(d)
  /\ ~Full(r.t) => Ended(r.t)

\* A buffer of at least one character has room for all but its last one.
LEMMA RoomOf ==
  ASSUME NEW size \in Nat \ {0}, NEW d, d.size = size
  PROVE  Room(d) = size - 1
BY DEF Room

\* What str_writer does with text.
LEMMA BufferCopy ==
  ASSUME NEW size \in Nat \ {0}, NEW d, NEW w, NEW n \in Nat, Holds(d, size, w, n),
         NEW data \in Seq(Chars), data # << >>, Follows(w, n, data)
  PROVE  Copied(str_writer(d, data), d, size, w, n + Len(data))
<1>1. PICK a \in 0..(size - 1) : a = d.wrote
  BY DEF Holds, Targets
<1>2. PICK u \in [0..(size - 1) -> Chars] : u = d.str
  BY DEF Holds, Targets
<1>3. PICK l \in Nat \ {0} : l = Len(data)
  OBVIOUS
<1>4. d.size = size /\ a = Fill(n, size)
  BY <1>1 DEF Holds, Targets
<1>5. PICK f \in Nat : f = Fits(d, data) /\ f = IF l <= size - 1 - a THEN l ELSE size - 1 - a
  <2>1. PICK b \in Nat : b = size - 1 - a
    OBVIOUS
  <2>2. Fits(d, data) = Min({l, b})
    BY <1>1, <1>3, <1>4, RoomOf, <2>1, Zenon DEF Fits
  <2>3. Min({l, b}) = IF l <= b THEN l ELSE b
    BY Lesser
  <2> QED BY <2>1, <2>2, <2>3
<1>6. PICK v : v = [k \in 0..(size - 1) |->
                      IF k \in a..(a + f - 1) THEN data[k - a + 1]
                      ELSE IF k = a + f /\ a + f < size - 1 THEN NUL ELSE u[k]]
  OBVIOUS
<1>7. v \in [0..(size - 1) -> Chars]
  <2>1. ASSUME NEW k \in 0..(size - 1)
        PROVE  (IF k \in a..(a + f - 1) THEN data[k - a + 1]
                ELSE IF k = a + f /\ a + f < size - 1 THEN NUL ELSE u[k]) \in Chars
    <3>1. CASE k \in a..(a + f - 1)
      <4>1. k - a + 1 \in 1..Len(data)
        BY <1>3, <1>5, <3>1
      <4>2. data[k - a + 1] \in Chars
        BY <4>1
      <4> QED BY <3>1, <4>2
    <3>2. CASE k \notin a..(a + f - 1)
      BY <3>2, IntsAreChars
    <3> QED BY <3>1, <3>2
  <2> QED BY <1>6, <2>1
<1>8. CopyOf(d, data, f) = [t |-> [str |-> v, size |-> size, wrote |-> a + f], n |-> f]
  <2>1. PICK ending : ending = IF d.wrote + f < Room(d) THEN {d.wrote + f} ELSE {}
    OBVIOUS
  <2>2. PICK copied : copied = d.wrote..(d.wrote + f - 1)
    OBVIOUS
  <2>3. ending = (IF a + f < size - 1 THEN {a + f} ELSE {}) /\ copied = a..(a + f - 1)
    BY <1>1, <1>4, RoomOf, <2>1, <2>2, Zenon
  <2>4. DOMAIN u = 0..(size - 1) /\ copied \subseteq 0..(size - 1) /\ ending \subseteq 0..(size - 1)
    BY <1>5, <2>3
  <2>5. DOMAIN d.str \cup copied \cup ending = 0..(size - 1)
    BY <1>2, <2>4, Zenon
  <2>6. PICK x : x = [k \in DOMAIN d.str \cup copied \cup ending |->
                        IF k \in copied THEN data[k - d.wrote + 1]
                        ELSE IF k \in ending THEN NUL ELSE d.str[k]]
    OBVIOUS
  <2>7. CopyOf(d, data, f) =
          [t |-> [str |-> x, size |-> d.size, wrote |-> d.wrote + f], n |-> f]
    BY <2>1, <2>2, <2>6, Zenon DEF CopyOf
  <2>8. x = [k \in 0..(size - 1) |-> IF k \in copied THEN data[k - d.wrote + 1]
                                     ELSE IF k \in ending THEN NUL ELSE d.str[k]]
    BY <2>5, <2>6, Zenon
  <2>9. ASSUME NEW k \in 0..(size - 1) PROVE v[k] = x[k]
    <3>1. v[k] = IF k \in copied THEN data[k - a + 1] ELSE IF k \in ending THEN NUL ELSE u[k]
      BY <1>6, <2>3
    <3>2. x[k] = IF k \in copied THEN data[k - d.wrote + 1]
                 ELSE IF k \in ending THEN NUL ELSE d.str[k]
      BY <2>8
    <3> QED BY <1>1, <1>2, <3>1, <3>2
  <2>10. v = x
    <3>1. DOMAIN x = 0..(size - 1) /\ x = [k \in 0..(size - 1) |-> x[k]]
      BY <2>8
    <3>2. v = [k \in 0..(size - 1) |-> v[k]]
      BY <1>6
    <3> QED BY <2>9, <3>1, <3>2
  <2> QED BY <1>1, <1>4, <2>7, <2>10
<1>9. PICK r : r = str_writer(d, data)
  OBVIOUS
<1>10. r = [t |-> [str |-> v, size |-> size, wrote |-> a + f], n |-> f]
  BY <1>5, <1>8, <1>9, Zenon DEF str_writer
<1>11. r.t.str = v /\ r.t.size = size /\ r.t.wrote = a + f /\ r.n = f
  BY <1>10
<1>12. a + f \in 0..(size - 1) /\ a + f = Fill(n + l, size)
  BY <1>4, <1>5 DEF Fill
<1>13. r.t \in Targets(size)
  BY <1>7, <1>10, <1>12 DEF Targets
<1>14. ASSUME NEW k \in 1..(a + f) PROVE v[k - 1] = w[k]
  <2>1. k - 1 \in 0..(size - 1)
    BY <1>12
  <2>2. CASE k <= a
    <3>1. v[k - 1] = u[k - 1]
      BY <1>6, <2>1, <2>2
    <3>2. u[k - 1] = w[k]
      BY <1>1, <1>2, <2>2 DEF Holds
    <3> QED BY <3>1, <3>2
  <2>3. CASE ~(k <= a)
    <3>1. k - 1 \in a..(a + f - 1) /\ (k - 1) - a + 1 = k - a /\ k - a \in 1..l
      BY <1>5, <2>3
    <3>2. v[k - 1] = data[k - a]
      BY <1>6, <2>1, <3>1
    <3>3. a = n
      BY <1>4, <1>5, <2>3 DEF Fill
    <3>4. w[n + (k - a)] = data[k - a] /\ n + (k - a) = k
      BY <1>3, <3>1, <3>3 DEF Follows
    <3> QED BY <3>2, <3>4
  <2> QED BY <2>2, <2>3
<1>15. Holds(r.t, size, w, n + l)
  BY <1>11, <1>12, <1>13, <1>14 DEF Holds
<1>16. r.n = r.t.wrote - d.wrote /\ r.n \in Nat
  BY <1>1, <1>5, <1>11
<1>17. r.n = 0 <=> Full(d)
  BY <1>1, <1>4, <1>5, <1>11 DEF Full
<1>18. ~Full(r.t) => Ended(r.t)
  <2>1. SUFFICES ASSUME a + f < size - 1 PROVE v[a + f] = NUL
    BY <1>11, <1>12 DEF Full, Ended
  <2> QED BY <1>5, <1>6, <2>1
<1> QED BY <1>3, <1>9, <1>15, <1>16, <1>17, <1>18 DEF Copied

\* What it does at the end of the text.
LEMMA BufferEnd ==
  ASSUME NEW size \in Nat \ {0}, NEW d, NEW w, NEW n \in Nat, Holds(d, size, w, n)
  PROVE  LET r == str_writer(d, << >>)
         IN  /\ Holds(r.t, size, w, n) /\ r.n = 0 /\ r.t.wrote = d.wrote
             /\ Full(d) \/ Ended(d) => Ended(r.t)
<1>1. PICK a \in 0..(size - 1) : a = d.wrote
  BY DEF Holds, Targets
<1>2. PICK u \in [0..(size - 1) -> Chars] : u = d.str
  BY DEF Holds, Targets
<1>3. d.size = size /\ a = Fill(n, size)
  BY <1>1 DEF Holds, Targets
<1>4. PICK p \in 0..(size - 1) : p = IF a >= size - 1 THEN a ELSE a + 1
  OBVIOUS
<1>5. PICK v : v = [k \in 0..(size - 1) |-> IF k = p THEN NUL ELSE u[k]]
  OBVIOUS
<1>6. v \in [0..(size - 1) -> Chars]
  BY <1>5, IntsAreChars
<1>7. PICK r : r = str_writer(d, << >>)
  OBVIOUS
<1>8. r = [t |-> [d EXCEPT !.str = v], n |-> 0]
  <2>1. r = EndAt(d, p)
    BY <1>1, <1>3, <1>4, <1>7, RoomOf, Zenon DEF str_writer
  <2>2. DOMAIN u \cup {p} = 0..(size - 1)
    OBVIOUS
  <2>3. EndAt(d, p) = [t |-> [d EXCEPT !.str = [k \in DOMAIN u \cup {p} |->
                                                  IF k = p THEN NUL ELSE u[k]]],
                       n |-> 0]
    BY <1>2, Zenon DEF EndAt
  <2> QED BY <1>5, <2>1, <2>2, <2>3, Zenon
<1>9. PICK t : t = [d EXCEPT !.str = v]
  OBVIOUS
<1>10. t \in Targets(size) /\ t.str = v /\ t.wrote = a /\ t.size = size
  BY <1>1, <1>3, <1>6, <1>9 DEF Holds, Targets
<1>11. r.t = t /\ r.n = 0
  BY <1>8, <1>9
<1>12. ASSUME NEW k \in 1..a PROVE v[k - 1] = w[k]
  <2>1. v[k - 1] = u[k - 1]
    BY <1>4, <1>5
  <2> QED BY <1>1, <1>2, <2>1 DEF Holds
<1>13. Holds(t, size, w, n)
  BY <1>3, <1>10, <1>12 DEF Holds
<1>14. Full(d) \/ Ended(d) => v[a] = NUL
  BY <1>1, <1>2, <1>3, <1>4, <1>5 DEF Full, Ended
<1> QED BY <1>1, <1>7, <1>10, <1>11, <1>13, <1>14 DEF Ended

\* A full buffer stays as it is whatever follows; and what a buffer holds can go
\* on with any text.
LEMMA FullHolds ==
  ASSUME NEW size \in Nat \ {0}, NEW d, NEW w, NEW n \in Nat, Holds(d, size, w, n), Full(d),
         NEW k \in Nat
  PROVE  Holds(d, size, w, n + k)
<1>1. d.size = size /\ d.wrote = Fill(n, size) /\ d.wrote = size - 1
  BY DEF Holds, Targets, Full
<1>2. Fill(n + k, size) = size - 1
  BY <1>1 DEF Fill
<1> QED BY <1>1, <1>2 DEF Holds

LEMMA HeldFor ==
  ASSUME NEW size \in Nat \ {0}, NEW d \in Targets(size), NEW data \in Seq(Chars)
  PROVE  \E w : Holds(d, size, w, d.wrote) /\ Follows(w, d.wrote, data)
<1>1. PICK a \in 0..(size - 1) : a = d.wrote
  BY DEF Targets
<1>2. PICK w : w = [k \in Nat |-> IF k <= a THEN d.str[k - 1] ELSE data[k - a]]
  OBVIOUS
<1>3. \A k \in 1..a : d.str[k - 1] = w[k]
  BY <1>2
<1>4. ASSUME NEW j \in 1..Len(data) PROVE w[a + j] = data[j]
  <2>1. a + j \in Nat /\ ~(a + j <= a) /\ (a + j) - a = j
    OBVIOUS
  <2> QED BY <1>2, <2>1
<1>5. a = Fill(a, size)
  BY DEF Fill
<1>6. Holds(d, size, w, a)
  BY <1>1, <1>3, <1>5 DEF Holds
<1>7. Follows(w, a, data)
  BY <1>4 DEF Follows
<1> QED BY <1>1, <1>6, <1>7

\* The states of the loop of __itoa.
BufferDigits(size) == [t : Targets(size), n : Nat, wr : Nat]
BufferDigitStep(size) == [p \in BufferDigits(size) \X Chars |-> ToBuffer!PutDigit(p[1], p[2])]

LEMMA BufferDigit ==
  ASSUME NEW size \in Nat \ {0}, NEW acc \in BufferDigits(size), NEW c \in Chars,
         NEW w, NEW n \in Nat, Holds(acc.t, size, w, n), w[n + 1] = c
  PROVE  LET r == ToBuffer!PutDigit(acc, c)
         IN  /\ r \in BufferDigits(size)
             /\ (acc.wr = 0 => Full(acc.t)) =>
                  /\ Holds(r.t, size, w, n + 1)
                  /\ r.n = acc.n + (r.t.wrote - acc.t.wrote)
                  /\ r.wr = 0 => Full(r.t)
                  /\ ~Full(r.t) => Ended(r.t)
<1>1. acc.t \in Targets(size) /\ acc.n \in Nat /\ acc.wr \in Nat
  BY DEF BufferDigits
<1>2. CASE acc.wr = 0
  <2>1. ToBuffer!PutDigit(acc, c) = acc
    BY <1>2, Zenon DEF ToBuffer!PutDigit
  <2>2. ASSUME Full(acc.t) PROVE Holds(acc.t, size, w, n + 1)
    BY <2>2, FullHolds
  <2>3. acc.n = acc.n + (acc.t.wrote - acc.t.wrote)
    BY <1>1 DEF Targets
  <2> QED BY <1>2, <2>1, <2>2, <2>3
<1>3. CASE acc.wr # 0
  <2>1. << c >> \in Seq(Chars) /\ << c >> # << >> /\ Len(<< c >>) = 1 /\ << c >>[1] = c
    OBVIOUS
  <2>2. Follows(w, n, << c >>)
    BY <2>1 DEF Follows
  <2>3. PICK x : x = str_writer(acc.t, << c >>)
    OBVIOUS
  <2>4. /\ Holds(x.t, size, w, n + 1)
        /\ x.n = x.t.wrote - acc.t.wrote /\ x.n \in Nat
        /\ x.n = 0 <=> Full(acc.t)
        /\ ~Full(x.t) => Ended(x.t)
    <3>1. PICK data \in Seq(Chars) : /\ data = << c >> /\ data # << >>
                                     /\ Len(data) = 1 /\ Follows(w, n, data)
      BY <2>1, <2>2
    <3>2. PICK d : d = acc.t /\ Holds(d, size, w, n)
      OBVIOUS
    <3>3. Copied(str_writer(d, data), d, size, w, n + Len(data))
      BY <3>1, <3>2, BufferCopy
    <3> QED BY <2>3, <3>1, <3>2, <3>3 DEF Copied
  <2>5. PICK r : r = ToBuffer!PutDigit(acc, c)
    OBVIOUS
  <2>6. r = [t |-> x.t, n |-> acc.n + x.n, wr |-> x.n]
    BY <1>3, <2>3, <2>5, Zenon DEF ToBuffer!PutDigit
  <2>7. r.t = x.t /\ r.n = acc.n + x.n /\ r.wr = x.n
    BY <2>6
  <2>8. x.t \in Targets(size) /\ acc.n + x.n \in Nat
    BY <1>1, <2>4 DEF Holds
  <2>9. r \in BufferDigits(size)
    BY <2>4, <2>6, <2>8 DEF BufferDigits
  <2>10. x.n = 0 => Full(x.t)
    <3>1. SUFFICES ASSUME x.n = 0 PROVE Full(x.t)
      OBVIOUS
    <3>2. acc.t.wrote = size - 1 /\ x.t.size = size /\ x.t.wrote \in Int
      BY <1>1, <2>4, <2>8, <3>1 DEF Full, Targets
    <3> QED BY <2>4, <3>1, <3>2 DEF Full
  <2> QED BY <2>4, <2>5, <2>7, <2>9, <2>10
<1> QED BY <1>2, <1>3

LEMMA BufferDigitTypes ==
  ASSUME NEW size \in Nat \ {0}
  PROVE  /\ BufferDigitStep(size) \in [BufferDigits(size) \X Chars -> BufferDigits(size)]
         /\ \A a \in BufferDigits(size), c \in Chars :
              BufferDigitStep(size)[<< a, c >>] = ToBuffer!PutDigit(a, c)
<1>1. ASSUME NEW a \in BufferDigits(size), NEW c \in Chars
      PROVE  ToBuffer!PutDigit(a, c) \in BufferDigits(size)
  <2>1. a.t \in Targets(size) /\ << c >> \in Seq(Chars) /\ Len(<< c >>) = 1
    BY DEF BufferDigits
  <2>2. PICK w : Holds(a.t, size, w, a.t.wrote) /\ Follows(w, a.t.wrote, << c >>)
    BY <2>1, HeldFor
  <2>3. PICK n \in Nat : n = a.t.wrote
    BY <2>1 DEF Targets
  <2>4. w[n + 1] = c
    BY <2>1, <2>2, <2>3 DEF Follows
  <2> QED BY <2>2, <2>3, <2>4, BufferDigit
<1>2. \A p \in BufferDigits(size) \X Chars : ToBuffer!PutDigit(p[1], p[2]) \in BufferDigits(size)
  BY <1>1
<1>3. BufferDigitStep(size) \in [BufferDigits(size) \X Chars -> BufferDigits(size)]
  BY <1>2 DEF BufferDigitStep
<1>4. \A a \in BufferDigits(size), c \in Chars :
        BufferDigitStep(size)[<< a, c >>] = ToBuffer!PutDigit(a, c)
  BY DEF BufferDigitStep
<1> QED BY <1>3, <1>4

\* __itoa on a string: a number is always followed by a NUL.
LEMMA BufferNumber ==
  ASSUME NEW size \in Nat \ {0}, NEW d, NEW w, NEW n \in Nat, Holds(d, size, w, n),
         NEW i, NEW b, itoa(i, b) \in Seq(Chars), itoa(i, b) # << >>, Follows(w, n, itoa(i, b))
  PROVE  LET r == ToBuffer!itoa_to(d, i, b)
         IN  /\ Holds(r.t, size, w, n + Len(itoa(i, b)))
             /\ r.n = r.t.wrote - d.wrote
             /\ Ended(r.t)
<1>1. PICK s \in Seq(Chars) : s = itoa(i, b) /\ s # << >> /\ Follows(w, n, s)
  OBVIOUS
<1>2. PICK l \in Nat \ {0} : l = Len(s)
  BY <1>1
<1>3. PICK z : z = [t |-> d, n |-> 0, wr |-> 1]
  OBVIOUS
<1>4. d \in Targets(size) /\ d.wrote \in Nat
  BY DEF Holds, Targets
<1>5. z \in BufferDigits(size) /\ z.t = d /\ z.n = 0 /\ z.wr = 1
  BY <1>3, <1>4 DEF BufferDigits
<1>6. PICK A : A = BufferDigits(size)
  OBVIOUS
<1>7. PICK g : g = BufferDigitStep(size)
  OBVIOUS
<1>8. g \in [A \X Chars -> A] /\ \A a \in A, c \in Chars : g[<< a, c >>] = ToBuffer!PutDigit(a, c)
  BY <1>6, <1>7, BufferDigitTypes
<1>9. EndsRun(ToBuffer!FoldLeft(ToBuffer!PutDigit, z, s), A, s, z, g)
  BY <1>5, <1>6, <1>8, Fold_BufferDigit
<1>10. PICK all : all = ToBuffer!FoldLeft(ToBuffer!PutDigit, z, s)
  OBVIOUS
<1>11. EndsRun(all, A, s, z, g)
  BY <1>9, <1>10, Zenon
<1>12. PICK x : x \in Runs(A, s, z, g) /\ all = x[l]
  BY <1>2, <1>11 DEF EndsRun
<1>13. x \in [0..l -> A] /\ x[0] = z
  BY <1>2, <1>12 DEF Runs
<1>14. ASSUME NEW k \in 0..(l - 1)
       PROVE  /\ s[k + 1] \in Chars /\ x[k] \in A /\ w[(n + k) + 1] = s[k + 1]
              /\ x[k + 1] = ToBuffer!PutDigit(x[k], s[k + 1])
  <2>1. k \in 0..l /\ k + 1 \in 1..Len(s) /\ (n + k) + 1 = n + (k + 1)
    BY <1>2
  <2>2. s[k + 1] \in Chars
    BY <2>1
  <2>3. x[k] \in A
    BY <1>13, <2>1
  <2>4. x[k + 1] = g[<< x[k], s[k + 1] >>]
    BY <1>2, <1>12 DEF Runs
  <2>5. w[n + (k + 1)] = s[k + 1]
    BY <1>1, <2>1 DEF Follows
  <2> QED BY <1>8, <2>1, <2>2, <2>3, <2>4, <2>5
<1> DEFINE Good(a, k) == /\ Holds(a.t, size, w, n + k)
                         /\ a.n = a.t.wrote - d.wrote
                         /\ a.wr = 0 => Full(a.t)
                         /\ k # 0 /\ ~Full(a.t) => Ended(a.t)
           S == {k \in Nat : k \in 0..l => Good(x[k], k)}
<1>15. 0 \in S
  <2>1. n + 0 = n /\ d.wrote - d.wrote = 0
    BY <1>4
  <2>2. Good(z, 0)
    BY <1>5, <2>1
  <2> QED BY <1>13, <2>2
<1>16. ASSUME NEW k \in Nat, k \in S PROVE k + 1 \in S
  <2>1. CASE k + 1 \in 0..l
    <3>1. k \in 0..(l - 1) /\ k \in 0..l
      BY <2>1
    <3>2. PICK a \in BufferDigits(size) : a = x[k]
      BY <1>6, <1>14, <3>1
    <3>3. Good(a, k)
      BY <1>16, <3>1, <3>2
    <3>4. PICK c \in Chars : c = s[k + 1] /\ w[(n + k) + 1] = c
      BY <1>14, <3>1
    <3>5. PICK r : r = ToBuffer!PutDigit(a, c)
      OBVIOUS
    <3>6. /\ r \in BufferDigits(size) /\ Holds(r.t, size, w, (n + k) + 1)
          /\ r.n = a.n + (r.t.wrote - a.t.wrote)
          /\ r.wr = 0 => Full(r.t)
          /\ ~Full(r.t) => Ended(r.t)
      BY <3>3, <3>4, <3>5, BufferDigit
    <3>7. r.n = r.t.wrote - d.wrote
      <4>1. PICK e \in Int, f \in Int : e = r.t.wrote /\ f = a.t.wrote
        BY <3>6 DEF BufferDigits, Targets
      <4>2. PICK h \in Int : h = d.wrote
        BY <1>4
      <4>3. a.n = f - h /\ r.n = a.n + (e - f)
        BY <3>3, <3>6, <4>1, <4>2
      <4>4. (f - h) + (e - f) = e - h
        OBVIOUS
      <4> QED BY <4>1, <4>2, <4>3, <4>4, Zenon
    <3>8. (n + k) + 1 = n + (k + 1) /\ r = x[k + 1]
      <4>1. (n + k) + 1 = n + (k + 1)
        OBVIOUS
      <4>2. x[k + 1] = ToBuffer!PutDigit(x[k], s[k + 1])
        BY <1>14, <3>1, Zenon
      <4> QED BY <3>2, <3>4, <3>5, <4>1, <4>2, Zenon
    <3>9. Good(x[k + 1], k + 1)
      BY <3>6, <3>7, <3>8
    <3> QED BY <3>9
  <2>2. CASE k + 1 \notin 0..l
    BY <2>2
  <2> QED BY <2>1, <2>2
<1> HIDE DEF S
<1>17. Nat \subseteq S
  BY <1>15, <1>16, SetInduction
<1>18. Good(all, l)
  BY <1>12, <1>17 DEF S
<1>19. PICK end : end = str_writer(all.t, << >>)
  OBVIOUS
<1>20. /\ Holds(end.t, size, w, n + l) /\ end.n = 0 /\ end.t.wrote = all.t.wrote
       /\ Full(all.t) \/ Ended(all.t) => Ended(end.t)
  BY <1>18, <1>19, BufferEnd
<1>21. Ended(end.t)
  BY <1>18, <1>20
<1>22. PICK r : r = ToBuffer!itoa_to(d, i, b)
  OBVIOUS
<1>23. r = [t |-> end.t, n |-> all.n + end.n]
  <2>1. ToBuffer!itoa(i, b) = s
    BY <1>1, SameNumerals
  <2> QED BY <1>3, <1>10, <1>19, <1>22, <2>1, Zenon DEF ToBuffer!itoa_to
<1>24. r.t = end.t /\ r.n = all.n + end.n
  BY <1>23
<1>25. r.n = r.t.wrote - d.wrote
  <2>1. all.t.wrote \in Int
    BY <1>18 DEF Holds, Targets
  <2> QED BY <1>4, <1>18, <1>20, <1>24, <2>1
<1> QED BY <1>1, <1>2, <1>20, <1>21, <1>22, <1>24, <1>25

\* What is written grows until the buffer is full.
LEMMA Progress ==
  ASSUME NEW size \in Nat \ {0}, NEW d, NEW e, NEW w, NEW n \in Nat, NEW l \in Nat \ {0},
         Holds(d, size, w, n), Holds(e, size, w, n + l)
  PROVE  e.wrote - d.wrote \in Nat /\ (e.wrote - d.wrote = 0 <=> Full(d))
<1>1. d.wrote = Fill(n, size) /\ e.wrote = Fill(n + l, size) /\ d.size = size
  BY DEF Holds, Targets
<1> QED BY <1>1 DEF Fill, Full

LEMMA NumberCopied ==
  ASSUME NEW size \in Nat \ {0}, NEW d, NEW w, NEW n \in Nat, Holds(d, size, w, n),
         NEW i, NEW b, itoa(i, b) \in Seq(Chars), itoa(i, b) # << >>, Follows(w, n, itoa(i, b))
  PROVE  /\ Copied(ToBuffer!itoa_to(d, i, b), d, size, w, n + Len(itoa(i, b)))
         /\ Ended(ToBuffer!itoa_to(d, i, b).t)
<1>1. PICK s \in Seq(Chars) : s = itoa(i, b) /\ s # << >>
  OBVIOUS
<1>2. PICK l \in Nat \ {0} : l = Len(s)
  BY <1>1
<1>3. PICK r : r = ToBuffer!itoa_to(d, i, b)
  OBVIOUS
<1>4. Holds(r.t, size, w, n + l) /\ r.n = r.t.wrote - d.wrote /\ Ended(r.t)
  BY <1>1, <1>2, <1>3, BufferNumber
<1>5. r.t.wrote - d.wrote \in Nat /\ (r.t.wrote - d.wrote = 0 <=> Full(d))
  BY <1>4, Progress
<1> QED BY <1>1, <1>2, <1>3, <1>4, <1>5 DEF Copied

\* __itoa has characters to print for every int in either base, the negative
\* ones in base 16 included.
LEMMA ItoaIsText ==
  ASSUME NEW i \in Ints, NEW b \in Bases
  PROVE  itoa(i, b) \in Seq(Chars) /\ itoa(i, b) # << >>
<1>0. i \in Int /\ 10 \in Bases /\ 16 \in Bases
  BY Words DEF Ints, Bases
<1>1. PICK s : s = itoa(i, b)
  OBVIOUS
<1>2. CASE b = 10 \/ i >= 0
  <2>1. s = ReferenceNumeral(i, b)
    BY <1>0, <1>1, <1>2, NumbersPrintedRight DEF Bases
  <2>2. s \in Seq(Int) /\ Len(s) > 0
    BY <2>1, ReferenceIsText
  <2>3. s \in Seq(Chars) /\ s # << >>
    BY <2>2, IntsAreChars
  <2> QED BY <1>1, <2>3
<1>3. CASE ~(b = 10 \/ i >= 0)
  <2>1. b # 10 /\ i < 0 /\ i # 0
    BY <1>0, <1>3 DEF Bases
  <2>2. PICK n \in Nat \ {0} : n = CountDigits(i, b)
    <3>1. PICK u \in Nat \ {0} : u = -i
      BY <1>0, <2>1
    <3>2. CountDigits(u, b) \in Nat \ {0}
      BY CountBounds DEF InDigits
    <3>3. CountDigits(i, b) = CountDigits(u, b)
      <4>1. i = -u
        BY <1>0, <3>1
      <4> QED BY <4>1, CountValues
    <3> QED BY <3>2, <3>3
  <2>3. PICK e : e = FrontDigits(i, b)
    OBVIOUS
  <2>4. PICK S : e \in Seq(S)
    BY <2>2, <2>3, LoopIsSeq
  <2>5. DOMAIN e = 1..n
    BY <2>2, <2>3, Zenon DEF FrontDigits
  <2>6. s = << >> \o e
    BY <1>1, <2>1, <2>3, Zenon DEF itoa
  <2>7. s = e
    BY <2>4, <2>6
  <2>8. Len(s) = n /\ s \in [1..n -> S]
    BY <2>4, <2>5, <2>7
  <2>9. s # << >>
    BY <2>8
  <2>10. \A k \in 1..n : s[k] \in Chars
    <3>1. Range(s) \subseteq ItoaChars
      <4>1. << i, b >> \in Ints \X Bases
        OBVIOUS
      <4>2. PICK p \in Ints \X Bases : p = << i, b >> /\ p[1] = i /\ p[2] = b
        BY <4>1
      <4>3. Range(itoa(p[1], p[2])) = Range(s)
        BY <1>1, <4>2
      <4> QED BY <4>3, Zenon DEF ItoaChars
    <3>2. \A k \in 1..n : s[k] \in Range(s)
      BY <2>8 DEF Range
    <3> QED BY <3>1, <3>2 DEF Chars
  <2>11. s \in [1..n -> Chars]
    BY <2>8, <2>10
  <2>12. s \in Seq(Chars)
    BY <2>11
  <2> QED BY <1>1, <2>9, <2>12
<1> QED BY <1>2, <1>3

LEMMA SentIsText ==
  ASSUME NEW item \in Conversions
  PROVE  /\ Sent(item) \in Seq(Chars)
         /\ item.conv \in {"d", "p", "b", "text", "c", "s"}
         /\ item.conv \in {"d", "p", "b"} => item.arg \in Ints
<1>0. 10 \in Bases /\ 16 \in Bases
  BY DEF Bases
<1>1. CASE item \in [conv : {"d", "p", "b"}, arg : Ints]
  <2>0. item.conv \in {"d", "p", "b"} /\ item.arg \in Ints
    BY <1>1
  <2>1. CASE item.conv = "d"
    <3>1. Sent(item) = itoa(item.arg, 10)
      BY <2>1, Zenon DEF Sent
    <3> QED BY <1>0, <2>0, <2>1, <3>1, ItoaIsText
  <2>2. CASE item.conv = "p" /\ item.arg = 0
    <3>1. Sent(item) = Nil
      BY <2>2, Zenon DEF Sent
    <3> QED BY <2>0, <2>2, <3>1, NilIsText, IntsAreChars
  <2>3. CASE item.conv = "p" /\ item.arg # 0
    <3>1. Sent(item) = << 0, X >> \o itoa(item.arg, 16)
      BY <2>3, Zenon DEF Sent
    <3>2. PICK s \in Seq(Chars) : s = itoa(item.arg, 16)
      BY <1>0, <2>0, ItoaIsText
    <3>3. PICK x \in Seq(Chars) : x = << 0, X >>
      <4>1. << 0, X >> \in Seq(Int)
        BY DEF X
      <4> QED BY <4>1, IntsAreChars
    <3>4. x \o s \in Seq(Chars)
      OBVIOUS
    <3> QED BY <2>0, <2>3, <3>1, <3>2, <3>3, <3>4
  <2>4. CASE item.conv = "b"
    <3>1. Sent(item) = ToBuffer!Bits(item.arg)
      BY <2>4, Zenon DEF Sent
    <3>2. ToBuffer!Bits(item.arg) \in Seq(Chars)
      BY <2>0, BitsAreText, IntsAreChars
    <3> QED BY <2>0, <2>4, <3>1, <3>2
  <2> QED BY <2>0, <2>1, <2>2, <2>3, <2>4
<1>2. CASE item \in [conv : {"text", "c", "s"}, arg : Seq(Int)]
  <2>0. item.conv \in {"text", "c", "s"} /\ item.arg \in Seq(Int)
    BY <1>2
  <2>1. item.conv # "d" /\ item.conv # "p" /\ item.conv # "b"
    BY <2>0
  <2>2. Sent(item) = item.arg
    BY <2>1, Zenon DEF Sent
  <2> QED BY <2>0, <2>1, <2>2, IntsAreChars
<1>3. item \in [conv : {"d", "p", "b"}, arg : Ints]
      \/ item \in [conv : {"text", "c", "s"}, arg : Seq(Int)]
  BY Zenon DEF Conversions
<1> QED BY <1>1, <1>2, <1>3, Zenon

\* The outcome r of a conversion that is printed to d.
Converted(r, d, size, w, n, item) ==
  /\ Holds(r.t, size, w, n) /\ r.n \in Nat
  /\ Sent(item) # << >> =>
       /\ r.n = 0 => Full(d)
       /\ item.conv # "b" /\ Full(d) => r.n = 0
       /\ ~Full(r.t) => Ended(r.t)
  /\ item.conv = "d" \/ (item.conv = "p" /\ item.arg # 0) => Ended(r.t)

LEMMA TextConverted ==
  ASSUME NEW size \in Nat \ {0}, NEW d, NEW w, NEW n \in Nat, Holds(d, size, w, n),
         NEW data \in Seq(Chars), Follows(w, n, data),
         NEW item, Sent(item) = data,
         item.conv # "d", item.conv = "p" => item.arg = 0
  PROVE  Converted(str_writer(d, data), d, size, w, n + Len(data), item)
<1>1. PICK r : r = str_writer(d, data)
  OBVIOUS
<1>2. CASE data = << >>
  <2>1. Holds(r.t, size, w, n) /\ r.n = 0
    BY <1>1, <1>2, BufferEnd
  <2>2. n + Len(data) = n
    BY <1>2
  <2> QED BY <1>1, <1>2, <2>1, <2>2 DEF Converted
<1>3. CASE data # << >>
  <2>1. Copied(r, d, size, w, n + Len(data))
    BY <1>1, <1>3, BufferCopy
  <2> QED BY <1>1, <2>1 DEF Copied, Converted
<1> QED BY <1>2, <1>3

LEMMA BufferConversion ==
  ASSUME NEW size \in Nat \ {0}, NEW d, NEW w, NEW n \in Nat, Holds(d, size, w, n),
         NEW item \in Conversions, Follows(w, n, Sent(item))
  PROVE  Converted(ToBuffer!Convert(d, item), d, size, w, n + Len(Sent(item)), item)
<1>0. /\ Sent(item) \in Seq(Chars) /\ 10 \in Bases /\ 16 \in Bases
      /\ item.conv \in {"d", "p", "b", "text", "c", "s"}
      /\ item.conv \in {"d", "p", "b"} => item.arg \in Ints
  BY SentIsText DEF Bases
<1>1. CASE item.conv = "d"
  <2>1. Sent(item) = itoa(item.arg, 10)
    BY <1>1, Zenon DEF Sent
  <2>2. ToBuffer!Convert(d, item) = ToBuffer!itoa_to(d, item.arg, 10)
    BY <1>1, Zenon DEF ToBuffer!Convert
  <2>3. PICK r : r = ToBuffer!itoa_to(d, item.arg, 10)
    OBVIOUS
  <2>4. itoa(item.arg, 10) \in Seq(Chars) /\ itoa(item.arg, 10) # << >>
    BY <1>0, <1>1, ItoaIsText
  <2>5. Copied(r, d, size, w, n + Len(Sent(item))) /\ Ended(r.t)
    BY <2>1, <2>3, <2>4, NumberCopied
  <2> QED BY <2>2, <2>3, <2>5 DEF Copied, Converted
<1>2. CASE item.conv = "p" /\ item.arg # 0
  <2>1. Sent(item) = << 0, X >> \o itoa(item.arg, 16)
    BY <1>2, Zenon DEF Sent
  <2>2. PICK s \in Seq(Chars) : s = itoa(item.arg, 16) /\ s # << >>
    BY <1>0, <1>2, ItoaIsText
  <2>3. PICK h \in Seq(Chars) : h = << 0, X >> /\ Len(h) = 2 /\ h # << >>
    <3>1. << 0, X >> \in Seq(Int)
      BY DEF X
    <3>2. PICK h \in Seq(Chars) : h = << 0, X >>
      BY <3>1, IntsAreChars
    <3> QED BY <3>2
  <2>4. Follows(w, n, h) /\ Follows(w, n + 2, s) /\ Len(Sent(item)) = 2 + Len(s)
    <3>1. PICK q \in Seq(Chars) : q = h \o s /\ q = Sent(item)
      BY <1>0, <2>1, <2>2, <2>3
    <3>2. Len(q) = 2 + Len(s)
      BY <2>3, <3>1
    <3>3. ASSUME NEW j \in 1..Len(h) PROVE w[n + j] = h[j]
      <4>1. q[j] = h[j] /\ j \in 1..Len(q)
        BY <2>3, <3>1, <3>2
      <4> QED BY <3>1, <4>1 DEF Follows
    <3>4. ASSUME NEW j \in 1..Len(s) PROVE w[(n + 2) + j] = s[j]
      <4>1. q[2 + j] = s[j] /\ 2 + j \in 1..Len(q) /\ n + (2 + j) = (n + 2) + j
        BY <2>3, <3>1, <3>2
      <4> QED BY <3>1, <4>1 DEF Follows
    <3> QED BY <3>1, <3>2, <3>3, <3>4 DEF Follows
  <2>5. PICK x : x = str_writer(d, h)
    OBVIOUS
  <2>6. PICK i : i = ToBuffer!itoa_to(x.t, item.arg, 16)
    OBVIOUS
  <2>7. ToBuffer!Convert(d, item) = [t |-> i.t, n |-> x.n + i.n]
    <3>1. << 0, ToBuffer!X >> = h
      BY <2>3 DEF X, ToBuffer!X
    <3>2. ToBuffer!Convert(d, item) =
            LET y == str_writer(d, << 0, ToBuffer!X >>)
                j == ToBuffer!itoa_to(y.t, item.arg, 16)
            IN  [t |-> j.t, n |-> y.n + j.n]
      BY <1>2, Zenon DEF ToBuffer!Convert
    <3> QED BY <2>5, <2>6, <3>1, <3>2, Zenon
  <2>8. Copied(x, d, size, w, n + 2)
    <3>1. Copied(str_writer(d, h), d, size, w, n + Len(h))
      BY <2>3, <2>4, BufferCopy
    <3> QED BY <2>3, <2>5, <3>1
  <2>9. Copied(i, x.t, size, w, (n + 2) + Len(s)) /\ Ended(i.t)
    <3>1. Holds(x.t, size, w, n + 2) /\ n + 2 \in Nat
      BY <2>8 DEF Copied
    <3> QED BY <2>2, <2>4, <2>6, <3>1, NumberCopied
  <2>10. PICK r : r = ToBuffer!Convert(d, item)
    OBVIOUS
  <2>11. r.t = i.t /\ r.n = x.n + i.n
    BY <2>7, <2>10
  <2>12. x.n \in Nat /\ i.n \in Nat /\ (x.n = 0 <=> Full(d)) /\ (i.n = 0 <=> Full(x.t))
    BY <2>8, <2>9 DEF Copied
  <2>13. Full(d) => Full(x.t)
    <3>1. Holds(d, size, w, n) /\ Holds(x.t, size, w, n + 2)
      BY <2>8 DEF Copied
    <3> QED BY <3>1 DEF Holds, Targets, Full, Fill
  <2>14. r.n \in Nat /\ (r.n = 0 <=> Full(d))
    BY <2>11, <2>12, <2>13
  <2>15. (n + 2) + Len(s) = n + Len(Sent(item))
    BY <2>2, <2>4
  <2> QED BY <2>9, <2>10, <2>11, <2>14, <2>15 DEF Copied, Converted
<1>3. CASE item.conv = "p" /\ item.arg = 0
  <2>1. Sent(item) = Nil
    BY <1>3, Zenon DEF Sent
  <2>2. ToBuffer!Convert(d, item) = str_writer(d, Nil)
    BY <1>3, Zenon DEF ToBuffer!Convert, Nil, ToBuffer!Nil
  <2> QED BY <1>0, <1>3, <2>1, <2>2, TextConverted
<1>4. CASE item.conv = "b"
  <2>1. Sent(item) = ToBuffer!Bits(item.arg) /\ WIDTH \in Nat \ {0}
    BY <1>4, Zenon, WidthAssumption DEF Sent
  <2>2. PICK r : r = str_writer(d, Sent(item))
    OBVIOUS
  <2>3. ToBuffer!Convert(d, item) = [t |-> r.t, n |-> WIDTH]
    BY <1>4, <2>1, <2>2, Zenon DEF ToBuffer!Convert, ToBuffer!bin
  <2>4. ToBuffer!Convert(d, item).t = r.t /\ ToBuffer!Convert(d, item).n = WIDTH
    BY <2>3
  <2>5. Converted(r, d, size, w, n + Len(Sent(item)), item)
    BY <1>0, <1>4, <2>2, TextConverted
  <2> QED BY <1>4, <2>1, <2>4, <2>5 DEF Converted
<1>5. CASE item.conv \in {"text", "c", "s"}
  <2>1. item.conv # "d" /\ item.conv # "p" /\ item.conv # "b"
    BY <1>5
  <2>2. Sent(item) = item.arg
    BY <2>1, Zenon DEF Sent
  <2>3. ToBuffer!Convert(d, item) = str_writer(d, item.arg)
    BY <1>5, <2>1, Zenon DEF ToBuffer!Convert
  <2> QED BY <1>0, <2>1, <2>2, <2>3, TextConverted
<1> QED BY <1>0, <1>1, <1>2, <1>3, <1>4, <1>5

-----------------------------------------------------------------------------
(* A string is printed to.                                                  *)

BufferItems(size) == [t : Targets(size), wr : Nat, stopped : BOOLEAN]
BufferItemStep(size) ==
  [p \in BufferItems(size) \X Conversions |-> ToBuffer!PutItem(p[1], p[2])]

\* One conversion more, unless the printing has ended.
LEMMA BufferItem ==
  ASSUME NEW size \in Nat \ {0}, NEW acc \in BufferItems(size), NEW item \in Conversions,
         NEW w, NEW n \in Nat, Holds(acc.t, size, w, n), Follows(w, n, Sent(item))
  PROVE  LET r == ToBuffer!Convert(acc.t, item)
             x == ToBuffer!PutItem(acc, item)
         IN  /\ x \in BufferItems(size)
             /\ acc.stopped => x = acc
             /\ ~acc.stopped => /\ x.t = r.t /\ (x.stopped <=> r.n = 0)
                                /\ Converted(r, acc.t, size, w, n + Len(Sent(item)), item)
<1>1. acc.t \in Targets(size) /\ acc.wr \in Nat /\ acc.stopped \in BOOLEAN
  BY DEF BufferItems
<1>2. CASE acc.stopped
  <2>1. ToBuffer!PutItem(acc, item) = acc
    BY <1>2, Zenon DEF ToBuffer!PutItem
  <2> QED BY <1>2, <2>1
<1>3. CASE ~acc.stopped
  <2>1. PICK r : r = ToBuffer!Convert(acc.t, item)
    OBVIOUS
  <2>2. Converted(r, acc.t, size, w, n + Len(Sent(item)), item)
    BY <2>1, BufferConversion
  <2>3. PICK x : x = ToBuffer!PutItem(acc, item)
    OBVIOUS
  <2>4. x = [t |-> r.t, wr |-> acc.wr + r.n, stopped |-> r.n = 0]
    BY <1>3, <2>1, <2>3, Zenon DEF ToBuffer!PutItem
  <2>5. r.t \in Targets(size) /\ r.n \in Nat
    BY <2>2 DEF Converted, Holds
  <2>6. PICK e \in BOOLEAN : e = (r.n = 0)
    OBVIOUS
  <2>7. acc.wr + r.n \in Nat
    BY <1>1, <2>5
  <2>8. x = [t |-> r.t, wr |-> acc.wr + r.n, stopped |-> e]
    BY <2>4, <2>6, Zenon
  <2>9. x \in BufferItems(size) /\ x.t = r.t /\ x.stopped = e
    BY <2>5, <2>7, <2>8 DEF BufferItems
  <2>10. x.stopped <=> r.n = 0
    BY <2>6, <2>9, Zenon
  <2> QED BY <1>3, <2>1, <2>2, <2>3, <2>9, <2>10
<1> QED BY <1>2, <1>3

LEMMA BufferItemTypes ==
  ASSUME NEW size \in Nat \ {0}
  PROVE  /\ BufferItemStep(size) \in [BufferItems(size) \X Conversions -> BufferItems(size)]
         /\ \A a \in BufferItems(size), c \in Conversions :
              BufferItemStep(size)[<< a, c >>] = ToBuffer!PutItem(a, c)
<1>1. ASSUME NEW a \in BufferItems(size), NEW c \in Conversions
      PROVE  ToBuffer!PutItem(a, c) \in BufferItems(size)
  <2>1. a.t \in Targets(size)
    BY DEF BufferItems
  <2>2. Sent(c) \in Seq(Chars)
    BY SentIsText
  <2>3. PICK w : Holds(a.t, size, w, a.t.wrote) /\ Follows(w, a.t.wrote, Sent(c))
    BY <2>1, <2>2, HeldFor
  <2>4. PICK n \in Nat : n = a.t.wrote
    BY <2>1 DEF Targets
  <2> QED BY <2>3, <2>4, BufferItem
<1>2. \A p \in BufferItems(size) \X Conversions :
        ToBuffer!PutItem(p[1], p[2]) \in BufferItems(size)
  BY <1>1
<1>3. BufferItemStep(size) \in [BufferItems(size) \X Conversions -> BufferItems(size)]
  BY <1>2 DEF BufferItemStep
<1>4. \A a \in BufferItems(size), c \in Conversions :
        BufferItemStep(size)[<< a, c >>] = ToBuffer!PutItem(a, c)
  BY DEF BufferItemStep
<1> QED BY <1>3, <1>4

\* The target at the start, and the states that the printing of f passes through.
Start(size) ==
  [t |-> [str |-> [k \in 0..(size - 1) |-> GARBAGE], size |-> size, wrote |-> 0],
   wr |-> 0, stopped |-> FALSE]

PrintRuns(size, f) == Runs(BufferItems(size), f, Start(size), BufferItemStep(size))

Prints(size, f) ==
  pandos_snprintf([k \in 0..(size - 1) |-> GARBAGE], size, f)

LEMMA PrintRun ==
  ASSUME NEW size \in Nat \ {0}, NEW f \in Seq(Conversions)
  PROVE  /\ Start(size) \in BufferItems(size)
         /\ \E x \in PrintRuns(size, f) : Prints(size, f) = ToBuffer!WithEnd(x[Len(f)])
<1>1. PICK z : z = Start(size)
  OBVIOUS
<1>2. z \in BufferItems(size)
  <2>1. PICK u \in [0..(size - 1) -> Chars] : u = [k \in 0..(size - 1) |-> GARBAGE]
    BY IntsAreChars
  <2>2. PICK d : d = [str |-> u, size |-> size, wrote |-> 0]
    OBVIOUS
  <2>3. d \in Targets(size)
    BY <2>2 DEF Targets
  <2>4. z = [t |-> d, wr |-> 0, stopped |-> FALSE]
    BY <1>1, <2>1, <2>2, Zenon DEF Start
  <2> QED BY <2>3, <2>4 DEF BufferItems
<1>3. PICK A : A = BufferItems(size)
  OBVIOUS
<1>4. PICK g : g = BufferItemStep(size)
  OBVIOUS
<1>5. /\ g \in [A \X Conversions -> A]
      /\ \A a \in A, c \in Conversions : g[<< a, c >>] = ToBuffer!PutItem(a, c)
  BY <1>3, <1>4, BufferItemTypes
<1>6. EndsRun(ToBuffer!FoldLeft(ToBuffer!PutItem, z, f), A, f, z, g)
  BY <1>2, <1>3, <1>5, Fold_BufferItem
<1>7. PICK all : all = ToBuffer!FoldLeft(ToBuffer!PutItem, z, f)
  OBVIOUS
<1>8. EndsRun(all, A, f, z, g)
  BY <1>6, <1>7, Zenon
<1>9. PICK x \in Runs(A, f, z, g) : all = x[Len(f)]
  BY <1>8 DEF EndsRun
<1>10. x \in PrintRuns(size, f)
  BY <1>1, <1>3, <1>4, <1>9, Zenon DEF PrintRuns
<1>11. Prints(size, f) = ToBuffer!WithEnd(all)
  BY <1>1, <1>7, Zenon DEF Prints, pandos_snprintf, ToBuffer!pandos_printf, Start
<1> QED BY <1>1, <1>2, <1>9, <1>10, <1>11

\* A target is one at every moment and at the end.
LEMMA PrintsInside ==
  ASSUME NEW size \in Nat \ {0}, NEW f \in Seq(Conversions)
  PROVE  Prints(size, f).t \in Targets(size)
<1>1. PICK x \in PrintRuns(size, f) : Prints(size, f) = ToBuffer!WithEnd(x[Len(f)])
  BY PrintRun
<1>2. PICK all \in BufferItems(size) : all = x[Len(f)]
  BY <1>1 DEF PrintRuns, Runs
<1>3. all.t \in Targets(size)
  BY DEF BufferItems
<1>4. CASE ~all.stopped
  BY <1>1, <1>2, <1>3, <1>4 DEF ToBuffer!WithEnd
<1>5. CASE all.stopped
  <2>1. PICK e : e = str_writer(all.t, << >>)
    OBVIOUS
  <2>2. << >> \in Seq(Chars)
    OBVIOUS
  <2>3. PICK w : Holds(all.t, size, w, all.t.wrote)
    BY <1>3, <2>2, HeldFor
  <2>4. all.t.wrote \in Nat
    BY <1>3 DEF Targets
  <2>5. Holds(e.t, size, w, all.t.wrote)
    BY <2>1, <2>3, <2>4, BufferEnd
  <2>6. e.t \in Targets(size)
    BY <2>5 DEF Holds
  <2>7. ToBuffer!WithEnd(all) = [t |-> e.t, wr |-> all.wr + e.n, stopped |-> TRUE]
    BY <1>5, <2>1, Zenon DEF ToBuffer!WithEnd
  <2>8. ToBuffer!WithEnd(all).t = e.t
    BY <2>7
  <2> QED BY <1>1, <1>2, <2>6, <2>8
<1> QED BY <1>4, <1>5

\* Before each conversion of a regular format the buffer holds the text so far,
\* and the printing has only ended if that fills it.
SoFar(a, size, text) ==
  Holds(a.t, size, text, Len(text)) /\ (a.stopped => Full(a.t))

\* Text that is followed by more.
LEMMA HoldsMore ==
  ASSUME NEW size, NEW d, NEW p \in Seq(Int), NEW s \in Seq(Int), Holds(d, size, p, Len(p)),
         size \in Nat \ {0}
  PROVE  /\ Holds(d, size, p \o s, Len(p)) /\ Follows(p \o s, Len(p), s)
         /\ Len(p \o s) = Len(p) + Len(s) /\ p \o s \in Seq(Int)
<1>1. PICK q \in Seq(Int) : q = p \o s
  <2>1. p \o s \in Seq(Int)
    OBVIOUS
  <2> QED BY <2>1, Zenon
<1>2. Len(q) = Len(p) + Len(s)
  BY <1>1
<1>3. d.wrote \in Nat /\ d.wrote <= Len(p)
  <2>1. Len(p) \in Nat
    OBVIOUS
  <2> QED BY <2>1 DEF Holds, Targets, Fill
<1>4. ASSUME NEW k \in 1..Len(p) PROVE q[k] = p[k]
  BY <1>1
<1>5. ASSUME NEW k \in 1..d.wrote PROVE d.str[k - 1] = q[k]
  <2>1. k \in 1..Len(p)
    BY <1>3
  <2> QED BY <1>4, <2>1 DEF Holds
<1>6. Holds(d, size, q, Len(p))
  BY <1>5 DEF Holds
<1>7. ASSUME NEW j \in 1..Len(s) PROVE q[Len(p) + j] = s[j]
  <2>1. PICK m \in Nat, l \in Nat : m = Len(p) /\ l = Len(s)
    OBVIOUS
  <2>2. j \in 1..l
    BY <2>1
  <2>3. PICK i \in 1..(m + l) : i = m + j /\ i > m /\ i - m = j
    BY <2>2
  <2>4. q[i] = s[i - m]
    BY <1>1, <2>1, <2>3
  <2> QED BY <2>1, <2>3, <2>4, Zenon
<1>8. Follows(q, Len(p), s)
  BY <1>7 DEF Follows
<1> QED BY <1>1, <1>2, <1>6, <1>8

\* One conversion of a regular format more.
LEMMA RegularItem ==
  ASSUME NEW size \in Nat \ {0}, NEW a \in BufferItems(size), NEW item \in RegularItems,
         NEW text \in Seq(Int), SoFar(a, size, text)
  PROVE  LET r == ToBuffer!Convert(a.t, item)
             x == ToBuffer!PutItem(a, item)
         IN  /\ SoFar(x, size, text \o Sent(item))
             /\ a.stopped => x = a
             /\ ~a.stopped => /\ x.t = r.t /\ (x.stopped <=> r.n = 0)
                              /\ Converted(r, a.t, size, text \o Sent(item),
                                           Len(text) + Len(Sent(item)), item)
<1>1. item \in Conversions
  BY DEF RegularItems
<1>2. PICK s \in Seq(Int) : s = Sent(item) /\ Len(s) > 0
  BY SentIsExpand
<1>3. Holds(a.t, size, text, Len(text)) /\ Len(text) \in Nat
  BY DEF SoFar
<1>4. PICK q : q = text \o s
  OBVIOUS
<1>5. /\ Holds(a.t, size, q, Len(text)) /\ Follows(q, Len(text), s)
      /\ Len(q) = Len(text) + Len(s) /\ q \in Seq(Int)
  <2>1. PICK d : d = a.t /\ Holds(d, size, text, Len(text))
    BY <1>3
  <2>2. /\ Holds(d, size, text \o s, Len(text)) /\ Follows(text \o s, Len(text), s)
        /\ Len(text \o s) = Len(text) + Len(s) /\ text \o s \in Seq(Int)
    BY <2>1, HoldsMore
  <2> QED BY <1>4, <2>1, <2>2, Zenon
<1>6. PICK r : r = ToBuffer!Convert(a.t, item)
  OBVIOUS
<1>7. PICK x : x = ToBuffer!PutItem(a, item)
  OBVIOUS
<1>8. /\ a.stopped => x = a
      /\ ~a.stopped => /\ x.t = r.t /\ (x.stopped <=> r.n = 0)
                       /\ Converted(r, a.t, size, q, Len(text) + Len(s), item)
  <2>1. Follows(q, Len(text), Sent(item))
    BY <1>2, <1>5
  <2>2. PICK m \in Nat : m = Len(text) /\ Holds(a.t, size, q, m) /\ Follows(q, m, Sent(item))
    BY <1>3, <1>5, <2>1
  <2>3. /\ a.stopped => ToBuffer!PutItem(a, item) = a
        /\ ~a.stopped => /\ ToBuffer!PutItem(a, item).t = ToBuffer!Convert(a.t, item).t
                         /\ (ToBuffer!PutItem(a, item).stopped <=> ToBuffer!Convert(a.t, item).n = 0)
                         /\ Converted(ToBuffer!Convert(a.t, item), a.t, size, q,
                                      m + Len(Sent(item)), item)
    BY <1>1, <2>2, BufferItem
  <2> QED BY <1>2, <1>6, <1>7, <2>2, <2>3, Zenon
<1>9. CASE a.stopped
  <2>1. Full(a.t)
    BY <1>9 DEF SoFar
  <2>2. Len(s) \in Nat
    OBVIOUS
  <2>3. Holds(a.t, size, q, Len(text) + Len(s))
    BY <1>3, <1>5, <2>1, <2>2, FullHolds
  <2>4. SoFar(x, size, q)
    BY <1>5, <1>8, <1>9, <2>1, <2>3 DEF SoFar
  <2> QED BY <1>2, <1>4, <1>6, <1>7, <1>8, <1>9, <2>4
<1>10. CASE ~a.stopped
  <2>1. Converted(r, a.t, size, q, Len(text) + Len(s), item) /\ x.t = r.t
        /\ (x.stopped <=> r.n = 0)
    BY <1>8, <1>10
  <2>2. Sent(item) # << >>
    BY <1>2
  <2>3. Holds(r.t, size, q, Len(text) + Len(s)) /\ (r.n = 0 => Full(a.t))
    BY <2>1, <2>2 DEF Converted
  <2>4. ASSUME Full(a.t) PROVE Full(r.t)
    <3>1. PICK m \in Nat, l \in Nat : m = Len(text) /\ l = Len(s)
      BY <1>3
    <3>2. a.t.wrote = Fill(m, size) /\ a.t.size = size
      BY <1>3, <3>1 DEF Holds, Targets
    <3>3. r.t.wrote = Fill(m + l, size) /\ r.t.size = size
      BY <2>3, <3>1 DEF Holds, Targets
    <3>4. Fill(m, size) = size - 1 => Fill(m + l, size) = size - 1
      BY DEF Fill
    <3> QED BY <2>4, <3>2, <3>3, <3>4 DEF Full
  <2>5. SoFar(x, size, q)
    BY <1>5, <2>1, <2>3, <2>4 DEF SoFar
  <2> QED BY <1>2, <1>4, <1>6, <1>7, <1>8, <1>10, <2>5
<1> QED BY <1>9, <1>10

\* The states of the printing of a regular format, and its texts.
LEMMA RegularRun ==
  ASSUME NEW size \in Nat \ {0}, NEW f \in Seq(RegularItems), f \in Seq(Conversions),
         NEW x \in PrintRuns(size, f), NEW P \in Joins(Int, Pieces(f))
  PROVE  /\ \A k \in 0..Len(f) : /\ x[k] \in BufferItems(size) /\ P[k] \in Seq(Int)
                                 /\ SoFar(x[k], size, P[k])
         /\ \A k \in 0..(Len(f) - 1) : /\ f[k + 1] \in RegularItems
                                       /\ x[k + 1] = ToBuffer!PutItem(x[k], f[k + 1])
                                       /\ P[k + 1] = P[k] \o Sent(f[k + 1])
<1>0. PICK n \in Nat : n = Len(f)
  OBVIOUS
<1>1. PICK g : g = BufferItemStep(size)
  OBVIOUS
<1>2. /\ x \in [0..n -> BufferItems(size)] /\ x[0] = Start(size)
      /\ \A k \in 0..(n - 1) : x[k + 1] = g[<< x[k], f[k + 1] >>]
  BY <1>0, <1>1 DEF PrintRuns, Runs
<1>3. /\ P \in [0..n -> Seq(Int)] /\ P[0] = << >>
      /\ \A k \in 0..(n - 1) : P[k + 1] = P[k] \o Pieces(f)[k + 1]
  <2>1. Len(Pieces(f)) = n
    BY <1>0, PiecesAreText
  <2> QED BY <2>1 DEF Joins
<1>4. ASSUME NEW k \in 0..(n - 1)
      PROVE  /\ f[k + 1] \in RegularItems /\ x[k] \in BufferItems(size) /\ P[k] \in Seq(Int)
             /\ x[k + 1] = ToBuffer!PutItem(x[k], f[k + 1])
             /\ P[k + 1] = P[k] \o Sent(f[k + 1])
  <2>1. k \in 0..n /\ k + 1 \in 1..Len(f)
    BY <1>0
  <2>2. f[k + 1] \in RegularItems /\ f[k + 1] \in Conversions
    BY <2>1
  <2>3. x[k] \in BufferItems(size) /\ P[k] \in Seq(Int)
    BY <1>2, <1>3, <2>1
  <2>4. x[k + 1] = ToBuffer!PutItem(x[k], f[k + 1])
    BY <1>1, <1>2, <2>2, <2>3, BufferItemTypes
  <2>5. Pieces(f)[k + 1] = Sent(f[k + 1])
    BY <2>1, PiecesAreText
  <2> QED BY <1>3, <2>2, <2>3, <2>4, <2>5
<1> DEFINE S == {k \in Nat : k \in 0..n => SoFar(x[k], size, P[k])}
<1>5. 0 \in S
  <2>1. PICK z \in BufferItems(size) : z = x[0] /\ z = Start(size)
    BY <1>2, PrintRun
  <2>2. z.t \in Targets(size)
    BY DEF BufferItems
  <2>3. z.t.wrote = 0 /\ z.stopped = FALSE
    BY <2>1 DEF Start
  <2>4. Len(<< >>) = 0 /\ Fill(0, size) = 0
    BY DEF Fill
  <2>5. Holds(z.t, size, << >>, 0)
    BY <2>2, <2>3, <2>4 DEF Holds
  <2>6. SoFar(z, size, << >>)
    BY <2>3, <2>4, <2>5 DEF SoFar
  <2> QED BY <1>3, <2>1, <2>6
<1>6. ASSUME NEW k \in Nat, k \in S PROVE k + 1 \in S
  <2>1. CASE k + 1 \in 0..n
    <3>1. k \in 0..(n - 1) /\ k \in 0..n
      BY <2>1
    <3>2. SoFar(x[k], size, P[k])
      BY <1>6, <3>1
    <3>3. SoFar(ToBuffer!PutItem(x[k], f[k + 1]), size, P[k] \o Sent(f[k + 1]))
      BY <1>4, <3>1, <3>2, RegularItem
    <3>4. SoFar(x[k + 1], size, P[k + 1])
      BY <1>4, <3>1, <3>3
    <3> QED BY <3>4
  <2>2. CASE k + 1 \notin 0..n
    BY <2>2
  <2> QED BY <2>1, <2>2
<1> HIDE DEF S
<1>7. Nat \subseteq S
  BY <1>5, <1>6, SetInduction
<1>8. \A k \in 0..n : SoFar(x[k], size, P[k])
  BY <1>7 DEF S
<1> QED BY <1>0, <1>2, <1>3, <1>4, <1>8

\* The end of the printing of a regular format.
LEMMA RegularEnd ==
  ASSUME NEW size \in Nat \ {0}, NEW all, NEW text \in Seq(Int), SoFar(all, size, text)
  PROVE  /\ Holds(ToBuffer!WithEnd(all).t, size, text, Len(text))
         /\ all.stopped => Ended(ToBuffer!WithEnd(all).t)
         /\ ~all.stopped => ToBuffer!WithEnd(all) = all
<1>1. CASE ~all.stopped
  BY <1>1 DEF ToBuffer!WithEnd, SoFar
<1>2. CASE all.stopped
  <2>1. PICK e : e = str_writer(all.t, << >>)
    OBVIOUS
  <2>2. Holds(all.t, size, text, Len(text)) /\ Full(all.t) /\ Len(text) \in Nat
    BY <1>2 DEF SoFar
  <2>3. Holds(e.t, size, text, Len(text)) /\ Ended(e.t)
    BY <2>1, <2>2, BufferEnd
  <2>4. ToBuffer!WithEnd(all) = [t |-> e.t, wr |-> all.wr + e.n, stopped |-> TRUE]
    BY <1>2, <2>1, Zenon DEF ToBuffer!WithEnd
  <2>5. ToBuffer!WithEnd(all).t = e.t
    BY <2>4
  <2> QED BY <1>2, <2>3, <2>5
<1> QED BY <1>1, <1>2

LEMMA ExpansionJoined ==
  ASSUME NEW f \in Seq(RegularItems)
  PROVE  \E P \in Joins(Int, Pieces(f)) : Expansion(f) = P[Len(f)]
<1>1. PICK s \in Seq(Seq(Int)) : s = Pieces(f) /\ Len(s) = Len(f) /\ Expansion(f) = FlattenSeq(s)
  BY PiecesAreText
<1>2. PICK P \in Joins(Int, s) : FlattenSeq(s) = P[Len(s)]
  BY Flattened
<1> QED BY <1>1, <1>2, Zenon

LEMMA RegularPrinted ==
  ASSUME NEW size \in Nat \ {0}, NEW f \in Seq(RegularItems), f \in Seq(Conversions)
  PROVE  Expansion(f) \in Seq(Int) /\ Holds(Prints(size, f).t, size, Expansion(f), Len(Expansion(f)))
<1>1. PICK x \in PrintRuns(size, f) : Prints(size, f) = ToBuffer!WithEnd(x[Len(f)])
  BY PrintRun
<1>2. PICK P \in Joins(Int, Pieces(f)) : Expansion(f) = P[Len(f)]
  BY ExpansionJoined
<1>3. Len(f) \in 0..Len(f)
  OBVIOUS
<1>4. P[Len(f)] \in Seq(Int) /\ SoFar(x[Len(f)], size, P[Len(f)])
  BY <1>3, RegularRun
<1> QED BY <1>1, <1>2, <1>4, RegularEnd

\* The text of a buffer that holds a text is the part of it that fits.
LEMMA HeldText ==
  ASSUME NEW size \in Nat \ {0}, NEW t, NEW text \in Seq(Int), Holds(t, size, text, Len(text))
  PROVE  Text(t) = SubSeq(text, 1, Min({size - 1, Len(text)}))
<1>1. PICK l \in Nat : l = Len(text)
  OBVIOUS
<1>2. PICK m \in Nat : m = Min({size - 1, l}) /\ m = Fill(l, size) /\ m <= l
  <2>1. Min({size - 1, l}) = IF size - 1 <= l THEN size - 1 ELSE l
    BY Lesser
  <2> QED BY <2>1 DEF Fill
<1>3. t.wrote = m
  BY <1>1, <1>2 DEF Holds
<1>4. Text(t) = [k \in 1..m |-> t.str[k - 1]]
  BY <1>3 DEF Text
<1>5. \A k \in 1..m : t.str[k - 1] = text[k]
  BY <1>3 DEF Holds
<1>6. SubSeq(text, 1, m) = [k \in 1..m |-> text[k]]
  BY <1>1, <1>2
<1> QED BY <1>1, <1>2, <1>4, <1>5, <1>6

\* The text before the last conversion.
LEMMA FrontText ==
  ASSUME NEW f \in Seq(RegularItems), f # << >>, NEW P \in Joins(Int, Pieces(f))
  PROVE  Expansion(Front(f)) = P[Len(f) - 1]
<1>1. PICK n \in Nat : n + 1 = Len(f) /\ Len(f) - 1 = n
  <2>1. Len(f) \in Nat \ {0}
    OBVIOUS
  <2>2. Len(f) - 1 \in Nat /\ (Len(f) - 1) + 1 = Len(f)
    BY <2>1
  <2> QED BY <2>2
<1>2. PICK h : h = Front(f)
  OBVIOUS
<1>3. h = [k \in 1..n |-> f[k]]
  BY <1>1, <1>2 DEF Front
<1>4. h \in Seq(RegularItems) /\ Len(h) = n /\ \A k \in 1..n : h[k] = f[k]
  <2>1. h \in [1..n -> RegularItems]
    BY <1>1, <1>3
  <2> QED BY <1>3, <2>1
<1>5. PICK r \in Seq(Seq(Int)) : r = Pieces(h) /\ Len(r) = n /\ Expansion(h) = FlattenSeq(r)
                                 /\ \A k \in 1..n : r[k] = Sent(h[k])
  BY <1>4, PiecesAreText
<1>6. PICK s \in Seq(Seq(Int)) : s = Pieces(f) /\ Len(s) = n + 1
                                 /\ \A k \in 1..(n + 1) : s[k] = Sent(f[k])
  BY <1>1, PiecesAreText
<1>7. PICK Q \in Joins(Int, r) : Expansion(h) = Q[n]
  BY <1>4, <1>5, ExpansionJoined
<1>8. ASSUME NEW k \in 1..n PROVE r[k] = s[k]
  <2>1. k \in 1..(n + 1)
    OBVIOUS
  <2> QED BY <1>4, <1>5, <1>6, <2>1
<1>9. P[n] = Q[n]
  <2>0. P \in Joins(Int, s) /\ Len(r) <= Len(s) /\ \A k \in 1..Len(r) : r[k] = s[k]
    BY <1>5, <1>6, <1>8
  <2>1. \A k \in 0..Len(r) : P[k] = Q[k]
    <3>1. PICK R \in Joins(Int, s) : R = P
      BY <2>0
    <3>2. \A k \in 1..Len(r) : r[k] = s[k]
      BY <2>0, Zenon
    <3>3. Len(r) <= Len(s)
      BY <2>0, Zenon
    <3>4. \A k \in 0..Len(r) : R[k] = Q[k]
      BY <3>2, <3>3, JoinsAgree, ZenonT(40)
    <3> QED BY <3>1, <3>4, Zenon
  <2>2. n \in 0..Len(r)
    BY <1>5
  <2> QED BY <2>1, <2>2, Zenon
<1> QED BY <1>1, <1>2, <1>7, <1>9, Zenon

\* Where the text of a regular format ends in a NUL.
LEMMA RegularEnded ==
  ASSUME NEW size \in Nat \ {0}, NEW f \in Seq(RegularItems), f \in Seq(Conversions), f # << >>,
         \/ Len(Expansion(f)) < size - 1
         \/ Last(f).conv = "d"
         \/ Last(f).conv = "p" /\ Last(f).arg # 0
         \/ Last(f).conv # "b" /\ Len(Expansion(Front(f))) >= size - 1
  PROVE  Ended(Prints(size, f).t)
<1>1. PICK x \in PrintRuns(size, f) : Prints(size, f) = ToBuffer!WithEnd(x[Len(f)])
  BY PrintRun
<1>2. PICK P \in Joins(Int, Pieces(f)) : Expansion(f) = P[Len(f)]
  BY ExpansionJoined
<1>3. PICK n \in Nat : n + 1 = Len(f) /\ Len(f) - 1 = n
  <2>1. Len(f) \in Nat \ {0}
    OBVIOUS
  <2>2. Len(f) - 1 \in Nat /\ (Len(f) - 1) + 1 = Len(f)
    BY <2>1
  <2> QED BY <2>2
<1>4. n \in 0..Len(f) /\ n + 1 \in 0..Len(f) /\ n \in 0..(Len(f) - 1)
  BY <1>3
<1>5. /\ x[n] \in BufferItems(size) /\ P[n] \in Seq(Int) /\ SoFar(x[n], size, P[n])
      /\ P[n + 1] \in Seq(Int) /\ SoFar(x[n + 1], size, P[n + 1])
      /\ f[n + 1] \in RegularItems /\ x[n + 1] = ToBuffer!PutItem(x[n], f[n + 1])
      /\ P[n + 1] = P[n] \o Sent(f[n + 1])
  <2>1. \A k \in 0..Len(f) : /\ x[k] \in BufferItems(size) /\ P[k] \in Seq(Int)
                             /\ SoFar(x[k], size, P[k])
    BY RegularRun
  <2>2. \A k \in 0..(Len(f) - 1) : /\ f[k + 1] \in RegularItems
                                   /\ x[k + 1] = ToBuffer!PutItem(x[k], f[k + 1])
                                   /\ P[k + 1] = P[k] \o Sent(f[k + 1])
    BY RegularRun
  <2> QED BY <1>4, <2>1, <2>2, Zenon
<1>6. PICK last \in RegularItems : last = f[n + 1] /\ last = Last(f)
  BY <1>3, <1>5 DEF Last
<1>7. PICK a \in BufferItems(size) : a = x[n]
  BY <1>5
<1>8. PICK all : all = x[n + 1]
  OBVIOUS
<1>9. PICK p \in Seq(Int) : p = P[n] /\ p = Expansion(Front(f))
  BY <1>2, <1>3, <1>5, FrontText
<1>10. PICK q \in Seq(Int) : q = P[n + 1] /\ q = Expansion(f) /\ q = p \o Sent(last)
  BY <1>2, <1>3, <1>5, <1>6, <1>9
<1>11. PICK r : r = ToBuffer!Convert(a.t, last)
  OBVIOUS
<1>12. SoFar(a, size, p) /\ SoFar(all, size, q) /\ all = ToBuffer!PutItem(a, last)
  BY <1>3, <1>5, <1>6, <1>7, <1>8, <1>9, <1>10
<1>end. Prints(size, f) = ToBuffer!WithEnd(all)
  BY <1>1, <1>3, <1>8
<1>13. /\ a.stopped => all = a
       /\ ~a.stopped => /\ all.t = r.t /\ (all.stopped <=> r.n = 0)
                        /\ Converted(r, a.t, size, q, Len(p) + Len(Sent(last)), last)
  <2>1. SoFar(a, size, p)
    BY <1>12
  <2>2. /\ a.stopped => ToBuffer!PutItem(a, last) = a
        /\ ~a.stopped =>
             /\ ToBuffer!PutItem(a, last).t = ToBuffer!Convert(a.t, last).t
             /\ ToBuffer!PutItem(a, last).stopped <=> ToBuffer!Convert(a.t, last).n = 0
             /\ Converted(ToBuffer!Convert(a.t, last), a.t, size, p \o Sent(last),
                          Len(p) + Len(Sent(last)), last)
    BY <2>1, RegularItem
  <2>3. q = p \o Sent(last)
    BY <1>10
  <2>4. all = ToBuffer!PutItem(a, last)
    BY <1>12
  <2>5. CASE a.stopped
    BY <2>2, <2>4, <2>5, Zenon
  <2>6. CASE ~a.stopped
    <3>1. all.t = r.t
      BY <1>11, <2>2, <2>4, <2>6, Zenon
    <3>2. all.stopped <=> r.n = 0
      BY <1>11, <2>2, <2>4, <2>6, Zenon
    <3>3. Converted(r, a.t, size, q, Len(p) + Len(Sent(last)), last)
      BY <1>11, <2>2, <2>3, <2>6, Zenon
    <3> QED BY <2>6, <3>1, <3>2, <3>3, Zenon
  <2> QED BY <2>5, <2>6, Zenon
<1>14. CASE all.stopped
  BY <1>12, <1>14, <1>end, RegularEnd
<1>15. CASE ~all.stopped
  <2>1. ~a.stopped /\ all.t = r.t /\ r.n # 0
        /\ Converted(r, a.t, size, q, Len(p) + Len(Sent(last)), last)
    BY <1>13, <1>15
  <2>2. Sent(last) # << >>
    <3>1. PICK s \in Seq(Int) : s = Sent(last) /\ Len(s) > 0
      BY SentIsExpand
    <3> QED BY <3>1
  <2>3. /\ last.conv # "b" /\ Full(a.t) => r.n = 0
        /\ ~Full(r.t) => Ended(r.t)
        /\ last.conv = "d" \/ (last.conv = "p" /\ last.arg # 0) => Ended(r.t)
    BY <2>1, <2>2 DEF Converted
  <2>4. Prints(size, f).t = r.t
    <3>1. ToBuffer!WithEnd(all) = all
      BY <1>12, <1>15, RegularEnd
    <3> QED BY <1>end, <2>1, <3>1
  <2>5. CASE Len(q) < size - 1
    <3>1. Holds(r.t, size, q, Len(q)) /\ Len(q) \in Nat
      BY <1>12, <2>1 DEF SoFar
    <3>2. ~Full(r.t)
      BY <2>5, <3>1 DEF Holds, Targets, Full, Fill
    <3> QED BY <2>3, <2>4, <3>2
  <2>6. CASE last.conv = "d" \/ (last.conv = "p" /\ last.arg # 0)
    BY <2>3, <2>4, <2>6
  <2>7. CASE last.conv # "b" /\ Len(p) >= size - 1
    <3>1. Holds(a.t, size, p, Len(p)) /\ Len(p) \in Nat
      BY <1>12 DEF SoFar
    <3>2. Full(a.t)
      BY <2>7, <3>1 DEF Holds, Targets, Full, Fill
    <3> QED BY <2>1, <2>3, <2>7, <3>2
  <2> QED BY <1>6, <1>9, <1>10, <2>5, <2>6, <2>7
<1> QED BY <1>14, <1>15

-----------------------------------------------------------------------------
(* The formats of the specification.                                        *)

FormatInv == fmt \in Seq(Conversions)

LEMMA ItemsAreConversions == Items \cup Numbers \subseteq Conversions
<1>1. {0, 7, -12, 18, -3} \subseteq Ints
  BY Words DEF Ints
<1>2. << 50 >> \in Seq(Int) /\ << >> \in Seq(Int) /\ << 51, 52 >> \in Seq(Int)
  OBVIOUS
<1>3. ASSUME NEW item \in Items PROVE item \in Conversions
  <2>1. \/ item = [conv |-> "text", arg |-> << 50 >>]
        \/ item = [conv |-> "s", arg |-> << >>]
        \/ item = [conv |-> "s", arg |-> << 51, 52 >>]
        \/ item \in [conv : {"d"}, arg : {0, 7, -12}]
        \/ item \in [conv : {"p"}, arg : {0, 18}]
        \/ item \in [conv : {"b"}, arg : {-3}]
    BY Zenon DEF Items
  <2>2. CASE item = [conv |-> "text", arg |-> << 50 >>]
    BY <1>2, <2>2 DEF Conversions
  <2>3. CASE item = [conv |-> "s", arg |-> << >>]
    BY <1>2, <2>3 DEF Conversions
  <2>4. CASE item = [conv |-> "s", arg |-> << 51, 52 >>]
    BY <1>2, <2>4 DEF Conversions
  <2>5. CASE item \in [conv : {"d"}, arg : {0, 7, -12}]
    BY <1>1, <2>5 DEF Conversions
  <2>6. CASE item \in [conv : {"p"}, arg : {0, 18}]
    BY <1>1, <2>6 DEF Conversions
  <2>7. CASE item \in [conv : {"b"}, arg : {-3}]
    BY <1>1, <2>7 DEF Conversions
  <2> QED BY <2>1, <2>2, <2>3, <2>4, <2>5, <2>6, <2>7, Zenon
<1>4. ASSUME NEW item \in Numbers PROVE item \in Conversions
  BY DEF Numbers, Conversions
<1> QED BY <1>3, <1>4

LEMMA FormatKept == FormatInv /\ [Next]_vars => FormatInv'
<1> SUFFICES ASSUME FormatInv, [Next]_vars PROVE FormatInv'
  OBVIOUS
<1>1. CASE Grow
  <2>1. PICK item \in Conversions : fmt' = Append(fmt, item)
    BY <1>1, ItemsAreConversions DEF Grow
  <2> QED BY <2>1 DEF FormatInv
<1>2. CASE Log
  BY <1>2 DEF Log, FormatInv
<1>3. CASE Clear
  BY <1>3 DEF Clear, FormatInv
<1>4. CASE Complete
  BY <1>4 DEF Complete, vars, FormatInv
<1>5. CASE UNCHANGED vars
  BY <1>5 DEF vars, FormatInv
<1> QED BY <1>1, <1>2, <1>3, <1>4, <1>5 DEF Next

LEMMA FormatsTyped == Spec => []FormatInv
<1>1. Init => FormatInv
  BY DEF Init, FormatInv
<1> QED BY <1>1, FormatKept, PTL DEF Spec

LEMMA RegularFormat ==
  ASSUME FormatInv, Regular
  PROVE  fmt \in Seq(RegularItems)
<1>1. PICK n \in Nat : n = Len(fmt) /\ DOMAIN fmt = 1..n
  BY DEF FormatInv
<1>2. ASSUME NEW k \in 1..n PROVE fmt[k] \in RegularItems
  BY <1>1 DEF FormatInv, Regular, RegularItems
<1>3. fmt \in [1..n -> RegularItems]
  BY <1>1, <1>2 DEF FormatInv
<1> QED BY <1>3

LEMMA Sizes ==
  ASSUME NEW size \in 1..MAXSIZE
  PROVE  size \in Nat \ {0} /\ Printed(size) = Prints(size, fmt)
<1>1. Printed(size) = Prints(size, fmt)
  BY Zenon DEF Printed, Prints
<1> QED BY <1>1, BoundsAssumption

\* Whatever the format, and the size of the buffer if it is at least one
\* character, pandos_snprintf stores nothing outside it, the ending NULs of __itoa
\* and of a cut output included (str_writer).
THEOREM BufferKept == Spec => []InBuffer
<1>1. FormatInv => InBuffer
  <2> SUFFICES ASSUME FormatInv, NEW size \in 1..MAXSIZE
               PROVE  DOMAIN Printed(size).t.str = 0..(size - 1)
    BY DEF InBuffer
  <2>1. Prints(size, fmt).t \in Targets(size)
    BY Sizes, PrintsInside DEF FormatInv
  <2> QED BY <2>1, Sizes DEF Targets
<1> QED BY <1>1, FormatsTyped, PTL

\* pandos_snprintf prints what its format stands for as far as it fits, for every
\* width of an int and every size of the buffer of at least one character
\* (__pandos_printf, __itoa, pandos_pow, str_writer).
THEOREM FormatsPrinted == Spec => []PrintsWhatFits
<1>1. FormatInv => PrintsWhatFits
  <2> SUFFICES ASSUME FormatInv, Regular, NEW size \in 1..MAXSIZE
               PROVE  Text(Printed(size).t)
                        = SubSeq(Expansion(fmt), 1, Min({size - 1, Len(Expansion(fmt))}))
    BY DEF PrintsWhatFits
  <2>1. PICK t : t = Printed(size).t /\ t = Prints(size, fmt).t
    BY Sizes
  <2>2. PICK text : text = Expansion(fmt)
    OBVIOUS
  <2>3. text \in Seq(Int) /\ Holds(t, size, text, Len(text))
    BY <2>1, <2>2, Sizes, RegularFormat, RegularPrinted DEF FormatInv
  <2>4. Text(t) = SubSeq(text, 1, Min({size - 1, Len(text)}))
    BY <2>3, Sizes, HeldText
  <2> QED BY <2>1, <2>2, <2>4
<1> QED BY <1>1, FormatsTyped, PTL

\* The text in a buffer of at least one character ends in a NUL when it is shorter
\* than the buffer, when its last conversion is a number, and when that conversion,
\* if not %b, finds the buffer full (__pandos_printf, __itoa, str_writer).
THEOREM StringsEnded == Spec => []TextTerminated
<1>1. FormatInv => TextTerminated
  <2> SUFFICES ASSUME FormatInv, fmt # << >>, Regular, NEW size \in 1..MAXSIZE,
                      \/ Len(Expansion(fmt)) < size - 1
                      \/ Last(fmt).conv = "d"
                      \/ Last(fmt).conv = "p" /\ Last(fmt).arg # 0
                      \/ Last(fmt).conv # "b" /\ Len(Expansion(Front(fmt))) >= size - 1
               PROVE  Printed(size).t.str[Printed(size).t.wrote] = NUL
    BY Zenon DEF TextTerminated
  <2>1. fmt \in Seq(RegularItems) /\ fmt \in Seq(Conversions)
    BY RegularFormat DEF FormatInv
  <2>2. Ended(Prints(size, fmt).t)
    BY <2>1, Sizes, RegularEnded
  <2> QED BY <2>2, Sizes DEF Ended
<1> QED BY <1>1, FormatsTyped, PTL

=============================================================================
