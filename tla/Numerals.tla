------------------------------ MODULE Numerals ------------------------------
(***************************************************************************)
(* The numerals that __itoa of os/src/util.c prints, with integers of WIDTH *)
(* bits, and the characters they are made of: a digit is its value.         *)
(***************************************************************************)
EXTENDS Integers, Sequences

CONSTANT WIDTH   \* bits of an int

ASSUME WidthAssumption == WIDTH \in Nat \ {0}

NEG == -1                           \* the sign
NUL == -2
X == 33                             \* the letter of 0x
Nil == << 40, 41, 42, 43, 44 >>     \* "(nil)"

Power(b, n) ==
  LET p[k \in Nat] == IF k = 0 THEN 1 ELSE b * p[k - 1]
  IN  p[n]

MODULUS == Power(2, WIDTH)
HALF == Power(2, WIDTH - 1)

Ints == (-HALF)..(HALF - 1)

\* Conversions to unsigned and to int.
Unsigned(n) == n % MODULUS
Int_(n) == ((n + HALF) % MODULUS) - HALF

\* Division of an int by the base truncates towards zero.
Quotient(n, b) == IF n < 0 THEN -((-n) \div b) ELSE n \div b

\* By repeated squaring.
pandos_pow(base, exp) ==
  LET pow[e \in Nat] ==
        IF e = 0 THEN 1
        ELSE Int_((IF e % 2 = 0 THEN 1 ELSE base) * pow[e \div 2] * pow[e \div 2])
  IN  pow[exp]

\* Mutant: one digit too few at a power of the base.
CountDigits_short(i, base) ==
  LET count[n \in Int] ==
        IF n \in -1..1 THEN 0 ELSE 1 + count[Quotient(n, base)]
  IN  count[i]

\* How often i can be divided by the base before it is 0.
CountDigits(i, base) ==
  LET count[n \in Int] == IF n = 0 THEN 0 ELSE 1 + count[Quotient(n, base)]
  IN  count[i]

\* The loop that takes digits off from the front: exp and unsigned_i at the
\* start of each round, and the digit of each round, which is an int again.
FrontDigits(i, base) ==
  LET digits == CountDigits(i, base)
      exp[k \in 0..(digits - 1)] ==
        IF k = 0 THEN pandos_pow(base, digits - 1) ELSE Quotient(exp[k - 1], base)
      unsigned_i[k \in 0..(digits - 1)] ==
        IF k = 0 THEN Unsigned(i) ELSE unsigned_i[k - 1] % Unsigned(exp[k - 1])
  IN  [k \in 1..digits |-> Int_(unsigned_i[k - 1] \div Unsigned(exp[k - 1]))]

\* The characters that __itoa hands to its writer one by one.
itoa(i, base) ==
  LET negative == base = 10 /\ i < 0
      j == IF negative THEN Int_(-i) ELSE i
  IN  (IF negative THEN << NEG >> ELSE << >>) \o
      (IF j = 0 THEN << 0 >> ELSE FrontDigits(j, base))

=============================================================================
