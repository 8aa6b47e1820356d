------------------------------- MODULE Printf -------------------------------
(***************************************************************************)
(* Formatted printing, os/src/util.c: __pandos_printf over a writer, which  *)
(* is an operator that takes a target and a string and yields the target    *)
(* after it and the number n of characters it took.  A string is the        *)
(* sequence of the characters before its NUL; every call passes its length, *)
(* or 0 for "up to the NUL", so the length adds nothing to it.  A format is *)
(* a sequence of conversions with their arguments; a plain character is one *)
(* too.  A format that ends in a lone % is not modelled: the code steps     *)
(* over its NUL and goes on with whatever the memory after it holds.        *)
(***************************************************************************)
EXTENDS Numerals, SequencesExt

CONSTANT writer(_, _)

\* The characters go out one by one until the writer takes none.  (A sign that
\* is not taken does not stop the digits, but then the first one is not taken
\* either.)
PutDigit(acc, c) ==
  IF acc.wr = 0 THEN acc
  ELSE LET r == writer(acc.t, << c >>)
       IN  [t |-> r.t, n |-> acc.n + r.n, wr |-> r.n]

itoa_to(t, i, b) ==
  LET all == FoldLeft(PutDigit, [t |-> t, n |-> 0, wr |-> 1], itoa(i, b))
      end == writer(all.t, << >>)
  IN  [t |-> end.t, n |-> all.n + end.n]

Bits(i) == [k \in 1..WIDTH |-> (Unsigned(i) \div Power(2, WIDTH - k)) % 2]

\* The count of %b is that of its bits whatever the writer took.
bin(t, i) == [t |-> writer(t, Bits(i)).t, n |-> WIDTH]

Convert(t, item) ==
  CASE item.conv = "d" -> itoa_to(t, item.arg, 10)
    [] item.conv = "p" /\ item.arg # 0 ->
         LET x == writer(t, << 0, X >>)
             i == itoa_to(x.t, item.arg, 16)
         IN  [t |-> i.t, n |-> x.n + i.n]
    [] item.conv = "p" /\ item.arg = 0 -> writer(t, Nil)
    [] item.conv = "b" -> bin(t, item.arg)
    [] item.conv \in {"text", "c", "s"} -> writer(t, item.arg)

\* A conversion of which the writer takes nothing is the last one.
PutItem(acc, item) ==
  IF acc.stopped THEN acc
  ELSE LET r == Convert(acc.t, item)
       IN  [t |-> r.t, wr |-> acc.wr + r.n, stopped |-> r.n = 0]

\* The ending NUL, if printing stopped.
WithEnd(all) ==
  LET end == writer(all.t, << >>)
  IN  IF all.stopped THEN [t |-> end.t, wr |-> all.wr + end.n, stopped |-> TRUE] ELSE all

pandos_printf(t, fmt) ==
  WithEnd(FoldLeft(PutItem, [t |-> t, wr |-> 0, stopped |-> FALSE], fmt))

=============================================================================
