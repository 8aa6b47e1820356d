---------------------------- MODULE StringBuffer ----------------------------
(***************************************************************************)
(* Printing to a string, os/src/util.c: str_writer, the writer of           *)
(* pandos_snprintf.  A target has the buffer str, its size and the number   *)
(* of characters written to it.                                             *)
(***************************************************************************)
EXTENDS Numerals, SequencesExt

\* d->size - 1, unsigned: with size 0 it is the largest word (a size_t of this
\* machine is as wide as an int).
Room(d) == IF d.size = 0 THEN MODULUS - 1 ELSE d.size - 1

\* The outcome of str_writer that stores a NUL at `place', and the one that
\* copies n characters, with a NUL after them where there is room.  A store
\* outside the buffer adds its index to the domain of str.
EndAt(d, place) ==
  [t |-> [d EXCEPT !.str = [k \in DOMAIN @ \cup {place} |->
                              IF k = place THEN NUL ELSE @[k]]],
   n |-> 0]
CopyOf(d, data, n) ==
  LET ending == IF d.wrote + n < Room(d) THEN {d.wrote + n} ELSE {}
      copied == d.wrote..(d.wrote + n - 1)
  IN  [t |-> [str |-> [k \in DOMAIN d.str \cup copied \cup ending |->
                         IF k \in copied THEN data[k - d.wrote + 1]
                         ELSE IF k \in ending THEN NUL ELSE d.str[k]],
              size |-> d.size, wrote |-> d.wrote + n],
       n |-> n]
Fits(d, data) == Min({Len(data), Room(d) - d.wrote})

\* Mutants: the ending NUL one too far, and missing in a full buffer.
str_writer_past_end(d, data) ==
  IF data = << >> THEN EndAt(d, d.wrote + 1)
  ELSE CopyOf(d, data, Fits(d, data))
str_writer_full_no_end(d, data) ==
  IF data = << >> THEN IF d.wrote >= Room(d) THEN [t |-> d, n |-> 0]
                       ELSE EndAt(d, d.wrote + 1)
  ELSE CopyOf(d, data, Fits(d, data))

str_writer(d, data) ==
  IF data = << >>
  THEN EndAt(d, IF d.wrote >= Room(d) THEN d.wrote ELSE d.wrote + 1)
  ELSE CopyOf(d, data, Fits(d, data))

ToBuffer == INSTANCE Printf WITH writer <- str_writer

pandos_snprintf(dest, len, fmt) ==
  ToBuffer!pandos_printf([str |-> dest, size |-> len, wrote |-> 0], fmt)

=============================================================================
