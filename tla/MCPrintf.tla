------------------------------ MODULE MCPrintf ------------------------------
(***************************************************************************)
(* Formats that grow by one conversion at a time, printed to string buffers *)
(* of all sizes up to MAXSIZE; and a log to which formats are printed one   *)
(* after the other.                                                         *)
(***************************************************************************)
EXTENDS StringBuffer, MemoryLog

CONSTANTS MAXSIZE, MAXITEMS

\* The last one: the numbers in Items are ints.
ASSUME BoundsAssumption == MAXSIZE \in Nat \ {0} /\ MAXITEMS \in Nat /\ 18 \in Ints

GARBAGE == -3

\* Every number as the first conversion, then some of every kind.
Numbers == [conv : {"d", "p"}, arg : Ints]
Items == {[conv |-> "text", arg |-> << 50 >>], [conv |-> "s", arg |-> << >>],
          [conv |-> "s", arg |-> << 51, 52 >>]} \cup
         [conv : {"d"}, arg : {0, 7, -12}] \cup
         [conv : {"p"}, arg : {0, 18}] \cup [conv : {"b"}, arg : {-3}]

Newline == [conv |-> "text", arg |-> << NL >>]
LogFormats == {<< [conv |-> "d", arg |-> 7] >>, << Newline >>,
               << [conv |-> "s", arg |-> << 50, 7, 50 >>] >>,
               << [conv |-> "text", arg |-> << 50 >>], Newline >>}

-----------------------------------------------------------------------------
(* What is printed.                                                         *)

\* The numeral of a natural number, and of an int: with its sign in base 10,
\* as the bits of the word in base 16.
Numeral(n, b) ==
  LET from[m \in Nat] == IF m < b THEN << m >> ELSE from[m \div b] \o << m % b >>
  IN  from[n]
ReferenceNumeral(n, b) ==
  IF b = 10 /\ n < 0 THEN << NEG >> \o Numeral(-n, 10) ELSE Numeral(Unsigned(n), b)

\* What a conversion stands for, and a format as a whole.
Expand(item) ==
  CASE item.conv = "d" -> ReferenceNumeral(item.arg, 10)
    [] item.conv = "p" -> IF item.arg = 0 THEN Nil
                          ELSE << 0, X >> \o ReferenceNumeral(item.arg, 16)
    [] item.conv = "b" -> ToBuffer!Bits(item.arg)
    [] OTHER -> item.arg

Expansion(f) == FlattenSeq([k \in DOMAIN f |-> Expand(f[k])])

\* A new line of the log starts at a newline and when one is full; the ring has
\* room for all lines but one.
Kept(lines) == IF Len(lines) < MEM_WRITER_LINES THEN lines ELSE Tail(lines)
LogChar(lines, c) ==
  LET line == Append(Last(lines), c)
      all == Append(Front(lines), line)
  IN  IF c = NL THEN Kept(Append(lines, << >>))
      ELSE IF Len(line) = MEM_WRITER_LINE_LENGTH THEN Kept(Append(all, << >>))
      ELSE all

-----------------------------------------------------------------------------

VARIABLES fmt,   \* the format of pandos_snprintf
          mem,   \* kstdout or another log
          log    \* the lines it should show, << >> before it is used

vars == << fmt, mem, log >>

Init == fmt = << >> /\ mem = memory_target(NUL) /\ log = << >>

Grow ==
  /\ log = << >> /\ Len(fmt) < MAXITEMS
  /\ \E item \in IF fmt = << >> THEN Items \cup Numbers ELSE Items :
       fmt' = Append(fmt, item)
  /\ UNCHANGED << mem, log >>

Log ==
  /\ fmt = << >>
  /\ \E f \in LogFormats :
       /\ mem' = pandos_kfprintf(mem, f)
       /\ log' = FoldLeft(LogChar, IF log = << >> THEN << << >> >> ELSE log,
                          Expansion(f))
  /\ UNCHANGED fmt

Clear ==
  /\ log # << >>
  /\ mem' = pandos_kclear /\ log' = << << >> >>
  /\ UNCHANGED fmt

Complete == Len(fmt) = MAXITEMS /\ UNCHANGED vars

Next == Grow \/ Log \/ Clear \/ Complete

Spec == Init /\ [][Next]_vars

-----------------------------------------------------------------------------

Printed(size) == pandos_snprintf([k \in 0..(size - 1) |-> GARBAGE], size, fmt)
Text(t) == [k \in 1..t.wrote |-> t.str[k - 1]]

\* No conversion of the format is empty, which would end the printing, and no %p
\* has its sign bit set, which __itoa prints with a wrong first digit.
Regular == \A k \in DOMAIN fmt :
  /\ Expand(fmt[k]) # << >>
  /\ fmt[k].conv = "p" => fmt[k].arg >= 0

\* str_writer, with which pandos_snprintf and nitoa print, stores nothing
\* outside a buffer of at least one character that it is given, the ending NULs
\* of __itoa and of a cut output included, whatever the format.  (A buffer of
\* none: RespectsSize.)
InBuffer == \A size \in 1..MAXSIZE : DOMAIN Printed(size).t.str = 0..(size - 1)

\* pandos_snprintf prints the text that its format stands for as far as it fits
\* in a buffer of at least one character,
\* with %d for every int, the smallest one included, whose opposite is no int
\* (__pandos_printf, __itoa, pandos_pow, str_writer).
PrintsWhatFits ==
  Regular =>
    \A size \in 1..MAXSIZE :
      LET t == Printed(size).t
          text == Expansion(fmt)
      IN  Text(t) = SubSeq(text, 1, Min({size - 1, Len(text)}))

\* In a buffer of at least one character the text ends in a NUL when it is
\* shorter than the buffer, when its last conversion is a number, and when that
\* conversion, if not %b, finds the buffer full (__pandos_printf, __itoa,
\* str_writer).
TextTerminated ==
  fmt # << >> /\ Regular =>
    \A size \in 1..MAXSIZE :
      LET t == Printed(size).t
          last == Last(fmt)
          end == \/ Len(Expansion(fmt)) < size - 1
                 \/ last.conv = "d"
                 \/ last.conv = "p" /\ last.arg # 0
                 \/ last.conv # "b" /\ Len(Expansion(Front(fmt))) >= size - 1
      IN  end => t.str[t.wrote] = NUL

Row(m, line) ==
  [k \in 1..MEM_WRITER_LINE_LENGTH |-> m.buffer[<< line % MEM_WRITER_LINES, k - 1 >>]]
Shown(line) == [k \in 1..MEM_WRITER_LINE_LENGTH |->
                  IF k <= Len(line) THEN line[k] ELSE BLANK]

\* From m.line backwards the ring m shows the lines, and no text in the line
\* after it.
RingShows(m, lines) ==
  /\ \A k \in 0..(Len(lines) - 1) :
       Row(m, m.line + MEM_WRITER_LINES - k) = Shown(lines[Len(lines) - k])
  /\ m.ch = Len(Last(lines))
  /\ Range(Row(m, m.line + 1)) \subseteq {BLANK, DASH}

\* The ring shows, from mem->line backwards, the last MEM_WRITER_LINES - 1 lines
\* printed, the current one included, and no text at all in the line after it,
\* however often it has wrapped around (next_line, kputchar, memory_writer).
RingShowsLog == log # << >> => RingShows(mem, log)

-----------------------------------------------------------------------------
(* What the comments of the code say.                                       *)

\* util_impl.h:72, of str_writer: "Respects the size constraints attached with
\* the given `str_target`", whatever the size.  Below size 0 the unsigned
\* d->size - 1 wraps, and no bound is left.
RespectsSize ==
  \A size \in 0..MAXSIZE : DOMAIN Printed(size).t.str \subseteq 0..(size - 1)

=============================================================================
