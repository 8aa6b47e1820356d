----------------------------- MODULE MemoryLog -----------------------------
(***************************************************************************)
(* The logs kept in memory, os/src/util.c: memory_writer, the writer of     *)
(* pandos_kfprintf, puts text into a ring of MEM_WRITER_LINES lines.        *)
(***************************************************************************)
EXTENDS Numerals, SequencesExt

CONSTANTS MEM_WRITER_LINES, MEM_WRITER_LINE_LENGTH

ASSUME RingAssumption == /\ MEM_WRITER_LINES \in Nat /\ MEM_WRITER_LINES >= 3
                         /\ MEM_WRITER_LINE_LENGTH \in Nat \ {0}

NL == 34
BLANK == 35
DASH == NEG

\* memory_target_t: the lines, the current one and the place of the next
\* character in it.
memory_target(c) ==
  [buffer |-> [k \in (0..(MEM_WRITER_LINES - 1)) \X (0..(MEM_WRITER_LINE_LENGTH - 1))
                 |-> c],
   line |-> 0, ch |-> 0]

clean_line(buffer, line, c) ==
  [k \in DOMAIN buffer |-> IF k[1] = line THEN c ELSE buffer[k]]

\* Mutant: the line after the new one is not cleaned.
next_line_leaves_next(m) ==
  LET line == (m.line + 1) % MEM_WRITER_LINES
  IN  [buffer |-> clean_line(m.buffer, line, BLANK), line |-> line, ch |-> 0]

next_line(m) ==
  LET line == (m.line + 1) % MEM_WRITER_LINES
  IN  [buffer |-> clean_line(clean_line(m.buffer, line, BLANK),
                             (line + 1) % MEM_WRITER_LINES, DASH),
       line |-> line, ch |-> 0]

kputchar(m, c) ==
  IF c = NL THEN next_line(m)
  ELSE LET put == [buffer |-> [m.buffer EXCEPT ![<< m.line, m.ch >>] = c],
                   line |-> m.line, ch |-> m.ch + 1]
       IN  IF put.ch >= MEM_WRITER_LINE_LENGTH THEN next_line(put) ELSE put

\* At the first place of all the first two lines are cleaned.
memory_writer(m, data) ==
  LET first == IF m.line = 0 /\ m.ch = 0
               THEN [m EXCEPT !.buffer = clean_line(clean_line(@, 0, BLANK), 1, BLANK)]
               ELSE m
  IN  [t |-> FoldLeft(kputchar, first, data), n |-> Len(data)]

ToLog == INSTANCE Printf WITH writer <- memory_writer

pandos_kfprintf(m, fmt) == ToLog!pandos_printf(m, fmt).t

pandos_kclear == memory_target(BLANK)

=============================================================================
