SPECIFICATION Spec
CONSTANTS
  WIDTH = 8
  MAXSIZE = 9
  MAXITEMS = 3
  MEM_WRITER_LINES = 4
  MEM_WRITER_LINE_LENGTH = 2
INVARIANTS
  InBuffer
  PrintsWhatFits
  TextTerminated
  RingShowsLog
