------------------------------ MODULE Devices ------------------------------
(***************************************************************************)
(* The machine below the kernel, as the kernel uses it: the interrupt       *)
(* lines, the devices and the array of semaphores that stand for them       *)
(* (phase2/src/semaphores.c, phase2/src/devices.c), the interval timer, the *)
(* processor local timer and the CP0 status register                        *)
(* (phase2/src/processor.c).  The behaviour of the uMPS3 hardware itself is *)
(* external to the repository.                                              *)
(*                                                                         *)
(* A device unit is what one semaphore stands for: a disk, a flash device,  *)
(* a network card, a printer, or one half (receiver, transmitter) of a      *)
(* terminal.                                                                *)
(***************************************************************************)
EXTENDS Asl, FiniteSetsExt

IL_CPUTIMER == 1
IL_TIMER == 2
IL_DISK == 3
IL_PRINTER == 6
IL_TERMINAL == 7
DEVPERINT == 8

Lines == 0..7          \* STATUS_IM_MASK: the interrupt mask bits
TE == 27               \* STATUS_TE: local timer enable bit
StatusBits == Lines \cup {TE}

CONSTANTS
  Statuses,     \* status words that processes and support contexts start with
  Outcomes,     \* how an operation of a device may end: {"ok"}, {"ok", "err"}
  KernelTE      \* does TE survive the entry of the kernel?  (up to the BIOS)

ASSUME StatusesAssumption == Statuses \subseteq SUBSET StatusBits
ASSUME KernelTEAssumption == KernelTE \in BOOLEAN
ASSUME OutcomesAssumption == Outcomes \subseteq {"ok", "err"}

VARIABLES
  dev,        \* "ready", "busy", or finished and not acknowledged
  it_timer,   \* interval timer: "loaded", "running" or "expired"
  plt,        \* processor local timer: "running" or "expired"
  status      \* mask and timer bits of the CP0 status register

hwVars == << dev, it_timer, plt, status >>

\* Mutant: the semaphore of the first device of the line.
get_semaphore_first(int_l, dev_n, is_w) == (int_l - IL_DISK) * DEVPERINT

\* The index in semaphores[] of device dev_n of line int_l.
get_semaphore(int_l, dev_n, is_w) ==
  (int_l - IL_DISK) * DEVPERINT
    + (IF int_l = IL_TERMINAL THEN 2 * dev_n + (IF is_w THEN 1 ELSE 0)
                              ELSE dev_n)

\* Where the machine has the unit: its line, and its device on the line.
LineOf(u) ==
  IF u < (IL_TERMINAL - IL_DISK) * DEVPERINT
  THEN IL_DISK + u \div DEVPERINT
  ELSE IL_TERMINAL

DevNumber(u) ==
  IF LineOf(u) = IL_TERMINAL
  THEN (u - (IL_TERMINAL - IL_DISK) * DEVPERINT) \div 2
  ELSE u % DEVPERINT

\* Its command register: word 1 of the four in its device's block, word 3 for
\* the transmitter of a terminal.
CommandWord(u) == IF LineOf(u) = IL_TERMINAL /\ u % 2 = 1 THEN 3 ELSE 1

\* Is the block of registers number n below the end of line il?  Terminals
\* count twice, so 56 blocks beyond the last device are theirs too.
is_in_line(n, il) ==
  n < ((IF il = IL_TERMINAL THEN 2 * il ELSE il) + 1 - IL_DISK) * DEVPERINT

\* The first line that has block n.
interrupt_line(n) == Min({il \in IL_DISK..IL_TERMINAL : is_in_line(n, il)})

RegisterBlocks == {n \in 0..(16 * DEVPERINT) : is_in_line(n, IL_TERMINAL)}
Words == 0..3

\* The descriptor of a command address, word w of block n: its semaphore, its
\* line, and the units whose command register it is, none or one.
get_iodev(n, w) ==
  LET il == interrupt_line(n)
  IN  [semaphore |-> get_semaphore(il, n % DEVPERINT, w = 3),
       interrupt_line |-> il,
       commands |-> {u \in Units : /\ n = (LineOf(u) - IL_DISK) * DEVPERINT + DevNumber(u)
                                   /\ w = CommandWord(u)}]

\* The descriptors of the addresses with the semaphore of a unit.
IoDevs == {d \in {get_iodev(r[1], r[2]) : r \in RegisterBlocks \X Words} :
             d.semaphore \in Units}

\* Units that raise their interrupt line.
Finished == {u \in Units : dev[u] \in {"ok", "err"}}

\* The interrupt bitmap of a line: the numbers of the devices that raise it.
CDEV_BITMAP(il) == {DevNumber(u) : u \in {v \in Finished : LineOf(v) = il}}

\* The scan stops at the most significant bit.
find_device_number(bitmap) == Max(bitmap)

\* The interrupt pending bits of the cause register, masked lines included.
Pending ==
  {LineOf(u) : u \in Finished}
    \cup (IF it_timer = "expired" THEN {IL_TIMER} ELSE {})
    \cup (IF plt = "expired" THEN {IL_CPUTIMER} ELSE {})

InitDevices ==
  /\ dev = [u \in Units |-> "ready"]
  /\ it_timer = "loaded"
  /\ plt = "running"
  /\ status = {}

-----------------------------------------------------------------------------
(* What the hardware does on its own.                                       *)

DeviceFinishes(u) ==
  /\ dev[u] = "busy"
  /\ \E o \in Outcomes : dev' = [dev EXCEPT ![u] = o]
  /\ UNCHANGED << it_timer, plt, status >>

\* Two steps from a load to the interrupt: loading the timer again in between
\* starts over.
TimerRuns ==
  /\ it_timer = "loaded"
  /\ it_timer' = "running"
  /\ UNCHANGED << dev, plt, status >>

\* An interrupt that is deliverable is taken long before the timer's interval
\* ends; an operation that ends after the timer still adds to its interrupt.
TimerExpires ==
  /\ it_timer = "running"
  /\ Pending \cap status = {}
  /\ it_timer' = "expired"
  /\ UNCHANGED << dev, plt, status >>

\* The local timer counts only while TE is set.  It was reloaded when the
\* running process was loaded, so an interrupt that is deliverable comes first.
LocalTimerExpires ==
  /\ plt = "running"
  /\ TE \in status
  /\ Pending \cap status = {}
  /\ plt' = "expired"
  /\ UNCHANGED << dev, it_timer, status >>

=============================================================================
