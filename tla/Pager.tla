------------------------------- MODULE Pager -------------------------------
(***************************************************************************)
(* The pager of the support level (phase3/src/pager.c) over the flash       *)
(* driver (phase3/src/storage.c): page tables, the TLB, the swap pool and   *)
(* its table, and the backing store of each U-proc.                         *)
(*                                                                         *)
(* pc[x] is the point U-proc x has reached.  The support level runs with    *)
(* interrupts on and the local timer running, so another U-proc may run     *)
(* between any two steps; what the code does with interrupts off is one     *)
(* step.  Virtual addresses are counted in pages.                           *)
(***************************************************************************)
EXTENDS BinarySemaphore

CONSTANTS
  UPROCMAX,      \* number of U-procs
  MAXPAGES,      \* entries of a page table, the stack included
  POOLSIZE,      \* frames of the swap pool
  TLBSIZE,       \* entries of the TLB
  TextPages,     \* pages in the .text area according to the header
  Values,        \* contents of a page
  Writers,       \* the U-procs that store something
  Blank,         \* what the backing store holds at first
  Vpns,          \* pages a U-proc may try to use, mapped or not
  AccessPoints,  \* values of pc at which a U-proc uses its memory
  NULL

ASSUME PoolAssumption ==
  /\ UPROCMAX \in Nat \ {0} /\ MAXPAGES \in Nat \ {0, 1}
  /\ POOLSIZE \in Nat \ {0} /\ TLBSIZE \in Nat \ {0}
  /\ TextPages \in 0..(MAXPAGES - 1)
Asid == 1..UPROCMAX
Index == 0..(MAXPAGES - 1)
Frame == 0..(POOLSIZE - 1)

SWAP == 0   \* sem_swap_pool_table

\* Where a U-proc is in support_tlb, in clean_after_uproc, and from
\* sys_terminate on, what UProcs adds after clean_after_uproc included.
FaultPoints == {"tlb", "pick", "scan", "evict", "write", "read", "install",
                "release", "baton"}
Ending == {"terminate", "clean", "free", "cleaned"}
HandlerPoints == FaultPoints \cup Ending
EndPoints == Ending \cup {"head", "link1", "link2", "link3", "count", "signal",
                         "signalled", "dead"}

ASSUME PagerConstants ==
  /\ Blank \in Values /\ NULL \notin Int /\ Vpns \subseteq Int
  /\ "user" \in AccessPoints /\ AccessPoints \cap (FaultPoints \cup EndPoints) = {}
  /\ SWAP \in Sems /\ Asid \subseteq Procs /\ Writers \subseteq Asid

\* The page numbers of KUSEG and of the stack, KUSEG + GETPAGENO.
KUSEG_VPN == 524288
STACK_VPN == 786431

\* The stack is not among the pages that are numbered from KUSEG_VPN on.
ASSUME StackApart == KUSEG_VPN + MAXPAGES - 1 <= STACK_VPN

VARIABLES
  pte,               \* the page table of each U-proc: its pte_entry_lo words
  tlb,               \* the entries of the TLB
  swap_pool_table,   \* owner (sw_asid, -1 for none) and page of each frame
  swap_pool_batons,  \* who has marked itself as holding the table
  fifo,              \* the static index of pick_page
  frame,             \* contents of the swap pool
  flash,             \* contents of the backing stores
  reg,               \* the last value each U-proc loaded
  pc,                \* where each U-proc is
  back,              \* the point support_tlb goes back to
  vpn,               \* the saved entry_hi: the page whose use failed
  victim,            \* victim_frame and the copy of its swap pool table entry
  machine,           \* "up", "panic", "halt", or "stuck" in a loop
  crossed            \* history: a page of another U-proc has been evicted

poolVars == << swap_pool_table, swap_pool_batons, fifo, crossed >>
dataVars == << frame, flash, reg >>
pageVars == << pte, tlb >>
localVars == << back, vpn, victim >>
pagerVars == << poolVars, dataVars, pageVars, localVars, pc, machine, sVars >>

\* pte_entry_lo: the frame, VALIDON and DIRTYON; all clear in a zero word.
Lo(f, valid, dirty) == [frame |-> f, valid |-> valid, dirty |-> dirty]
ZeroLo == Lo(NULL, FALSE, FALSE)

\* The entry of init_page_table: .text pages are not DIRTYON.
init_page_table == [k \in Index |-> Lo(NULL, FALSE, k >= TextPages)]

\* The page an entry maps, the page part of its pte_entry_hi.
PteVpn(k) == IF k = MAXPAGES - 1 THEN STACK_VPN ELSE KUSEG_VPN + k

\* Addresses for which entryhi_to_vpn does not panic.
entryhi_to_vpn_ok(v) ==
  /\ v >= KUSEG_VPN
  /\ v >= KUSEG_VPN + MAXPAGES - 1 => v = STACK_VPN

vpn_to_index(v) == IF v = STACK_VPN THEN MAXPAGES - 1 ELSE v - KUSEG_VPN

-----------------------------------------------------------------------------
(* The TLB.                                                                 *)

Matches(e, x, v) == e.asid = x /\ e.vpn = v

Cached(x, v) == \E e \in tlb : Matches(e, x, v)
TlbLo(x, v) == (CHOOSE e \in tlb : Matches(e, x, v)).lo

\* Mutant: the entry that is in the TLB stays as it is.
update_tlb_dropped(x, v, lo) == tlb

\* update_tlb: the TLB after an entry that is in it has been written again.
update_tlb(x, v, lo) ==
  {IF Matches(e, x, v) THEN [e EXCEPT !.lo = lo] ELSE e : e \in tlb}

\* TLBWR writes a random slot: an empty one, or one that holds another entry.
add_random_in_tlb(x, v, lo) ==
  \E gone \in {{}} \cup {{e} : e \in tlb} :
    /\ tlb' = (tlb \ gone) \cup {[asid |-> x, vpn |-> v, lo |-> lo]}
    /\ Cardinality(tlb') <= TLBSIZE

-----------------------------------------------------------------------------
(* A U-proc uses its memory.                                                *)

Goto(x, point) == pc' = [pc EXCEPT ![x] = point]

\* x can take a step of the code at one of these points.
At(x, points) == machine = "up" /\ pc[x] \in points /\ ~Waiting(x)

\* A TLB miss: the nucleus copies the page table entry, or panics.
tlb_refill_handler(x, v) ==
  /\ At(x, AccessPoints) /\ ~Cached(x, v)
  /\ IF entryhi_to_vpn_ok(v)
     THEN add_random_in_tlb(x, v, pte[x][vpn_to_index(v)]) /\ UNCHANGED machine
     ELSE machine' = "panic" /\ UNCHANGED tlb
  /\ UNCHANGED << poolVars, dataVars, pte, localVars, pc, sVars >>

\* The processor, external to the code: the access the entry lets through.
Allows(lo, op) == lo.valid /\ (op = "store" => lo.dirty)

LoadFrom(x, v) ==
  /\ At(x, AccessPoints) /\ Cached(x, v) /\ Allows(TlbLo(x, v), "load")
  /\ reg' = [reg EXCEPT ![x] = frame[TlbLo(x, v).frame]]
  /\ UNCHANGED << poolVars, frame, flash, pageVars, localVars, pc, machine, sVars >>

StoreTo(x, v, data) ==
  /\ At(x, AccessPoints) /\ Cached(x, v) /\ Allows(TlbLo(x, v), "store")
  /\ frame' = [frame EXCEPT ![TlbLo(x, v).frame] = data]
  /\ UNCHANGED << poolVars, flash, reg, pageVars, localVars, pc, machine, sVars >>

\* Any other access is passed up to support_tlb.  The test for a TLB
\* modification compares the whole cause register with 1, which no exception
\* of this kind leaves there (the code is in bits 2 to 6), so it never holds.
Fault(x, v, op) ==
  /\ At(x, AccessPoints) /\ Cached(x, v) /\ ~Allows(TlbLo(x, v), op)
  /\ vpn' = [vpn EXCEPT ![x] = v]
  /\ back' = [back EXCEPT ![x] = pc[x]]
  /\ Goto(x, "tlb")
  /\ UNCHANGED << poolVars, dataVars, pageVars, victim, machine, sVars >>

-----------------------------------------------------------------------------
(* support_tlb.                                                             *)

\* PASSEREN on the swap pool semaphore.
GainSwapPool(x) ==
  /\ At(x, {"tlb"})
  /\ Passeren(SWAP, x)
  /\ Goto(x, "pick")
  /\ UNCHANGED << poolVars, dataVars, pageVars, localVars, machine >>

\* Mutant: the baton is not taken.
set_swap_pool_baton_lost(x, b) == UNCHANGED swap_pool_batons

set_swap_pool_baton(x, b) ==
  swap_pool_batons' = [swap_pool_batons EXCEPT ![x] = b]

\* The baton is taken up, and pick_page starts its scan.
TakeBaton(x) ==
  /\ At(x, {"pick"})
  /\ set_swap_pool_baton(x, TRUE)
  /\ victim' = [victim EXCEPT ![x].frame = 0]
  /\ Goto(x, "scan")
  /\ UNCHANGED << swap_pool_table, fifo, crossed, dataVars, pageVars, back, vpn,
                  machine, sVars >>

\* Mutant: the index does not wrap.
NextFrame_no_wrap == fifo + 1

\* The static index of pick_page after its fallback.
NextFrame == (fifo + 1) % POOLSIZE

\* One round of the scan of pick_page, which a U-proc that ends may free a frame
\* behind; victim[x].frame is its index.  It ends at an unoccupied frame, or
\* after the last one, when the next in turn is taken.
pick_page(x) ==
  /\ At(x, {"scan"})
  /\ \/ /\ victim[x].frame = POOLSIZE
        /\ victim' = [victim EXCEPT ![x].frame = NextFrame]
        /\ fifo' = NextFrame
        /\ Goto(x, "evict")
     \/ /\ victim[x].frame # POOLSIZE
        /\ swap_pool_table[victim[x].frame].asid = -1
        /\ Goto(x, "evict")
        /\ UNCHANGED << victim, fifo >>
     \/ /\ victim[x].frame # POOLSIZE
        /\ swap_pool_table[victim[x].frame].asid # -1
        /\ victim' = [victim EXCEPT ![x].frame = @ + 1]
        /\ UNCHANGED << fifo, pc >>
  /\ UNCHANGED << swap_pool_table, swap_pool_batons, crossed, dataVars, pageVars,
                  back, vpn, machine, sVars >>

\* Mutant: the entry keeps its valid bit.
mark_page_not_valid_dropped(x, k) == UNCHANGED pte

\* The word is and-ed with !VALIDON, which is 0.
mark_page_not_valid(x, k) == pte' = [pte EXCEPT ![x][k] = ZeroLo]

\* The entry of the victim frame is copied.  If a U-proc has the frame, entry k
\* of the page table of x is cleared and the TLB gets the entry of the owner.
EvictPage(x) ==
  LET swap == swap_pool_table[victim[x].frame]
      lo == IF swap.asid = x THEN ZeroLo ELSE pte[swap.asid][swap.page]
  IN  /\ At(x, {"evict"})
      /\ victim' = [victim EXCEPT ![x].asid = swap.asid, ![x].page = swap.page]
      /\ \/ /\ swap.asid = -1
            /\ Goto(x, "read")
            /\ UNCHANGED pageVars
         \/ /\ swap.asid # -1
            /\ mark_page_not_valid(x, swap.page)
            /\ tlb' = update_tlb(swap.asid, PteVpn(swap.page), lo)
            /\ Goto(x, "write")
      /\ crossed' = (crossed \/ swap.asid \notin {-1, x})
      /\ UNCHANGED << swap_pool_table, swap_pool_batons, fifo, dataVars, back, vpn,
                      machine, sVars >>

\* Mutant: the block of the new page is written instead of the old one's.
write_flash_p_index(x) ==
  flash' = [flash EXCEPT ![victim[x].asid][vpn_to_index(vpn[x])] =
              frame[victim[x].frame]]

\* write_flash and read_flash return when the device has moved the page.
write_flash(x) ==
  flash' = [flash EXCEPT ![victim[x].asid][victim[x].page] = frame[victim[x].frame]]

read_flash(x) ==
  frame' = [frame EXCEPT ![victim[x].frame] = flash[x][vpn_to_index(vpn[x])]]

WriteVictim(x) ==
  /\ At(x, {"write"})
  /\ write_flash(x)
  /\ Goto(x, "read")
  /\ UNCHANGED << poolVars, frame, reg, pageVars, localVars, machine, sVars >>

ReadPage(x) ==
  /\ At(x, {"read"})
  /\ read_flash(x)
  /\ Goto(x, "install")
  /\ UNCHANGED << poolVars, flash, reg, pageVars, localVars, machine, sVars >>

\* Mutant: the transfer is tried again, from the write on.
FlashError_retries(x) ==
  /\ At(x, {"write", "read"})
  /\ Goto(x, "write")
  /\ UNCHANGED << poolVars, dataVars, pageVars, localVars, machine, sVars >>

\* The device reports an error: support_trap, with the swap pool in hand.
FlashError(x) ==
  /\ At(x, {"write", "read"})
  /\ Goto(x, "terminate")
  /\ UNCHANGED << poolVars, dataVars, pageVars, localVars, machine, sVars >>

\* Whatever area the page is in, its entry becomes DIRTYON.
update_page_table(f) == Lo(f, TRUE, TRUE)

add_entry_swap_pool_table(f, x, k) ==
  swap_pool_table' = [swap_pool_table EXCEPT ![f] = [asid |-> x, page |-> k]]

InstallPage(x) ==
  LET k == vpn_to_index(vpn[x])
      lo == update_page_table(victim[x].frame)
  IN  /\ At(x, {"install"})
      /\ add_entry_swap_pool_table(victim[x].frame, x, k)
      /\ pte' = [pte EXCEPT ![x][k] = lo]
      /\ tlb' = update_tlb(x, vpn[x], lo)
      /\ victim' = [victim EXCEPT ![x] = [frame |-> 0, asid |-> -1, page |-> 0]]
      /\ Goto(x, "release")
      /\ UNCHANGED << swap_pool_batons, fifo, crossed, dataVars, back, vpn,
                      machine, sVars >>

\* VERHOGEN on the swap pool semaphore.
ReleaseSwapPool(x) ==
  /\ At(x, {"release"})
  /\ Verhogen(SWAP, x)
  /\ Goto(x, "baton")
  /\ UNCHANGED << poolVars, dataVars, pageVars, localVars, machine >>

\* The baton is put down and the U-proc tries its access again.
ReturnFromFault(x) ==
  /\ At(x, {"baton"})
  /\ set_swap_pool_baton(x, FALSE)
  /\ vpn' = [vpn EXCEPT ![x] = KUSEG_VPN]
  /\ back' = [back EXCEPT ![x] = "user"]
  /\ Goto(x, back[x])
  /\ UNCHANGED << swap_pool_table, fifo, crossed, dataVars, pageVars, victim,
                  machine, sVars >>

-----------------------------------------------------------------------------
(* clean_after_uproc.                                                       *)

\* A U-proc asks to terminate, or a trap of it is passed up (support_trap).
Terminate(x) ==
  /\ At(x, {"user"})
  /\ Goto(x, "terminate")
  /\ UNCHANGED << poolVars, dataVars, pageVars, localVars, machine, sVars >>

\* Mutant: a U-proc that dies keeps the swap pool.
release_sem_swap_pool_table_never(x) == UNCHANGED sVars

release_sem_swap_pool_table(x) ==
  IF swap_pool_batons[x] THEN Verhogen(SWAP, x) ELSE UNCHANGED sVars

CleanRelease(x) ==
  /\ At(x, {"terminate"})
  /\ release_sem_swap_pool_table(x)
  /\ victim' = [victim EXCEPT ![x] = [frame |-> 0, asid |-> -1, page |-> 0]]
  /\ Goto(x, "clean")
  /\ UNCHANGED << poolVars, dataVars, pageVars, back, vpn, machine >>


\* One round of mark_frames_as_unoccupied; victim[x].frame is its index i.
\* The test and the assignment are two steps: nothing protects them.
CleanTest(x) ==
  /\ At(x, {"clean"})
  /\ \/ /\ victim[x].frame = POOLSIZE
        /\ Goto(x, "cleaned")
        /\ UNCHANGED victim
     \/ /\ victim[x].frame # POOLSIZE
        /\ swap_pool_table[victim[x].frame].asid = x
        /\ Goto(x, "free")
        /\ UNCHANGED victim
     \/ /\ victim[x].frame # POOLSIZE
        /\ swap_pool_table[victim[x].frame].asid # x
        /\ victim' = [victim EXCEPT ![x].frame = @ + 1]
        /\ UNCHANGED pc
  /\ UNCHANGED << poolVars, dataVars, pageVars, back, vpn, machine, sVars >>

CleanFrame(x) ==
  /\ At(x, {"free"})
  /\ swap_pool_table' = [swap_pool_table EXCEPT ![victim[x].frame].asid = -1]
  /\ victim' = [victim EXCEPT ![x].frame = @ + 1]
  /\ Goto(x, "clean")
  /\ UNCHANGED << swap_pool_batons, fifo, crossed, dataVars, pageVars, back, vpn,
                  machine, sVars >>

-----------------------------------------------------------------------------

\* init_pager, and the page tables and backing stores U-procs start with.
init_pager ==
  /\ swap_pool_table = [i \in Frame |-> [asid |-> -1, page |-> 0]]
  /\ swap_pool_batons = [x \in Asid |-> FALSE]
  /\ fifo = -1
  /\ pte = [x \in Asid |-> init_page_table]
  /\ tlb = {}
  /\ frame = [i \in Frame |-> Blank]
  /\ flash = [x \in Asid |-> [k \in Index |-> Blank]]
  /\ reg = [x \in Asid |-> Blank]
  /\ back = [x \in Asid |-> "user"]
  /\ vpn = [x \in Asid |-> KUSEG_VPN]
  /\ victim = [x \in Asid |-> [frame |-> 0, asid |-> -1, page |-> 0]]
  /\ machine = "up"
  /\ crossed = FALSE

Init ==
  /\ init_pager
  /\ InitSems /\ value[SWAP] = 1
  /\ pc = [x \in Asid |-> "user"]

\* What a U-proc does with its memory.
Access(x) ==
  \E v \in Vpns :
    \/ tlb_refill_handler(x, v)
    \/ LoadFrom(x, v)
    \/ x \in Writers /\ \E data \in Values : StoreTo(x, v, data)
    \/ \E op \in {"load", "store"} : Fault(x, v, op)

\* The steps of the handlers.
support_tlb(x) ==
  \/ GainSwapPool(x) \/ TakeBaton(x) \/ pick_page(x) \/ EvictPage(x)
  \/ WriteVictim(x) \/ ReadPage(x) \/ FlashError(x)
  \/ InstallPage(x) \/ ReleaseSwapPool(x) \/ ReturnFromFault(x)

clean_after_uproc(x) == CleanRelease(x) \/ CleanTest(x) \/ CleanFrame(x)

\* Every U-proc has ended, or the machine has stopped.
Stopped ==
  /\ machine # "up" \/ \A x \in Asid : pc[x] = "cleaned"
  /\ UNCHANGED pagerVars

Next ==
  \/ \E x \in Asid :
       Access(x) \/ Terminate(x) \/ support_tlb(x) \/ clean_after_uproc(x)
  \/ Stopped

Spec == Init /\ [][Next]_pagerVars

-----------------------------------------------------------------------------
(* Invariants.                                                              *)

\* Type correctness of the pager's data (pager.c, os/include/os/types.h).
TypeOK ==
  /\ pte \in [Asid -> [Index -> [frame : Frame \cup {NULL}, valid : BOOLEAN,
                                 dirty : BOOLEAN]]]
  /\ tlb \subseteq [asid : Asid, vpn : Vpns,
                    lo : [frame : Frame \cup {NULL}, valid : BOOLEAN,
                          dirty : BOOLEAN]]
  /\ swap_pool_table \in [Frame -> [asid : Asid \cup {-1}, page : Index]]
  /\ swap_pool_batons \in [Asid -> BOOLEAN]
  /\ fifo \in Frame \cup {-1}
  /\ frame \in [Frame -> Values]
  /\ flash \in [Asid -> [Index -> Values]]
  /\ reg \in [Asid -> Values]
  /\ pc \in [Asid -> AccessPoints \cup HandlerPoints]
  /\ back \in [Asid -> AccessPoints]
  /\ vpn \in [Asid -> Vpns \cup {KUSEG_VPN}]
  /\ victim \in [Asid -> [frame : 0..POOLSIZE, asid : Asid \cup {-1}, page : Index]]
  /\ machine \in {"up", "panic", "halt", "stuck"}
  /\ crossed \in BOOLEAN

\* x has the swap pool table to itself, a U-proc that is about to die with it
\* included.
Holds(x) ==
  /\ ~list_contains(x, queue[SWAP])
  /\ \/ pc[x] \in {"pick", "scan", "evict", "write", "read", "install", "release"}
     \/ pc[x] = "terminate" /\ swap_pool_batons[x]

\* The mutex of the swap pool table: one U-proc has it at a time, it is free
\* exactly when nobody has it, also after a flash error in support_tlb or the
\* end of the U-proc that held it, and nobody ever waits in VERHOGEN, where a
\* second release of the binary semaphore would leave it.
SwapPoolMutex ==
  /\ \A x, y \in Asid : Holds(x) /\ Holds(y) => x = y
  /\ value[SWAP] = 0 <=> \E x \in Asid : Holds(x)
  /\ \A x \in Asid : list_contains(x, queue[SWAP]) => pc[x] = "pick"

Alive(x) == pc[x] \notin EndPoints

\* x is writing its page k out of frame i.
Evicting(x, i) == pc[x] \in {"write", "read", "install"} /\ victim[x].frame = i

\* Page tables and swap pool table describe each other: the frame of a valid
\* entry is recorded as the frame of that page, so no frame has two users, and
\* a recorded page is valid until it is evicted, and may be written if it is not
\* of .text (see TextIsReadOnly).  (Until a U-proc evicts a page of another one:
\* EvictedPageNotValid below.)
PageTablesAgree ==
  ~crossed => \A x \in Asid : Alive(x) =>
    /\ \A k \in Index : pte[x][k].valid =>
         swap_pool_table[pte[x][k].frame] = [asid |-> x, page |-> k]
    /\ \A i \in Frame : swap_pool_table[i].asid = x /\ ~Evicting(x, i) =>
         LET k == swap_pool_table[i].page
         IN  /\ pte[x][k].frame = i /\ pte[x][k].valid
             /\ k >= TextPages => pte[x][k].dirty

\* Every change of a page table reaches the TLB before the U-proc goes on
\* (update_tlb): no translation is stale.  (Same condition.)
TlbAgrees ==
  ~crossed => \A e \in tlb : Alive(e.asid) => e.lo = pte[e.asid][vpn_to_index(e.vpn)]

\* The contents of page k of x: in its frame, in the frame it is being written
\* out of, or in the backing store.
Contents(x, k) ==
  IF pc[x] \in EndPoints THEN Blank
  ELSE IF pte[x][k].valid THEN frame[pte[x][k].frame]
  ELSE IF pc[x] = "write" /\ victim[x].asid = x /\ victim[x].page = k
  THEN frame[victim[x].frame]
  ELSE flash[x][k]

Virtual == INSTANCE Memory
             WITH Asids <- Asid, Indices <- Index,
                  mem <- [x \in Asid |-> [k \in Index |-> Contents(x, k)]],
                  ended <- {x \in Asid : pc[x] \in EndPoints}

\* Demand paging is invisible: what a U-proc loads is what it stored last in
\* that page, whatever was paged out and in meanwhile, by itself or by others
\* (support_tlb, tlb_refill_handler).  (Same condition.)
ImplementsMemory == Virtual!InitMemory /\ [][~crossed' => Virtual!NextMemory]_Virtual!memVars

-----------------------------------------------------------------------------
(* Liveness, under the fairness of UProcs.                                  *)

\* Every page fault ends: the U-proc gets its page or dies, and neither a
\* flash error nor the end of another U-proc keeps the swap pool from it.
FaultServed ==
  \A x \in Asid :
    pc[x] = "tlb" ~> pc[x] \in AccessPoints \cup {"cleaned"} \/ machine # "up"

-----------------------------------------------------------------------------
(* What comments of the code say and the code does not do.                  *)

\* pager.c:385: before its frame is written out, the page of process x is not
\* valid in the page table of x.
EvictedPageNotValid ==
  \A y \in Asid : pc[y] = "write" /\ Alive(victim[y].asid) =>
    ~pte[victim[y].asid][victim[y].page].valid

\* pager.c:65: pages of the .text area are marked as read-only.
TextIsReadOnly == \A x \in Asid, k \in Index : k < TextPages => ~pte[x][k].dirty

\* pager.c:147: mark_frames_as_unoccupied frees the frames of the U-proc that
\* ends, and so of nobody else.
FreesOwnFrames ==
  [][\A i \in Frame :
       swap_pool_table[i].asid # -1 /\ swap_pool_table'[i].asid = -1 =>
         ~Alive(swap_pool_table[i].asid)]_pagerVars

=============================================================================
