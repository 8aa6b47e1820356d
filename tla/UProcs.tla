------------------------------- MODULE UProcs -------------------------------
(***************************************************************************)
(* The support level as a whole: the test process that launches the U-procs *)
(* and waits for them (phase3/src/test.c), their system calls and their end *)
(* (phase3/src/support.c), over the pager.                                  *)
(*                                                                         *)
(* The local timer is off for the test process, so between two of its       *)
(* blocking calls nobody else runs: that is one step.  A U-proc may be      *)
(* preempted anywhere.                                                      *)
(***************************************************************************)
EXTENDS Pager

CONSTANTS
  MaxChars,   \* longest string a U-proc writes (MAXLEN in the code)
  Calls       \* the system calls each U-proc makes

ASSUME MaxCharsAssumption == MaxChars \in Nat

TEST == 0     \* the test process, among Procs
MASTER == 1   \* master_semaphore

\* sys3_semaphores, sys4_semaphores and sys5_semaphores: d is 0, 1 or 2.
SysSem(d, x) == 3 * x + d

\* A U-proc uses its memory in its program and in the loops of SYS3 to SYS5.
ASSUME UProcsConstants ==
  /\ AccessPoints = {"user", "putc", "store", "last", "eos"}
  /\ TEST \in Procs /\ MASTER \in Sems
  /\ \A d \in 0..2, x \in Asid : SysSem(d, x) \in Sems

SUPPORT_FREE == UPROCMAX             \* the sentinel of support_free
Support == 0..(UPROCMAX - 1)         \* the entries of support_table

VARIABLES
  heap,      \* the pointers of support_free and of the p_list fields
  support,   \* the support structure each U-proc was given, or NULL
  nxt,       \* in deallocate: the loop variable of list_contains and list_size,
             \* and between them the argument head->next of list_add
  dev,       \* the device class of the system call each U-proc is in
  left,      \* characters it still has to write
  tpc,       \* where the test process is
  round      \* the round of its loop

uprocVars == << support, nxt, dev, left >>
testVars == << tpc, round >>
vars == << pagerVars, heap, uprocVars, testVars >>

L == INSTANCE Links WITH Heads <- {SUPPORT_FREE}, Nodes <- Support, NIL <- NULL

-----------------------------------------------------------------------------
(* test.c                                                                   *)

\* support_free after the first n calls of deallocate in init_supports.
init_supports[n \in Nat] ==
  IF n = 0 THEN L!EmptyHeap
  ELSE L!list_add(init_supports[n - 1], n - 1, SUPPORT_FREE)

\* list_size of a list that no longer leads back to its sentinel never ends.
Endless(m) == L!list_size(m, SUPPORT_FREE) > UPROCMAX

\* allocate() for U-proc x, on the heap m; its last statement prints list_size.
allocate(m, x) ==
  LET lh == L!list_next(m, SUPPORT_FREE)
  IN  IF lh = NULL
      THEN machine' = "panic" /\ UNCHANGED << heap, support >>
      ELSE /\ heap' = L!list_del(m, lh)
           /\ support' = [support EXCEPT ![x] = lh]
           /\ machine' = IF Endless(heap') THEN "stuck" ELSE machine

\* What test does before the first call that blocks, the header read of U-proc 1.
InitUProcs ==
  /\ init_pager
  /\ InitSems
  /\ value = [s \in Sems |-> IF s = MASTER THEN 0 ELSE 1]
  /\ heap = L!list_del(init_supports[UPROCMAX], UPROCMAX - 1)
  /\ support = [x \in Asid |-> IF x = 1 THEN UPROCMAX - 1 ELSE NULL]
  /\ nxt = [x \in Asid |-> SUPPORT_FREE]
  /\ dev = [x \in Asid |-> 0]
  /\ left = [x \in Asid |-> 0]
  /\ pc = [x \in Asid |-> "none"]
  /\ tpc = "header"
  /\ round = 1

\* The header has been read: U-proc `round` is created, and the next round
\* starts; after the last one the loop on the master semaphore does.
Launch ==
  /\ machine = "up" /\ tpc = "header"
  /\ Goto(round, "user")
  /\ \/ /\ round < UPROCMAX
        /\ allocate(heap, round + 1)
        /\ round' = round + 1
        /\ UNCHANGED tpc
     \/ /\ round = UPROCMAX
        /\ tpc' = "wait"
        /\ round' = 0
        /\ UNCHANGED << heap, support, machine >>
  /\ UNCHANGED << poolVars, dataVars, pageVars, localVars, sVars, nxt, dev, left >>

\* support_trap without a support structure: the nucleus kills test and all its
\* progeny, and halts.
HeaderError ==
  /\ machine = "up" /\ tpc = "header"
  /\ machine' = "halt"
  /\ UNCHANGED << poolVars, dataVars, pageVars, localVars, pc, sVars, heap,
                  uprocVars, testVars >>

\* Mutant: the loop ends one round early.
master_semaphore_p_short ==
  /\ machine = "up" /\ tpc = "wait" /\ ~Waiting(TEST)
  /\ \/ /\ round < UPROCMAX - 1
        /\ Passeren(MASTER, TEST)
        /\ round' = round + 1
        /\ UNCHANGED << tpc, machine >>
     \/ /\ round = UPROCMAX - 1
        /\ machine' = "halt"
        /\ tpc' = "done"
        /\ UNCHANGED << sVars, round >>
  /\ UNCHANGED << poolVars, dataVars, pageVars, localVars, pc, heap, uprocVars >>

\* One PASSEREN of the master semaphore for each U-proc, then TERMPROCESS, which
\* kills what is left of the progeny and halts.
master_semaphore_p ==
  /\ machine = "up" /\ tpc = "wait" /\ ~Waiting(TEST)
  /\ \/ /\ round < UPROCMAX
        /\ Passeren(MASTER, TEST)
        /\ round' = round + 1
        /\ UNCHANGED << tpc, machine >>
     \/ /\ round = UPROCMAX
        /\ machine' = "halt"
        /\ tpc' = "done"
        /\ UNCHANGED << sVars, round >>
  /\ UNCHANGED << poolVars, dataVars, pageVars, localVars, pc, heap, uprocVars >>

test == Launch \/ HeaderError \/ master_semaphore_p

-----------------------------------------------------------------------------
(* deallocate, after clean_after_uproc in sys_terminate.  Nothing protects   *)
(* the list, so every read of a link and every store of list_add is a step.  *)

\* A round of list_contains.  A structure that is in the list already is a
\* double deallocation; at the sentinel the search has found none.
DeallocateSearch(x) ==
  LET iter == heap.next[nxt[x]]
  IN  /\ At(x, {"cleaned"})
      /\ nxt' = [nxt EXCEPT ![x] = iter]
      /\ IF iter = support[x]
         THEN machine' = "panic" /\ UNCHANGED pc
         ELSE /\ Goto(x, IF iter = SUPPORT_FREE THEN "head" ELSE "cleaned")
              /\ UNCHANGED machine
      /\ UNCHANGED << poolVars, dataVars, pageVars, localVars, sVars, heap, support,
                      dev, left, testVars >>

\* list_add reads head->next for its call of __list_add.
DeallocateHead(x) ==
  /\ At(x, {"head"})
  /\ nxt' = [nxt EXCEPT ![x] = heap.next[SUPPORT_FREE]]
  /\ Goto(x, "link1")
  /\ UNCHANGED << poolVars, dataVars, pageVars, localVars, machine, sVars, heap,
                  support, dev, left, testVars >>

\* next->prev = new; then new->next = next and new->prev = prev, which are
\* fields of x's own structure; then prev->next = new.
DeallocateLink(x) ==
  /\ \/ /\ At(x, {"link1"})
        /\ heap' = L!SetNextPrev(heap, support[x], nxt[x])
        /\ Goto(x, "link2")
        /\ UNCHANGED nxt
     \/ /\ At(x, {"link2"})
        /\ heap' = L!SetNewPrev(L!SetNewNext(heap, support[x], nxt[x]),
                                support[x], SUPPORT_FREE)
        /\ Goto(x, "link3")
        /\ UNCHANGED nxt
     \/ /\ At(x, {"link3"})
        /\ heap' = L!SetPrevNext(heap, support[x], SUPPORT_FREE)
        /\ Goto(x, "count")
        /\ nxt' = [nxt EXCEPT ![x] = SUPPORT_FREE]
  /\ UNCHANGED << poolVars, dataVars, pageVars, localVars, machine, sVars, support,
                  dev, left, testVars >>

\* A round of list_size, for the message after list_add.
DeallocateCount(x) ==
  LET iter == heap.next[nxt[x]]
  IN  /\ At(x, {"count"})
      /\ nxt' = [nxt EXCEPT ![x] = iter]
      /\ Goto(x, IF iter = SUPPORT_FREE THEN "signal" ELSE "count")
      /\ UNCHANGED << poolVars, dataVars, pageVars, localVars, machine, sVars, heap,
                      support, dev, left, testVars >>

-----------------------------------------------------------------------------
(* support.c                                                                *)

master_semaphore_v(x) ==
  /\ At(x, {"signal"})
  /\ Verhogen(MASTER, x)
  /\ Goto(x, "signalled")
  /\ UNCHANGED << poolVars, dataVars, pageVars, localVars, machine, heap,
                  uprocVars, testVars >>

\* TERMPROCESS of the U-proc itself.
TermProcess(x) ==
  /\ At(x, {"signalled"})
  /\ Goto(x, "dead")
  /\ UNCHANGED << poolVars, dataVars, pageVars, localVars, machine, sVars, heap,
                  uprocVars, testVars >>

sys_terminate(x) ==
  \/ DeallocateSearch(x) \/ DeallocateHead(x)
  \/ DeallocateLink(x) \/ DeallocateCount(x)
  \/ master_semaphore_v(x) \/ TermProcess(x)

\* Nothing but the semaphores and the locals of a system call changes.
CallFrame == UNCHANGED << poolVars, dataVars, pageVars, localVars, machine, heap,
                          support, nxt, testVars >>

\* syscall_writer up to its loop: a bad string or length has ended the U-proc
\* (Terminate), a good one takes the mutex of the printer or the terminal.
syscall_writer(x) ==
  /\ At(x, {"user"}) /\ "write" \in Calls[x]
  /\ \E d \in {0, 1}, len \in 0..MaxChars :
       /\ Passeren(SysSem(d, x), x)
       /\ dev' = [dev EXCEPT ![x] = d]
       /\ left' = [left EXCEPT ![x] = len]
       /\ Goto(x, IF len = 0 THEN "unlock" ELSE "putc")
  /\ CallFrame

\* The page of the buffer can be used without a fault.
Usable(x, op) == \E v \in Vpns : Cached(x, v) /\ Allows(TlbLo(x, v), op)

\* Mutant: an error returns without VERHOGEN.
WriteChar_keeps_mutex(x) ==
  /\ At(x, {"putc"}) /\ Usable(x, "load")
  /\ \/ /\ left' = [left EXCEPT ![x] = @ - 1]
        /\ Goto(x, IF left[x] = 1 THEN "unlock" ELSE "putc")
     \/ /\ left' = [left EXCEPT ![x] = 0]
        /\ Goto(x, "user")
  /\ UNCHANGED << dev, sVars >>
  /\ CallFrame

\* s[i] is read and DOIO writes it, or fails.
WriteChar(x) ==
  /\ At(x, {"putc"}) /\ Usable(x, "load")
  /\ \/ /\ left' = [left EXCEPT ![x] = @ - 1]
        /\ Goto(x, IF left[x] = 1 THEN "unlock" ELSE "putc")
     \/ /\ left' = [left EXCEPT ![x] = 0]
        /\ Goto(x, "unlock")
  /\ UNCHANGED << dev, sVars >>
  /\ CallFrame

\* sys_read_terminal up to its loop.
sys_read_terminal(x) ==
  /\ At(x, {"user"}) /\ "read" \in Calls[x]
  /\ Passeren(SysSem(2, x), x)
  /\ dev' = [dev EXCEPT ![x] = 2]
  /\ Goto(x, "getc")
  /\ UNCHANGED left
  /\ CallFrame

\* DOIO gives an error, a character or the newline that ends the loop.
ReadChar(x) ==
  /\ At(x, {"getc"})
  /\ \E point \in {"unlock", "store", "last"} : Goto(x, point)
  /\ UNCHANGED << dev, left, sVars >>
  /\ CallFrame

StoreChar(x) ==
  /\ At(x, {"store", "last", "eos"}) /\ Usable(x, "store")
  /\ Goto(x, IF pc[x] = "store" THEN "getc"
             ELSE IF pc[x] = "last" THEN "unlock_eos" ELSE "user")
  /\ UNCHANGED << dev, left, sVars >>
  /\ CallFrame

\* VERHOGEN of the device mutex, after which the call does not use its device
\* again; a line that was read still gets its EOS.
Unlock(x) ==
  /\ At(x, {"unlock", "unlock_eos"})
  /\ Verhogen(SysSem(dev[x], x), x)
  /\ Goto(x, IF pc[x] = "unlock" THEN "user" ELSE "eos")
  /\ dev' = [dev EXCEPT ![x] = 0]
  /\ UNCHANGED left
  /\ CallFrame

\* The buffer of a system call is in the memory of the U-proc: its use may miss
\* the TLB and fault like any other.
BufferAccess(x) ==
  /\ pc[x] # "user"
  /\ \E v \in Vpns :
       \/ tlb_refill_handler(x, v)
       \/ Fault(x, v, IF pc[x] = "putc" THEN "load" ELSE "store")

\* The calls that go on once they have started.
support_syscall(x) == WriteChar(x) \/ ReadChar(x) \/ StoreChar(x) \/ Unlock(x)

OfPager(A) == A /\ UNCHANGED << heap, uprocVars, testVars >>

Handlers(x) ==
  \/ OfPager(support_tlb(x) \/ clean_after_uproc(x) \/ BufferAccess(x))
  \/ support_syscall(x) \/ sys_terminate(x)

Idle == machine # "up" /\ UNCHANGED vars

NextUProcs ==
  \/ test
  \/ \E x \in Asid :
       \/ Handlers(x) \/ syscall_writer(x) \/ sys_read_terminal(x)
       \/ OfPager(Terminate(x) \/ (pc[x] = "user" /\ Access(x)))
  \/ Idle

SpecUProcs == InitUProcs /\ [][NextUProcs]_vars

\* The test process and every U-proc inside a handler go on when they can: the
\* scheduler is round robin and devices answer.  U-procs may compute for ever.
FairUProcs ==
  SpecUProcs /\ WF_vars(test) /\ \A x \in Asid : WF_vars(Handlers(x))

-----------------------------------------------------------------------------
(* Invariants.                                                              *)

CallPoints == {"putc", "getc", "store", "last", "unlock", "unlock_eos"}

\* x is in the part of a system call that has the mutex of its device, a page
\* fault on the buffer included.
InCall(x) ==
  \/ pc[x] \in CallPoints
  \/ pc[x] \in FaultPoints /\ back[x] \in CallPoints

\* The device mutexes: SYS3, SYS4 and SYS5 release what they take on every path,
\* device errors included, and take only one; nobody ever has to wait for one.
\* (A U-proc that dies in a fault on its buffer keeps its own.)
DeviceMutexes ==
  \A x \in Asid : pc[x] \notin EndPoints =>
    \A d \in 0..2 :
      /\ queue[SysSem(d, x)] = << >>
      /\ value[SysSem(d, x)] = 0 <=> InCall(x) /\ dev[x] = d

\* The machine is halted by the test process only when every U-proc has ended,
\* has given its frames back and has released the swap pool, unless a header
\* could not be read: no signal on the master semaphore, which is binary, is
\* counted twice or too early.
HaltsAfterAll ==
  tpc = "done" =>
    /\ \A x \in Asid : pc[x] \in {"signalled", "dead"}
    /\ \A i \in Frame : swap_pool_table[i].asid = -1
    /\ value[SWAP] = 1

-----------------------------------------------------------------------------
(* Liveness, under FairUProcs.                                              *)

\* If every U-proc ends, the machine stops: no signal is lost either, and a
\* U-proc that waits in VERHOGEN for the test process does not wait for ever.
\* (With two U-procs, whose structures are allocated before either is started.)
HaltsInTheEnd ==
  (\A x \in Asid : <>(pc[x] \in EndPoints)) => <>(machine \in {"halt", "panic"})

-----------------------------------------------------------------------------
(* What comments of the code say and the code does not do.                  *)

\* test.c:24: support_free holds the structures that are not allocated.
FreeAreNotAllocated ==
  \A x \in Asid :
    pc[x] \notin EndPoints /\ support[x] # NULL =>
      ~L!list_contains(heap, support[x], SUPPORT_FREE)

\* test.c:130: the test process waits for each U-proc to terminate before it
\* terminates itself.  With three, an allocation and two ends that overlap close
\* support_free into a circle without its sentinel, and list_size goes round.
TerminatesAfterEach == HaltsInTheEnd

=============================================================================
