---------------------------- MODULE UProcsProofs ----------------------------
(***************************************************************************)
(* Proofs about the support level as a whole, for every number of U-procs,  *)
(* pages and frames and every pattern of system calls: the swap pool under  *)
(* system calls and the launcher too, the mutexes of the devices, and the   *)
(* end of the machine.                                                      *)
(***************************************************************************)
EXTENDS UProcs, PagerProofs, FiniteSetTheorems

\* Points at which a U-proc has no baton: before it is launched, in its program
\* and in its system calls.
UPlain == AccessPoints \cup {"tlb", "pick", "none", "getc", "unlock", "unlock_eos"}
AfterClean == {"head", "link1", "link2", "link3", "count", "signal", "signalled", "dead"}
UPoints == UPlain \cup HandlerPoints \cup AfterClean

\* DeviceMutexes, with the semaphores of U-procs that have ended.
DeviceInv ==
  /\ dev \in [Asid -> 0..2]
  /\ \A x \in Asid, d \in 0..2 : queue[SysSem(d, x)] = << >>
  /\ \A x \in Asid : pc[x] \notin EndPoints =>
       \A d \in 0..2 : value[SysSem(d, x)] = 0 <=> InCall(x) /\ dev[x] = d

\* mark_frames_as_unoccupied has seen the frames below its index, and no frame is
\* given to a U-proc that has ended.
CleanInv ==
  \A x \in Asid :
    /\ pc[x] \in {"clean", "free"} =>
         \A i \in Frame : i < victim[x].frame => swap_pool_table[i].asid # x
    /\ pc[x] \in {"cleaned"} \cup AfterClean => \A i \in Frame : swap_pool_table[i].asid # x

\* The U-procs that have executed VERHOGEN on the master semaphore, blocked in it
\* or not, and the number of times the test process has executed PASSEREN.
Signalled == {x \in Asid : pc[x] \in {"signalled", "dead"}}
Passed == IF tpc = "header" THEN 0 ELSE round

\* The master semaphore counts: the signals that PASSEREN has not consumed are
\* the value and the U-procs blocked in VERHOGEN, and what PASSEREN is ahead of
\* the signals is the test process itself, waiting.
MasterInv ==
  /\ IsInjective(queue[MASTER])
  /\ value[MASTER] = 0 => /\ Range(queue[MASTER]) \subseteq {TEST}
                          /\ Cardinality(Signalled) = Passed - Len(queue[MASTER])
  /\ value[MASTER] = 1 => /\ \A p \in Range(queue[MASTER]) : p \in Asid /\ pc[p] = "signalled"
                          /\ Cardinality(Signalled) = Passed + 1 + Len(queue[MASTER])

\* The test process launches the U-procs in order, and halts after the last signal.
TestInv ==
  /\ tpc \in {"header", "wait", "done"}
  /\ tpc = "header" => round \in 1..UPROCMAX /\ \A y \in Asid : y >= round => pc[y] = "none"
  /\ tpc # "header" => round \in 0..UPROCMAX
  /\ tpc = "done" => machine = "halt" /\ Signalled = Asid

UInv ==
  /\ pc \in [Asid -> UPoints]
  /\ DataOK
  /\ SwapInv(UPlain)
  /\ DeviceInv
  /\ CleanInv
  /\ MasterInv
  /\ TestInv

-----------------------------------------------------------------------------
(* Points and semaphores.                                                   *)

LEMMA UPlainOK == PlainPoints(UPlain)
BY UProcsConstants DEF UPlain, PlainPoints, BatonPoints, Ending

LEMMA SemNames ==
  /\ SWAP \in Sems /\ MASTER \in Sems /\ SWAP # MASTER
  /\ TEST \in Procs /\ TEST \notin Asid /\ Asid \subseteq Procs
  /\ \A d \in 0..2, x \in Asid :
       /\ SysSem(d, x) \in Sems /\ SysSem(d, x) # SWAP /\ SysSem(d, x) # MASTER
       /\ \A e \in 0..2, y \in Asid : SysSem(d, x) = SysSem(e, y) => d = e /\ x = y
BY UProcsConstants, Points, PoolAssumption DEF SysSem, SWAP, MASTER, TEST, Asid

\* The pager uses no semaphore but that of the swap pool.
LEMMA PagerSems ==
  ASSUME NEW N, SwapInv(N), NEW x \in Asid, PagerStep(x)
  PROVE  \A s \in Sems \ {SWAP} : value'[s] = value[s] /\ queue'[s] = queue[s]
<1>1. CASE UNCHANGED sVars
  BY <1>1 DEF sVars
<1>2. CASE Passeren(SWAP, x) \/ Verhogen(SWAP, x)
  BY <1>2, SemNames, OperateEffect DEF SwapInv, Passeren, Verhogen
<1>3. UNCHANGED sVars \/ Passeren(SWAP, x) \/ Verhogen(SWAP, x)
  BY DEF PagerStep, Access, support_tlb, clean_after_uproc, tlb_refill_handler, LoadFrom,
         StoreTo, Fault, Terminate, GainSwapPool, TakeBaton, pick_page, EvictPage, WriteVictim, ReadPage,
         FlashError, InstallPage, ReleaseSwapPool, ReturnFromFault, CleanRelease, CleanTest,
         CleanFrame, release_sem_swap_pool_table
<1> QED BY <1>1, <1>2, <1>3

\* Where the steps of the pager start and lead.
LEMMA PagerMoves ==
  ASSUME NEW P, pc \in [Asid -> P], DataOK, NEW x \in Asid, PagerStep(x)
  PROVE  /\ machine = "up"
         /\ pc[x] \in AccessPoints \cup HandlerPoints /\ pc[x] # "cleaned"
         /\ pc'[x] \in AccessPoints \cup HandlerPoints
         /\ \A y \in Asid \ {x} : pc'[y] = pc[y]
<1>1. back[x] \in AccessPoints
  BY DEF DataOK
<1>2. "cleaned" \notin AccessPoints
  BY UProcsConstants
<1>3. CASE Access(x)
  BY <1>2, <1>3 DEF Access, tlb_refill_handler, LoadFrom, StoreTo, Fault, At, Goto,
                    HandlerPoints, FaultPoints
<1>4. CASE Terminate(x) \/ clean_after_uproc(x)
  BY <1>4, Points DEF Terminate, clean_after_uproc, CleanRelease, CleanTest, CleanFrame, At,
                      Goto, HandlerPoints, FaultPoints, Ending
<1>5. CASE support_tlb(x)
  BY <1>1, <1>5 DEF support_tlb, GainSwapPool, TakeBaton, pick_page, EvictPage, WriteVictim, ReadPage,
                    FlashError, InstallPage, ReleaseSwapPool, ReturnFromFault, At,
                    Goto, HandlerPoints, FaultPoints, Ending
<1> QED BY <1>3, <1>4, <1>5 DEF PagerStep

\* The pager neither enters nor leaves a system call, and goes back to where the
\* fault was.
LEMMA PagerCalls ==
  ASSUME NEW P, pc \in [Asid -> P], DataOK, NEW x \in Asid, PagerStep(x)
  PROVE  /\ pc'[x] \notin EndPoints => pc[x] \notin EndPoints /\ (InCall(x)' <=> InCall(x))
         /\ \A y \in Asid \ {x} : back'[y] = back[y]
<1>1. back[x] \in AccessPoints /\ back \in [Asid -> AccessPoints]
  BY DEF DataOK
<1>2. AccessPoints \cap (FaultPoints \cup EndPoints) = {}
  BY UProcsConstants DEF FaultPoints, EndPoints, Ending
<1>3. FaultPoints \cap (CallPoints \cup EndPoints) = {}
  BY DEF FaultPoints, CallPoints, EndPoints, Ending
<1>4. CASE Access(x)
  <2>1. /\ pc[x] \in AccessPoints
        /\ \/ UNCHANGED << pc, back >>
           \/ pc' = [pc EXCEPT ![x] = "tlb"] /\ back' = [back EXCEPT ![x] = pc[x]]
    BY <1>4 DEF Access, tlb_refill_handler, LoadFrom, StoreTo, Fault, At, Goto, localVars
  <2>2. CASE UNCHANGED << pc, back >>
    BY <1>2, <2>1, <2>2 DEF InCall
  <2>3. CASE pc' = [pc EXCEPT ![x] = "tlb"] /\ back' = [back EXCEPT ![x] = pc[x]]
    <3>1. pc'[x] = "tlb" /\ back'[x] = pc[x] /\ \A y \in Asid \ {x} : back'[y] = back[y]
      BY <1>1, <2>3
    <3>2. pc[x] \notin EndPoints /\ pc[x] \notin FaultPoints /\ "tlb" \in FaultPoints
      BY <1>2, <2>1 DEF FaultPoints
    <3> QED BY <1>3, <3>1, <3>2 DEF InCall
  <2> QED BY <2>1, <2>2, <2>3
<1>5. CASE Terminate(x) \/ FlashError(x) \/ clean_after_uproc(x)
  <2>1. pc'[x] \in EndPoints /\ UNCHANGED back
    BY <1>5 DEF Terminate, FlashError, clean_after_uproc, CleanRelease, CleanTest, CleanFrame,
                At, Goto, EndPoints, Ending, localVars
  <2> QED BY <2>1
<1>6. CASE \/ GainSwapPool(x) \/ TakeBaton(x) \/ pick_page(x) \/ EvictPage(x) \/ WriteVictim(x)
           \/ ReadPage(x) \/ InstallPage(x) \/ ReleaseSwapPool(x)
  <2>1. pc[x] \in FaultPoints /\ pc'[x] \in FaultPoints /\ UNCHANGED back
    BY <1>6 DEF GainSwapPool, TakeBaton, pick_page, EvictPage, WriteVictim, ReadPage, InstallPage,
                ReleaseSwapPool, At, Goto, FaultPoints, localVars
  <2> QED BY <1>3, <2>1 DEF InCall
<1>7. CASE ReturnFromFault(x)
  <2>1. /\ pc[x] = "baton" /\ pc'[x] = back[x]
        /\ \A y \in Asid \ {x} : back'[y] = back[y]
    BY <1>1, <1>7 DEF ReturnFromFault, At, Goto
  <2>2. pc[x] \in FaultPoints /\ pc'[x] \notin FaultPoints /\ pc[x] \notin CallPoints
    BY <1>1, <1>2, <1>3, <2>1 DEF FaultPoints
  <2> QED BY <1>3, <2>1, <2>2 DEF InCall
<1> QED BY <1>4, <1>5, <1>6, <1>7 DEF PagerStep, support_tlb

\* Frames change hands in two ways: a U-proc takes one inside support_tlb, and a
\* frame becomes free.
LEMMA PagerFrames ==
  ASSUME NEW P, pc \in [Asid -> P], DataOK, CleanInv, NEW x \in Asid, PagerStep(x)
  PROVE  CleanInv'
<1>1. \A y \in Asid \ {x} : pc'[y] = pc[y]
  BY PagerMoves
<1>2. \A y \in Asid \ {x} : victim'[y] = victim[y]
  BY DEF PagerStep, Access, support_tlb, clean_after_uproc, tlb_refill_handler, LoadFrom,
         StoreTo, Fault, Terminate, GainSwapPool, TakeBaton, pick_page, EvictPage, WriteVictim, ReadPage,
         FlashError, InstallPage, ReleaseSwapPool, ReturnFromFault, CleanRelease, CleanTest,
         CleanFrame, localVars, DataOK
<1>3. x # -1 /\ \A y \in Asid : y # -1
  BY PoolAssumption DEF Asid
<1>4. CASE InstallPage(x)
  <2>1. victim[x].frame \in Frame /\ pc'[x] = "release"
    BY <1>4 DEF InstallPage, At, Goto, DataOK
  <2>2. \A i \in Frame : swap_pool_table'[i] = swap_pool_table[i] \/ swap_pool_table'[i].asid = x
    BY <1>4, <2>1 DEF InstallPage, add_entry_swap_pool_table, DataOK
  <2> QED BY <1>1, <1>2, <2>1, <2>2 DEF CleanInv, AfterClean
<1>5. CASE CleanFrame(x)
  <2>1. victim[x].frame \in Frame /\ pc[x] = "free" /\ pc'[x] = "clean"
    BY <1>5 DEF CleanFrame, At, Goto, DataOK
  <2>2. /\ swap_pool_table'[victim[x].frame].asid = -1
        /\ \A i \in Frame \ {victim[x].frame} : swap_pool_table'[i] = swap_pool_table[i]
    BY <1>5, <2>1 DEF CleanFrame, DataOK
  <2>3. victim'[x].frame = victim[x].frame + 1
    BY <1>5 DEF CleanFrame, DataOK
  <2>4. \A i \in Frame : i < victim'[x].frame => swap_pool_table'[i].asid # x
    <3> SUFFICES ASSUME NEW i \in Frame, i < victim[x].frame + 1
                 PROVE  swap_pool_table'[i].asid # x
      BY <2>3
    <3>1. i < victim[x].frame \/ i = victim[x].frame
      BY <2>1 DEF Frame
    <3> QED BY <1>3, <2>1, <2>2, <3>1 DEF CleanInv
  <2> QED BY <1>1, <1>2, <1>3, <2>1, <2>2, <2>4 DEF CleanInv, AfterClean
<1>6. CASE ~InstallPage(x) /\ ~CleanFrame(x)
  <2>1. UNCHANGED swap_pool_table
    BY <1>6
       DEF PagerStep, Access, support_tlb, clean_after_uproc, tlb_refill_handler,
           LoadFrom, StoreTo, Fault, Terminate, GainSwapPool, TakeBaton, pick_page, EvictPage,
           WriteVictim, ReadPage, FlashError, ReleaseSwapPool, ReturnFromFault,
           CleanRelease, CleanTest, poolVars
  <2>2. CASE CleanRelease(x)
    <3>1. pc'[x] = "clean" /\ victim'[x].frame = 0
      BY <2>2 DEF CleanRelease, Goto, DataOK
    <3>2. \A i \in Frame : ~(i < 0)
      BY DEF Frame
    <3> QED BY <1>1, <1>2, <2>1, <3>1, <3>2 DEF CleanInv, AfterClean
  <2>3. CASE CleanTest(x)
    <3>0. pc[x] = "clean" /\ victim[x].frame \in 0..POOLSIZE
      BY <2>3 DEF CleanTest, At, DataOK
    <3>1. CASE victim[x].frame = POOLSIZE /\ Goto(x, "cleaned")
      <4>1. \A i \in Frame : i < victim[x].frame
        BY <3>1, PoolAssumption DEF Frame
      <4>2. \A i \in Frame : swap_pool_table[i].asid # x
        BY <3>0, <4>1 DEF CleanInv
      <4>3. pc'[x] = "cleaned"
        BY <3>1 DEF Goto
      <4> QED BY <1>1, <1>2, <2>1, <4>2, <4>3 DEF CleanInv
    <3>2. CASE Goto(x, "free") /\ UNCHANGED victim
      <4>1. pc'[x] = "free"
        BY <3>2 DEF Goto
      <4> QED BY <1>1, <2>1, <3>0, <3>2, <4>1 DEF CleanInv, AfterClean
    <3>3. CASE /\ swap_pool_table[victim[x].frame].asid # x /\ UNCHANGED pc
               /\ victim' = [victim EXCEPT ![x].frame = victim[x].frame + 1]
      <4>1. victim'[x].frame = victim[x].frame + 1
        BY <3>3 DEF DataOK
      <4>2. \A i \in Frame : i < victim'[x].frame => swap_pool_table[i].asid # x
        <5> SUFFICES ASSUME NEW i \in Frame, i < victim[x].frame + 1
                     PROVE  swap_pool_table[i].asid # x
          BY <4>1
        <5>1. i < victim[x].frame \/ i = victim[x].frame
          BY <3>0, PoolAssumption DEF Frame
        <5> QED BY <3>0, <3>3, <5>1 DEF CleanInv
      <4> QED BY <1>1, <1>2, <2>1, <3>0, <3>3, <4>2 DEF CleanInv, AfterClean
    <3> QED BY <2>3, <3>1, <3>2, <3>3 DEF CleanTest
  <2>4. CASE ~CleanRelease(x) /\ ~CleanTest(x)
    <3>1. pc'[x] \notin {"clean", "free", "cleaned"} \cup AfterClean
      <4>1. back[x] \in AccessPoints
        BY DEF DataOK
      <4>2. AccessPoints \cap ({"clean", "free", "cleaned"} \cup AfterClean) = {}
        BY UProcsConstants DEF AfterClean
      <4>3. CASE Access(x)
        BY <4>2, <4>3 DEF Access, tlb_refill_handler, LoadFrom, StoreTo, Fault, At, Goto,
                          AfterClean
      <4>4. CASE Terminate(x) \/ support_tlb(x)
        BY <1>6, <4>1, <4>2, <4>4
           DEF Terminate, support_tlb, GainSwapPool, TakeBaton, pick_page, EvictPage, WriteVictim,
               ReadPage, FlashError, ReleaseSwapPool, ReturnFromFault, At, Goto, AfterClean
      <4> QED BY <1>6, <2>4, <4>3, <4>4 DEF PagerStep, clean_after_uproc
    <3> QED BY <1>1, <1>2, <2>1, <3>1 DEF CleanInv
  <2> QED BY <2>2, <2>3, <2>4
<1> QED BY <1>4, <1>5, <1>6

-----------------------------------------------------------------------------
(* The steps of the pager.                                                  *)

LEMMA PagerPreserves ==
  ASSUME UInv, NEW x \in Asid, PagerStep(x), UNCHANGED << uprocVars, testVars >>
  PROVE  UInv'
<1> USE DEF UInv
<1>1. pc' \in [Asid -> UPoints]
  BY PointStep DEF UPoints, UPlain
<1>2. DataOK'
  BY DataStep
<1>3. SwapInv(UPlain)'
  BY SwapStep, UPlainOK DEF DataOK
<1>4. CleanInv'
  BY PagerFrames
<1>5. /\ machine = "up" /\ \A y \in Asid \ {x} : pc'[y] = pc[y]
      /\ pc[x] \notin {"signalled", "dead", "none"} /\ pc'[x] \notin {"signalled", "dead"}
  <2>1. /\ machine = "up" /\ \A y \in Asid \ {x} : pc'[y] = pc[y]
        /\ pc[x] \in AccessPoints \cup HandlerPoints
        /\ pc'[x] \in AccessPoints \cup HandlerPoints
    BY PagerMoves
  <2> QED BY <2>1, UProcsConstants DEF HandlerPoints, FaultPoints, Ending
<1>6. UNCHANGED << dev, tpc, round >>
  BY DEF uprocVars, testVars
<1>7. \A s \in Sems \ {SWAP} : value'[s] = value[s] /\ queue'[s] = queue[s]
  BY PagerSems
<1>8. DeviceInv'
  <2>1. \A y \in Asid, d \in 0..2 : /\ value'[SysSem(d, y)] = value[SysSem(d, y)]
                                    /\ queue'[SysSem(d, y)] = queue[SysSem(d, y)]
    BY <1>7, SemNames
  <2>2. \A y \in Asid : pc'[y] \notin EndPoints =>
          pc[y] \notin EndPoints /\ (InCall(y)' <=> InCall(y))
    <3>1. \A y \in Asid \ {x} : pc'[y] = pc[y] /\ back'[y] = back[y]
      BY <1>5, PagerCalls
    <3>2. pc'[x] \notin EndPoints => pc[x] \notin EndPoints /\ (InCall(x)' <=> InCall(x))
      BY PagerCalls
    <3>3. \A y \in Asid \ {x} : InCall(y)' <=> InCall(y)
      BY <3>1 DEF InCall
    <3> QED BY <3>1, <3>2, <3>3
  <2> QED BY <1>6, <2>1, <2>2 DEF DeviceInv
<1>9. Signalled' = Signalled
  BY <1>5 DEF Signalled
<1>10. MasterInv'
  <2>1. value'[MASTER] = value[MASTER] /\ queue'[MASTER] = queue[MASTER]
    BY <1>7, SemNames
  <2>2. \A p \in Asid : pc[p] = "signalled" => pc'[p] = "signalled"
    BY <1>5
  <2> QED BY <1>6, <1>9, <2>1, <2>2 DEF MasterInv, Passed
<1>11. TestInv'
  BY <1>5, <1>6, <1>9 DEF TestInv
<1> QED BY <1>1, <1>2, <1>3, <1>4, <1>8, <1>10, <1>11

-----------------------------------------------------------------------------
(* The steps of support.c and test.c.                                       *)

\* They leave the data of the pager alone; x moves between points outside it.
LEMMA MoveData ==
  ASSUME NEW P, pc \in [Asid -> P], DataOK, NEW x \in Asid, NEW q,
         q \notin {"evict", "write", "read", "install", "free"},
         pc' = [pc EXCEPT ![x] = q], machine' \in {"up", "panic", "halt", "stuck"},
         UNCHANGED << poolVars, dataVars, pageVars, localVars >>
  PROVE  DataOK'
<1>1. \A y \in Asid : VictimOK(y)'
  BY VictimFrame DEF VictimOK, localVars
<1> QED BY <1>1 DEF DataOK, VictimOK, poolVars, dataVars, pageVars, localVars

\* Program and system calls; what follows clean_after_uproc.
CallSide == UPlain \ {"tlb", "pick"}
DeadSide == {"cleaned"} \cup AfterClean

LEMMA MoveSwap ==
  ASSUME pc \in [Asid -> UPoints], SwapInv(UPlain), NEW x \in Asid, NEW q,
         (pc[x] \in CallSide /\ q \in CallSide) \/ (pc[x] \in DeadSide /\ q \in DeadSide),
         pc' = [pc EXCEPT ![x] = q], UNCHANGED swap_pool_batons, SemsOK',
         value'[SWAP] = value[SWAP], queue'[SWAP] = queue[SWAP]
  PROVE  SwapInv(UPlain)'
<1>1. pc'[x] = q /\ \A y \in Asid \ {x} : pc'[y] = pc[y]
  OBVIOUS
<1>2. /\ CallSide \cap {"pick", "terminate"} = {} /\ CallSide \cap BatonPoints = {}
      /\ DeadSide \cap (BatonPoints \cup UPlain \cup {"terminate"}) = {}
      /\ CallSide \subseteq UPlain /\ "pick" \in UPlain
  BY UProcsConstants DEF CallSide, DeadSide, UPlain, BatonPoints, AfterClean
<1>3. /\ pc[x] \notin BatonPoints \cup {"pick", "terminate"}
      /\ q \notin BatonPoints \cup {"pick", "terminate"}
  BY <1>2
<1>4. ~Holds(x) /\ ~Holds(x)' /\ ~list_contains(x, queue[SWAP])
  BY <1>1, <1>3 DEF Holds, BatonPoints, SwapInv, SwapPoolMutex
<1>5. pc'[x] \in UPlain => ~swap_pool_batons[x]
  BY <1>1, <1>2 DEF SwapInv
<1> QED BY <1>1, <1>3, <1>4, <1>5, UPlainOK, SwapFrame

LEMMA MoveClean ==
  ASSUME pc \in [Asid -> UPoints], CleanInv, NEW x \in Asid, NEW q,
         \/ q \in UPlain
         \/ pc[x] \in DeadSide /\ q \in DeadSide,
         pc' = [pc EXCEPT ![x] = q], UNCHANGED << poolVars, localVars >>
  PROVE  CleanInv'
<1>1. UNCHANGED << swap_pool_table, victim >>
  BY DEF poolVars, localVars
<1>2. UPlain \cap ({"clean", "free"} \cup DeadSide) = {} /\ DeadSide \cap {"clean", "free"} = {}
  BY UProcsConstants DEF UPlain, DeadSide, AfterClean
<1> QED BY <1>1, <1>2 DEF CleanInv, DeadSide

\* Steps that leave the master semaphore and the test process alone.
LEMMA MoveMaster ==
  ASSUME pc \in [Asid -> UPoints], MasterInv, TestInv, NEW x \in Asid, NEW q,
         pc' = [pc EXCEPT ![x] = q], machine = "up",
         value'[MASTER] = value[MASTER], queue'[MASTER] = queue[MASTER],
         UNCHANGED testVars, pc[x] # "none",
         \/ pc[x] \notin {"signalled", "dead"} /\ q \notin {"signalled", "dead"}
         \/ pc[x] = "signalled" /\ q = "dead" /\ x \notin Range(queue[MASTER])
  PROVE  MasterInv' /\ TestInv'
<1>1. UNCHANGED << tpc, round >> /\ pc'[x] = q /\ \A y \in Asid \ {x} : pc'[y] = pc[y]
  BY DEF testVars
<1>2. Signalled' = Signalled
  BY <1>1 DEF Signalled
<1>3. ASSUME NEW p \in Range(queue[MASTER]), p \in Asid, pc[p] = "signalled"
      PROVE  pc'[p] = "signalled"
  BY <1>1, <1>3
<1>4. MasterInv'
  BY <1>1, <1>2, <1>3 DEF MasterInv, Passed
<1>5. TestInv'
  BY <1>1, <1>2 DEF TestInv
<1> QED BY <1>4, <1>5

\* A U-proc at these points is in a call exactly at the points in CallPoints.
Running == CallSide \ {"none"}

LEMMA RunningCalls ==
  ASSUME NEW x \in Asid
  PROVE  /\ pc[x] \in Running => (InCall(x) <=> pc[x] \in CallPoints)
         /\ pc'[x] \in Running => (InCall(x)' <=> pc'[x] \in CallPoints)
         /\ Running \cap (EndPoints \cup FaultPoints) = {}
<1>1. Running \cap (EndPoints \cup FaultPoints) = {}
  BY UProcsConstants DEF Running, CallSide, UPlain, EndPoints, Ending, FaultPoints
<1> QED BY <1>1 DEF InCall

\* A step of a system call preserves the invariant if it keeps the semaphores of
\* the devices in step with the point and the device of x.
LEMMA CallPreserves ==
  ASSUME UInv, NEW x \in Asid, machine = "up", CallFrame, pc[x] \in Running,
         NEW q \in Running, pc' = [pc EXCEPT ![x] = q],
         queue' = queue, value' \in [Sems -> {0, 1}],
         \A s \in Sems : (\A d \in 0..2 : s # SysSem(d, x)) => value'[s] = value[s],
         dev' \in [Asid -> 0..2], \A y \in Asid \ {x} : dev'[y] = dev[y],
         \A d \in 0..2 : value'[SysSem(d, x)] = 0 <=> q \in CallPoints /\ dev'[x] = d
  PROVE  UInv'
<1> USE DEF UInv
<1>1. /\ pc'[x] = q /\ \A y \in Asid \ {x} : pc'[y] = pc[y]
  OBVIOUS
<1>2. /\ Running \subseteq UPoints /\ Running \subseteq CallSide /\ Running \subseteq UPlain
      /\ Running \cap {"evict", "write", "read", "install", "free", "signalled", "dead", "none"} = {}
  BY UProcsConstants DEF Running, CallSide, UPoints, UPlain
<1>3. pc' \in [Asid -> UPoints]
  BY <1>2
<1>4. UNCHANGED << poolVars, dataVars, pageVars, localVars, machine, testVars >>
  BY DEF CallFrame
<1>5. DataOK'
  <2>1. machine' \in {"up", "panic", "halt", "stuck"}
    BY <1>4
  <2> QED BY <1>2, <1>4, <2>1, MoveData
<1>6. value'[SWAP] = value[SWAP] /\ value'[MASTER] = value[MASTER]
  BY SemNames
<1>7. SwapInv(UPlain)'
  <2>1. SemsOK' /\ UNCHANGED swap_pool_batons
    BY <1>4 DEF SemsOK, SwapInv, poolVars
  <2> QED BY <1>2, <1>6, <2>1, MoveSwap
<1>8. CleanInv'
  BY <1>2, <1>4, MoveClean
<1>9. MasterInv' /\ TestInv'
  BY <1>2, <1>4, <1>6, MoveMaster
<1>10. \A y \in Asid \ {x}, d \in 0..2 : value'[SysSem(d, y)] = value[SysSem(d, y)]
  BY SemNames
<1>11. \A y \in Asid \ {x} : InCall(y)' <=> InCall(y)
  BY <1>1, <1>4 DEF InCall, localVars
<1>12. InCall(x)' <=> q \in CallPoints
  BY <1>1, RunningCalls
<1>13. ASSUME NEW y \in Asid, pc'[y] \notin EndPoints, NEW d \in 0..2
       PROVE  value'[SysSem(d, y)] = 0 <=> InCall(y)' /\ dev'[y] = d
  <2>1. CASE y = x
    BY <1>12, <2>1
  <2>2. CASE y # x
    BY <1>1, <1>10, <1>11, <1>13, <2>2 DEF DeviceInv
  <2> QED BY <2>1, <2>2
<1>14. DeviceInv'
  BY <1>13 DEF DeviceInv
<1> QED BY <1>3, <1>5, <1>7, <1>8, <1>9, <1>14

\* Nobody waits for the mutex of a device: PASSEREN finds a 1 and VERHOGEN a 0.
LEMMA DeviceTaken ==
  ASSUME UInv, NEW x \in Asid, pc[x] \in Running, pc[x] \notin CallPoints, NEW d \in 0..2,
         Passeren(SysSem(d, x), x)
  PROVE  value' = [value EXCEPT ![SysSem(d, x)] = 0] /\ queue' = queue
<1>1. value[SysSem(d, x)] # 0 /\ queue[SysSem(d, x)] = << >>
  BY RunningCalls DEF UInv, DeviceInv
<1> QED BY <1>1 DEF Passeren, Operate

LEMMA DeviceGiven ==
  ASSUME UInv, NEW x \in Asid, pc[x] \in Running, pc[x] \in CallPoints,
         Verhogen(SysSem(dev[x], x), x)
  PROVE  value' = [value EXCEPT ![SysSem(dev[x], x)] = 1] /\ queue' = queue
<1>1. dev[x] \in 0..2
  BY DEF UInv, DeviceInv
<1>2. value[SysSem(dev[x], x)] = 0 /\ queue[SysSem(dev[x], x)] = << >>
  BY <1>1, RunningCalls DEF UInv, DeviceInv
<1> QED BY <1>2 DEF Verhogen, Operate

LEMMA RunningPoints ==
  /\ {"user", "putc", "store", "last", "eos", "getc", "unlock", "unlock_eos"} = Running
  /\ CallPoints = Running \ {"user", "eos"}
BY UProcsConstants DEF Running, CallSide, UPlain, CallPoints

\* The calls that take the mutex.
LEMMA CallStarts ==
  ASSUME UInv, NEW x \in Asid, syscall_writer(x) \/ sys_read_terminal(x)
  PROVE  UInv'
<1>1. PICK d \in 0..2, q \in CallPoints :
        /\ Passeren(SysSem(d, x), x) /\ pc' = [pc EXCEPT ![x] = q]
        /\ dev' = [dev EXCEPT ![x] = d]
  BY DEF syscall_writer, sys_read_terminal, Goto, CallPoints
<1>2. pc[x] = "user" /\ machine = "up" /\ CallFrame
  BY DEF syscall_writer, sys_read_terminal, At
<1>3. pc[x] \in Running /\ pc[x] \notin CallPoints /\ q \in Running
  BY <1>1, <1>2, RunningPoints
<1>4. value' = [value EXCEPT ![SysSem(d, x)] = 0] /\ queue' = queue
  BY <1>1, <1>3, DeviceTaken
<1>5. value \in [Sems -> {0, 1}] /\ dev \in [Asid -> 0..2]
  BY DEF UInv, SwapInv, SemsOK, DeviceInv
<1>6. \A e \in 0..2 : value[SysSem(e, x)] # 0
  BY <1>3, RunningCalls DEF UInv, DeviceInv
<1>7. /\ value' \in [Sems -> {0, 1}] /\ dev' \in [Asid -> 0..2] /\ dev'[x] = d
      /\ \A y \in Asid \ {x} : dev'[y] = dev[y]
      /\ \A s \in Sems : (\A e \in 0..2 : s # SysSem(e, x)) => value'[s] = value[s]
  BY <1>1, <1>4, <1>5
<1>8. \A e \in 0..2 : value'[SysSem(e, x)] = 0 <=> q \in CallPoints /\ dev'[x] = e
  BY <1>4, <1>5, <1>6, <1>7, SemNames
<1> QED BY <1>1, <1>2, <1>3, <1>4, <1>7, <1>8, CallPreserves

\* The steps of a call: the loop, and the release of the mutex.
LEMMA CallGoesOn ==
  ASSUME UInv, NEW x \in Asid, support_syscall(x)
  PROVE  UInv'
<1>1. value \in [Sems -> {0, 1}] /\ dev \in [Asid -> 0..2]
  BY DEF UInv, SwapInv, SemsOK, DeviceInv
<1>2. CASE WriteChar(x) \/ ReadChar(x) \/ StoreChar(x)
  <2>1. PICK q \in Running :
          /\ pc' = [pc EXCEPT ![x] = q] /\ pc[x] \in Running
          /\ q \in CallPoints <=> pc[x] \in CallPoints
    BY <1>2, RunningPoints DEF WriteChar, ReadChar, StoreChar, At, Goto, CallPoints
  <2>2. machine = "up" /\ CallFrame /\ UNCHANGED << dev, value, queue >>
    BY <1>2 DEF WriteChar, ReadChar, StoreChar, At, sVars
  <2>3. \A d \in 0..2 : value[SysSem(d, x)] = 0 <=> q \in CallPoints /\ dev[x] = d
    BY <2>1, RunningCalls DEF UInv, DeviceInv
  <2> QED BY <1>1, <2>1, <2>2, <2>3, CallPreserves
<1>3. CASE Unlock(x)
  <2>1. PICK q \in {"user", "eos"} : pc' = [pc EXCEPT ![x] = q]
    BY <1>3 DEF Unlock, Goto
  <2>2. /\ machine = "up" /\ CallFrame /\ dev' = [dev EXCEPT ![x] = 0]
        /\ pc[x] \in {"unlock", "unlock_eos"} /\ Verhogen(SysSem(dev[x], x), x)
    BY <1>3 DEF Unlock, At
  <2>3. pc[x] \in Running /\ pc[x] \in CallPoints /\ q \in Running /\ q \notin CallPoints
    BY <2>1, <2>2, RunningPoints
  <2>4. value' = [value EXCEPT ![SysSem(dev[x], x)] = 1] /\ queue' = queue
    BY <2>2, <2>3, DeviceGiven
  <2>5. dev[x] \in 0..2
    BY <1>1
  <2>6. \A e \in 0..2 : e # dev[x] => value[SysSem(e, x)] # 0
    BY <2>3, RunningCalls DEF UInv, DeviceInv
  <2>7. \A e \in 0..2 : value'[SysSem(e, x)] # 0
    BY <1>1, <2>4, <2>5, <2>6, SemNames
  <2>8. /\ value' \in [Sems -> {0, 1}]
        /\ \A s \in Sems : (\A e \in 0..2 : s # SysSem(e, x)) => value'[s] = value[s]
    BY <1>1, <2>4, <2>5
  <2>9. dev' \in [Asid -> 0..2] /\ \A y \in Asid \ {x} : dev'[y] = dev[y]
    BY <1>1, <2>2
  <2> QED BY <2>1, <2>2, <2>3, <2>4, <2>7, <2>8, <2>9, CallPreserves
<1> QED BY <1>2, <1>3 DEF support_syscall

\* A semaphore that is not one of the devices' changes nothing for them.
LEMMA DevicesApart ==
  ASSUME UInv, NEW x \in Asid,
         \/ pc' = [pc EXCEPT ![x] = "user"] /\ pc[x] = "none"
         \/ pc[x] \in EndPoints /\ \A y \in Asid \ {x} : pc'[y] = pc[y],
         UNCHANGED << dev, back >>,
         \A s \in Sems \ {MASTER} : value'[s] = value[s] /\ queue'[s] = queue[s],
         pc[x] \in EndPoints => pc'[x] \in EndPoints
  PROVE  DeviceInv'
<1>1. \A y \in Asid, d \in 0..2 : /\ value'[SysSem(d, y)] = value[SysSem(d, y)]
                                  /\ queue'[SysSem(d, y)] = queue[SysSem(d, y)]
  BY SemNames
<1>2. \A y \in Asid \ {x} : pc'[y] = pc[y] /\ (InCall(y)' <=> InCall(y))
  BY DEF UInv, InCall
<1>3. pc'[x] \notin EndPoints => pc[x] \notin EndPoints /\ (InCall(x)' <=> InCall(x))
  <2>1. ASSUME pc' = [pc EXCEPT ![x] = "user"], pc[x] = "none"
        PROVE  pc[x] \notin EndPoints /\ ~InCall(x)' /\ ~InCall(x)
    BY <2>1 DEF UInv, InCall, CallPoints, FaultPoints, EndPoints, Ending
  <2> QED BY <2>1
<1> QED BY <1>1, <1>2, <1>3 DEF DeviceInv, UInv

\* Counting the signals.
LEMMA SignalledCount ==
  /\ IsFiniteSet(Asid) /\ Cardinality(Asid) = UPROCMAX
  /\ IsFiniteSet(Signalled) /\ Cardinality(Signalled) \in Nat
  /\ Cardinality(Signalled) <= UPROCMAX
  /\ Cardinality(Signalled) = UPROCMAX => Signalled = Asid
<1>1. IsFiniteSet(Asid) /\ Cardinality(Asid) = UPROCMAX
  BY FS_Interval, PoolAssumption DEF Asid
<1>2. Signalled \in SUBSET Asid
  BY DEF Signalled
<1> QED BY <1>1, <1>2, FS_Subset, FS_CardinalityType

LEMMA Sums ==
  \A a, b \in Nat : a + 1 + (b + 1) = (a + 1 + b) + 1 /\ (a + 1) + 1 + (b - 1) = a + 1 + b
OBVIOUS

\* A U-proc after clean_after_uproc that leaves the semaphores alone.
LEMMA DeadPreserves ==
  ASSUME UInv, NEW x \in Asid, machine = "up", ~Waiting(x), pc[x] \in DeadSide,
         NEW q \in DeadSide, pc' = [pc EXCEPT ![x] = q],
         machine' \in {"up", "panic", "halt", "stuck"}, UNCHANGED << sVars, dev, testVars >>,
         UNCHANGED << poolVars, dataVars, pageVars, localVars >>,
         \/ pc[x] \notin {"signalled", "dead"} /\ q \notin {"signalled", "dead"}
         \/ pc[x] = "signalled" /\ q = "dead"
  PROVE  UInv'
<1> USE DEF UInv
<1>1. /\ DeadSide \subseteq UPoints /\ DeadSide \subseteq EndPoints
      /\ DeadSide \cap {"evict", "write", "read", "install", "free", "none"} = {}
  BY DEF DeadSide, AfterClean, UPoints, HandlerPoints, Ending, EndPoints
<1>2. pc' \in [Asid -> UPoints]
  BY <1>1
<1>3. DataOK'
  BY <1>1, MoveData
<1>4. SwapInv(UPlain)'
  <2>1. SemsOK' /\ UNCHANGED << swap_pool_batons, value, queue >>
    BY DEF SemsOK, SwapInv, poolVars, sVars
  <2> QED BY <2>1, MoveSwap
<1>5. CleanInv'
  BY MoveClean
<1>6. DeviceInv'
  <2>1. UNCHANGED << dev, back, value, queue >>
    BY DEF localVars, sVars
  <2>2. pc'[x] \in EndPoints /\ pc[x] \in EndPoints /\ \A y \in Asid \ {x} : pc'[y] = pc[y]
    BY <1>1
  <2> QED BY <2>1, <2>2, DevicesApart
<1>7. MasterInv' /\ TestInv'
  <2>1. x \notin Range(queue[MASTER]) /\ UNCHANGED << value, queue >>
    BY SemNames DEF Waiting, list_contains, sVars
  <2> QED BY <1>1, <2>1, MoveMaster
<1> QED BY <1>2, <1>3, <1>4, <1>5, <1>6, <1>7

\* VERHOGEN on the master semaphore: one more signal.
LEMMA SignalPreserves ==
  ASSUME UInv, NEW x \in Asid, master_semaphore_v(x)
  PROVE  UInv'
<1> USE DEF UInv
<1>1. /\ pc[x] = "signal" /\ pc' = [pc EXCEPT ![x] = "signalled"] /\ machine = "up"
      /\ Verhogen(MASTER, x) /\ UNCHANGED << dev, testVars, machine >>
      /\ UNCHANGED << poolVars, dataVars, pageVars, localVars >>
  BY DEF master_semaphore_v, At, Goto, uprocVars
<1>2. pc'[x] = "signalled" /\ \A y \in Asid \ {x} : pc'[y] = pc[y]
  BY <1>1
<1>3. /\ SemsOK'
      /\ \A r \in Sems \ {MASTER} : value'[r] = value[r] /\ queue'[r] = queue[r]
      /\ \/ Joins(MASTER, x, 1) \/ PassesOn(MASTER, 1) \/ Sets(MASTER, 1, 1)
  BY <1>1, SemNames, OperateEffect DEF SwapInv, MasterInv, Verhogen
<1>4. pc' \in [Asid -> UPoints]
  BY <1>1 DEF UPoints, AfterClean
<1>5. DataOK'
  <2>1. machine' \in {"up", "panic", "halt", "stuck"}
    BY <1>1
  <2> QED BY <1>1, <2>1, MoveData
<1>6. SwapInv(UPlain)'
  <2>1. UNCHANGED swap_pool_batons /\ value'[SWAP] = value[SWAP] /\ queue'[SWAP] = queue[SWAP]
    BY <1>1, <1>3, SemNames DEF poolVars
  <2>2. pc[x] \in DeadSide /\ "signalled" \in DeadSide
    BY <1>1 DEF DeadSide, AfterClean
  <2> QED BY <1>1, <1>3, <2>1, <2>2, MoveSwap
<1>7. CleanInv'
  <2>1. pc[x] \in DeadSide /\ "signalled" \in DeadSide
    BY <1>1 DEF DeadSide, AfterClean
  <2> QED BY <1>1, <2>1, MoveClean
<1>8. DeviceInv'
  <2>1. UNCHANGED << dev, back >>
    BY <1>1 DEF localVars
  <2>2. pc[x] \in EndPoints /\ pc'[x] \in EndPoints
    BY <1>1, <1>2 DEF EndPoints
  <2> QED BY <1>2, <1>3, <2>1, <2>2, DevicesApart
<1>9. Signalled' = Signalled \cup {x} /\ x \notin Signalled
  BY <1>1, <1>2 DEF Signalled
<1>10. Cardinality(Signalled') = Cardinality(Signalled) + 1 /\ Cardinality(Signalled) \in Nat
  BY <1>9, SignalledCount, FS_AddElement
<1>11. tpc' = tpc /\ round' = round /\ Passed' = Passed /\ tpc # "done"
  BY <1>1 DEF testVars, Passed, TestInv
<1>12. TestInv'
  BY <1>1, <1>2, <1>11 DEF TestInv
<1>13. Passed \in Nat /\ Len(queue[MASTER]) \in Nat /\ Len(queue'[MASTER]) \in Nat
       /\ value[MASTER] \in {0, 1} /\ value'[MASTER] \in {0, 1}
  <2>1. queue[MASTER] \in Seq(Procs) /\ queue'[MASTER] \in Seq(Procs)
    BY <1>3, SemNames DEF SwapInv, SemsOK
  <2>2. Passed \in Nat
    BY PoolAssumption DEF Passed, TestInv
  <2> QED BY <1>3, <2>1, <2>2, SemNames, EmptyList DEF SwapInv, SemsOK
<1>14. MasterInv'
  <2>1. CASE Joins(MASTER, x, 1)
    <3>1. /\ value[MASTER] = 1 /\ value'[MASTER] = 1
          /\ Range(queue'[MASTER]) = Range(queue[MASTER]) \cup {x}
          /\ Len(queue'[MASTER]) = Len(queue[MASTER]) + 1 /\ IsInjective(queue'[MASTER])
      BY <2>1 DEF Joins
    <3>2. \A p \in Range(queue'[MASTER]) : p \in Asid /\ pc'[p] = "signalled"
      BY <1>2, <3>1 DEF MasterInv
    <3>3. Cardinality(Signalled) = Passed + 1 + Len(queue[MASTER])
      BY <3>1 DEF MasterInv
    <3>4. Cardinality(Signalled') = Passed' + 1 + Len(queue'[MASTER])
      <4>1. Passed' + 1 + Len(queue'[MASTER]) = (Passed + 1 + Len(queue[MASTER])) + 1
        <5>1. /\ Passed \in Nat /\ Len(queue[MASTER]) \in Nat
              /\ Passed' = Passed /\ Len(queue'[MASTER]) = Len(queue[MASTER]) + 1
          BY <1>11, <1>13, <3>1
        <5>2. Passed + 1 + (Len(queue[MASTER]) + 1) = (Passed + 1 + Len(queue[MASTER])) + 1
          BY <5>1, Sums
        <5> QED BY <5>1, <5>2, Zenon
      <4> QED BY <1>10, <3>3, <4>1
    <3> QED BY <3>1, <3>2, <3>4 DEF MasterInv
  <2>2. CASE PassesOn(MASTER, 1)
    <3>1. /\ value[MASTER] = 0 /\ value'[MASTER] = 0
          /\ Range(queue'[MASTER]) \subseteq Range(queue[MASTER])
          /\ Len(queue'[MASTER]) = Len(queue[MASTER]) - 1 /\ IsInjective(queue'[MASTER])
      BY <1>13, <2>2 DEF PassesOn
    <3>2. Cardinality(Signalled)' = Passed' - Len(queue'[MASTER])
      BY <1>10, <1>11, <1>13, <3>1 DEF MasterInv
    <3> QED BY <3>1, <3>2 DEF MasterInv
  <2>3. CASE Sets(MASTER, 1, 1)
    <3>1. /\ value[MASTER] = 0 /\ value'[MASTER] = 1
          /\ queue[MASTER] = << >> /\ queue'[MASTER] = << >>
      BY <1>13, <2>3 DEF Sets
    <3>2. Len(queue[MASTER]) = 0 /\ Len(queue'[MASTER]) = 0 /\ Range(queue'[MASTER]) = {}
          /\ IsInjective(queue'[MASTER])
      BY <3>1, NilList
    <3>3. Cardinality(Signalled)' = Passed' + 1 + Len(queue'[MASTER])
      BY <1>10, <1>11, <1>13, <3>1, <3>2 DEF MasterInv
    <3> QED BY <3>1, <3>2, <3>3 DEF MasterInv
  <2> QED BY <1>3, <2>1, <2>2, <2>3
<1> QED BY <1>4, <1>5, <1>6, <1>7, <1>8, <1>12, <1>14

\* deallocate and TERMPROCESS.
LEMMA DeallocatePreserves ==
  ASSUME UInv, NEW x \in Asid,
         \/ DeallocateSearch(x) \/ DeallocateHead(x) \/ DeallocateLink(x)
         \/ DeallocateCount(x) \/ TermProcess(x)
  PROVE  UInv'
<1>1. machine = "up" /\ ~Waiting(x) /\ pc \in [Asid -> UPoints]
  BY DEF DeallocateSearch, DeallocateHead, DeallocateLink, DeallocateCount, TermProcess, At, UInv
<1>2. PICK q \in DeadSide :
        /\ pc[x] \in DeadSide /\ pc' = [pc EXCEPT ![x] = q]
        /\ \/ pc[x] \notin {"signalled", "dead"} /\ q \notin {"signalled", "dead"}
           \/ pc[x] = "signalled" /\ q = "dead"
  <2>1. CASE DeallocateSearch(x) /\ pc' = pc
    <3>1. pc[x] = "cleaned" /\ pc' = [pc EXCEPT ![x] = "cleaned"]
      BY <1>1, <2>1 DEF DeallocateSearch, At
    <3> QED BY <3>1 DEF DeadSide
  <2>2. CASE DeallocateSearch(x) /\ pc' # pc
    BY <2>2 DEF DeallocateSearch, At, Goto, DeadSide, AfterClean
  <2>3. CASE DeallocateHead(x) \/ DeallocateLink(x) \/ DeallocateCount(x)
    BY <2>3 DEF DeallocateHead, DeallocateLink, DeallocateCount, At, Goto, DeadSide, AfterClean
  <2>4. CASE TermProcess(x)
    BY <2>4 DEF TermProcess, At, Goto, DeadSide, AfterClean
  <2> QED BY <2>1, <2>2, <2>3, <2>4
<1>3. /\ machine' \in {"up", "panic", "halt", "stuck"} /\ UNCHANGED << sVars, dev, testVars >>
      /\ UNCHANGED << poolVars, dataVars, pageVars, localVars >>
  BY <1>1 DEF DeallocateSearch, DeallocateHead, DeallocateLink, DeallocateCount, TermProcess, uprocVars
<1> QED BY <1>1, <1>2, <1>3, DeadPreserves

-----------------------------------------------------------------------------
(* The test process.                                                        *)

LEMMA LaunchPreserves ==
  ASSUME UInv, Launch
  PROVE  UInv'
<1> USE DEF UInv
<1>1. /\ machine = "up" /\ tpc = "header" /\ pc' = [pc EXCEPT ![round] = "user"]
      /\ UNCHANGED << poolVars, dataVars, pageVars, localVars, sVars, dev >>
      /\ \/ round < UPROCMAX /\ round' = round + 1 /\ tpc' = tpc
         \/ round = UPROCMAX /\ round' = 0 /\ tpc' = "wait"
  BY DEF Launch, Goto
<1>2. machine' \in {"up", "panic", "halt", "stuck"}
  BY DEF Launch, allocate
<1>3. PICK x \in Asid : x = round
  BY <1>1 DEF TestInv, Asid
<1>4. pc[x] = "none" /\ pc' = [pc EXCEPT ![x] = "user"]
  BY <1>1, <1>3, PoolAssumption DEF TestInv, Asid
<1>5. pc'[x] = "user" /\ \A y \in Asid \ {x} : pc'[y] = pc[y]
  BY <1>4
<1>6. /\ "user" \in UPlain /\ UPlain \subseteq UPoints
      /\ "user" \in CallSide /\ "none" \in CallSide
  BY UProcsConstants DEF UPlain, UPoints, CallSide
<1>7. pc' \in [Asid -> UPoints]
  BY <1>4, <1>6
<1>8. DataOK'
  BY <1>1, <1>2, <1>4, MoveData
<1>9. SwapInv(UPlain)'
  <2>1. SemsOK' /\ UNCHANGED << swap_pool_batons, value, queue >>
    BY <1>1 DEF SemsOK, SwapInv, poolVars, sVars
  <2> QED BY <1>4, <1>6, <2>1, MoveSwap
<1>10. CleanInv'
  BY <1>1, <1>4, <1>6, MoveClean
<1>11. DeviceInv'
  <2>1. UNCHANGED << dev, back, value, queue >>
    BY <1>1 DEF localVars, sVars
  <2>2. pc[x] \notin EndPoints
    BY <1>4 DEF EndPoints, Ending
  <2> QED BY <1>4, <2>1, <2>2, DevicesApart
<1>12. Signalled' = Signalled
  BY <1>4, <1>5 DEF Signalled
<1>13. Passed' = Passed
  BY <1>1 DEF Passed
<1>14. MasterInv'
  <2>1. UNCHANGED << value, queue >>
    BY <1>1 DEF sVars
  <2>2. ASSUME NEW p \in Asid, pc[p] = "signalled" PROVE pc'[p] = "signalled"
    BY <1>4, <1>5, <2>2
  <2> QED BY <1>12, <1>13, <2>1, <2>2 DEF MasterInv
<1>15. TestInv'
  <2>1. CASE round < UPROCMAX /\ round' = round + 1 /\ tpc' = tpc
    <3>1. round' \in 1..UPROCMAX /\ round \in Nat
      BY <1>1, <2>1, PoolAssumption DEF TestInv
    <3>2. ASSUME NEW y \in Asid, y >= round' PROVE pc'[y] = "none"
      BY <1>1, <1>3, <1>5, <2>1, <3>1, <3>2 DEF TestInv, Asid
    <3> QED BY <1>1, <2>1, <3>1, <3>2 DEF TestInv
  <2>2. CASE round' = 0 /\ tpc' = "wait"
    BY <2>2, PoolAssumption DEF TestInv
  <2> QED BY <1>1, <2>1, <2>2
<1> QED BY <1>7, <1>8, <1>9, <1>10, <1>11, <1>14, <1>15

\* Steps that touch nothing but the machine and the test process.
LEMMA QuietPreserves ==
  ASSUME UInv, machine' \in {"up", "panic", "halt", "stuck"},
         UNCHANGED << poolVars, dataVars, pageVars, localVars, pc, dev >>,
         SemsOK', \A s \in Sems \ {MASTER} : value'[s] = value[s] /\ queue'[s] = queue[s]
  PROVE  /\ pc' \in [Asid -> UPoints] /\ DataOK' /\ SwapInv(UPlain)' /\ DeviceInv' /\ CleanInv'
         /\ Signalled' = Signalled
<1> USE DEF UInv
<1>1. UNCHANGED << pc, dev, back, swap_pool_batons, swap_pool_table, victim >>
  BY DEF localVars, poolVars
<1>2. value'[SWAP] = value[SWAP] /\ queue'[SWAP] = queue[SWAP]
  BY SemNames
<1>3. DataOK'
  BY <1>1 DEF DataOK, poolVars, dataVars, pageVars, localVars
<1>4. SwapInv(UPlain)'
  BY <1>1, <1>2 DEF SwapInv, SwapPoolMutex, Holds, list_contains
<1>5. DeviceInv'
  <2>1. \A y \in Asid, d \in 0..2 : /\ value'[SysSem(d, y)] = value[SysSem(d, y)]
                                    /\ queue'[SysSem(d, y)] = queue[SysSem(d, y)]
    BY SemNames
  <2> QED BY <1>1, <2>1 DEF DeviceInv, InCall
<1>6. CleanInv' /\ Signalled' = Signalled
  BY <1>1 DEF CleanInv, Signalled
<1> QED BY <1>1, <1>3, <1>4, <1>5, <1>6

LEMMA HeaderErrorPreserves ==
  ASSUME UInv, HeaderError
  PROVE  UInv'
<1>1. /\ tpc = "header" /\ machine' = "halt"
      /\ UNCHANGED << poolVars, dataVars, pageVars, localVars, pc, dev, sVars, testVars >>
  BY DEF HeaderError, uprocVars
<1>2. UNCHANGED << value, queue, tpc, round, pc >>
  BY <1>1 DEF sVars, testVars
<1>3. SemsOK'
  BY <1>2 DEF UInv, SwapInv, SemsOK
<1>4. /\ pc' \in [Asid -> UPoints] /\ DataOK' /\ SwapInv(UPlain)' /\ DeviceInv' /\ CleanInv'
      /\ Signalled' = Signalled
  BY <1>1, <1>2, <1>3, QuietPreserves
<1>5. MasterInv' /\ TestInv'
  BY <1>1, <1>2, <1>4 DEF UInv, MasterInv, Passed, TestInv
<1> QED BY <1>4, <1>5 DEF UInv

\* PASSEREN of the test process: one more signal consumed, or awaited.
LEMMA AwaitPreserves ==
  ASSUME UInv, master_semaphore_p, round < UPROCMAX
  PROVE  UInv'
<1>1. /\ machine = "up" /\ tpc = "wait" /\ ~Waiting(TEST) /\ Passeren(MASTER, TEST)
      /\ round' = round + 1 /\ UNCHANGED << tpc, machine, dev, pc >>
      /\ UNCHANGED << poolVars, dataVars, pageVars, localVars >>
  BY PoolAssumption DEF master_semaphore_p, uprocVars, UInv, TestInv
<1>2. /\ SemsOK'
      /\ \A r \in Sems \ {MASTER} : value'[r] = value[r] /\ queue'[r] = queue[r]
      /\ \/ Joins(MASTER, TEST, 0) \/ PassesOn(MASTER, 0) \/ Sets(MASTER, 0, 0)
  BY <1>1, SemNames, OperateEffect DEF UInv, SwapInv, MasterInv, Passeren
<1>3. /\ pc' \in [Asid -> UPoints] /\ DataOK' /\ SwapInv(UPlain)' /\ DeviceInv' /\ CleanInv'
      /\ Signalled' = Signalled
  <2>1. machine' \in {"up", "panic", "halt", "stuck"}
    BY <1>1
  <2> QED BY <1>1, <1>2, <2>1, QuietPreserves
<1>4. TestInv'
  BY <1>1, <1>3, PoolAssumption DEF UInv, TestInv
<1>5. /\ Passed \in Nat /\ Passed' = Passed + 1
      /\ Len(queue[MASTER]) \in Nat /\ Len(queue'[MASTER]) \in Nat
      /\ value[MASTER] \in {0, 1} /\ value'[MASTER] \in {0, 1}
  <2>1. queue[MASTER] \in Seq(Procs) /\ queue'[MASTER] \in Seq(Procs)
    BY <1>2, SemNames DEF UInv, SwapInv, SemsOK
  <2>2. Passed \in Nat /\ Passed' = Passed + 1
    BY <1>1, PoolAssumption DEF Passed, UInv, TestInv
  <2> QED BY <1>2, <2>1, <2>2, SemNames, EmptyList DEF UInv, SwapInv, SemsOK
<1>6. Cardinality(Signalled)' = Cardinality(Signalled) /\ Cardinality(Signalled) \in Nat
  BY <1>3, SignalledCount
<1>7. MasterInv'
  <2>1. CASE Joins(MASTER, TEST, 0)
    <3>1. /\ value[MASTER] = 0 /\ value'[MASTER] = 0
          /\ Range(queue'[MASTER]) = Range(queue[MASTER]) \cup {TEST}
          /\ Len(queue'[MASTER]) = Len(queue[MASTER]) + 1 /\ IsInjective(queue'[MASTER])
      BY <2>1 DEF Joins
    <3>2. /\ Range(queue[MASTER]) \subseteq {TEST}
          /\ Cardinality(Signalled) = Passed - Len(queue[MASTER])
      BY <3>1 DEF UInv, MasterInv
    <3>3. Cardinality(Signalled)' = Passed' - Len(queue'[MASTER])
      BY <1>5, <1>6, <3>1, <3>2
    <3> QED BY <3>1, <3>2, <3>3 DEF MasterInv
  <2>2. CASE PassesOn(MASTER, 0)
    <3>1. /\ value[MASTER] = 1 /\ value'[MASTER] = 1
          /\ Range(queue'[MASTER]) \subseteq Range(queue[MASTER])
          /\ Len(queue'[MASTER]) = Len(queue[MASTER]) - 1 /\ IsInjective(queue'[MASTER])
      BY <1>5, <2>2 DEF PassesOn
    <3>2. /\ \A p \in Range(queue[MASTER]) : p \in Asid /\ pc[p] = "signalled"
          /\ Cardinality(Signalled) = Passed + 1 + Len(queue[MASTER])
      BY <3>1 DEF UInv, MasterInv
    <3>3. Cardinality(Signalled') = Passed' + 1 + Len(queue'[MASTER])
      <4>1. Passed' + 1 + Len(queue'[MASTER]) = Passed + 1 + Len(queue[MASTER])
        <5>1. Passed' + 1 + Len(queue'[MASTER]) = (Passed + 1) + 1 + (Len(queue[MASTER]) - 1)
          BY <1>5, <3>1, Zenon
        <5> QED BY <1>5, <5>1, Sums
      <4> QED BY <1>6, <3>2, <4>1
    <3>4. \A p \in Range(queue'[MASTER]) : p \in Asid /\ pc'[p] = "signalled"
      BY <1>1, <3>1, <3>2
    <3> QED BY <3>1, <3>3, <3>4 DEF MasterInv
  <2>3. CASE Sets(MASTER, 0, 0)
    <3>1. /\ value[MASTER] = 1 /\ value'[MASTER] = 0
          /\ queue[MASTER] = << >> /\ queue'[MASTER] = << >>
      BY <1>5, <2>3 DEF Sets
    <3>2. Len(queue[MASTER]) = 0 /\ Len(queue'[MASTER]) = 0 /\ Range(queue'[MASTER]) = {}
          /\ IsInjective(queue'[MASTER])
      BY <3>1, NilList
    <3>3. Cardinality(Signalled) = Passed + 1 + Len(queue[MASTER])
      BY <3>1 DEF UInv, MasterInv
    <3>4. Cardinality(Signalled)' = Passed' - Len(queue'[MASTER])
      BY <1>5, <1>6, <3>2, <3>3
    <3> QED BY <3>1, <3>2, <3>4 DEF MasterInv
  <2> QED BY <1>2, <2>1, <2>2, <2>3
<1> QED BY <1>3, <1>4, <1>7 DEF UInv

\* After the last PASSEREN the signals are all there.
LEMMA HaltPreserves ==
  ASSUME UInv, master_semaphore_p, ~(round < UPROCMAX)
  PROVE  UInv'
<1>1. /\ tpc = "wait" /\ ~Waiting(TEST) /\ round = UPROCMAX
      /\ machine' = "halt" /\ tpc' = "done" /\ UNCHANGED << sVars, round, pc, dev >>
      /\ UNCHANGED << poolVars, dataVars, pageVars, localVars >>
  BY DEF master_semaphore_p, uprocVars
<1>2. UNCHANGED << value, queue, round, pc >> /\ Passed' = Passed /\ Passed = UPROCMAX
  BY <1>1 DEF sVars, Passed
<1>3. SemsOK'
  BY <1>2 DEF UInv, SwapInv, SemsOK
<1>4. /\ pc' \in [Asid -> UPoints] /\ DataOK' /\ SwapInv(UPlain)' /\ DeviceInv' /\ CleanInv'
      /\ Signalled' = Signalled
  BY <1>1, <1>2, <1>3, QuietPreserves
<1>5. MasterInv'
  BY <1>2, <1>4 DEF UInv, MasterInv
<1>6. queue[MASTER] \in Seq(Procs) /\ value[MASTER] \in {0, 1} /\ Len(queue[MASTER]) \in Nat
  <2>1. queue[MASTER] \in Seq(Procs) /\ value[MASTER] \in {0, 1}
    BY SemNames DEF UInv, SwapInv, SemsOK
  <2> QED BY <2>1
<1>7. value[MASTER] # 1
  <2>1. value[MASTER] = 1 => Cardinality(Signalled) = Passed + 1 + Len(queue[MASTER])
    BY DEF UInv, MasterInv
  <2> QED BY <1>2, <1>6, <2>1, SignalledCount, PoolAssumption
<1>8. TEST \notin Range(queue[MASTER])
  BY <1>1, SemNames DEF Waiting, list_contains
<1>9. Range(queue[MASTER]) = {} /\ Cardinality(Signalled) = Passed - Len(queue[MASTER])
  BY <1>6, <1>7, <1>8 DEF UInv, MasterInv
<1>10. queue[MASTER] = << >>
  BY <1>6, <1>9, EmptyList
<1>11. Len(queue[MASTER]) = 0
  BY <1>10, NilList
<1>12. Signalled = Asid
  BY <1>2, <1>9, <1>11, SignalledCount, PoolAssumption
<1>13. TestInv'
  BY <1>1, <1>4, <1>12 DEF UInv, TestInv
<1> QED BY <1>4, <1>5, <1>13 DEF UInv

-----------------------------------------------------------------------------
(* The invariant and its consequences.                                      *)

LEMMA InitU ==
  ASSUME InitUProcs
  PROVE  UInv
<1>1. /\ pc = [x \in Asid |-> "none"] /\ init_pager /\ InitSems
      /\ value = [s \in Sems |-> IF s = MASTER THEN 0 ELSE 1]
      /\ dev = [x \in Asid |-> 0] /\ tpc = "header" /\ round = 1
  BY DEF InitUProcs
<1>2. \A x \in Asid : pc[x] = "none"
  BY <1>1
<1>3. "none" \in UPlain \ {"pick"} /\ UPlain \subseteq UPoints /\ "none" \notin EndPoints
  BY DEF UPlain, UPoints, EndPoints, Ending
<1>4. pc \in [Asid -> UPoints]
  BY <1>1, <1>3
<1>5. DataOK
  BY <1>1, <1>2, InitData
<1>6. \A s \in Sems : queue[s] = << >>
  BY <1>1 DEF InitSems
<1>7. value[SWAP] = 1 /\ value[MASTER] = 0 /\ \A d \in 0..2, x \in Asid : value[SysSem(d, x)] = 1
  BY <1>1, SemNames
<1>8. SwapInv(UPlain)
  <2>1. swap_pool_batons = [x \in Asid |-> FALSE]
    BY <1>1 DEF init_pager
  <2> QED BY <1>1, <1>2, <1>3, <1>7, <2>1, UPlainOK, InitSwap
<1>9. DeviceInv
  <2>1. \A x \in Asid : ~InCall(x)
    BY <1>2 DEF InCall, CallPoints, FaultPoints
  <2>2. \A d \in 0..2, x \in Asid : queue[SysSem(d, x)] = << >>
    BY <1>6, SemNames
  <2>3. dev \in [Asid -> 0..2]
    BY <1>1
  <2>4. ASSUME NEW x \in Asid, NEW d \in 0..2
        PROVE  value[SysSem(d, x)] = 0 <=> InCall(x) /\ dev[x] = d
    BY <1>7, <2>1
  <2> QED BY <2>2, <2>3, <2>4 DEF DeviceInv
<1>10. CleanInv
  BY <1>2 DEF CleanInv, AfterClean
<1>11. Signalled = {} /\ Cardinality(Signalled) = 0
  <2>1. Signalled = {}
    BY <1>2 DEF Signalled
  <2> QED BY <2>1, FS_EmptySet
<1>12. MasterInv
  <2>1. queue[MASTER] = << >>
    BY <1>6, SemNames
  <2>2. Range(queue[MASTER]) = {} /\ IsInjective(queue[MASTER]) /\ Len(queue[MASTER]) = 0
    BY <2>1, NilList
  <2> QED BY <1>1, <1>7, <1>11, <2>2 DEF MasterInv, Passed
<1>13. TestInv
  BY <1>1, <1>2, PoolAssumption DEF TestInv
<1> QED BY <1>4, <1>5, <1>8, <1>9, <1>10, <1>12, <1>13 DEF UInv

LEMMA StutterU ==
  ASSUME UInv, UNCHANGED vars
  PROVE  UInv'
<1>1. /\ UNCHANGED << poolVars, dataVars, pageVars, localVars, pc, dev >>
      /\ UNCHANGED << value, queue, tpc, round, machine >>
  BY DEF vars, pagerVars, sVars, uprocVars, testVars
<1>2. SemsOK' /\ machine' \in {"up", "panic", "halt", "stuck"}
  BY <1>1 DEF UInv, SwapInv, SemsOK, DataOK
<1>3. /\ pc' \in [Asid -> UPoints] /\ DataOK' /\ SwapInv(UPlain)' /\ DeviceInv' /\ CleanInv'
      /\ Signalled' = Signalled
  BY <1>1, <1>2, QuietPreserves
<1>4. MasterInv' /\ TestInv'
  BY <1>1, <1>3 DEF UInv, MasterInv, Passed, TestInv
<1> QED BY <1>3, <1>4 DEF UInv

LEMMA StepU ==
  ASSUME UInv, [NextUProcs]_vars
  PROVE  UInv'
<1>1. CASE UNCHANGED vars \/ Idle
  BY <1>1, StutterU DEF Idle
<1>2. CASE test
  BY <1>2, LaunchPreserves, HeaderErrorPreserves, AwaitPreserves, HaltPreserves DEF test
<1>3. ASSUME NEW x \in Asid,
             \/ OfPager(support_tlb(x) \/ clean_after_uproc(x) \/ BufferAccess(x))
             \/ OfPager(Terminate(x) \/ (pc[x] = "user" /\ Access(x)))
      PROVE  UInv'
  <2>1. BufferAccess(x) => Access(x)
    BY DEF BufferAccess, Access
  <2>2. PagerStep(x) /\ UNCHANGED << uprocVars, testVars >>
    BY <1>3, <2>1 DEF OfPager, PagerStep
  <2> QED BY <2>2, PagerPreserves
<1>4. ASSUME NEW x \in Asid, support_syscall(x) PROVE UInv'
  BY <1>4, CallGoesOn
<1>5. ASSUME NEW x \in Asid, sys_terminate(x) PROVE UInv'
  BY <1>5, DeallocatePreserves, SignalPreserves DEF sys_terminate
<1>6. ASSUME NEW x \in Asid, syscall_writer(x) \/ sys_read_terminal(x) PROVE UInv'
  BY <1>6, CallStarts
<1> QED BY <1>1, <1>2, <1>3, <1>4, <1>5, <1>6 DEF NextUProcs, Handlers

\* The inductive invariant of the support level holds in every reachable state of
\* test.c, support.c and pager.c together.
THEOREM UProcsInvariance == SpecUProcs => []UInv
BY InitU, StepU, PTL DEF SpecUProcs

\* The mutex of the swap pool survives system calls that fault on their buffer,
\* and U-procs that end anywhere (support_tlb, release_sem_swap_pool_table,
\* clean_after_uproc): one U-proc at a time has the table, and nobody is left
\* with it.
THEOREM SwapPoolExclusiveU == SpecUProcs => []SwapPoolMutex
<1>1. UInv => SwapPoolMutex
  BY DEF UInv, SwapInv
<1> QED BY <1>1, UProcsInvariance, PTL

\* SYS3, SYS4 and SYS5 (syscall_writer, sys_read_terminal) release the mutex of
\* their device on every path that goes on, and never wait for it.
THEOREM DeviceMutexesHold == SpecUProcs => []DeviceMutexes
<1>1. UInv => DeviceMutexes
  BY DEF UInv, DeviceInv, DeviceMutexes
<1> QED BY <1>1, UProcsInvariance, PTL

\* The test process (test.c) executes its last instruction only after every U-proc
\* has signalled the end of sys_terminate: no frame is occupied any more and the
\* swap pool is free.
THEOREM HaltsOnlyAfterAll == SpecUProcs => []HaltsAfterAll
<1>1. UInv => HaltsAfterAll
  <2> SUFFICES ASSUME UInv, tpc = "done"
               PROVE  /\ \A x \in Asid : pc[x] \in {"signalled", "dead"}
                      /\ \A i \in Frame : swap_pool_table[i].asid = -1
                      /\ value[SWAP] = 1
    BY DEF HaltsAfterAll
  <2>1. \A x \in Asid : pc[x] \in {"signalled", "dead"}
    BY DEF UInv, TestInv, Signalled
  <2>2. \A x \in Asid : pc[x] \in AfterClean
    BY <2>1 DEF AfterClean
  <2>3. \A i \in Frame : swap_pool_table[i].asid = -1
    <3> TAKE i \in Frame
    <3>1. swap_pool_table[i].asid \in Asid \cup {-1}
      BY DEF UInv, DataOK
    <3>2. \A x \in Asid : swap_pool_table[i].asid # x
      BY <2>2 DEF UInv, CleanInv
    <3> QED BY <3>1, <3>2
  <2>4. \A x \in Asid : ~Holds(x)
    BY <2>1 DEF Holds, BatonPoints, UInv, SwapInv
  <2>5. value[SWAP] = 1
    BY <2>4, SemNames DEF UInv, SwapInv, SemsOK, SwapPoolMutex
  <2> QED BY <2>1, <2>3, <2>5
<1> QED BY <1>1, UProcsInvariance, PTL

-----------------------------------------------------------------------------
(* Paging, under the launcher and the system calls.                         *)

\* A step of test.c or of a system call: it leaves the data of the pager alone,
\* and a U-proc that moves stays in its program and its calls, or after
\* clean_after_uproc.
OutsideStep ==
  /\ UNCHANGED << poolVars, dataVars, pageVars, localVars >>
  /\ \/ UNCHANGED pc
     \/ \E x \in Asid : \/ pc[x] \in CallSide /\ \E q \in CallSide : Goto(x, q)
                        \/ pc[x] \in DeadSide /\ \E q \in DeadSide : Goto(x, q)

LEMMA InOrOutside ==
  ASSUME UInv, [NextUProcs]_vars
  PROVE  (\E x \in Asid : PagerStep(x)) \/ OutsideStep
<1>1. CASE UNCHANGED vars \/ Idle
  BY <1>1 DEF Idle, vars, pagerVars, OutsideStep
<1>2. CASE Launch
  <2>1. PICK x \in Asid : x = round /\ pc[x] = "none"
    BY <1>2 DEF Launch, UInv, TestInv, Asid
  <2>2. "user" \in CallSide /\ "none" \in CallSide
    BY UProcsConstants DEF CallSide, UPlain
  <2>3. Goto(x, "user") /\ UNCHANGED << poolVars, dataVars, pageVars, localVars >>
    BY <1>2, <2>1 DEF Launch
  <2> QED BY <2>1, <2>2, <2>3 DEF OutsideStep
<1>3. CASE HeaderError \/ master_semaphore_p
  BY <1>3 DEF HeaderError, master_semaphore_p, OutsideStep
<1>4. ASSUME NEW x \in Asid,
             \/ OfPager(support_tlb(x) \/ clean_after_uproc(x) \/ BufferAccess(x))
             \/ OfPager(Terminate(x) \/ (pc[x] = "user" /\ Access(x)))
      PROVE  PagerStep(x)
  BY <1>4 DEF OfPager, PagerStep, BufferAccess, Access
<1>5. ASSUME NEW x \in Asid, support_syscall(x) \/ syscall_writer(x) \/ sys_read_terminal(x)
      PROVE  OutsideStep
  <2>1. UNCHANGED << poolVars, dataVars, pageVars, localVars >>
    BY <1>5 DEF support_syscall, WriteChar, ReadChar, StoreChar, Unlock, syscall_writer,
                sys_read_terminal, CallFrame
  <2>2. pc[x] \in Running /\ \E q \in Running : Goto(x, q)
    BY <1>5, RunningPoints
       DEF support_syscall, WriteChar, ReadChar, StoreChar, Unlock, syscall_writer,
           sys_read_terminal, At
  <2>3. Running \subseteq CallSide
    BY DEF Running
  <2> QED BY <2>1, <2>2, <2>3 DEF OutsideStep
<1>6. ASSUME NEW x \in Asid, sys_terminate(x)
      PROVE  OutsideStep
  <2>1. UNCHANGED << poolVars, dataVars, pageVars, localVars >>
    BY <1>6 DEF sys_terminate, DeallocateSearch, DeallocateHead, DeallocateLink,
                   DeallocateCount, master_semaphore_v, TermProcess
  <2>2. UNCHANGED pc \/ (pc[x] \in DeadSide /\ \E q \in DeadSide : Goto(x, q))
    BY <1>6 DEF sys_terminate, DeallocateSearch, DeallocateHead, DeallocateLink,
                   DeallocateCount, master_semaphore_v, TermProcess,
                At, DeadSide, AfterClean
  <2> QED BY <2>1, <2>2 DEF OutsideStep
<1> QED BY <1>1, <1>2, <1>3, <1>4, <1>5, <1>6 DEF NextUProcs, test, Handlers

\* What such a step leaves as it is, for the U-proc that moves and for the others.
LEMMA OutsideMoves ==
  ASSUME pc \in [Asid -> UPoints], OutsideStep, NEW y \in Asid
  PROVE  /\ pc'[y] \in EndPoints <=> pc[y] \in EndPoints
         /\ \/ pc'[y] = pc[y]
            \/ /\ pc[y] \notin FaultPoints \cup {"terminate", "clean", "free"}
               /\ pc'[y] \notin FaultPoints \cup {"terminate", "clean", "free"}
<1>1. CallSide \cap (EndPoints \cup FaultPoints) = {}
  BY UProcsConstants DEF CallSide, UPlain, EndPoints, Ending, FaultPoints
<1>2. DeadSide \subseteq EndPoints /\ DeadSide \cap {"terminate", "clean", "free"} = {}
  BY DEF DeadSide, AfterClean, EndPoints, Ending
<1>3. EndPoints \cap FaultPoints = {} /\ {"terminate", "clean", "free"} \subseteq EndPoints
  BY DEF EndPoints, Ending, FaultPoints
<1>4. \/ pc'[y] = pc[y]
      \/ pc[y] \in CallSide /\ pc'[y] \in CallSide
      \/ pc[y] \in DeadSide /\ pc'[y] \in DeadSide
  BY DEF OutsideStep, Goto
<1> QED BY <1>1, <1>2, <1>3, <1>4

LEMMA OutsidePaging ==
  ASSUME UInv, PagingInv, OutsideStep
  PROVE  PagingInv'
<1>1. UNCHANGED << pte, tlb, swap_pool_table, frame, flash, vpn, victim, crossed >>
  BY DEF OutsideStep, poolVars, dataVars, pageVars, localVars
<1> SUFFICES ASSUME ~crossed PROVE TlbCurrent' /\ \A y \in Asid : Paged(y)'
  BY <1>1, Unfold
<1>2. TlbCurrent /\ \A y \in Asid : Paged(y)
  BY Unfold
<1>3. DataOK /\ pc \in [Asid -> UPoints]
  BY DEF UInv
<1>4. \A y \in Asid : Alive(y)' <=> Alive(y)
  BY <1>3, OutsideMoves DEF Alive
<1>5. TlbCurrent'
  BY <1>1, <1>2, <1>3, <1>4, TlbKept
<1>6. ASSUME NEW y \in Asid PROVE Paged(y)'
  <2>1. CASE pc'[y] = pc[y]
    BY <1>1, <1>2, <1>3, <2>1, OthersPaged
  <2>2. CASE /\ pc[y] \notin FaultPoints \cup {"terminate", "clean", "free"}
             /\ pc'[y] \notin FaultPoints \cup {"terminate", "clean", "free"}
    <3>1. \A i : ~Evicting(y, i) /\ ~Evicting(y, i)'
      BY <2>2 DEF Evicting, FaultPoints
    <3>2. Agrees(y)'
      BY <1>1, <1>2, <1>4, <3>1 DEF Paged, Agrees, Lo
    <3>3. VictimUnused(y)' /\ PageMissing(y)' /\ FreesOwn(y)' /\ Transfers(y)'
      BY <2>2 DEF VictimUnused, PageMissing, Serving, FreesOwn, Transfers, FaultPoints
    <3> QED BY <3>2, <3>3 DEF Paged
  <2> QED BY <1>3, <2>1, <2>2, OutsideMoves
<1> QED BY <1>5, <1>6

LEMMA OutsideMemory ==
  ASSUME UInv, OutsideStep
  PROVE  MemStep
<1>1. UNCHANGED << pte, victim, frame, flash, reg >>
  BY DEF OutsideStep, dataVars, pageVars, localVars
<1>2. ASSUME NEW y \in Asid
      PROVE  /\ pc'[y] \in EndPoints <=> pc[y] \in EndPoints
             /\ pc'[y] = "write" <=> pc[y] = "write"
  BY OutsideMoves DEF UInv, FaultPoints
<1>3. \A y \in Asid, k \in Index : Contents(y, k)' = Contents(y, k)
  BY <1>1, <1>2 DEF Contents
<1> QED BY <1>1, <1>2, <1>3, MemoryStutter DEF MemStep

\* Page tables, swap pool table, TLB and backing stores fit together in every
\* reachable state of test.c, support.c and pager.c together, those included in
\* which a system call has faulted on its buffer (syscall_writer,
\* sys_read_terminal) or a U-proc is past clean_after_uproc in sys_terminate.
THEOREM PagingInvarianceU == SpecUProcs => [](UInv /\ PagingInv)
<1>1. InitUProcs => PagingInv
  BY InitPaging DEF InitUProcs
<1>2. UInv /\ PagingInv /\ [NextUProcs]_vars => PagingInv'
  <2> SUFFICES ASSUME UInv, PagingInv, [NextUProcs]_vars PROVE PagingInv'
    OBVIOUS
  <2>1. ASSUME NEW x \in Asid, PagerStep(x) PROVE PagingInv'
    BY <2>1, PagingStep DEF UInv
  <2> QED BY <2>1, InOrOutside, OutsidePaging
<1> QED BY <1>1, <1>2, UProcsInvariance, PTL DEF SpecUProcs

\* Page tables and swap pool table describe each other, whatever the launcher and
\* the system calls do (init_page_table, update_page_table, mark_page_not_valid,
\* mark_frames_as_unoccupied).
THEOREM TablesConsistentU == SpecUProcs => []PageTablesAgree
<1>1. PagingInv => PageTablesAgree
  BY TablesFromInv
<1> QED BY <1>1, PagingInvarianceU, PTL

\* A system call that goes back to its buffer after a fault finds no stale
\* translation in the TLB, nor does the program (update_tlb, tlb_refill_handler).
THEOREM TlbConsistentU == SpecUProcs => []TlbAgrees
<1>1. PagingInv => TlbAgrees
  BY DEF PagingInv
<1> QED BY <1>1, PagingInvarianceU, PTL

\* Demand paging stays invisible under the launcher and the system calls: a load of
\* a program returns what it stored last there, whatever pages the faults of
\* syscall_writer and sys_read_terminal on their buffers have moved, and no step of
\* test.c or support.c is seen in that memory but the end of the U-proc.  (The
\* characters that SYS5 stores are not part of the model.)
THEOREM PagingInvisibleU == SpecUProcs => ImplementsMemory
<1>1. InitUProcs => Virtual!InitMemory
  BY InitMemoryOK DEF InitUProcs
<1>2. UInv /\ PagingInv /\ [NextUProcs]_vars =>
        [~crossed' => Virtual!NextMemory]_(Virtual!memVars)
  <2> SUFFICES ASSUME UInv, PagingInv, [NextUProcs]_vars, ~crossed' PROVE MemStep
    BY DEF MemStep
  <2>1. ASSUME NEW x \in Asid, PagerStep(x) PROVE MemStep
    BY <2>1, PagerMemory DEF UInv
  <2> QED BY <2>1, InOrOutside, OutsideMemory
<1> QED BY <1>1, <1>2, PagingInvarianceU, PTL DEF SpecUProcs, ImplementsMemory

=============================================================================
