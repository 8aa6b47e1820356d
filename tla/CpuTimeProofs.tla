--------------------------- MODULE CpuTimeProofs ---------------------------
(***************************************************************************)
(* Proofs about the accounting of processor time, for every set of          *)
(* processes and every bound on the clock.                                  *)
(***************************************************************************)
EXTENDS CpuTime, TLAPS

\* Type correctness; the interval in progress does not start in the future, and
\* a process runs or is in a system call only if it is the current one.
TimeTypeOK ==
  /\ tod \in Nat /\ start_tod \in Nat /\ start_tod <= tod
  /\ active \in Procs \cup {NULL}
  /\ mode \in {"run", "syscall", "sched", "wait"}
  /\ mode \in {"run", "syscall"} => active \in Procs
  /\ mode = "wait" => active = NULL
  /\ p_time \in [Procs -> Nat]
  /\ user \in [Procs -> Nat]
  /\ used \in [Procs -> Nat]

TimeInv == TimeTypeOK /\ AllTimeCharged /\ IntervalsDisjoint

\* The interval since start_tod can be charged to the current process.
LEMMA ChargeAdds ==
  ASSUME TimeTypeOK, active \in Procs, Charge
  PROVE  /\ p_time' \in [Procs -> Nat]
         /\ p_time'[active] = p_time[active] + (tod - start_tod)
         /\ \A p \in Procs \ {active} : p_time'[p] = p_time[p]
BY DEF TimeTypeOK, Charge

LEMMA TimeInit == init_scheduler => TimeInv
BY CpuTimeAssumption
   DEF init_scheduler, TimeInv, TimeTypeOK, AllTimeCharged, IntervalsDisjoint

LEMMA TimeStep == TimeInv /\ [Next]_timeVars => TimeInv'
<1> SUFFICES ASSUME TimeInv, [Next]_timeVars PROVE TimeInv'
  OBVIOUS
<1> USE CpuTimeAssumption
<1>0. /\ TimeTypeOK /\ AllTimeCharged /\ IntervalsDisjoint
      /\ NULL \notin Procs
  BY DEF TimeInv
<1>1. CASE Tick
  <2>1. /\ TimeTypeOK'
        /\ tod' = tod + 1
        /\ \A p \in Procs : /\ user'[p] = user[p] + (IF mode = "run" /\ p = active THEN 1 ELSE 0)
                            /\ used'[p] = used[p] + (IF p = active THEN 1 ELSE 0)
    BY <1>0, <1>1 DEF Tick, TimeTypeOK
  <2>2. AllTimeCharged'
    BY <1>0, <1>1, <2>1 DEF Tick, TimeTypeOK, AllTimeCharged
  <2>3. IntervalsDisjoint'
    BY <1>0, <1>1, <2>1 DEF Tick, TimeTypeOK, IntervalsDisjoint
  <2> QED BY <2>1, <2>2, <2>3 DEF TimeInv
<1>2. CASE Interrupt
  <2>1. CASE active = NULL
    BY <1>0, <1>2, <2>1
       DEF Interrupt, TimeInv, TimeTypeOK, AllTimeCharged, IntervalsDisjoint
  <2>2. CASE active # NULL
    <3>1. active \in Procs /\ Charge
      BY <1>0, <1>2, <2>2 DEF Interrupt, TimeTypeOK
    <3> QED
      BY <1>0, <1>2, <3>1, ChargeAdds
         DEF Interrupt, TimeInv, TimeTypeOK, AllTimeCharged, IntervalsDisjoint
  <2> QED BY <2>1, <2>2
<1>3. CASE PassUpOrDie
  <2>1. active \in Procs /\ Charge
    BY <1>0, <1>3 DEF PassUpOrDie, TimeTypeOK
  <2> QED
    BY <1>0, <1>3, <2>1, ChargeAdds
       DEF PassUpOrDie, TimeInv, TimeTypeOK, AllTimeCharged, IntervalsDisjoint
<1>4. CASE SystemCall
  <2>1. active \in Procs /\ Charge
    BY <1>0, <1>4 DEF SystemCall, TimeTypeOK
  <2> QED
    BY <1>0, <1>4, <2>1, ChargeAdds
       DEF SystemCall, TimeInv, TimeTypeOK, AllTimeCharged, IntervalsDisjoint
<1>5. CASE SystemCallEnds
  <2>1. active \in Procs
    BY <1>0, <1>5 DEF SystemCallEnds, TimeTypeOK
  <2>2. CASE Charge /\ mode' = "sched"
    BY <1>0, <1>5, <2>1, <2>2, ChargeAdds
       DEF SystemCallEnds, TimeInv, TimeTypeOK, AllTimeCharged, IntervalsDisjoint
  <2>3. CASE active \in Supported /\ mode' = "run" /\ UNCHANGED p_time
    BY <1>0, <1>5, <2>1, <2>3
       DEF SystemCallEnds, TimeInv, TimeTypeOK, AllTimeCharged, IntervalsDisjoint
  <2> QED BY <1>5, <2>2, <2>3 DEF SystemCallEnds
<1>6. ASSUME NEW p \in Procs, scheduler_takeover(p) PROVE TimeInv'
  BY <1>0, <1>6
     DEF scheduler_takeover, TimeInv, TimeTypeOK, AllTimeCharged, IntervalsDisjoint
<1>7. ASSUME NEW p \in Procs, Respawn(p) PROVE TimeInv'
  BY <1>0, <1>7 DEF Respawn, TimeInv, TimeTypeOK, AllTimeCharged, IntervalsDisjoint
<1>8. CASE scheduler_wait
  BY <1>0, <1>8 DEF scheduler_wait, TimeInv, TimeTypeOK, AllTimeCharged, IntervalsDisjoint
<1>9. CASE UNCHANGED timeVars
  BY <1>0, <1>9 DEF timeVars, TimeInv, TimeTypeOK, AllTimeCharged, IntervalsDisjoint
<1> QED BY <1>1, <1>2, <1>3, <1>4, <1>5, <1>6, <1>7, <1>8, <1>9 DEF Next

THEOREM TimeInvariance == Spec => []TimeInv
BY TimeInit, TimeStep, PTL DEF Spec

\* exception_handler leaves no time uncharged: whatever the order of exceptions,
\* calls that are passed up and changes of process, a process that is not running
\* has been charged all it spent outside the kernel.
THEOREM NothingUncharged == Spec => []AllTimeCharged
<1>1. TimeInv => AllTimeCharged
  BY DEF TimeInv
<1> QED BY <1>1, TimeInvariance, PTL

\* exception_handler charges no time twice to a process without a support
\* structure: its p_time never exceeds the time it was the current process.
THEOREM NothingChargedTwice == Spec => []IntervalsDisjoint
<1>1. TimeInv => IntervalsDisjoint
  BY DEF TimeInv
<1> QED BY <1>1, TimeInvariance, PTL

=============================================================================
