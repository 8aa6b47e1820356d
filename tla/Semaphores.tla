---------------------------- MODULE Semaphores -----------------------------
(***************************************************************************)
(* P and V (os/src/semaphores.c).  Semaphores are binary: P blocks on 0 and *)
(* V blocks on 1.                                                           *)
(***************************************************************************)
EXTENDS Scheduler

VARIABLE sem   \* value of each semaphore

\* What P and V may change.
semVars == << sem, aslVars, ready_queue, softblock_count >>

\* Mutant: the process that is woken joins no ready queue.
WakeHead_not_enqueued(s) ==
  /\ out_blocked(head_blocked(s))
  /\ softblock_count' = softblock_count - 1
  /\ UNCHANGED << sem, ready_queue >>

\* The processes in the queue of s are woken by whoever finds them there.
WakeHead(s) ==
  /\ out_blocked(head_blocked(s))
  /\ ready_queue' = enqueue_process(ready_queue, head_blocked(s))
  /\ softblock_count' = softblock_count - 1
  /\ UNCHANGED sem

BlockOn(s, p) ==
  /\ ready_queue' = dequeue_process(ready_queue, p)
  /\ insert_blocked(s, p)
  /\ softblock_count' = softblock_count + 1
  /\ UNCHANGED sem

P(s, p) ==
  \/ /\ sem[s] = 0
     /\ IF insert_blocked_fails(s, p)
        THEN scheduler_panic("PASSEREN failed") /\ UNCHANGED semVars
        ELSE BlockOn(s, p) /\ Return("BLOCK")
  \/ /\ sem[s] # 0 /\ head_blocked(s) # NULL
     /\ WakeHead(s)
     /\ Return("RESCHEDULE")
  \/ /\ sem[s] # 0 /\ head_blocked(s) = NULL
     /\ sem' = [sem EXCEPT ![s] = @ - 1]
     /\ UNCHANGED << aslVars, ready_queue, softblock_count >>
     /\ Return("RESCHEDULE")

\* V blocks the active process, whoever calls it.
V_blocks(s) ==
  sem[s] = 1 /\ active_process # NULL /\ p_sem_add[active_process] = NULL

V_fails(s) == V_blocks(s) /\ insert_blocked_fails(s, active_process)

\* Mutant: V of a counting semaphore, which never blocks.
V_counting(s) ==
  \/ /\ head_blocked(s) # NULL
     /\ WakeHead(s)
  \/ /\ head_blocked(s) = NULL
     /\ sem' = [sem EXCEPT ![s] = @ + 1]
     /\ UNCHANGED << aslVars, ready_queue, softblock_count >>

\* Mutant: V increments without looking at the queue.
V_loses_wakeup(s) ==
  \/ /\ sem[s] = 1
     /\ IF V_blocks(s) /\ ~V_fails(s)
        THEN BlockOn(s, active_process) ELSE UNCHANGED semVars
  \/ /\ sem[s] # 1
     /\ sem' = [sem EXCEPT ![s] = @ + 1]
     /\ UNCHANGED << aslVars, ready_queue, softblock_count >>

\* Mutant: V only wakes.
V_never_increments(s) ==
  \/ /\ sem[s] # 1 /\ head_blocked(s) # NULL
     /\ WakeHead(s)
  \/ /\ sem[s] = 1 \/ head_blocked(s) = NULL
     /\ UNCHANGED semVars

V(s) ==
  \/ /\ sem[s] = 1
     /\ IF V_blocks(s) /\ ~V_fails(s)
        THEN BlockOn(s, active_process) ELSE UNCHANGED semVars
  \/ /\ sem[s] # 1 /\ head_blocked(s) # NULL
     /\ WakeHead(s)
  \/ /\ sem[s] # 1 /\ head_blocked(s) = NULL
     /\ sem' = [sem EXCEPT ![s] = @ + 1]
     /\ UNCHANGED << aslVars, ready_queue, softblock_count >>

\* The pcb V returns: none when the caller may have blocked.
V_result(s) ==
  IF sem[s] = 1 THEN NULL
  ELSE IF head_blocked(s) # NULL THEN head_blocked(s)
  ELSE active_process

=============================================================================
