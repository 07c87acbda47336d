--------------------------- MODULE SchedulerProofs ---------------------------
(***************************************************************************)
(* The inductive invariant holds of every behaviour, and with it the safety*)
(* properties of Scheduler for every number of threads, processors and     *)
(* address spaces.                                                         *)
(***************************************************************************)
EXTENDS SchedulerSteps

(***************************************************************************)
(* Every step                                                              *)
(***************************************************************************)

LEMMA NextIInv == IInv /\ [Next]_vars => IInv'
<1> SUFFICES ASSUME IInv, [Next]_vars PROVE IInv'
  OBVIOUS
<1>1. CASE thread_create_user
  BY <1>1, CreateUserIInv, Zenon
<1>2. CASE init_load_failed
  BY <1>2, InitLoadFailedIInv, Zenon
<1>3. CASE thread_create_kernel
  BY <1>3, CreateKernelIInv, Zenon
<1>4. CASE pit_tick
  BY <1>4, RescheduleIInv, Distinct, Zenon
<1>5. ASSUME NEW c \in CPUs,
             \/ cpu_set_online(c) \/ scheduler_register_cpu_bootstrap(c)
             \/ return_from_interrupt(c)
      PROVE  IInv'
  BY <1>5, OnlineIInv, ReturnIInv, RegisterIInv, Zenon
<1>6. ASSUME NEW c \in CPUs,
             \/ resched_ipi(c) \/ waitpid_yield(c) \/ kernel_sleep_yield(c) \/ scheduler_yield(c)
      PROVE  IInv'
  BY <1>6, RescheduleIInv, Zenon
<1>7. ASSUME NEW c \in CPUs,
             \/ scheduler_fork(c) \/ execve(c) \/ scheduler_on_exit(c) \/ scheduler_kill(c)
             \/ waitpid_reap(c) \/ waitpid_block(c) \/ user_sleep(c) \/ kernel_sleep(c)
      PROVE  IInv'
  BY <1>7, ForkIInv, ExecveIInv, ExitIInv, KillIInv, ReapIInv, StopIInv, Zenon
<1>8. CASE UNCHANGED vars
  BY <1>8, StutterIInv, Zenon
<1> QED
  BY <1>1, <1>2, <1>3, <1>4, <1>5, <1>6, <1>7, <1>8, Zenon DEF Next, ThreadStep

\* The invariant gives the properties of Scheduler.
LEMMA IInvImplies ==
  IInv => /\ TypeOK /\ CurrentIsLive /\ RunningIsCurrent /\ IdleAlwaysRunnable
          /\ NoLostWakeup /\ LoadedSpaceLive /\ SpaceRefsExact /\ KernelStackInUse
<1> SUFFICES ASSUME IInv PROVE RunningIsCurrent /\ LoadedSpaceLive /\ KernelStackInUse
  BY Zenon DEF IInv
<1>1. RunningIsCurrent
  BY Zenon DEF IInv, TypeOK, RunInv, RunningIsCurrent
<1>2. KernelStackInUse
  BY Zenon DEF IInv, StackInv, KernelStackInUse
<1>3. LoadedSpaceLive
  <2> SUFFICES ASSUME NEW c \in CPUs, g_current[c] # None
               PROVE  /\ hw_cr3[c] = cr3[g_current[c]]
                      /\ hw_cr3[c] \in Spaces => refs[hw_cr3[c]] > 0
    BY Zenon DEF LoadedSpaceLive
  <2>1. hw_cr3[c] = cr3[g_current[c]]
    BY Zenon DEF IInv, LoadedInv
  <2>2. ASSUME hw_cr3[c] \in Spaces PROVE g_current[c] \in Holders(hw_cr3[c])
    BY <2>1, <2>2, Distinct DEF IInv, TypeOK, CurrentIsLive, SpaceOfKind, Holders
  <2> QED
    BY <2>1, <2>2, HeldHasRefs, Zenon DEF IInv
<1> QED
  BY <1>1, <1>2, <1>3, Zenon

LEMMA Invariance == Spec => []IInv
BY InitIInv, NextIInv, PTL DEF Spec

\* Every field of every thread, CPU and space keeps its type.
THEOREM TypeCorrect == Spec => []TypeOK
BY Invariance, IInvImplies, PTL

\* Each CPU runs a live thread of its own, only current threads are RUNNING,
\* and pick_next always has the bootstrap thread to fall back on.
THEOREM CurrentThreads == Spec => [](CurrentIsLive /\ RunningIsCurrent /\ IdleAlwaysRunnable)
BY Invariance, IInvImplies, PTL

\* No thread blocks in waitpid without a living child to wake it.
THEOREM WaitersHaveWaker == Spec => []NoLostWakeup
BY Invariance, IInvImplies, PTL

\* Reference counts of address spaces are exact ...
THEOREM RefsAreExact == Spec => []SpaceRefsExact
BY Invariance, IInvImplies, PTL

\* ... so no CPU runs with a destroyed page table loaded ...
THEOREM LoadedSpacesLive == Spec => []LoadedSpaceLive
BY Invariance, IInvImplies, PTL

\* ... and waitpid frees no kernel stack in use.
THEOREM StacksInUse == Spec => []KernelStackInUse
BY Invariance, IInvImplies, PTL

(***************************************************************************)
(* What a step may never do                                                *)
(***************************************************************************)

DeadStep ==
  \A t \in Slots : state[t] = "ZOMBIE" => state'[t] \in {"ZOMBIE", "UNUSED"}

WakeStep ==
  \A p \in Slots : state[p] = "BLOCKED" /\ state'[p] # "BLOCKED" =>
    \/ state'[p] = "ZOMBIE"
    \/ \E t \in Slots : Matches(p, t, wait_target[p]) /\ state[t] # "ZOMBIE"
                        /\ state'[t] = "ZOMBIE"

\* A step that leaves the dead and the blocked alone satisfies both.
LEMMA QuietSteps ==
  ASSUME \A t \in Slots : state[t] \in {"ZOMBIE", "BLOCKED"} => state'[t] = state[t]
  PROVE  DeadStep /\ WakeStep
BY Zenon DEF DeadStep, WakeStep

\* thread_mark_zombie of a live thread t.
LEMMA ZombieSteps ==
  ASSUME IInv, NEW t \in Slots, state[t] \notin {"UNUSED", "ZOMBIE"},
         \A u \in Slots, x \in {"UNUSED", "SLEEPING", "BLOCKED", "ZOMBIE"} :
            state'[u] = x <=> ZombieStates(t)[u] = x
  PROVE  DeadStep /\ WakeStep
<1>1. \A u \in Slots : ZombieStates(t)[u] =
        IF u = t THEN "ZOMBIE" ELSE IF WokenBy(u, t) THEN "READY" ELSE state[u]
  BY Zenon DEF ZombieStates
<1>2. DeadStep
  BY <1>1, Zenon DEF DeadStep, WokenBy
<1>3. WakeStep
  BY <1>1, Zenon DEF WakeStep, WokenBy, Matches
<1> QED
  BY <1>2, <1>3, Zenon

LEMMA NextSteps ==
  ASSUME IInv, Next PROVE DeadStep /\ WakeStep
<1>1. ASSUME NEW t \in Slots, NEW kd, NEW par, NEW cpu, NEW space, NEW st,
             FreeSlot(t), NewThread(t, kd, par, cpu, space, st)
      PROVE  DeadStep /\ WakeStep
  BY <1>1, QuietSteps, Zenon DEF FreeSlot, First, NewThread, IInv, TypeOK
<1>2. CASE thread_create_user \/ thread_create_kernel
  BY <1>1, <1>2, Zenon DEF thread_create_user, thread_create_kernel
<1>3. ASSUME NEW c \in CPUs, scheduler_register_cpu_bootstrap(c) \/ scheduler_fork(c)
      PROVE  DeadStep /\ WakeStep
  BY <1>1, <1>3, Zenon DEF scheduler_register_cpu_bootstrap, scheduler_fork
<1>4. CASE init_load_failed
  BY <1>4, QuietSteps, Zenon DEF init_load_failed
<1>5. CASE pit_tick
  BY <1>5, RescheduleIInv, QuietSteps, Distinct, Zenon DEF SameDeadAndBlocked
<1>6. ASSUME NEW c \in CPUs,
             \/ resched_ipi(c) \/ waitpid_yield(c) \/ kernel_sleep_yield(c) \/ scheduler_yield(c)
      PROVE  DeadStep /\ WakeStep
  BY <1>6, RescheduleIInv, QuietSteps, Zenon DEF SameDeadAndBlocked
<1>7. ASSUME NEW c \in CPUs, cpu_set_online(c) \/ return_from_interrupt(c) \/ execve(c)
      PROVE  DeadStep /\ WakeStep
  BY <1>7, QuietSteps, Zenon DEF cpu_set_online, return_from_interrupt, execve
<1>8. ASSUME NEW c \in CPUs, scheduler_kill(c) PROVE DeadStep /\ WakeStep
  BY <1>8, ZombieSteps, Zenon DEF scheduler_kill
<1>9. ASSUME NEW c \in CPUs, scheduler_on_exit(c) PROVE DeadStep /\ WakeStep
  <2>1. PICK t \in Slots, next \in Slots :
          /\ RunsUser(c, t)
          /\ pick_next(c, ZombieStates(t), next)
          /\ do_switch(c, ZombieStates(t), next)
    BY <1>9, Zenon DEF scheduler_on_exit
  <2>2. g_current[c] = t /\ g_current[c] # None /\ state[t] \notin {"UNUSED", "ZOMBIE"} /\ is_user(t)
    BY <2>1, Zenon DEF RunsUser, Runs, IInv, CurrentIsLive
  <2>3. Switchable(c, ZombieStates(t))
    BY <2>2, ExitSwitchable, Zenon
  <2>4. \A u \in Slots, x \in {"UNUSED", "SLEEPING", "BLOCKED", "ZOMBIE"} :
           state'[u] = x <=> ZombieStates(t)[u] = x
    BY <2>1, <2>2, <2>3, SwitchStates
  <2> QED
    BY <2>2, <2>4, ZombieSteps, Zenon
<1>10. ASSUME NEW c \in CPUs, waitpid_reap(c) PROVE DeadStep /\ WakeStep
  <2>1. PICK z \in Slots : state[z] = "ZOMBIE" /\ state' = [state EXCEPT ![z] = "UNUSED"]
    BY <1>10, Zenon DEF waitpid_reap, First, ZombieChildren
  <2> QED
    BY <2>1, Zenon DEF DeadStep, WakeStep, IInv, TypeOK
<1>11. ASSUME NEW c \in CPUs, waitpid_block(c) \/ user_sleep(c) \/ kernel_sleep(c)
       PROVE  DeadStep /\ WakeStep
  <2>1. PICK t \in Slots, x \in {"SLEEPING", "BLOCKED"} :
          Runs(c, t) /\ state' = [state EXCEPT ![t] = x]
    BY <1>11, Zenon DEF waitpid_block, user_sleep, kernel_sleep, RunsUser
  <2>2. state[t] \notin {"ZOMBIE", "BLOCKED"}
    BY <2>1, Zenon DEF Runs, IInv, CurrentIsLive, BlockedInWait
  <2> QED
    BY <2>1, <2>2, QuietSteps, Zenon DEF IInv, TypeOK
<1> QED
  BY <1>2, <1>3, <1>4, <1>5, <1>6, <1>7, <1>8, <1>9, <1>10, <1>11, Zenon DEF Next, ThreadStep

\* exit and kill are final: what they ended is only ever reaped.
THEOREM DeadStayDead == Spec => ZombieStaysDead
<1>1. IInv /\ [Next]_vars => [DeadStep]_vars
  BY NextSteps, Zenon
<1> QED
  BY <1>1, Invariance, PTL DEF Spec, ZombieStaysDead, DeadStep

\* Only the death of an awaited child ends a waitpid.
THEOREM WakesHaveCause == Spec => WakeHasCause
<1>1. IInv /\ [Next]_vars => [WakeStep]_vars
  BY NextSteps, Zenon
<1> QED
  BY <1>1, Invariance, PTL DEF Spec, WakeHasCause, WakeStep
=============================================================================
