--------------------------- MODULE SchedulerSwitch ---------------------------
(***************************************************************************)
(* The inductive invariant is kept by a switch of threads, whether a tick, *)
(* a reschedule interrupt, a yield or the death of the running thread      *)
(* causes it.                                                              *)
(***************************************************************************)
EXTENDS SchedulerInv

(***************************************************************************)
(* Switching threads                                                       *)
(***************************************************************************)

ThreadStates == {"UNUSED", "READY", "RUNNING", "SLEEPING", "BLOCKED", "ZOMBIE"}

\* What wake_sleepers and thread_mark_zombie leave as it was for the other
\* CPUs and for the bootstrap threads, before CPU c switches.
Switchable(c, st) ==
  /\ st \in [Slots -> ThreadStates]
  /\ \A t \in Slots : /\ st[t] = "UNUSED" <=> state[t] = "UNUSED"
                      /\ \A x \in {"RUNNING", "BLOCKED"} : st[t] = x => state[t] = x
                      /\ kind[t] = "boot" => st[t] = state[t]
  /\ \A d \in CPUs : d # c /\ g_current[d] # None => st[g_current[d]] # "ZOMBIE"

\* pick_next finds a READY thread of the CPU or keeps the running one; its
\* last resort, thread 0, is never needed.
LEMMA PickNext ==
  ASSUME IInv, NEW c \in CPUs, g_current[c] # None,
         NEW st, Switchable(c, st), NEW next \in Slots, pick_next(c, st, next)
  PROVE  \/ st[next] = "READY" /\ cpu_id[next] = c
         \/ next = g_current[c] /\ st[next] = "RUNNING"
<1>1. PICK i \in Slots : /\ kind[i] = "boot" /\ cpu_id[i] = c
                         /\ state[i] = IF g_current[c] = i THEN "RUNNING" ELSE "READY"
  BY Zenon DEF IInv, IdleAlwaysRunnable
<1>2. st[i] = state[i]
  BY <1>1, Zenon DEF Switchable
<1>3. CASE Runnable(c, st) = {}
  BY <1>1, <1>2, <1>3, Zenon DEF pick_next, Runnable, First
<1>4. CASE Runnable(c, st) # {}
  BY <1>4, Zenon DEF pick_next, Runnable, First
<1> QED
  BY <1>3, <1>4, Zenon

\* do_switch only moves threads between READY and RUNNING ...
LEMMA SwitchStates ==
  ASSUME IInv, NEW c \in CPUs, g_current[c] # None,
         NEW st, Switchable(c, st), NEW next \in Slots,
         pick_next(c, st, next), do_switch(c, st, next)
  PROVE  /\ state' \in [Slots -> ThreadStates]
         /\ g_current' \in [CPUs -> Slots \cup {None}]
         /\ hw_cr3' \in [CPUs -> Spaces \cup {kspace}]
         /\ \A t \in Slots, x \in {"UNUSED", "SLEEPING", "BLOCKED", "ZOMBIE"} : state'[t] = x <=> st[t] = x
         /\ \A d \in CPUs : g_current'[d] = None <=> g_current[d] = None
<1>1. \/ st[next] = "READY" /\ cpu_id[next] = c
      \/ next = g_current[c] /\ st[next] = "RUNNING"
  BY PickNext, Zenon
<1>2. g_current \in [CPUs -> Slots \cup {None}] /\ hw_cr3 \in [CPUs -> Spaces \cup {kspace}]
      /\ cr3 \in [Slots -> Spaces \cup {NoCr3, kspace}]
  BY Zenon DEF IInv, TypeOK
<1> QED
  BY <1>1, <1>2, Distinct DEF do_switch, Switchable, ThreadStates

\* ... and keeps what is said of the CPUs.
LEMMA SwitchCpus ==
  ASSUME IInv, NEW c \in CPUs, g_current[c] # None,
         NEW st, Switchable(c, st), NEW next \in Slots,
         pick_next(c, st, next), do_switch(c, st, next),
         st[g_current[c]] = "ZOMBIE" => next # g_current[c],
         \A t \in Slots : t # g_current[c] => pc'[t] = pc[t],
         UNCHANGED <<kind, cpu_id, cr3, on_stack>>
  PROVE  CurrentIsLive' /\ RunInv' /\ BlockedInWait' /\ IdleAlwaysRunnable' /\ StackInv' /\ LoadedInv'
<1>1. \/ st[next] = "READY" /\ cpu_id[next] = c
      \/ next = g_current[c] /\ st[next] = "RUNNING"
  BY PickNext, Zenon
<1>2. /\ g_current \in [CPUs -> Slots \cup {None}] /\ hw_cr3 \in [CPUs -> Spaces \cup {kspace}]
      /\ on_stack \in [CPUs -> Slots \cup {None}]
      /\ cpu_id \in [Slots -> CPUs] /\ cr3 \in [Slots -> Spaces \cup {NoCr3, kspace}]
      /\ st \in [Slots -> ThreadStates] /\ g_current[c] \in Slots
  BY DEF IInv, TypeOK, Switchable
<1>3. StackInv'
  BY <1>2, SwitchStates DEF IInv, StackInv, Switchable
<1>4. CASE next = g_current[c]
  <2>1. state' = st /\ UNCHANGED <<g_current, hw_cr3>>
    BY <1>4, Zenon DEF do_switch
  <2>2. CurrentIsLive' /\ RunInv' /\ IdleAlwaysRunnable' /\ LoadedInv'
    BY <1>1, <1>2, <1>4, <2>1 DEF IInv, CurrentIsLive, RunInv, IdleAlwaysRunnable, LoadedInv, Switchable
  <2>3. BlockedInWait'
    BY <1>1, <1>2, <1>4, <2>1, Distinct DEF IInv, CurrentIsLive, BlockedInWait, Switchable
  <2> QED
    BY <1>3, <2>2, <2>3, Zenon
<1>5. CASE next # g_current[c]
  <2>1. /\ state' = [t \in Slots |-> IF t = next THEN "RUNNING"
                                     ELSE IF t = g_current[c] /\ st[t] = "RUNNING" THEN "READY"
                                     ELSE st[t]]
        /\ g_current' = [g_current EXCEPT ![c] = next]
        /\ hw_cr3' = IF cr3[next] # NoCr3 /\ cr3[next] # cr3[g_current[c]]
                       THEN [hw_cr3 EXCEPT ![c] = cr3[next]] ELSE hw_cr3
    BY <1>5, Zenon DEF do_switch
  <2>2. st[next] = "READY" /\ cpu_id[next] = c /\ state[next] # "UNUSED"
    BY <1>1, <1>5, Zenon DEF Switchable
  <2>3. CurrentIsLive'
    BY <1>2, <2>1, <2>2, Distinct DEF IInv, CurrentIsLive, Switchable
  <2>4. RunInv'
    BY <1>2, <1>5, <2>1, <2>2, Distinct DEF IInv, CurrentIsLive, RunInv, Switchable
  <2>5. LoadedInv'
    <3>1. cr3[next] # NoCr3
      BY <2>2, Distinct, Zenon DEF IInv, SpaceOfKind
    <3> QED
      BY <1>2, <2>1, <3>1, Distinct, Zenon DEF IInv, LoadedInv
  <2>6. IdleAlwaysRunnable'
    <3> SUFFICES ASSUME NEW d \in CPUs, g_current'[d] # None
                 PROVE  \E t \in Slots : /\ kind[t] = "boot" /\ cpu_id[t] = d
                                         /\ state'[t] = IF g_current'[d] = t THEN "RUNNING" ELSE "READY"
      BY DEF IdleAlwaysRunnable
    <3>1. g_current[d] # None
      BY <1>2, <2>1, Zenon
    <3>2. PICK i \in Slots : /\ kind[i] = "boot" /\ cpu_id[i] = d
                             /\ state[i] = IF g_current[d] = i THEN "RUNNING" ELSE "READY"
      BY <3>1, Zenon DEF IInv, IdleAlwaysRunnable
    <3>3. st[i] = state[i]
      BY <3>2, Zenon DEF Switchable
    <3>4. cpu_id[g_current[c]] = c
      BY Zenon DEF IInv, CurrentIsLive
    <3>5. state'[i] = IF g_current'[d] = i THEN "RUNNING" ELSE "READY"
      BY <1>2, <1>5, <2>1, <2>2, <3>2, <3>3, <3>4, Zenon
    <3> QED
      BY <3>2, <3>5, Zenon
  <2>7. BlockedInWait'
    BY <1>2, <2>1, <2>2, Distinct DEF IInv, CurrentIsLive, BlockedInWait, Switchable
  <2> QED
    BY <1>3, <2>3, <2>4, <2>5, <2>6, <2>7, Zenon
<1> QED
  BY <1>4, <1>5, Zenon

\* A step that kills, reaps, blocks and wakes nobody.
SameDeadAndBlocked ==
  \A t \in Slots, x \in {"UNUSED", "BLOCKED", "ZOMBIE"} : state'[t] = x <=> state[t] = x

\* States that move only between READY, RUNNING and SLEEPING keep what is
\* said of dead and blocked threads and of the spaces.
LEMMA QuietKeeps ==
  ASSUME IInv, SameDeadAndBlocked,
         UNCHANGED <<id, kind, parent, cpu_id, wait_target, cr3, refs, leaked>>
  PROVE  UsersOnCpu0' /\ ZombieIsUser' /\ SpaceOfKind' /\ NoLostWakeup' /\ SpaceRefsExact'
<1> USE DEF SameDeadAndBlocked
<1>1. UsersOnCpu0' /\ ZombieIsUser' /\ SpaceOfKind'
  BY Zenon DEF IInv, UsersOnCpu0, ZombieIsUser, SpaceOfKind, is_user
<1>2. NoLostWakeup'
  BY Zenon DEF IInv, NoLostWakeup, Matches
<1>3. SpaceRefsExact'
  <2>1. ASSUME NEW s \in Spaces PROVE Holders(s)' = Holders(s)
    BY Zenon DEF Holders, is_user
  <2> QED
    BY <2>1, Zenon DEF IInv, SpaceRefsExact
<1> QED
  BY <1>1, <1>2, <1>3, Zenon

\* scheduler_on_tick and scheduler_yield on CPU c.
LEMMA RescheduleKeeps ==
  ASSUME IInv, NEW c \in CPUs, g_current[c] # None,
         NEW left, Reschedule(c, left),
         UNCHANGED <<threadVars, waitVars, spaceVars, on_stack, bootVars>>,
         sleep_left' \in [Slots -> Nat], pc' \in [Slots -> {"code", "sleep", "wait"}],
         \A t \in Slots : t # g_current[c] => pc'[t] = pc[t],
         ipi' \in SUBSET CPUs
  PROVE  IInv' /\ SameDeadAndBlocked
<1> DEFINE st == wake_sleepers(state, left)
<1>1. PICK next \in Slots : pick_next(c, st, next) /\ do_switch(c, st, next)
  BY Zenon DEF Reschedule
<1>2. \A t \in Slots : st[t] = IF state[t] = "SLEEPING" /\ left[t] = 0 THEN "READY" ELSE state[t]
  BY Zenon DEF wake_sleepers
<1>3. Switchable(c, st)
  <2>1. st \in [Slots -> ThreadStates]
    BY Zenon DEF wake_sleepers, ThreadStates, IInv, TypeOK
  <2>2. \A t \in Slots : kind[t] = "boot" => st[t] = state[t]
    <3> SUFFICES ASSUME NEW t \in Slots, kind[t] = "boot" PROVE state[t] # "SLEEPING"
      BY <1>2, Zenon
    <3> QED
      BY Zenon DEF IInv, BootNotAsleep
  <2> QED
    BY <1>2, <2>1, <2>2 DEF Switchable, IInv, TypeOK, CurrentIsLive
<1>4. st[g_current[c]] # "ZOMBIE"
  BY <1>2 DEF IInv, TypeOK, CurrentIsLive
<1> HIDE DEF st
<1>5. /\ state' \in [Slots -> ThreadStates]
      /\ g_current' \in [CPUs -> Slots \cup {None}]
      /\ hw_cr3' \in [CPUs -> Spaces \cup {kspace}]
      /\ \A t \in Slots, x \in {"UNUSED", "SLEEPING", "BLOCKED", "ZOMBIE"} : state'[t] = x <=> st[t] = x
      /\ \A d \in CPUs : g_current'[d] = None <=> g_current[d] = None
  BY <1>1, <1>3, SwitchStates, Zenon
<1>6. CurrentIsLive' /\ RunInv' /\ BlockedInWait' /\ IdleAlwaysRunnable' /\ StackInv' /\ LoadedInv'
  BY <1>1, <1>3, <1>4, SwitchCpus, Zenon DEF threadVars, spaceVars
<1>7. UsersOnCpu0' /\ ZombieIsUser' /\ SpaceOfKind' /\ NoLostWakeup' /\ SpaceRefsExact'
  BY <1>2, <1>5, QuietKeeps DEF SameDeadAndBlocked, threadVars, spaceVars, waitVars
<1>8. BootInv'
  BY <1>5, Distinct, Zenon DEF IInv, BootInv, bootVars, threadVars, is_user
<1>9. BootNotAsleep'
  BY <1>2, <1>5, Zenon DEF IInv, BootNotAsleep, threadVars
<1>10. TypeOK'
  BY <1>5, Zenon DEF IInv, TypeOK, ThreadStates, threadVars, waitVars, spaceVars, bootVars
<1> QED
  BY <1>2, <1>5, <1>6, <1>7, <1>8, <1>9, <1>10 DEF IInv, SameDeadAndBlocked

LEMMA RescheduleIInv ==
  ASSUME IInv, NEW c \in CPUs,
         pit_tick \/ resched_ipi(c) \/ waitpid_yield(c) \/ scheduler_yield(c) \/ kernel_sleep_yield(c)
  PROVE  IInv' /\ SameDeadAndBlocked
<1>0. /\ sleep_left \in [Slots -> Nat] /\ pc \in [Slots -> {"code", "sleep", "wait"}]
      /\ ipi \in SUBSET CPUs /\ online \in SUBSET CPUs
  BY Zenon DEF IInv, TypeOK
<1>1. CASE pit_tick
  <2>1. sleep_left' \in [Slots -> Nat] /\ ipi' \in SUBSET CPUs
    BY <1>0, <1>1 DEF pit_tick
  <2>2. pc' = pc /\ g_current[0] # None /\ Reschedule(0, sleep_left')
        /\ UNCHANGED <<threadVars, waitVars, spaceVars, on_stack, bootVars>>
    BY <1>1, Zenon DEF pit_tick, Interruptible
  <2> QED
    BY <1>0, <2>1, <2>2, RescheduleKeeps, Distinct, Zenon
<1>2. CASE resched_ipi(c)
  <2>1. ipi' \in SUBSET CPUs
    BY <1>0, <1>2, Zenon DEF resched_ipi
  <2>2. sleep_left' = sleep_left /\ pc' = pc /\ g_current[c] # None /\ Reschedule(c, sleep_left)
        /\ UNCHANGED <<threadVars, waitVars, spaceVars, on_stack, bootVars>>
    BY <1>2, Zenon DEF resched_ipi, Interruptible
  <2> QED
    BY <1>0, <2>1, <2>2, RescheduleKeeps, Zenon
<1>3. CASE waitpid_yield(c) \/ kernel_sleep_yield(c)
  <2>1. pc' = [pc EXCEPT ![g_current[c]] = "code"]
    BY <1>3, Zenon DEF waitpid_yield, kernel_sleep_yield
  <2>2. /\ pc' \in [Slots -> {"code", "sleep", "wait"}]
        /\ \A t \in Slots : t # g_current[c] => pc'[t] = pc[t]
    BY <1>0, <2>1, Zenon
  <2>3. sleep_left' = sleep_left /\ ipi' = ipi /\ g_current[c] # None /\ Reschedule(c, sleep_left)
        /\ UNCHANGED <<threadVars, waitVars, spaceVars, on_stack, bootVars>>
    BY <1>3, Zenon DEF waitpid_yield, kernel_sleep_yield
  <2> QED
    BY <1>0, <2>2, <2>3, RescheduleKeeps, Zenon
<1>4. CASE scheduler_yield(c)
  <2>1. sleep_left' = sleep_left /\ pc' = pc /\ ipi' = ipi /\ Reschedule(c, sleep_left)
        /\ UNCHANGED <<threadVars, waitVars, spaceVars, on_stack, bootVars>>
    BY <1>4, Zenon DEF scheduler_yield
  <2>2. g_current[c] # None
    BY <1>4, Zenon DEF scheduler_yield, RunsUser, Runs
  <2> QED
    BY <1>0, <2>1, <2>2, RescheduleKeeps, Zenon
<1> QED
  BY <1>1, <1>2, <1>3, <1>4, Zenon

(***************************************************************************)
(* Death                                                                    *)
(***************************************************************************)

\* thread_mark_zombie of a live user thread t, to states that agree with
\* ZombieStates(t) on who is dead, blocked or unused.
LEMMA ZombieKeeps ==
  ASSUME IInv, NEW t \in Slots, is_user(t), state[t] # "UNUSED", ZombieParent(t),
         \A u \in Slots, x \in {"UNUSED", "SLEEPING", "BLOCKED", "ZOMBIE"} :
            state'[u] = x <=> ZombieStates(t)[u] = x,
         UNCHANGED <<id, kind, parent, cpu_id, cr3, refs, leaked>>
  PROVE  /\ BootNotAsleep' /\ UsersOnCpu0' /\ ZombieIsUser' /\ SpaceOfKind'
         /\ NoLostWakeup' /\ SpaceRefsExact'
         /\ children' \in [Slots -> Nat]
         /\ wait_target' \in [Slots -> Nat] /\ wait_ptr' \in [Slots -> BOOLEAN]
<1>1. \A u \in Slots : ZombieStates(t)[u] =
        IF u = t THEN "ZOMBIE" ELSE IF WokenBy(u, t) THEN "READY" ELSE state[u]
  BY Zenon DEF ZombieStates
<1>2. BootNotAsleep' /\ UsersOnCpu0' /\ ZombieIsUser' /\ SpaceOfKind'
  BY <1>1, Zenon DEF IInv, BootNotAsleep, UsersOnCpu0, ZombieIsUser, SpaceOfKind, is_user, WokenBy
<1>3. NoLostWakeup'
  <2> SUFFICES ASSUME NEW p \in Slots, state'[p] = "BLOCKED"
               PROVE  \E u \in Slots : Matches(p, u, wait_target[p])' /\ state'[u] # "ZOMBIE"
    BY Zenon DEF NoLostWakeup
  <2>1. state[p] = "BLOCKED" /\ ~WokenBy(p, t)
    BY <1>1, Zenon
  <2>2. wait_target'[p] = wait_target[p]
    BY <2>1, Zenon DEF ZombieParent
  <2>3. PICK u \in Slots : Matches(p, u, wait_target[p]) /\ state[u] # "ZOMBIE"
    BY <2>1, Zenon DEF IInv, NoLostWakeup
  <2>4. u # t
    BY <2>1, <2>3, Zenon DEF Matches, WokenBy
  <2> QED
    BY <1>1, <2>2, <2>3, <2>4, Zenon DEF Matches
<1>4. SpaceRefsExact'
  <2>1. ASSUME NEW s \in Spaces PROVE Holders(s)' = Holders(s)
    BY <1>1, Zenon DEF Holders, is_user, WokenBy
  <2> QED
    BY <2>1, Zenon DEF IInv, SpaceRefsExact
<1>5. children' \in [Slots -> Nat] /\ wait_target' \in [Slots -> Nat]
  <2>1. children \in [Slots -> Nat] /\ wait_target \in [Slots -> Nat]
    BY Zenon DEF IInv, TypeOK
  <2>2. children' \in [Slots -> Nat]
    BY <2>1 DEF ZombieParent
  <2>3. wait_target' \in [Slots -> Nat]
    BY <2>1, Zenon DEF ZombieParent
  <2> QED
    BY <2>2, <2>3, Zenon
<1>6. wait_ptr' \in [Slots -> BOOLEAN]
  <2>1. wait_ptr' = [u \in Slots |-> IF WokenBy(u, t) THEN FALSE ELSE wait_ptr[u]]
    BY Zenon DEF ZombieParent
  <2>2. wait_ptr \in [Slots -> BOOLEAN]
    BY Zenon DEF IInv, TypeOK
  <2> QED
    BY <2>1, <2>2, Zenon
<1> QED
  BY <1>2, <1>3, <1>4, <1>5, <1>6, Zenon

\* A user thread t that exits leaves states its CPU c can switch from.
LEMMA ExitSwitchable ==
  ASSUME IInv, NEW c \in CPUs, NEW t \in Slots, g_current[c] = t, is_user(t), state[t] # "UNUSED"
  PROVE  Switchable(c, ZombieStates(t))
<1> DEFINE st == ZombieStates(t)
<1>1. \A u \in Slots : st[u] =
        IF u = t THEN "ZOMBIE" ELSE IF WokenBy(u, t) THEN "READY" ELSE state[u]
  BY Zenon DEF ZombieStates
<1>2. st \in [Slots -> ThreadStates]
  BY Zenon DEF ZombieStates, ThreadStates, IInv, TypeOK
<1>3. \A u \in Slots : kind[u] = "boot" => state[u] # "BLOCKED"
  BY Zenon DEF IInv, BootNotAsleep
<1>4. \A u \in Slots : /\ st[u] = "UNUSED" <=> state[u] = "UNUSED"
                       /\ \A x \in {"RUNNING", "BLOCKED"} : st[u] = x => state[u] = x
                       /\ kind[u] = "boot" => st[u] = state[u]
  BY <1>1, <1>3, Zenon DEF WokenBy, is_user
<1>5. \A d \in CPUs : d # c /\ g_current[d] # None => st[g_current[d]] # "ZOMBIE"
  BY <1>1 DEF IInv, TypeOK, CurrentIsLive
<1> QED
  BY <1>2, <1>4, <1>5, Zenon DEF Switchable

LEMMA ExitIInv ==
  ASSUME IInv, NEW c \in CPUs, scheduler_on_exit(c) PROVE IInv'
<1>1. PICK t \in Slots, next \in Slots :
        /\ RunsUser(c, t)
        /\ ZombieParent(t)
        /\ pick_next(c, ZombieStates(t), next)
        /\ do_switch(c, ZombieStates(t), next)
        /\ UNCHANGED <<id, kind, parent, cpu_id, g_next_id, sleep_left, spaceVars, pc, on_stack, bootVars, ipi>>
  BY Zenon DEF scheduler_on_exit
<1> DEFINE st == ZombieStates(t)
<1>2. g_current[c] = t /\ g_current[c] # None /\ is_user(t) /\ state[t] # "UNUSED" /\ cpu_id[t] = c
  BY <1>1, Zenon DEF RunsUser, Runs, IInv, CurrentIsLive
<1>3. \A u \in Slots : st[u] =
        IF u = t THEN "ZOMBIE" ELSE IF WokenBy(u, t) THEN "READY" ELSE state[u]
  BY Zenon DEF ZombieStates
<1>4. Switchable(c, st)
  BY <1>2, ExitSwitchable, Zenon
<1>5. next # t
  BY <1>1, <1>2, <1>3, <1>4, PickNext, Zenon
<1> HIDE DEF st
<1>6. /\ state' \in [Slots -> ThreadStates]
      /\ g_current' \in [CPUs -> Slots \cup {None}]
      /\ hw_cr3' \in [CPUs -> Spaces \cup {kspace}]
      /\ \A u \in Slots, x \in {"UNUSED", "SLEEPING", "BLOCKED", "ZOMBIE"} : state'[u] = x <=> st[u] = x
      /\ \A d \in CPUs : g_current'[d] = None <=> g_current[d] = None
  BY <1>1, <1>2, <1>4, SwitchStates, Zenon DEF st
<1>7. CurrentIsLive' /\ RunInv' /\ BlockedInWait' /\ IdleAlwaysRunnable' /\ StackInv' /\ LoadedInv'
  BY <1>1, <1>2, <1>4, <1>5, SwitchCpus, Zenon DEF st, spaceVars
<1>8. /\ BootNotAsleep' /\ UsersOnCpu0' /\ ZombieIsUser' /\ SpaceOfKind'
      /\ NoLostWakeup' /\ SpaceRefsExact'
      /\ children' \in [Slots -> Nat]
      /\ wait_target' \in [Slots -> Nat] /\ wait_ptr' \in [Slots -> BOOLEAN]
  BY <1>1, <1>2, <1>6, ZombieKeeps, Zenon DEF st, spaceVars
<1>9. BootInv'
  BY <1>1, <1>6, Distinct, Zenon DEF IInv, BootInv, bootVars, is_user
<1>10. TypeOK'
  BY <1>1, <1>6, <1>8, Zenon DEF IInv, TypeOK, ThreadStates, spaceVars, bootVars
<1> QED
  BY <1>7, <1>8, <1>9, <1>10, Zenon DEF IInv

LEMMA KillIInv ==
  ASSUME IInv, NEW c \in CPUs, scheduler_kill(c) PROVE IInv'
<1>1. PICK t \in Slots, target \in Slots :
        /\ RunsUser(c, t) /\ target # t
        /\ state[target] \notin {"UNUSED", "ZOMBIE"} /\ is_user(target)
        /\ state' = ZombieStates(target)
        /\ ZombieParent(target)
        /\ UNCHANGED <<id, kind, parent, cpu_id, g_next_id, sleep_left, spaceVars, pc, cpuVars, bootVars, ipi>>
  BY Zenon DEF scheduler_kill
<1>2. \A u \in Slots : state'[u] =
        IF u = target THEN "ZOMBIE" ELSE IF WokenBy(u, target) THEN "READY" ELSE state[u]
  BY <1>1, Zenon DEF ZombieStates
<1>3. /\ BootNotAsleep' /\ UsersOnCpu0' /\ ZombieIsUser' /\ SpaceOfKind'
      /\ NoLostWakeup' /\ SpaceRefsExact'
      /\ children' \in [Slots -> Nat]
      /\ wait_target' \in [Slots -> Nat] /\ wait_ptr' \in [Slots -> BOOLEAN]
  BY <1>1, ZombieKeeps, Zenon DEF spaceVars
\* The victim is a user thread, so it belongs to the killer's CPU, and the
\* killer is that CPU's current thread.
<1>4. \A d \in CPUs : g_current[d] # target
  BY <1>1, Distinct DEF IInv, TypeOK, UsersOnCpu0, CurrentIsLive, RunsUser, Runs
<1>5. CurrentIsLive' /\ RunInv' /\ BlockedInWait' /\ StackInv' /\ LoadedInv' /\ BootInv'
  BY <1>1, <1>2, <1>4
  DEF IInv, TypeOK, CurrentIsLive, RunInv, BlockedInWait, StackInv, LoadedInv, BootInv, cpuVars, bootVars, spaceVars, is_user, WokenBy
<1>6. IdleAlwaysRunnable'
  BY <1>1, <1>2 DEF IInv, IdleAlwaysRunnable, WokenBy, cpuVars, is_user
<1>7. TypeOK'
  <2>1. state' \in [Slots -> {"UNUSED", "READY", "RUNNING", "SLEEPING", "BLOCKED", "ZOMBIE"}]
    BY <1>1, Zenon DEF ZombieStates, IInv, TypeOK
  <2> QED
    BY <1>1, <1>3, <2>1, Zenon DEF IInv, TypeOK, spaceVars, cpuVars, bootVars
<1> QED
  BY <1>3, <1>5, <1>6, <1>7, Zenon DEF IInv
==============================================================================
