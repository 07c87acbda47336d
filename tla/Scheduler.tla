------------------------------ MODULE Scheduler ------------------------------
(***************************************************************************)
(* The thread scheduler of the kernel (src/src/scheduler.c), the part of   *)
(* the system calls that drives it (src/src/syscall.c), the timer and      *)
(* reschedule interrupts that preempt it, the registration of the          *)
(* processors (smp.c) and the reference counts of the user address spaces  *)
(* (src/src/vmm.c).                                                        *)
(*                                                                         *)
(* A step is one critical section of g_sched_lock: the lock makes sections *)
(* of different processors atomic to each other.  (What happens when an    *)
(* interrupt arrives while the lock is held is the subject of SchedLock.)  *)
(* An operation with two sections has two actions and a place in between:  *)
(* waitpid blocks in the first and yields in the second, scheduler_sleep   *)
(* likewise.  A processor that has switched threads still runs on the      *)
(* kernel stack of the old one until the interrupt stub loads the new      *)
(* frame; on_stack records that window.                                    *)
(*                                                                         *)
(* Abstractions.  A thread is its index in g_threads.  Time is the number  *)
(* of ticks a sleeper has left (wakeup_tick - pit_ticks(), cut at 0).      *)
(* An address space is its index in g_user_spaces; kspace is kspace_cr3.   *)
(* Every writer of priority stores 1 or copies another thread's, so all    *)
(* priorities are equal and pick_next takes the first READY thread.        *)
(***************************************************************************)
EXTENDS Integers, FiniteSets

CONSTANTS
  MAX_THREADS,          \* slots of g_threads
  NumCPUs,              \* processors the MP table lists
  VMM_MAX_USER_SPACES,  \* slots of g_user_spaces
  MaxId,                \* bound on g_next_id
  MaxSleep              \* longest sleep, in ticks

ASSUME SchedulerAssumption ==
  /\ NumCPUs \in Nat \ {0}
  /\ MAX_THREADS \in Nat /\ MAX_THREADS >= NumCPUs + 2
  /\ VMM_MAX_USER_SPACES \in Nat \ {0}
  /\ MaxId \in Nat
  /\ MaxSleep \in Nat

Slots  == 0 .. MAX_THREADS - 1
CPUs   == 0 .. NumCPUs - 1
Spaces == 1 .. VMM_MAX_USER_SPACES
None   == -1                        \* a null thread pointer
NoCr3  == 0                         \* a cleared cr3
kspace == VMM_MAX_USER_SPACES + 1   \* kspace_cr3

VARIABLES
  state,        \* thread_state_t of each slot
  id,           \* thread id of each slot
  kind,         \* "boot" (a CPU's first thread), "kernel" or "user" (is_user)
  parent,       \* parent pointer: a slot, or None
  children,     \* counter of children
  wait_target,  \* pid a blocked waitpid waits for, 0 = any child
  wait_ptr,     \* wait_status_ptr is not null
  sleep_left,   \* ticks until wakeup_tick
  cpu_id,       \* the CPU a slot's thread runs on
  cr3,          \* address space of each slot's thread
  pc,           \* where a thread goes on: "code", in scheduler_sleep, in waitpid
  g_next_id, g_cpu_rr,
  g_current,    \* per CPU: the current thread, None before registration
  on_stack,     \* per CPU: the thread whose kernel stack the CPU runs on
  hw_cr3,       \* per CPU: the address space loaded in CR3
  online,       \* CPUs counted by cpu_online_count
  ipi,          \* CPUs with a reschedule interrupt pending
  refs,         \* g_user_spaces[s].refs
  leaked,       \* spaces a failed creation never released
  boot          \* how far kernel_main is: "create_init", "create_klogger", "idle"

threadVars == <<id, kind, parent, children, cpu_id, g_next_id>>
waitVars   == <<wait_target, wait_ptr>>
spaceVars  == <<cr3, refs, leaked>>
cpuVars    == <<g_current, on_stack, hw_cr3>>
bootVars   == <<g_cpu_rr, online, boot>>
vars == <<state, threadVars, waitVars, sleep_left, spaceVars, pc, cpuVars, bootVars, ipi>>

is_user(t) == kind[t] = "user"

(***************************************************************************)
(* Helpers of scheduler.c                                                  *)
(***************************************************************************)

\* The slot a loop over g_threads finds first in S.
First(t, S) == t \in S /\ \A u \in S : t <= u

\* thread_alloc_slot's search: the first UNUSED slot (MaxId bounds the ids).
FreeSlot(t) ==
  /\ g_next_id <= MaxId
  /\ First(t, {u \in Slots : state[u] = "UNUSED"})

\* wake_sleepers on the states st, with left ticks to go.
wake_sleepers(st, left) ==
  [t \in Slots |-> IF st[t] = "SLEEPING" /\ left[t] = 0 THEN "READY" ELSE st[t]]

\* Mutant: forgets the thread's CPU.
Runnable_AnyCpu(c, st) == {t \in Slots : st[t] = "READY"}

Runnable(c, st) == {t \in Slots : st[t] = "READY" /\ cpu_id[t] = c}


\* pick_next chooses `next` for CPU c.
pick_next(c, st, next) ==
  \/ First(next, Runnable(c, st))
  \/ /\ Runnable(c, st) = {}
     /\ next = IF st[g_current[c]] \in {"RUNNING", "READY"} THEN g_current[c] ELSE 0

\* Mutant: the thread left behind is not demoted.
do_switch_NoDemote(c, st, next) ==
  /\ state' = [st EXCEPT ![next] = "RUNNING"]
  /\ g_current' = [g_current EXCEPT ![c] = next]
  /\ hw_cr3' = [hw_cr3 EXCEPT ![c] = cr3[next]]

\* do_switch: states, current thread and loaded address space after CPU c
\* goes to `next` from states st.
do_switch(c, st, next) ==
  LET prev == g_current[c]
  IN  IF next = prev
        THEN state' = st /\ UNCHANGED <<g_current, hw_cr3>>
        ELSE /\ state' = [t \in Slots |->
                  IF t = next THEN "RUNNING"
                  ELSE IF t = prev /\ st[t] = "RUNNING" THEN "READY"
                  ELSE st[t]]
             /\ g_current' = [g_current EXCEPT ![c] = next]
             /\ hw_cr3' = IF cr3[next] # NoCr3 /\ cr3[next] # cr3[prev]
                            THEN [hw_cr3 EXCEPT ![c] = cr3[next]] ELSE hw_cr3


\* The common body of scheduler_on_tick and scheduler_yield.
Reschedule(c, left) ==
  LET st == wake_sleepers(state, left)
  IN  \E next \in Slots : pick_next(c, st, next) /\ do_switch(c, st, next)

\* Mutants: wait_target is not compared, 0 is not taken for "any child", or
\* the parent's state is not looked at.
WokenBy_AnyTarget(p, t) == p = parent[t] /\ state[p] = "BLOCKED"
WokenBy_NoWildcard(p, t) ==
  p = parent[t] /\ state[p] = "BLOCKED" /\ wait_target[p] = id[t]
WokenBy_NotBlocked(p, t) == p = parent[t] /\ wait_target[p] \in {0, id[t]}

\* A parent waiting for t, or for any child, is woken when t dies.
WokenBy(p, t) ==
  /\ p = parent[t]
  /\ state[p] = "BLOCKED"
  /\ wait_target[p] = 0 \/ wait_target[p] = id[t]

\* thread_mark_zombie: the states after t dies, and the parent's bookkeeping.
ZombieStates(t) ==
  [u \in Slots |-> IF u = t THEN "ZOMBIE" ELSE IF WokenBy(u, t) THEN "READY" ELSE state[u]]

ZombieParent(t) ==
  /\ children' = [u \in Slots |-> IF u = parent[t] /\ children[u] > 0
                                    THEN children[u] - 1 ELSE children[u]]
  /\ wait_target' = [u \in Slots |-> IF WokenBy(u, t) THEN 0 ELSE wait_target[u]]
  /\ wait_ptr' = [u \in Slots |-> IF WokenBy(u, t) THEN FALSE ELSE wait_ptr[u]]

\* vmm_retain_user_space and vmm_release_user_space on the counts r.
Retain(r, s)  == IF s \in Spaces THEN [r EXCEPT ![s] = IF @ > 0 THEN @ + 1 ELSE 2] ELSE r
Release(r, s) == IF s \in Spaces /\ r[s] > 0 THEN [r EXCEPT ![s] = @ - 1] ELSE r
FreeSpace(s)  == First(s, {u \in Spaces : refs[u] = 0})

\* thread_alloc_slot and the fields its callers fill in, for slot t.
NewThread(t, kd, par, cpu, space, st) ==
  /\ state' = [state EXCEPT ![t] = st]
  /\ id' = [id EXCEPT ![t] = g_next_id]
  /\ g_next_id' = g_next_id + 1
  /\ kind' = [kind EXCEPT ![t] = kd]
  /\ parent' = [parent EXCEPT ![t] = par]
  /\ children' = [u \in Slots |-> IF u = t THEN 0
                                  ELSE IF u = par THEN children[u] + 1 ELSE children[u]]
  /\ cpu_id' = [cpu_id EXCEPT ![t] = cpu]
  /\ cr3' = [cr3 EXCEPT ![t] = space]
  /\ wait_target' = [wait_target EXCEPT ![t] = 0]
  /\ wait_ptr' = [wait_ptr EXCEPT ![t] = FALSE]
  /\ sleep_left' = [sleep_left EXCEPT ![t] = 0]
  /\ pc' = [pc EXCEPT ![t] = "code"]

(***************************************************************************)
(* Boot: kernel_main runs on CPU 0 with interrupts off and creates init    *)
(* and klogger; the other processors come up on their own, at any time     *)
(* (smp_init gives up on one after a while and goes on).                   *)
(***************************************************************************)

\* scheduler_init
Init ==
  /\ state = [t \in Slots |-> IF t = 0 THEN "RUNNING" ELSE "UNUSED"]
  /\ id = [t \in Slots |-> 0]
  /\ kind = [t \in Slots |-> IF t = 0 THEN "boot" ELSE "kernel"]
  /\ parent = [t \in Slots |-> None]
  /\ children = [t \in Slots |-> 0]
  /\ wait_target = [t \in Slots |-> 0]
  /\ wait_ptr = [t \in Slots |-> FALSE]
  /\ sleep_left = [t \in Slots |-> 0]
  /\ cpu_id = [t \in Slots |-> 0]
  /\ cr3 = [t \in Slots |-> IF t = 0 THEN kspace ELSE NoCr3]
  /\ pc = [t \in Slots |-> "code"]
  /\ g_next_id = 1
  /\ g_cpu_rr = 0
  /\ g_current = [c \in CPUs |-> IF c = 0 THEN 0 ELSE None]
  /\ on_stack = [c \in CPUs |-> IF c = 0 THEN 0 ELSE None]
  /\ hw_cr3 = [c \in CPUs |-> kspace]
  /\ online = {0}
  /\ ipi = {}
  /\ refs = [s \in Spaces |-> 0]
  /\ leaked = {}
  /\ boot = "create_init"

\* scheduler_ap_main's first step: the CPU counts as online.
cpu_set_online(c) ==
  /\ c \notin online
  /\ online' = online \cup {c}
  /\ UNCHANGED <<state, threadVars, waitVars, sleep_left, spaceVars, pc, cpuVars, g_cpu_rr, boot, ipi>>

\* The CPU's own first thread becomes its current one.  (A CPU that finds no
\* slot left is not followed any further.)
scheduler_register_cpu_bootstrap(c) ==
  /\ c \in online /\ g_current[c] = None
  /\ \E t \in Slots :
       /\ FreeSlot(t)
       /\ NewThread(t, "boot", None, c, kspace, "RUNNING")
       /\ g_current' = [g_current EXCEPT ![c] = t]
       /\ on_stack' = [on_stack EXCEPT ![c] = t]
  /\ UNCHANGED <<hw_cr3, refs, leaked, bootVars, ipi>>

\* Mutant: advances before use and forgets to wrap.
PickedCpu_NoWrap == g_cpu_rr + 1

\* scheduler_pick_cpu: round robin over the number of CPUs online.
PickedCpu == g_cpu_rr % Cardinality(online)

\* thread_create_user for init, with a fresh space s.  When a stack cannot be
\* allocated or mapped, the slot is given back but the space is not.
thread_create_user ==
  /\ boot = "create_init"
  /\ \E t \in Slots, s \in Spaces, made \in BOOLEAN :
       /\ FreeSlot(t) /\ FreeSpace(s)
       /\ NewThread(t, "user", g_current[0], PickedCpu, s, IF made THEN "READY" ELSE "UNUSED")
       /\ refs' = [refs EXCEPT ![s] = 1]
       /\ leaked' = IF made THEN leaked ELSE leaked \cup {s}
  /\ g_cpu_rr' = (g_cpu_rr + 1) % Cardinality(online)
  /\ boot' = "create_klogger"
  /\ UNCHANGED <<cpuVars, online, ipi>>

\* kernel_main goes on without init when its image cannot be loaded; a space
\* it had created stays allocated.
init_load_failed ==
  /\ boot = "create_init"
  /\ \/ \E s \in Spaces : /\ FreeSpace(s)
                          /\ refs' = [refs EXCEPT ![s] = 1]
                          /\ leaked' = leaked \cup {s}
     \/ UNCHANGED <<refs, leaked>>
  /\ boot' = "create_klogger"
  /\ UNCHANGED <<state, threadVars, waitVars, sleep_left, cr3, pc, cpuVars, g_cpu_rr, online, ipi>>

\* thread_create_kernel for klogger; kernel_main then enables interrupts and idles.
thread_create_kernel ==
  /\ boot = "create_klogger"
  /\ \E t \in Slots, made \in BOOLEAN :
       /\ FreeSlot(t)
       /\ NewThread(t, "kernel", g_current[0], PickedCpu, kspace, IF made THEN "READY" ELSE "UNUSED")
  /\ g_cpu_rr' = (g_cpu_rr + 1) % Cardinality(online)
  /\ boot' = "idle"
  /\ UNCHANGED <<cpuVars, online, refs, leaked, ipi>>

(***************************************************************************)
(* Interrupts                                                              *)
(***************************************************************************)

\* CPU c accepts interrupts: it runs its current thread, which is not inside
\* a system call (interrupt gates clear IF).
Interruptible(c) ==
  /\ g_current[c] # None
  /\ on_stack[c] = g_current[c]
  /\ pc[g_current[c]] # "wait"
  /\ c = 0 => boot = "idle"

\* IRQ 0 on CPU 0: pit_handle_irq0 counts the tick and sends the reschedule
\* interrupt to the other CPUs, then scheduler_on_tick.
pit_tick ==
  /\ Interruptible(0)
  /\ sleep_left' = [t \in Slots |-> IF sleep_left[t] > 0 THEN sleep_left[t] - 1 ELSE 0]
  /\ ipi' = online \ {0}
  /\ Reschedule(0, sleep_left')
  /\ UNCHANGED <<threadVars, waitVars, spaceVars, pc, on_stack, bootVars>>

\* The reschedule interrupt on another CPU: scheduler_on_tick.
resched_ipi(c) ==
  /\ c \in ipi /\ Interruptible(c)
  /\ ipi' = ipi \ {c}
  /\ Reschedule(c, sleep_left)
  /\ UNCHANGED <<threadVars, waitVars, sleep_left, spaceVars, pc, on_stack, bootVars>>

\* isr_common_stub loads the frame interrupt_dispatch returned.
return_from_interrupt(c) ==
  /\ g_current[c] # None /\ on_stack[c] # g_current[c]
  /\ on_stack' = [on_stack EXCEPT ![c] = g_current[c]]
  /\ UNCHANGED <<state, threadVars, waitVars, sleep_left, spaceVars, pc, g_current, hw_cr3, bootVars, ipi>>

(***************************************************************************)
(* Threads.  Runs(c, t): CPU c executes the code of thread t.              *)
(***************************************************************************)

Runs(c, t) == t = g_current[c] /\ t # None /\ on_stack[c] = t /\ pc[t] = "code"
RunsUser(c, t) == Runs(c, t) /\ is_user(t) /\ (c = 0 => boot = "idle")

\* Mutants: the child is spread over the CPUs, or the space is not retained.
scheduler_fork_PickCpu(c) ==
  \E p \in Slots, t \in Slots :
    /\ RunsUser(c, p) /\ FreeSlot(t)
    /\ NewThread(t, "user", p, PickedCpu, cr3[p], "READY")
    /\ g_cpu_rr' = (g_cpu_rr + 1) % Cardinality(online)
    /\ refs' = Retain(refs, cr3[p])
    /\ UNCHANGED <<leaked, cpuVars, online, boot, ipi>>
scheduler_fork_NoRetain(c) ==
  \E p \in Slots, t \in Slots :
    /\ RunsUser(c, p) /\ FreeSlot(t)
    /\ NewThread(t, "user", p, cpu_id[p], cr3[p], "READY")
    /\ UNCHANGED <<refs, leaked, cpuVars, bootVars, ipi>>

\* SYS_fork.  The child shares the address space and the CPU of its parent.
\* `made` is FALSE when a file or the kernel stack of the child cannot be
\* allocated: the space is released and the slot given back.
scheduler_fork(c) ==
  \E p \in Slots, t \in Slots, made \in BOOLEAN :
    /\ RunsUser(c, p) /\ FreeSlot(t)
    /\ NewThread(t, "user", p, cpu_id[p], cr3[p], IF made THEN "READY" ELSE "UNUSED")
    /\ refs' = IF made THEN Retain(refs, cr3[p]) ELSE Release(Retain(refs, cr3[p]), cr3[p])
    /\ UNCHANGED <<leaked, cpuVars, bootVars, ipi>>

\* Mutant: the new space is not loaded.
execve_NoLoad(c) ==
  \E t \in Slots, s \in Spaces :
    /\ RunsUser(c, t) /\ FreeSpace(s)
    /\ cr3' = [cr3 EXCEPT ![t] = s]
    /\ refs' = Release([refs EXCEPT ![s] = 1], cr3[t])
    /\ UNCHANGED <<state, threadVars, waitVars, sleep_left, leaked, pc, cpuVars, bootVars, ipi>>

\* SYS_execve: a new space replaces the thread's, which is released.  (On an
\* error the new space is released again and nothing has changed.)
execve(c) ==
  \E t \in Slots, s \in Spaces :
    /\ RunsUser(c, t) /\ FreeSpace(s)
    /\ cr3' = [cr3 EXCEPT ![t] = s]
    /\ hw_cr3' = [hw_cr3 EXCEPT ![c] = s]
    /\ refs' = Release([refs EXCEPT ![s] = 1], cr3[t])
    /\ UNCHANGED <<state, threadVars, waitVars, sleep_left, leaked, pc, g_current, on_stack, bootVars, ipi>>

\* SYS_exit, SYS_kill of oneself, or a fault in user mode.  pick_next cannot
\* return the dead thread, so the fallback of scheduler_on_exit stays unused.
scheduler_on_exit(c) ==
  \E t \in Slots, next \in Slots :
    /\ RunsUser(c, t)
    /\ ZombieParent(t)
    /\ pick_next(c, ZombieStates(t), next)
    /\ do_switch(c, ZombieStates(t), next)
    /\ UNCHANGED <<id, kind, parent, cpu_id, g_next_id, sleep_left, spaceVars, pc, on_stack, bootVars, ipi>>

\* Mutant: any thread can be killed.
scheduler_kill_Any(c) ==
  \E t \in Slots, target \in Slots :
    /\ RunsUser(c, t) /\ target # t
    /\ state[target] \notin {"UNUSED", "ZOMBIE"}
    /\ state' = ZombieStates(target)
    /\ ZombieParent(target)
    /\ UNCHANGED <<id, kind, parent, cpu_id, g_next_id, sleep_left, spaceVars, pc, cpuVars, bootVars, ipi>>

\* SYS_kill of another thread: a user thread that is not dead yet.
scheduler_kill(c) ==
  \E t \in Slots, target \in Slots :
    /\ RunsUser(c, t) /\ target # t
    /\ state[target] \notin {"UNUSED", "ZOMBIE"} /\ is_user(target)
    /\ state' = ZombieStates(target)
    /\ ZombieParent(target)
    /\ UNCHANGED <<id, kind, parent, cpu_id, g_next_id, sleep_left, spaceVars, pc, cpuVars, bootVars, ipi>>

\* find_child: child t of p that matches pid (0: any).
Matches(p, t, pid) ==
  /\ state[t] # "UNUSED" /\ parent[t] = p
  /\ pid = 0 \/ id[t] = pid

ZombieChildren(p, pid) == {t \in Slots : Matches(p, t, pid) /\ state[t] = "ZOMBIE"}

\* SYS_waitpid finds a dead child and reaps it.
waitpid_reap(c) ==
  \E p \in Slots, z \in Slots, pid \in 0 .. MaxId :
    /\ RunsUser(c, p) /\ First(z, ZombieChildren(p, pid))
    /\ state' = [state EXCEPT ![z] = "UNUSED"]
    /\ refs' = IF is_user(z) THEN Release(refs, cr3[z]) ELSE refs
    /\ cr3' = IF is_user(z) THEN [cr3 EXCEPT ![z] = NoCr3] ELSE cr3
    /\ UNCHANGED <<threadVars, waitVars, sleep_left, leaked, pc, cpuVars, bootVars, ipi>>

\* SYS_waitpid with only live matching children: first section, block ...
waitpid_block(c) ==
  \E p \in Slots, pid \in 0 .. MaxId, ptr \in BOOLEAN :
    /\ RunsUser(c, p)
    /\ ZombieChildren(p, pid) = {}
    /\ \E t \in Slots : Matches(p, t, pid)
    /\ wait_target' = [wait_target EXCEPT ![p] = pid]
    /\ wait_ptr' = [wait_ptr EXCEPT ![p] = ptr]
    /\ state' = [state EXCEPT ![p] = "BLOCKED"]
    /\ pc' = [pc EXCEPT ![p] = "wait"]
    /\ UNCHANGED <<threadVars, sleep_left, spaceVars, cpuVars, bootVars, ipi>>

\* ... second section, scheduler_yield.
waitpid_yield(c) ==
  /\ g_current[c] # None /\ on_stack[c] = g_current[c]
  /\ pc[g_current[c]] = "wait"
  /\ Reschedule(c, sleep_left)
  /\ pc' = [pc EXCEPT ![g_current[c]] = "code"]
  /\ UNCHANGED <<threadVars, waitVars, sleep_left, spaceVars, on_stack, bootVars, ipi>>

\* SYS_yield of a user thread.
scheduler_yield(c) ==
  /\ \E t \in Slots : RunsUser(c, t)
  /\ Reschedule(c, sleep_left)
  /\ UNCHANGED <<threadVars, waitVars, sleep_left, spaceVars, pc, on_stack, bootVars, ipi>>

\* SYS_sleep of a user thread.  scheduler_sleep's own int 0x80 comes from ring 0
\* on a user thread, which syscall_handle denies: the thread goes on running.
user_sleep(c) ==
  \E t \in Slots, n \in 0 .. MaxSleep :
    /\ RunsUser(c, t)
    /\ state' = [state EXCEPT ![t] = "SLEEPING"]
    /\ sleep_left' = [sleep_left EXCEPT ![t] = n]
    /\ UNCHANGED <<threadVars, waitVars, spaceVars, pc, cpuVars, bootVars, ipi>>

\* scheduler_sleep of a kernel thread (klogger): the section that marks it ...
kernel_sleep(c) ==
  \E t \in Slots :
    /\ Runs(c, t) /\ kind[t] = "kernel"
    /\ state' = [state EXCEPT ![t] = "SLEEPING"]
    /\ sleep_left' = [sleep_left EXCEPT ![t] = MaxSleep]
    /\ pc' = [pc EXCEPT ![t] = "sleep"]
    /\ UNCHANGED <<threadVars, waitVars, spaceVars, cpuVars, bootVars, ipi>>

\* ... and the int 0x80 that yields, perhaps long after an interrupt in between.
kernel_sleep_yield(c) ==
  /\ g_current[c] # None /\ on_stack[c] = g_current[c]
  /\ pc[g_current[c]] = "sleep"
  /\ Reschedule(c, sleep_left)
  /\ pc' = [pc EXCEPT ![g_current[c]] = "code"]
  /\ UNCHANGED <<threadVars, waitVars, sleep_left, spaceVars, on_stack, bootVars, ipi>>

ThreadStep(c) ==
  \/ scheduler_fork(c) \/ execve(c) \/ scheduler_on_exit(c) \/ scheduler_kill(c)
  \/ waitpid_reap(c) \/ waitpid_block(c) \/ scheduler_yield(c) \/ user_sleep(c)
  \/ kernel_sleep(c)

Next ==
  \/ thread_create_user \/ init_load_failed
  \/ thread_create_kernel \/ pit_tick
  \/ \E c \in CPUs :
       \/ cpu_set_online(c) \/ scheduler_register_cpu_bootstrap(c)
       \/ resched_ipi(c) \/ return_from_interrupt(c)
       \/ waitpid_yield(c) \/ kernel_sleep_yield(c)
       \/ ThreadStep(c)

Spec == Init /\ [][Next]_vars

\* The timer interrupt stays latched while interrupts are off, so it is taken
\* in the end (strong fairness); kernel_main and a processor that is inside
\* the kernel get on.  Nothing is assumed of what threads do.
Fairness ==
  /\ WF_vars(thread_create_kernel)
  /\ SF_vars(pit_tick)
  /\ \A c \in CPUs : /\ SF_vars(resched_ipi(c))
                     /\ WF_vars(return_from_interrupt(c))
                     /\ WF_vars(waitpid_yield(c))

FairSpec == Spec /\ Fairness

(***************************************************************************)
(* Properties                                                              *)
(***************************************************************************)

\* Every field has a value of its C type.
TypeOK ==
  /\ state \in [Slots -> {"UNUSED", "READY", "RUNNING", "SLEEPING", "BLOCKED", "ZOMBIE"}]
  /\ id \in [Slots -> Nat]
  /\ kind \in [Slots -> {"boot", "kernel", "user"}]
  /\ parent \in [Slots -> Slots \cup {None}]
  /\ children \in [Slots -> Nat]
  /\ wait_target \in [Slots -> Nat]
  /\ wait_ptr \in [Slots -> BOOLEAN]
  /\ sleep_left \in [Slots -> Nat]
  /\ cpu_id \in [Slots -> CPUs]
  /\ cr3 \in [Slots -> Spaces \cup {NoCr3, kspace}]
  /\ pc \in [Slots -> {"code", "sleep", "wait"}]
  /\ g_next_id \in Nat /\ g_cpu_rr \in CPUs
  /\ g_current \in [CPUs -> Slots \cup {None}]
  /\ on_stack \in [CPUs -> Slots \cup {None}]
  /\ hw_cr3 \in [CPUs -> Spaces \cup {kspace}]
  /\ online \in SUBSET CPUs /\ ipi \in SUBSET CPUs
  /\ refs \in [Spaces -> Nat]
  /\ leaked \in SUBSET Spaces
  /\ boot \in {"create_init", "create_klogger", "idle"}

\* The current thread of a CPU is alive and belongs to that CPU: no thread is
\* current on two CPUs, and none that kill or exit ended goes on running.
CurrentIsLive ==
  \A c \in CPUs : g_current[c] # None =>
    /\ state[g_current[c]] \notin {"UNUSED", "ZOMBIE"}
    /\ cpu_id[g_current[c]] = c

\* do_switch demotes the thread it leaves: only current threads are RUNNING.
RunningIsCurrent ==
  \A t \in Slots : state[t] = "RUNNING" => \E c \in CPUs : g_current[c] = t

\* The bootstrap thread of a registered CPU is always there to fall back on:
\* running, or READY (the remark in scheduler_on_exit).
IdleAlwaysRunnable ==
  \A c \in CPUs : g_current[c] # None =>
    \E t \in Slots : /\ kind[t] = "boot" /\ cpu_id[t] = c
                     /\ state[t] = IF g_current[c] = t THEN "RUNNING" ELSE "READY"

\* A thread blocked in waitpid still has a living child that will wake it:
\* no exit or kill slipped in between the check for zombies and the blocking.
NoLostWakeup ==
  \A p \in Slots : state[p] = "BLOCKED" =>
    \E t \in Slots : Matches(p, t, wait_target[p]) /\ state[t] # "ZOMBIE"

\* The address space loaded on a CPU is the one of its current thread and has
\* not been destroyed: waitpid of the last thread of a space, and execve,
\* release no page table a processor walks.
LoadedSpaceLive ==
  \A c \in CPUs : g_current[c] # None =>
    /\ hw_cr3[c] = cr3[g_current[c]]
    /\ hw_cr3[c] \in Spaces => refs[hw_cr3[c]] > 0

\* A space has one reference per thread that uses it (a zombie included), and
\* the one of the creator where the creation failed: none is lost through
\* fork, execve, exit, kill, waitpid and their failures, and none dangles.
Holders(s) == {t \in Slots : state[t] # "UNUSED" /\ is_user(t) /\ cr3[t] = s}
SpaceRefsExact ==
  \A s \in Spaces : refs[s] = Cardinality(Holders(s)) + (IF s \in leaked THEN 1 ELSE 0)

\* waitpid frees no kernel stack a processor still runs on, be it the stack
\* of the dead thread itself between scheduler_on_exit and the return.
KernelStackInUse ==
  \A c \in CPUs : on_stack[c] # None => state[on_stack[c]] # "UNUSED"

\* A dead thread never comes back: it is only ever reaped.
ZombieStaysDead ==
  [][\A t \in Slots : state[t] = "ZOMBIE" => state'[t] \in {"ZOMBIE", "UNUSED"}]_vars

\* A blocked waitpid ends only by the death of a child it waits for, or of
\* the waiter itself.
WakeHasCause ==
  [][\A p \in Slots : state[p] = "BLOCKED" /\ state'[p] # "BLOCKED" =>
       \/ state'[p] = "ZOMBIE"
       \/ \E t \in Slots : Matches(p, t, wait_target[p]) /\ state[t] # "ZOMBIE"
                           /\ state'[t] = "ZOMBIE"]_vars


\* init is never starved, whatever the other threads do: pick_next takes it
\* whenever the bootstrap thread is interrupted.
IsInit(t) == is_user(t) /\ parent[t] = 0

(***************************************************************************)
(* What the code's comments and interfaces say and the code does not do    *)
(***************************************************************************)

\* scheduler_sleep: "Force a yield via int 0x80 SYS_yield (works in ring0
\* too)."  A sleeping thread does not execute.
SleeperOffCpu ==
  \A c \in CPUs, t \in Slots : Runs(c, t) => state[t] # "SLEEPING"

\* sys_waitpid(pid, &status): the status of a child that dies while its
\* parent waits is stored through the address space of the parent.
StatusLandsInWaiter ==
  [][\A c \in CPUs : scheduler_on_exit(c) \/ scheduler_kill(c) =>
       \A p \in Slots : wait_ptr[p] /\ state[p] = "BLOCKED" /\ state'[p] = "READY"
                          => hw_cr3[c] = cr3[p]]_vars

\* scheduler_waitpid: "Wait for a child process to exit".  The thread waited
\* for was created after the one that waits.
WaitsForChild ==
  \A p, t \in Slots : state[p] = "BLOCKED" /\ Matches(p, t, wait_target[p])
                       => id[p] < id[t]

\* klogger: "scheduler_sleep(100); /* ~1 second at 100Hz */".  A kernel thread
\* whose sleep is over runs again.
KernelThreadRuns ==
  \A t \in Slots : (kind[t] = "kernel" /\ state[t] = "READY") ~> state[t] # "READY"
=============================================================================
