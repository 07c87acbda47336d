----------------------------- MODULE SchedulerInv ----------------------------
(***************************************************************************)
(* The inductive invariant behind the safety properties of Scheduler:      *)
(* Scheduler's own invariants, and the facts below that they lean on.  It  *)
(* holds at boot and is kept by the creation of threads.                   *)
(***************************************************************************)
EXTENDS Scheduler, FiniteSetTheorems, TLAPS

(***************************************************************************)
(* The inductive invariant                                                 *)
(***************************************************************************)

\* Registration: the boot CPU is online and always has a current thread, and
\* a CPU has a stack exactly when it has a current thread.
BootInv ==
  /\ 0 \in online
  /\ g_current[0] # None
  /\ \A c \in CPUs : g_current[c] # None => c \in online
  /\ \A c \in CPUs : on_stack[c] = None <=> g_current[c] = None
  /\ boot = "create_init" => g_cpu_rr = 0 /\ \A t \in Slots : ~is_user(t)

\* All user threads live on CPU 0: init is placed there, and fork keeps the
\* CPU.  This is why exit, kill and waitpid never meet across processors.
UsersOnCpu0 == \A t \in Slots : is_user(t) => cpu_id[t] = 0

\* Only user threads die.
ZombieIsUser == \A t \in Slots : state[t] = "ZOMBIE" => is_user(t)

\* The bootstrap threads make no system call: they only wait for interrupts.
BootNotAsleep == \A t \in Slots : kind[t] = "boot" => state[t] \notin {"SLEEPING", "BLOCKED"}

\* A user thread has a user space, any other thread the kernel's.
SpaceOfKind ==
  \A t \in Slots : state[t] # "UNUSED" =>
    IF is_user(t) THEN cr3[t] \in Spaces ELSE cr3[t] = kspace

\* A processor runs on the stack of a thread of its own.
StackInv ==
  \A c \in CPUs : on_stack[c] # None =>
    state[on_stack[c]] # "UNUSED" /\ cpu_id[on_stack[c]] = c

\* A blocked thread that is still current is on its way to the yield of
\* waitpid, with interrupts off.
BlockedInWait ==
  \A c \in CPUs : g_current[c] # None /\ state[g_current[c]] = "BLOCKED" => pc[g_current[c]] = "wait"

\* A RUNNING thread is the current one of its CPU.
RunInv == \A t \in Slots : state[t] = "RUNNING" => g_current[cpu_id[t]] = t

\* The loaded space is the current thread's, the kernel's before there is one.
LoadedInv ==
  \A c \in CPUs : hw_cr3[c] = IF g_current[c] = None THEN kspace ELSE cr3[g_current[c]]

IInv ==
  /\ TypeOK
  /\ BootInv /\ BootNotAsleep /\ UsersOnCpu0 /\ ZombieIsUser /\ SpaceOfKind
  /\ CurrentIsLive /\ RunInv /\ BlockedInWait /\ IdleAlwaysRunnable /\ StackInv
  /\ NoLostWakeup
  /\ LoadedInv /\ SpaceRefsExact

(***************************************************************************)
(* Lemmas                                                                  *)
(***************************************************************************)

\* Null pointers and the kernel's space are no slots, CPUs or user spaces.
LEMMA Distinct ==
  /\ 0 \in Slots /\ 0 \in CPUs
  /\ None \notin Slots
  /\ NoCr3 \notin Spaces /\ kspace \notin Spaces /\ kspace # NoCr3
BY SchedulerAssumption DEF Slots, CPUs, None, NoCr3, kspace, Spaces

\* The number of online CPUs is a legal modulus for scheduler_pick_cpu.
LEMMA OnlineCount ==
  ASSUME online \in SUBSET CPUs, 0 \in online
  PROVE  Cardinality(online) \in 1 .. NumCPUs
<1>1. IsFiniteSet(CPUs) /\ Cardinality(CPUs) = NumCPUs
  BY FS_Interval, SchedulerAssumption DEF CPUs
<1>2. IsFiniteSet(online) /\ Cardinality(online) <= NumCPUs
  BY <1>1, FS_Subset, Zenon
<1>3. Cardinality(online) \in Nat /\ Cardinality(online) # 0
  BY <1>2, FS_CardinalityType, FS_EmptySet, Zenon
<1> QED
  BY <1>2, <1>3, SchedulerAssumption

\* scheduler_pick_cpu yields a CPU number, and CPU 0 the first time.
LEMMA PickedCpuType ==
  ASSUME TypeOK, BootInv
  PROVE  /\ PickedCpu \in CPUs
         /\ (g_cpu_rr + 1) % Cardinality(online) \in CPUs
         /\ g_cpu_rr = 0 => PickedCpu = 0
<1>1. Cardinality(online) \in 1 .. NumCPUs
  BY OnlineCount, Zenon DEF TypeOK, BootInv
<1>2. g_cpu_rr \in Nat
  BY SchedulerAssumption DEF TypeOK, CPUs
<1>3. ASSUME NEW n \in 1 .. NumCPUs, NEW a \in Nat
      PROVE  a % n \in 0 .. NumCPUs - 1 /\ (a = 0 => a % n = 0)
  BY <1>3, SchedulerAssumption
<1> QED
  BY <1>1, <1>2, <1>3 DEF PickedCpu, CPUs

\* The holders of a space are a finite set.
LEMMA HoldersFinite ==
  ASSUME NEW s PROVE IsFiniteSet(Holders(s)) /\ Cardinality(Holders(s)) \in Nat
<1>1. IsFiniteSet(Slots)
  BY FS_Interval, SchedulerAssumption DEF Slots
<1>2. Holders(s) \subseteq Slots
  BY Zenon DEF Holders
<1> QED
  BY <1>1, <1>2, FS_Subset, FS_CardinalityType, Zenon

\* A space somebody holds has a reference; a space without one is unheld.
LEMMA HeldHasRefs ==
  ASSUME TypeOK, SpaceRefsExact, NEW s \in Spaces
  PROVE  /\ \A t \in Holders(s) : refs[s] > 0
         /\ refs[s] = 0 => Holders(s) = {} /\ s \notin leaked
<1>1. IsFiniteSet(Holders(s)) /\ Cardinality(Holders(s)) \in Nat
  BY HoldersFinite, Zenon
<1>2. Cardinality(Holders(s)) = 0 <=> Holders(s) = {}
  BY <1>1, FS_EmptySet, Zenon
<1>3. refs[s] = Cardinality(Holders(s)) + (IF s \in leaked THEN 1 ELSE 0)
  BY Zenon DEF SpaceRefsExact
<1> QED
  BY <1>1, <1>2, <1>3

(***************************************************************************)
(* The initial state                                                       *)
(***************************************************************************)

LEMMA InitIInv == Init => IInv
<1> SUFFICES ASSUME Init PROVE IInv
  OBVIOUS
<1> USE Distinct
<1>1. TypeOK
  BY SchedulerAssumption, Zenon DEF Init, TypeOK
<1>2. BootInv /\ BootNotAsleep /\ UsersOnCpu0 /\ ZombieIsUser /\ SpaceOfKind
  BY Zenon DEF Init, BootInv, BootNotAsleep, UsersOnCpu0, ZombieIsUser, SpaceOfKind, is_user
<1>3. CurrentIsLive /\ RunInv /\ BlockedInWait /\ IdleAlwaysRunnable /\ StackInv
  BY Zenon DEF Init, BlockedInWait, CurrentIsLive, RunInv, IdleAlwaysRunnable, StackInv
<1>4. NoLostWakeup /\ LoadedInv
  BY Zenon DEF Init, NoLostWakeup, LoadedInv
<1>5. SpaceRefsExact
  <2>1. \A s \in Spaces : Holders(s) = {}
    BY Zenon DEF Init, Holders, is_user
  <2> QED
    BY <2>1, FS_EmptySet DEF Init, SpaceRefsExact
<1> QED
  BY <1>1, <1>2, <1>3, <1>4, <1>5, Zenon DEF IInv

(***************************************************************************)
(* Creating a thread                                                       *)
(***************************************************************************)

\* What thread_alloc_slot and its callers need to know of their arguments.
Creatable(t, kd, par, cpu, space, st) ==
  /\ t \in Slots /\ state[t] = "UNUSED"
  /\ kd \in {"boot", "kernel", "user"}
  /\ par \in Slots \cup {None}
  /\ cpu \in CPUs
  /\ st \in {"UNUSED", "READY", "RUNNING"}
  /\ IF kd = "user" THEN cpu = 0 /\ space \in Spaces ELSE space = kspace

\* The new thread disturbs nothing that is said of threads one by one, nor
\* the waiters' children.
LEMMA NewThreadKeeps ==
  ASSUME NEW t, NEW kd, NEW par, NEW cpu, NEW space, NEW st,
         IInv, Creatable(t, kd, par, cpu, space, st),
         NewThread(t, kd, par, cpu, space, st)
  PROVE  /\ BootNotAsleep' /\ UsersOnCpu0' /\ ZombieIsUser' /\ SpaceOfKind' /\ NoLostWakeup'
         /\ state' \in [Slots -> {"UNUSED", "READY", "RUNNING", "SLEEPING", "BLOCKED", "ZOMBIE"}]
         /\ id' \in [Slots -> Nat]
         /\ kind' \in [Slots -> {"boot", "kernel", "user"}]
         /\ parent' \in [Slots -> Slots \cup {None}]
         /\ children' \in [Slots -> Nat]
         /\ wait_target' \in [Slots -> Nat] /\ wait_ptr' \in [Slots -> BOOLEAN]
         /\ sleep_left' \in [Slots -> Nat]
         /\ cpu_id' \in [Slots -> CPUs]
         /\ cr3' \in [Slots -> Spaces \cup {NoCr3, kspace}]
         /\ pc' \in [Slots -> {"code", "sleep", "wait"}]
         /\ g_next_id' \in Nat
<1> USE Distinct DEF Creatable, NewThread
<1>1. BootNotAsleep' /\ UsersOnCpu0' /\ ZombieIsUser' /\ SpaceOfKind'
  BY Zenon DEF IInv, TypeOK, BootNotAsleep, UsersOnCpu0, ZombieIsUser, SpaceOfKind, is_user
<1>2. NoLostWakeup'
  BY DEF IInv, TypeOK, NoLostWakeup, Matches
<1>3. /\ state' \in [Slots -> {"UNUSED", "READY", "RUNNING", "SLEEPING", "BLOCKED", "ZOMBIE"}]
      /\ id' \in [Slots -> Nat]
      /\ kind' \in [Slots -> {"boot", "kernel", "user"}]
      /\ parent' \in [Slots -> Slots \cup {None}]
      /\ cpu_id' \in [Slots -> CPUs]
      /\ cr3' \in [Slots -> Spaces \cup {NoCr3, kspace}]
  BY Zenon DEF IInv, TypeOK
<1>4. /\ children' \in [Slots -> Nat]
      /\ wait_target' \in [Slots -> Nat] /\ wait_ptr' \in [Slots -> BOOLEAN]
      /\ sleep_left' \in [Slots -> Nat]
      /\ pc' \in [Slots -> {"code", "sleep", "wait"}]
      /\ g_next_id' \in Nat
  BY DEF IInv, TypeOK
<1> QED
  BY <1>1, <1>2, <1>3, <1>4, Zenon

\* Processors do not notice a thread that is not started on them.
LEMMA NewThreadCpus ==
  ASSUME NEW t, NEW kd, NEW par, NEW cpu, NEW space, NEW st,
         IInv, Creatable(t, kd, par, cpu, space, st),
         NewThread(t, kd, par, cpu, space, st),
         st # "RUNNING", UNCHANGED cpuVars
  PROVE  CurrentIsLive' /\ RunInv' /\ BlockedInWait' /\ IdleAlwaysRunnable' /\ StackInv' /\ LoadedInv'
<1> USE Distinct DEF Creatable, NewThread, cpuVars
<1>1. CurrentIsLive' /\ BlockedInWait' /\ StackInv' /\ LoadedInv'
  BY DEF IInv, TypeOK, CurrentIsLive, BlockedInWait, StackInv, LoadedInv
<1>2. RunInv'
  BY Zenon DEF IInv, TypeOK, RunInv
<1>3. IdleAlwaysRunnable'
  BY DEF IInv, TypeOK, IdleAlwaysRunnable
<1> QED
  BY <1>1, <1>2, <1>3, Zenon

\* The new thread adds itself to the holders of its space.
LEMMA NewThreadHolders ==
  ASSUME NEW t, NEW kd, NEW par, NEW cpu, NEW space, NEW st,
         TypeOK, Creatable(t, kd, par, cpu, space, st),
         NewThread(t, kd, par, cpu, space, st), NEW s \in Spaces
  PROVE  Cardinality(Holders(s))' = Cardinality(Holders(s)) +
           (IF kd = "user" /\ st # "UNUSED" /\ s = space THEN 1 ELSE 0)
<1>1. IsFiniteSet(Holders(s)) /\ Cardinality(Holders(s)) \in Nat
  BY HoldersFinite, Zenon
<1>2. t \notin Holders(s)
  BY Zenon DEF Holders, Creatable
<1>3. CASE kd = "user" /\ st # "UNUSED" /\ s = space
  <2>1. Holders(s)' = Holders(s) \cup {t}
    BY <1>3, Zenon DEF Holders, Creatable, NewThread, TypeOK, is_user
  <2> QED
    BY <1>1, <1>2, <1>3, <2>1, FS_AddElement, Zenon
<1>4. CASE ~(kd = "user" /\ st # "UNUSED" /\ s = space)
  <2>1. Holders(s)' = Holders(s)
    BY <1>4, Zenon DEF Holders, Creatable, NewThread, TypeOK, is_user
  <2> QED
    BY <1>1, <1>4, <2>1
<1> QED
  BY <1>3, <1>4, Zenon

LEMMA ForkIInv ==
  ASSUME IInv, NEW c \in CPUs, scheduler_fork(c) PROVE IInv'
<1>1. PICK p \in Slots, t \in Slots, made \in BOOLEAN :
        /\ RunsUser(c, p) /\ FreeSlot(t)
        /\ NewThread(t, "user", p, cpu_id[p], cr3[p], IF made THEN "READY" ELSE "UNUSED")
        /\ refs' = IF made THEN Retain(refs, cr3[p]) ELSE Release(Retain(refs, cr3[p]), cr3[p])
        /\ UNCHANGED <<leaked, cpuVars, bootVars, ipi>>
  BY Zenon DEF scheduler_fork
<1> DEFINE st == IF made THEN "READY" ELSE "UNUSED"
<1>2. state[p] # "UNUSED" /\ is_user(p) /\ cpu_id[p] = 0 /\ cr3[p] \in Spaces
  BY <1>1, Zenon DEF IInv, RunsUser, Runs, CurrentIsLive, UsersOnCpu0, SpaceOfKind
<1>3. Creatable(t, "user", p, cpu_id[p], cr3[p], st)
  BY <1>1, <1>2, Distinct, Zenon DEF Creatable, FreeSlot, First
<1>4. /\ BootNotAsleep' /\ UsersOnCpu0' /\ ZombieIsUser' /\ SpaceOfKind' /\ NoLostWakeup'
      /\ CurrentIsLive' /\ RunInv' /\ BlockedInWait' /\ IdleAlwaysRunnable' /\ StackInv' /\ LoadedInv'
  BY <1>1, <1>3, NewThreadKeeps, NewThreadCpus, Zenon
<1>5. BootInv'
  BY <1>1, <1>2, Zenon DEF IInv, BootInv, cpuVars, bootVars
<1>6. p \in Holders(cr3[p]) /\ refs[cr3[p]] > 0
  BY <1>2, HeldHasRefs, Zenon DEF IInv, Holders
<1>7. refs' = IF made THEN [refs EXCEPT ![cr3[p]] = @ + 1] ELSE refs
  BY <1>1, <1>2, <1>6 DEF Retain, Release, IInv, TypeOK
<1>8. SpaceRefsExact'
  <2>1. ASSUME NEW s \in Spaces
        PROVE  /\ Cardinality(Holders(s))' = Cardinality(Holders(s)) + (IF made /\ s = cr3[p] THEN 1 ELSE 0)
               /\ Cardinality(Holders(s)) \in Nat
    BY <1>1, <1>3, NewThreadHolders, HoldersFinite DEF IInv
  <2> QED
    BY <1>1, <1>2, <1>7, <2>1 DEF IInv, TypeOK, SpaceRefsExact
<1>9. TypeOK'
  <2>1. refs' \in [Spaces -> Nat]
    BY <1>2, <1>7 DEF IInv, TypeOK
  <2> QED
    BY <1>1, <1>3, <2>1, NewThreadKeeps, Zenon DEF IInv, TypeOK, cpuVars, bootVars
<1> QED
  BY <1>4, <1>5, <1>8, <1>9, Zenon DEF IInv

LEMMA CreateUserIInv ==
  ASSUME IInv, thread_create_user PROVE IInv'
<1>1. PICK t \in Slots, s \in Spaces, made \in BOOLEAN :
        /\ FreeSlot(t) /\ FreeSpace(s)
        /\ NewThread(t, "user", g_current[0], PickedCpu, s, IF made THEN "READY" ELSE "UNUSED")
        /\ refs' = [refs EXCEPT ![s] = 1]
        /\ leaked' = IF made THEN leaked ELSE leaked \cup {s}
  BY Zenon DEF thread_create_user
<1>2. /\ boot = "create_init" /\ boot' = "create_klogger"
      /\ g_cpu_rr' = (g_cpu_rr + 1) % Cardinality(online)
      /\ UNCHANGED <<cpuVars, online, ipi>>
  BY Zenon DEF thread_create_user
<1> DEFINE st == IF made THEN "READY" ELSE "UNUSED"
<1>3. /\ PickedCpu \in CPUs /\ PickedCpu = 0
      /\ g_cpu_rr' \in CPUs
  BY <1>2, PickedCpuType, Zenon DEF IInv, BootInv
<1>4. Creatable(t, "user", g_current[0], PickedCpu, s, st)
  BY <1>1, <1>3, Distinct, Zenon DEF Creatable, FreeSlot, First, IInv, TypeOK
<1>5. /\ BootNotAsleep' /\ UsersOnCpu0' /\ ZombieIsUser' /\ SpaceOfKind' /\ NoLostWakeup'
      /\ CurrentIsLive' /\ RunInv' /\ BlockedInWait' /\ IdleAlwaysRunnable' /\ StackInv' /\ LoadedInv'
  BY <1>1, <1>2, <1>4, NewThreadKeeps, NewThreadCpus, Zenon
<1>6. BootInv'
  BY <1>2, Zenon DEF IInv, BootInv, cpuVars
<1>7. refs[s] = 0
  BY <1>1, Zenon DEF FreeSpace, First
<1>8. SpaceRefsExact'
  <2>1. Holders(s) = {} /\ s \notin leaked
    BY <1>7, HeldHasRefs, Zenon DEF IInv
  <2>2. Cardinality(Holders(s)) = 0
    BY <2>1, FS_EmptySet, Zenon
  <2>3. ASSUME NEW u \in Spaces
        PROVE  /\ Cardinality(Holders(u))' = Cardinality(Holders(u)) + (IF made /\ u = s THEN 1 ELSE 0)
               /\ Cardinality(Holders(u)) \in Nat
    BY <1>1, <1>4, NewThreadHolders, HoldersFinite DEF IInv
  <2> QED
    BY <1>1, <1>7, <2>1, <2>2, <2>3 DEF IInv, TypeOK, SpaceRefsExact
<1>9. TypeOK'
  BY <1>1, <1>2, <1>3, <1>4, NewThreadKeeps, Zenon DEF IInv, TypeOK, cpuVars
<1> QED
  BY <1>5, <1>6, <1>8, <1>9, Zenon DEF IInv

\* A new thread that is no user thread holds no space.
LEMMA KernelThreadSpaces ==
  ASSUME NEW t, NEW kd, NEW par, NEW cpu, NEW space, NEW st,
         IInv, Creatable(t, kd, par, cpu, space, st),
         NewThread(t, kd, par, cpu, space, st),
         kd # "user", UNCHANGED <<refs, leaked>>
  PROVE  SpaceRefsExact'
<1>1. ASSUME NEW u \in Spaces
      PROVE  /\ Cardinality(Holders(u))' = Cardinality(Holders(u))
             /\ Cardinality(Holders(u)) \in Nat
  BY NewThreadHolders, HoldersFinite DEF IInv
<1> QED
  BY <1>1, Zenon DEF IInv, SpaceRefsExact

LEMMA CreateKernelIInv ==
  ASSUME IInv, thread_create_kernel PROVE IInv'
<1>1. PICK t \in Slots, made \in BOOLEAN :
        /\ FreeSlot(t)
        /\ NewThread(t, "kernel", g_current[0], PickedCpu, kspace, IF made THEN "READY" ELSE "UNUSED")
  BY Zenon DEF thread_create_kernel
<1>2. /\ boot' = "idle"
      /\ g_cpu_rr' = (g_cpu_rr + 1) % Cardinality(online)
      /\ UNCHANGED <<cpuVars, online, refs, leaked, ipi>>
  BY Zenon DEF thread_create_kernel
<1> DEFINE st == IF made THEN "READY" ELSE "UNUSED"
<1>3. PickedCpu \in CPUs /\ g_cpu_rr' \in CPUs
  BY <1>2, PickedCpuType, Zenon DEF IInv
<1>4. Creatable(t, "kernel", g_current[0], PickedCpu, kspace, st)
  BY <1>1, <1>3, Distinct, Zenon DEF Creatable, FreeSlot, First, IInv, TypeOK
<1>5. /\ BootNotAsleep' /\ UsersOnCpu0' /\ ZombieIsUser' /\ SpaceOfKind' /\ NoLostWakeup'
      /\ CurrentIsLive' /\ RunInv' /\ BlockedInWait' /\ IdleAlwaysRunnable' /\ StackInv' /\ LoadedInv'
  BY <1>1, <1>2, <1>4, NewThreadKeeps, NewThreadCpus, Zenon
<1>6. SpaceRefsExact'
  BY <1>1, <1>2, <1>4, KernelThreadSpaces, Zenon
<1>7. BootInv'
  BY <1>2, Zenon DEF IInv, BootInv, cpuVars
<1>8. TypeOK'
  BY <1>1, <1>2, <1>3, <1>4, NewThreadKeeps, Zenon DEF IInv, TypeOK, cpuVars
<1> QED
  BY <1>5, <1>6, <1>7, <1>8, Zenon DEF IInv

LEMMA RegisterIInv ==
  ASSUME IInv, NEW c \in CPUs, scheduler_register_cpu_bootstrap(c) PROVE IInv'
<1>1. PICK t \in Slots :
        /\ FreeSlot(t)
        /\ NewThread(t, "boot", None, c, kspace, "RUNNING")
        /\ g_current' = [g_current EXCEPT ![c] = t]
        /\ on_stack' = [on_stack EXCEPT ![c] = t]
  BY Zenon DEF scheduler_register_cpu_bootstrap
<1>2. /\ c \in online /\ g_current[c] = None
      /\ UNCHANGED <<hw_cr3, refs, leaked, bootVars, ipi>>
  BY Zenon DEF scheduler_register_cpu_bootstrap
<1>3. Creatable(t, "boot", None, c, kspace, "RUNNING")
  BY <1>1, Distinct, Zenon DEF Creatable, FreeSlot, First
<1>4. BootNotAsleep' /\ UsersOnCpu0' /\ ZombieIsUser' /\ SpaceOfKind' /\ NoLostWakeup'
  BY <1>1, <1>3, NewThreadKeeps, Zenon
<1>5. SpaceRefsExact'
  BY <1>1, <1>2, <1>3, KernelThreadSpaces, Zenon
<1>6. CurrentIsLive' /\ RunInv' /\ BlockedInWait' /\ StackInv' /\ BootInv'
  BY <1>1, <1>2, <1>3, Distinct, SMTT(30)
  DEF IInv, TypeOK, Creatable, NewThread, CurrentIsLive, RunInv, BlockedInWait, StackInv, BootInv, bootVars, is_user
<1>7. IdleAlwaysRunnable'
  BY <1>1, <1>2, <1>3, Distinct, SMTT(30) DEF IInv, TypeOK, Creatable, NewThread, IdleAlwaysRunnable
<1>8. LoadedInv'
  BY <1>1, <1>2, <1>3, Distinct, SMTT(30) DEF IInv, TypeOK, Creatable, NewThread, LoadedInv, CurrentIsLive
<1>9. TypeOK'
  BY <1>1, <1>2, <1>3, NewThreadKeeps, SMTT(30) DEF IInv, TypeOK, bootVars
<1> QED
  BY <1>4, <1>5, <1>6, <1>7, <1>8, <1>9, Zenon DEF IInv
==============================================================================
