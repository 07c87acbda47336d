---------------------------- MODULE SchedulerSteps ---------------------------
(***************************************************************************)
(* The inductive invariant is kept by the steps that switch no threads:    *)
(* reaping, blocking, sleeping, execve and the booting of the processors.  *)
(***************************************************************************)
EXTENDS SchedulerSwitch

(***************************************************************************)
(* Reaping, waiting, sleeping                                              *)
(***************************************************************************)

\* waitpid frees the kernel stack and the space reference of the child.
LEMMA ReapIInv ==
  ASSUME IInv, NEW c \in CPUs, waitpid_reap(c) PROVE IInv'
<1>1. PICK p \in Slots, z \in Slots, pid \in 0 .. MaxId :
        /\ RunsUser(c, p) /\ First(z, ZombieChildren(p, pid))
        /\ state' = [state EXCEPT ![z] = "UNUSED"]
        /\ refs' = IF is_user(z) THEN Release(refs, cr3[z]) ELSE refs
        /\ cr3' = IF is_user(z) THEN [cr3 EXCEPT ![z] = NoCr3] ELSE cr3
        /\ UNCHANGED <<threadVars, waitVars, sleep_left, leaked, pc, cpuVars, bootVars, ipi>>
  BY Zenon DEF waitpid_reap
<1>2. state[z] = "ZOMBIE" /\ is_user(z) /\ cpu_id[z] = 0 /\ cr3[z] \in Spaces
  BY <1>1, Zenon DEF First, ZombieChildren, IInv, ZombieIsUser, UsersOnCpu0, SpaceOfKind
<1>3. z \in Holders(cr3[z]) /\ refs[cr3[z]] > 0
  BY <1>2, HeldHasRefs, Zenon DEF IInv, Holders
<1>4. refs' = [refs EXCEPT ![cr3[z]] = @ - 1] /\ cr3' = [cr3 EXCEPT ![z] = NoCr3]
  BY <1>1, <1>2, <1>3, Zenon DEF Release
\* The reaper runs on CPU 0, on its own stack; z is a user thread, so no
\* other CPU is on its stack.
<1>5. \A d \in CPUs : g_current[d] # z /\ on_stack[d] # z
  BY <1>1, <1>2, Distinct DEF IInv, TypeOK, CurrentIsLive, UsersOnCpu0, StackInv, RunsUser, Runs
<1>6. BootNotAsleep' /\ UsersOnCpu0' /\ ZombieIsUser' /\ SpaceOfKind' /\ BootInv'
  BY <1>1, <1>2, <1>4
  DEF IInv, TypeOK, BootNotAsleep, UsersOnCpu0, ZombieIsUser, SpaceOfKind, BootInv, is_user, threadVars, cpuVars, bootVars
<1>7. CurrentIsLive' /\ RunInv' /\ BlockedInWait' /\ StackInv' /\ LoadedInv'
  BY <1>1, <1>4, <1>5
  DEF IInv, TypeOK, CurrentIsLive, RunInv, BlockedInWait, StackInv, LoadedInv, threadVars, cpuVars
<1>8. IdleAlwaysRunnable'
  BY <1>1, <1>2 DEF IInv, TypeOK, IdleAlwaysRunnable, threadVars, cpuVars, is_user
<1>9. NoLostWakeup'
  BY <1>1, <1>2 DEF IInv, TypeOK, NoLostWakeup, Matches, threadVars, waitVars
<1>10. SpaceRefsExact'
  <2> SUFFICES ASSUME NEW s \in Spaces
               PROVE  refs'[s] = Cardinality(Holders(s))' + (IF s \in leaked THEN 1 ELSE 0)
    BY <1>1, Zenon DEF SpaceRefsExact
  <2>1. IsFiniteSet(Holders(s)) /\ Cardinality(Holders(s)) \in Nat
    BY HoldersFinite, Zenon
  <2>2. refs[s] = Cardinality(Holders(s)) + (IF s \in leaked THEN 1 ELSE 0)
    BY Zenon DEF IInv, SpaceRefsExact
  <2>3. CASE s = cr3[z]
    <3>1. Holders(s)' = Holders(s) \ {z}
      BY <1>1, <1>4, <2>3, Distinct, Zenon DEF Holders, IInv, TypeOK, is_user, threadVars
    <3>2. z \in Holders(s)
      BY <1>3, <2>3, Zenon
    <3>3. Cardinality(Holders(s))' = Cardinality(Holders(s)) - 1
      BY <2>1, <3>1, <3>2, FS_RemoveElement, Zenon
    <3> QED
      BY <1>4, <2>1, <2>2, <2>3, <3>3 DEF IInv, TypeOK
  <2>4. CASE s # cr3[z]
    <3>1. Holders(s)' = Holders(s)
      BY <1>1, <1>4, <2>4, Distinct, Zenon DEF Holders, IInv, TypeOK, is_user, threadVars
    <3> QED
      BY <1>4, <2>2, <2>4, <3>1, Zenon DEF IInv, TypeOK
  <2> QED
    BY <2>3, <2>4, Zenon
<1>11. TypeOK'
  BY <1>1, <1>2, <1>3, <1>4 DEF IInv, TypeOK, threadVars, waitVars, cpuVars, bootVars
<1> QED
  BY <1>6, <1>7, <1>8, <1>9, <1>10, <1>11, Zenon DEF IInv

\* A current thread t that is no bootstrap thread stops being RUNNING: it
\* sleeps, or blocks for a living child.
LEMMA StopRunning ==
  ASSUME IInv, NEW c \in CPUs, NEW t \in Slots, Runs(c, t), kind[t] # "boot",
         NEW x \in {"SLEEPING", "BLOCKED"}, state' = [state EXCEPT ![t] = x],
         sleep_left' \in [Slots -> Nat], pc' \in [Slots -> {"code", "sleep", "wait"}],
         wait_target' \in [Slots -> Nat], wait_ptr' \in [Slots -> BOOLEAN],
         \A u \in Slots : u # t => wait_target'[u] = wait_target[u],
         \A u \in Slots : u # t => pc'[u] = pc[u],
         x = "BLOCKED" => pc'[t] = "wait",
         x = "BLOCKED" => \E u \in Slots : Matches(t, u, wait_target'[t]) /\ state[u] # "ZOMBIE",
         UNCHANGED <<threadVars, spaceVars, cpuVars, bootVars, ipi>>
  PROVE  IInv'
<1> USE DEF threadVars, spaceVars, cpuVars, bootVars
<1>1. g_current[c] = t /\ state[t] \notin {"UNUSED", "ZOMBIE"}
  BY Zenon DEF IInv, CurrentIsLive, Runs
<1>2. /\ BootNotAsleep' /\ UsersOnCpu0' /\ ZombieIsUser' /\ SpaceOfKind' /\ BootInv'
  BY <1>1
  DEF IInv, TypeOK, BootNotAsleep, UsersOnCpu0, ZombieIsUser, SpaceOfKind, BootInv, is_user
<1>3. CurrentIsLive' /\ RunInv' /\ BlockedInWait' /\ StackInv' /\ LoadedInv'
  BY <1>1 DEF IInv, TypeOK, CurrentIsLive, RunInv, BlockedInWait, StackInv, LoadedInv
<1>4. IdleAlwaysRunnable'
  BY DEF IInv, TypeOK, IdleAlwaysRunnable
<1>5. NoLostWakeup'
  <2> SUFFICES ASSUME NEW p \in Slots, state'[p] = "BLOCKED"
               PROVE  \E u \in Slots : Matches(p, u, wait_target[p])' /\ state'[u] # "ZOMBIE"
    BY Zenon DEF NoLostWakeup
  <2>1. \E u \in Slots : Matches(p, u, wait_target'[p]) /\ state[u] # "ZOMBIE"
    BY DEF IInv, TypeOK, NoLostWakeup
  <2> QED
    BY <2>1 DEF Matches, IInv, TypeOK
<1>6. SpaceRefsExact'
  <2>1. ASSUME NEW s \in Spaces PROVE Holders(s)' = Holders(s)
    BY <1>1, Zenon DEF Holders, is_user, IInv, TypeOK
  <2> QED
    BY <2>1, Zenon DEF IInv, SpaceRefsExact
<1>7. TypeOK'
  BY Zenon DEF IInv, TypeOK
<1> QED
  BY <1>2, <1>3, <1>4, <1>5, <1>6, <1>7, Zenon DEF IInv

LEMMA StopIInv ==
  ASSUME IInv, NEW c \in CPUs, waitpid_block(c) \/ user_sleep(c) \/ kernel_sleep(c)
  PROVE  IInv'
<1>1. CASE waitpid_block(c)
  <2>1. PICK p \in Slots, pid \in 0 .. MaxId, ptr \in BOOLEAN :
          /\ RunsUser(c, p)
          /\ ZombieChildren(p, pid) = {}
          /\ \E t \in Slots : Matches(p, t, pid)
          /\ wait_target' = [wait_target EXCEPT ![p] = pid]
          /\ wait_ptr' = [wait_ptr EXCEPT ![p] = ptr]
          /\ state' = [state EXCEPT ![p] = "BLOCKED"]
          /\ pc' = [pc EXCEPT ![p] = "wait"]
          /\ UNCHANGED <<threadVars, sleep_left, spaceVars, cpuVars, bootVars, ipi>>
    BY <1>1, Zenon DEF waitpid_block
  <2>2. pid \in Nat
    BY SchedulerAssumption
  <2>3. /\ wait_target' \in [Slots -> Nat]
        /\ \A u \in Slots : u # p => wait_target'[u] = wait_target[u]
        /\ wait_target'[p] = pid
        /\ pc' \in [Slots -> {"code", "sleep", "wait"}] /\ sleep_left' \in [Slots -> Nat]
        /\ pc'[p] = "wait" /\ \A u \in Slots : u # p => pc'[u] = pc[u]
    BY <2>1, <2>2, Zenon DEF IInv, TypeOK
  <2>4. wait_ptr' \in [Slots -> BOOLEAN]
    <3>1. wait_ptr \in [Slots -> BOOLEAN]
      BY Zenon DEF IInv, TypeOK
    <3> QED
      BY <2>1, <3>1, Zenon
  <2>5. \E u \in Slots : Matches(p, u, wait_target'[p]) /\ state[u] # "ZOMBIE"
    BY <2>1, <2>3, Zenon DEF ZombieChildren
  <2>6. /\ Runs(c, p) /\ kind[p] # "boot"
        /\ state' = [state EXCEPT ![p] = "BLOCKED"]
        /\ UNCHANGED <<threadVars, spaceVars, cpuVars, bootVars, ipi>>
    BY <2>1, Zenon DEF RunsUser, is_user
  <2> HIDE <2>1
  <2> QED
    BY <2>3, <2>4, <2>5, <2>6, StopRunning, Zenon
<1>2. CASE user_sleep(c)
  <2>1. PICK t \in Slots, n \in 0 .. MaxSleep :
          /\ RunsUser(c, t)
          /\ state' = [state EXCEPT ![t] = "SLEEPING"]
          /\ sleep_left' = [sleep_left EXCEPT ![t] = n]
          /\ UNCHANGED <<threadVars, waitVars, spaceVars, pc, cpuVars, bootVars, ipi>>
    BY <1>2, Zenon DEF user_sleep
  <2>2. Runs(c, t) /\ kind[t] # "boot" /\ n \in Nat
    BY <2>1, SchedulerAssumption DEF RunsUser, is_user
  <2>3. /\ sleep_left' \in [Slots -> Nat]
        /\ pc' \in [Slots -> {"code", "sleep", "wait"}] /\ pc' = pc
    BY <2>1, <2>2, Zenon DEF IInv, TypeOK
  <2>4. wait_target' = wait_target /\ wait_ptr' = wait_ptr
        /\ wait_target \in [Slots -> Nat] /\ wait_ptr \in [Slots -> BOOLEAN]
    BY <2>1, Zenon DEF IInv, TypeOK, waitVars
  <2> QED
    BY <2>1, <2>2, <2>3, <2>4, StopRunning, Zenon
<1>3. CASE kernel_sleep(c)
  <2>1. PICK t \in Slots :
          /\ Runs(c, t) /\ kind[t] = "kernel"
          /\ state' = [state EXCEPT ![t] = "SLEEPING"]
          /\ sleep_left' = [sleep_left EXCEPT ![t] = MaxSleep]
          /\ pc' = [pc EXCEPT ![t] = "sleep"]
          /\ UNCHANGED <<threadVars, waitVars, spaceVars, cpuVars, bootVars, ipi>>
    BY <1>3, Zenon DEF kernel_sleep
  <2>2. /\ sleep_left' \in [Slots -> Nat] /\ pc' \in [Slots -> {"code", "sleep", "wait"}]
        /\ \A u \in Slots : u # t => pc'[u] = pc[u]
    BY <2>1, SchedulerAssumption, Zenon DEF IInv, TypeOK
  <2>3. wait_target' = wait_target /\ wait_ptr' = wait_ptr
        /\ wait_target \in [Slots -> Nat] /\ wait_ptr \in [Slots -> BOOLEAN]
    BY <2>1, Zenon DEF IInv, TypeOK, waitVars
  <2>4. kind[t] # "boot"
    BY <2>1, Zenon
  <2> QED
    BY <2>1, <2>2, <2>3, <2>4, StopRunning, Zenon
<1> QED
  BY <1>1, <1>2, <1>3, Zenon

\* What a step that touches neither threads' states nor CPUs' threads keeps.
LEMMA ThreadsUnchanged ==
  ASSUME IInv, UNCHANGED <<state, kind, cpu_id, pc, g_current>>
  PROVE  CurrentIsLive' /\ RunInv' /\ BlockedInWait' /\ IdleAlwaysRunnable' /\ BootNotAsleep'
<1>1. CurrentIsLive /\ RunInv /\ BlockedInWait /\ IdleAlwaysRunnable /\ BootNotAsleep
  BY Zenon DEF IInv
<1>2. CurrentIsLive'
  BY <1>1, Zenon DEF CurrentIsLive
<1>3. RunInv'
  BY <1>1, Zenon DEF RunInv
<1>4. BlockedInWait'
  BY <1>1, Zenon DEF BlockedInWait
<1>5. IdleAlwaysRunnable'
  BY <1>1 DEF IdleAlwaysRunnable
<1>6. BootNotAsleep'
  BY <1>1, Zenon DEF BootNotAsleep
<1> QED
  BY <1>2, <1>3, <1>4, <1>5, <1>6, Zenon

(***************************************************************************)
(* Spaces and processors                                                   *)
(***************************************************************************)

LEMMA ExecveIInv ==
  ASSUME IInv, NEW c \in CPUs, execve(c) PROVE IInv'
<1>1. PICK t \in Slots, s \in Spaces :
        /\ RunsUser(c, t) /\ FreeSpace(s)
        /\ cr3' = [cr3 EXCEPT ![t] = s]
        /\ hw_cr3' = [hw_cr3 EXCEPT ![c] = s]
        /\ refs' = Release([refs EXCEPT ![s] = 1], cr3[t])
        /\ UNCHANGED <<state, threadVars, waitVars, sleep_left, leaked, pc, g_current, on_stack, bootVars, ipi>>
  BY Zenon DEF execve
<1> DEFINE old == cr3[t]
<1>2. g_current[c] = t /\ t # None /\ is_user(t) /\ state[t] # "UNUSED" /\ old \in Spaces
  BY <1>1, Zenon DEF IInv, CurrentIsLive, SpaceOfKind, RunsUser, Runs
<1>3. t \in Holders(old) /\ refs[old] > 0
  BY <1>2, HeldHasRefs, Zenon DEF IInv, Holders
<1>4. refs[s] = 0 /\ Holders(s) = {} /\ s \notin leaked /\ s # old
  BY <1>1, <1>3, HeldHasRefs, Zenon DEF FreeSpace, First, IInv
<1>5. /\ refs' \in [Spaces -> Nat] /\ refs'[s] = 1 /\ refs'[old] = refs[old] - 1
      /\ \A u \in Spaces : u # s /\ u # old => refs'[u] = refs[u]
  <2>1. refs \in [Spaces -> Nat]
    BY Zenon DEF IInv, TypeOK
  <2>2. [refs EXCEPT ![s] = 1][old] = refs[old]
    BY <1>2, <1>4, <2>1, Zenon
  <2>3. refs' = [[refs EXCEPT ![s] = 1] EXCEPT ![old] = @ - 1]
    BY <1>1, <1>2, <1>3, <2>2, Zenon DEF Release
  <2> QED
    BY <1>2, <1>3, <1>4, <2>1, <2>3
<1>6. UsersOnCpu0' /\ ZombieIsUser' /\ SpaceOfKind' /\ BootInv'
  BY <1>1, <1>2, Zenon
  DEF IInv, TypeOK, UsersOnCpu0, ZombieIsUser, SpaceOfKind, BootInv, is_user, threadVars, bootVars
<1>7. /\ CurrentIsLive' /\ RunInv' /\ BlockedInWait' /\ IdleAlwaysRunnable' /\ BootNotAsleep'
      /\ StackInv' /\ NoLostWakeup'
  <2>1. CurrentIsLive' /\ RunInv' /\ BlockedInWait' /\ IdleAlwaysRunnable' /\ BootNotAsleep'
    BY <1>1, ThreadsUnchanged, Zenon DEF threadVars
  <2>2. StackInv'
    BY <1>1, Zenon DEF IInv, StackInv, threadVars
  <2>3. NoLostWakeup'
    BY <1>1, Zenon DEF IInv, NoLostWakeup, Matches, threadVars, waitVars
  <2> QED
    BY <2>1, <2>2, <2>3, Zenon
<1>8. LoadedInv'
  BY <1>1, <1>2 DEF IInv, TypeOK, LoadedInv, CurrentIsLive
<1>9. SpaceRefsExact'
  <2> SUFFICES ASSUME NEW u \in Spaces
               PROVE  refs'[u] = Cardinality(Holders(u))' + (IF u \in leaked THEN 1 ELSE 0)
    BY <1>1, Zenon DEF SpaceRefsExact
  <2>1. IsFiniteSet(Holders(u)) /\ Cardinality(Holders(u)) \in Nat
    BY HoldersFinite, Zenon
  <2>2. refs[u] = Cardinality(Holders(u)) + (IF u \in leaked THEN 1 ELSE 0)
    BY Zenon DEF IInv, SpaceRefsExact
  <2>3. CASE u = old
    <3>1. Holders(u)' = Holders(u) \ {t}
      BY <1>1, <1>4, <2>3, Zenon DEF Holders, IInv, TypeOK, is_user, threadVars
    <3>2. t \in Holders(u)
      BY <1>3, <2>3, Zenon
    <3>3. Cardinality(Holders(u))' = Cardinality(Holders(u)) - 1
      BY <2>1, <3>1, <3>2, FS_RemoveElement, Zenon
    <3>4. refs'[u] = refs[u] - 1
      BY <1>5, <2>3, Zenon
    <3> QED
      BY <2>1, <2>2, <3>3, <3>4, SMTT(30)
  <2>4. CASE u = s
    <3>1. Holders(u)' = Holders(u) \cup {t} /\ t \notin Holders(u)
      BY <1>1, <1>2, <1>4, <2>4 DEF Holders, IInv, TypeOK, is_user, threadVars
    <3>2. Cardinality(Holders(u))' = Cardinality(Holders(u)) + 1
      BY <2>1, <3>1, FS_AddElement, Zenon
    <3>3. refs'[u] = 1 /\ refs[u] = 0 /\ u \notin leaked
      BY <1>4, <1>5, <2>4, Zenon
    <3>4. Cardinality(Holders(u)) = 0
      BY <2>1, <2>2, <3>3, SMTT(30)
    <3> QED
      BY <3>2, <3>3, <3>4, SMTT(30)
  <2>5. CASE u # old /\ u # s
    <3>1. Holders(u)' = Holders(u)
      BY <1>1, <2>5, Zenon DEF Holders, IInv, TypeOK, is_user, threadVars
    <3> QED
      BY <1>5, <2>2, <2>5, <3>1, Zenon
  <2> QED
    BY <2>3, <2>4, <2>5, Zenon
<1>10. TypeOK'
  BY <1>1, <1>5, Zenon DEF IInv, TypeOK, threadVars, waitVars, bootVars
<1> QED
  BY <1>6, <1>7, <1>8, <1>9, <1>10, Zenon DEF IInv

LEMMA InitLoadFailedIInv ==
  ASSUME IInv, init_load_failed PROVE IInv'
<1>1. /\ boot' = "create_klogger"
      /\ UNCHANGED <<state, threadVars, waitVars, sleep_left, cr3, pc, cpuVars, g_cpu_rr, online, ipi>>
  BY Zenon DEF init_load_failed
<1>2. UsersOnCpu0' /\ ZombieIsUser' /\ SpaceOfKind' /\ BootInv'
  BY <1>1, Zenon
  DEF IInv, UsersOnCpu0, ZombieIsUser, SpaceOfKind, BootInv, is_user, threadVars, cpuVars
<1>3. /\ CurrentIsLive' /\ RunInv' /\ BlockedInWait' /\ IdleAlwaysRunnable' /\ BootNotAsleep'
      /\ StackInv' /\ LoadedInv' /\ NoLostWakeup'
  <2>1. CurrentIsLive' /\ RunInv' /\ BlockedInWait' /\ IdleAlwaysRunnable' /\ BootNotAsleep'
    BY <1>1, ThreadsUnchanged, Zenon DEF threadVars, cpuVars
  <2>2. StackInv' /\ LoadedInv'
    BY <1>1, Zenon DEF IInv, StackInv, LoadedInv, threadVars, cpuVars
  <2>3. NoLostWakeup'
    BY <1>1, Zenon DEF IInv, NoLostWakeup, Matches, threadVars, waitVars
  <2> QED
    BY <2>1, <2>2, <2>3, Zenon
<1>4. SpaceRefsExact' /\ refs' \in [Spaces -> Nat] /\ leaked' \in SUBSET Spaces
  <2>1. ASSUME NEW u \in Spaces PROVE Holders(u)' = Holders(u) /\ Cardinality(Holders(u)) \in Nat
    BY <1>1, HoldersFinite, Zenon DEF Holders, is_user, threadVars
  <2>2. CASE UNCHANGED <<refs, leaked>>
    BY <2>1, <2>2, Zenon DEF IInv, TypeOK, SpaceRefsExact
  <2>3. ASSUME NEW s \in Spaces, FreeSpace(s),
               refs' = [refs EXCEPT ![s] = 1], leaked' = leaked \cup {s}
        PROVE  SpaceRefsExact' /\ refs' \in [Spaces -> Nat] /\ leaked' \in SUBSET Spaces
    <3>1. Holders(s) = {} /\ s \notin leaked
      BY <2>3, HeldHasRefs, Zenon DEF IInv, FreeSpace, First
    <3>2. Cardinality(Holders(s)) = 0
      BY <3>1, FS_EmptySet, Zenon
    <3> QED
      <4>1. refs \in [Spaces -> Nat] /\ leaked \in SUBSET Spaces
        BY Zenon DEF IInv, TypeOK
      <4>2. \A u \in Spaces : refs[u] = Cardinality(Holders(u)) + (IF u \in leaked THEN 1 ELSE 0)
        BY Zenon DEF IInv, SpaceRefsExact
      <4>3. ASSUME NEW u \in Spaces
            PROVE  refs'[u] = Cardinality(Holders(u)) + (IF u \in leaked' THEN 1 ELSE 0)
        <5>1. CASE u = s
          BY <2>3, <3>2, <4>1, <5>1
        <5>2. CASE u # s
          BY <2>3, <4>1, <4>2, <5>2, Zenon
        <5> QED
          BY <5>1, <5>2, Zenon
      <4> QED
        BY <2>1, <2>3, <4>1, <4>3, Zenon DEF SpaceRefsExact
  <2> QED
    BY <2>2, <2>3, Zenon DEF init_load_failed
<1>5. TypeOK'
  BY <1>1, <1>4, Zenon DEF IInv, TypeOK, threadVars, waitVars, cpuVars
<1> QED
  BY <1>2, <1>3, <1>4, <1>5, Zenon DEF IInv

LEMMA OnlineIInv ==
  ASSUME IInv, NEW c \in CPUs, cpu_set_online(c) PROVE IInv'
<1> USE DEF threadVars, waitVars, spaceVars, cpuVars
<1>1. /\ online' = online \cup {c}
      /\ UNCHANGED <<state, threadVars, waitVars, sleep_left, spaceVars, pc, cpuVars, g_cpu_rr, boot, ipi>>
  BY Zenon DEF cpu_set_online
<1>2. TypeOK'
  BY <1>1, Zenon DEF IInv, TypeOK
<1>3. BootInv'
  BY <1>1, Zenon DEF IInv, BootInv, is_user
<1>4. StackInv' /\ LoadedInv'
  BY <1>1, Zenon DEF IInv, StackInv, LoadedInv
<1>5. CurrentIsLive' /\ RunInv' /\ BlockedInWait' /\ IdleAlwaysRunnable' /\ BootNotAsleep'
  BY <1>1, ThreadsUnchanged, Zenon
<1>6. UsersOnCpu0' /\ ZombieIsUser' /\ SpaceOfKind' /\ NoLostWakeup' /\ SpaceRefsExact'
  BY <1>1, QuietKeeps, Zenon DEF SameDeadAndBlocked
<1> QED
  BY <1>2, <1>3, <1>4, <1>5, <1>6, Zenon DEF IInv

LEMMA ReturnIInv ==
  ASSUME IInv, NEW c \in CPUs, return_from_interrupt(c) PROVE IInv'
<1> USE DEF threadVars, waitVars, spaceVars, bootVars
<1>1. /\ g_current[c] # None /\ on_stack' = [on_stack EXCEPT ![c] = g_current[c]]
      /\ UNCHANGED <<state, threadVars, waitVars, sleep_left, spaceVars, pc, g_current, hw_cr3, bootVars, ipi>>
  BY Zenon DEF return_from_interrupt
<1>2. TypeOK'
  BY <1>1, Zenon DEF IInv, TypeOK
<1>3. BootInv'
  BY <1>1, Zenon DEF IInv, TypeOK, BootInv, is_user
<1>4. StackInv' /\ LoadedInv'
  <2>1. StackInv /\ LoadedInv /\ CurrentIsLive /\ on_stack \in [CPUs -> Slots \cup {None}]
    BY Zenon DEF IInv, TypeOK
  <2>2. StackInv'
    BY <1>1, <2>1, Zenon DEF StackInv, CurrentIsLive
  <2>3. LoadedInv'
    BY <1>1, <2>1, Zenon DEF LoadedInv
  <2> QED
    BY <2>2, <2>3, Zenon
<1>5. CurrentIsLive' /\ RunInv' /\ BlockedInWait' /\ IdleAlwaysRunnable' /\ BootNotAsleep'
  BY <1>1, ThreadsUnchanged, Zenon
<1>6. UsersOnCpu0' /\ ZombieIsUser' /\ SpaceOfKind' /\ NoLostWakeup' /\ SpaceRefsExact'
  BY <1>1, QuietKeeps, Zenon DEF SameDeadAndBlocked
<1> QED
  BY <1>2, <1>3, <1>4, <1>5, <1>6, Zenon DEF IInv

LEMMA StutterIInv ==
  ASSUME IInv, UNCHANGED vars PROVE IInv'
<1> USE DEF vars, threadVars, waitVars, spaceVars, cpuVars, bootVars
<1>1. TypeOK'
  BY Zenon DEF IInv, TypeOK
<1>2. BootInv'
  BY Zenon DEF IInv, BootInv, is_user
<1>3. StackInv' /\ LoadedInv'
  BY Zenon DEF IInv, StackInv, LoadedInv
<1>4. CurrentIsLive' /\ RunInv' /\ BlockedInWait' /\ IdleAlwaysRunnable' /\ BootNotAsleep'
  BY ThreadsUnchanged, Zenon
<1>5. UsersOnCpu0' /\ ZombieIsUser' /\ SpaceOfKind' /\ NoLostWakeup' /\ SpaceRefsExact'
  BY QuietKeeps, Zenon DEF SameDeadAndBlocked
<1> QED
  BY <1>1, <1>2, <1>3, <1>4, <1>5, Zenon DEF IInv
==============================================================================
