------------------------------ MODULE SchedLock ------------------------------
(***************************************************************************)
(* The spin lock g_sched_lock and the interrupts that arrive around it.    *)
(*                                                                         *)
(* spinlock_lock does not turn interrupts off.  Most sections run with     *)
(* interrupts off all the same, because interrupt gates clear IF: those of *)
(* the system calls and of scheduler_on_tick (the kernel context of a CPU, *)
(* kctx).  The exception is the scheduler_sleep that klogger, a kernel     *)
(* thread, calls: it can be interrupted anywhere, inside the section too.  *)
(*                                                                         *)
(* What the sections do is the subject of Scheduler; here a section ends   *)
(* with any thread of the CPU current.                                     *)
(***************************************************************************)
EXTENDS Naturals

CONSTANTS
  CPUs,         \* the processors that have registered
  kloggerCpu    \* the one scheduler_pick_cpu gave klogger

VARIABLES
  locked,       \* g_sched_lock.locked
  kctx,         \* per CPU: "none" (a thread runs, IF set), "spin" (in spinlock_lock) or "section"
  cur,          \* per CPU: current thread, "klogger" or "other"
  klogger,      \* scheduler_sleep of klogger: "code", "spin", "section" or "int80"
  tick          \* CPUs with a timer or reschedule interrupt pending

vars == <<locked, kctx, cur, klogger, tick>>

Init ==
  /\ locked = FALSE
  /\ kctx = [c \in CPUs |-> "none"]
  /\ cur = [c \in CPUs |-> "other"]
  /\ klogger = "code"
  /\ tick = {}

\* The timer fires: its interrupt is pending on CPU 0.
timer ==
  /\ tick' = tick \cup {0}
  /\ UNCHANGED <<locked, kctx, cur, klogger>>

\* The interrupt gate clears IF; on CPU 0 pit_handle_irq0 passes the tick on to
\* the other CPUs; interrupt_dispatch enters scheduler_on_tick.
interrupt(c) ==
  /\ c \in tick /\ kctx[c] = "none"
  /\ tick' = (IF c = 0 THEN CPUs ELSE tick) \ {c}
  /\ kctx' = [kctx EXCEPT ![c] = "spin"]
  /\ UNCHANGED <<locked, cur, klogger>>

\* A user thread, they are all on CPU 0, makes a system call with a section.
syscall ==
  /\ kctx[0] = "none" /\ cur[0] = "other"
  /\ kctx' = [kctx EXCEPT ![0] = "spin"]
  /\ UNCHANGED <<locked, cur, klogger, tick>>

\* spinlock_lock in a handler or system call.
lock(c) ==
  /\ kctx[c] = "spin" /\ ~locked
  /\ locked' = TRUE
  /\ kctx' = [kctx EXCEPT ![c] = "section"]
  /\ UNCHANGED <<cur, klogger, tick>>

\* The end of the section, spinlock_unlock, and the return to a thread.
unlock(c) ==
  /\ kctx[c] = "section"
  /\ locked' = FALSE
  /\ kctx' = [kctx EXCEPT ![c] = "none"]
  /\ \E t \in {"other"} \cup (IF c = kloggerCpu THEN {"klogger"} ELSE {}) :
       cur' = [cur EXCEPT ![c] = t]
  /\ UNCHANGED <<klogger, tick>>

\* klogger executes: its CPU is not in a handler.
KloggerRuns == cur[kloggerCpu] = "klogger" /\ kctx[kloggerCpu] = "none"

scheduler_sleep ==
  /\ KloggerRuns /\ klogger = "code"
  /\ klogger' = "spin"
  /\ UNCHANGED <<locked, kctx, cur, tick>>

sleep_lock ==
  /\ KloggerRuns /\ klogger = "spin" /\ ~locked
  /\ locked' = TRUE
  /\ klogger' = "section"
  /\ UNCHANGED <<kctx, cur, tick>>

sleep_unlock ==
  /\ KloggerRuns /\ klogger = "section"
  /\ locked' = FALSE
  /\ klogger' = "int80"
  /\ UNCHANGED <<kctx, cur, tick>>

\* int 0x80, SYS_yield: klogger enters the kernel like any other thread.
sleep_int80 ==
  /\ KloggerRuns /\ klogger = "int80"
  /\ klogger' = "code"
  /\ kctx' = [kctx EXCEPT ![kloggerCpu] = "spin"]
  /\ UNCHANGED <<locked, cur, tick>>

Next ==
  \/ timer \/ syscall \/ scheduler_sleep \/ sleep_lock \/ sleep_unlock \/ sleep_int80
  \/ \E c \in CPUs : interrupt(c) \/ lock(c) \/ unlock(c)

\* Every CPU executes.  Strong fairness of the lock: a CPU that keeps trying
\* wins it in the end, so whoever waits forever waits for a section that does
\* not end.
FairSpec ==
  /\ Init /\ [][Next]_vars
  /\ \A c \in CPUs : SF_vars(lock(c)) /\ WF_vars(unlock(c))
  /\ SF_vars(sleep_lock) /\ WF_vars(sleep_unlock) /\ WF_vars(sleep_int80)

\* scheduler_on_tick: "Called from timer IRQ handler; returns frame to
\* resume."  A handler that has entered the kernel returns from it.
TickReturns == \A c \in CPUs : kctx[c] = "spin" ~> kctx[c] = "none"
=============================================================================
