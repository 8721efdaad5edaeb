------------------------------- MODULE Sched -------------------------------
(***************************************************************************)
(* The scheduler core of kernel/src/sched/sched.c: the run queue           *)
(* `queued_threads`, the per-CPU `current` thread, the poll list of        *)
(* wait_for_condition() and the primitives that put a thread to sleep,     *)
(* wake it, retire it and switch to another one.                           *)
(*                                                                         *)
(* The definitions below are the bodies of the functions; module Kernel    *)
(* says which thread or interrupt handler may execute them and when.       *)
(* Every function that takes sched_lock for its whole body is one step.    *)
(* sched_interrupt_notify() loops with the lock held, so sched_lock is a   *)
(* variable and each iteration is a step.  Fields that the code writes     *)
(* under the thread's own lock only (thread_sleep_prepare, thread_die)     *)
(* change in steps that do not need sched_lock.                            *)
(*                                                                         *)
(* The idle thread of CPU c is represented by c itself.                    *)
(***************************************************************************)
EXTENDS KList

CONSTANTS Cpus,      \* the processors
          Threads,   \* the threads other than the idle threads
          InitThread,\* the thread of process 1
          NoCpu      \* "sched_lock is free"

ASSUME SchedAssumption ==
    /\ Cpus # {}
    /\ Cpus \cap Threads = {}
    /\ InitThread \in Threads
    /\ NoCpu \notin Cpus

VARIABLES
    state,              \* thread->state
    active,             \* thread->active, for the idle threads too
    queued_threads,     \* the run queue, first element first
    current,            \* per-CPU current
    poll_threads,       \* the threads to wake at the next interrupt
    suspended_threads,  \* how many threads the code believes are on poll_threads
    sched_lock,         \* the CPU that holds sched_lock across steps
    panicked            \* a BUG_ON or a panic() was reached

schedVars == <<state, active, queued_threads, current, poll_threads,
               suspended_threads, sched_lock, panicked>>

ThreadState == {"BUILDING", "AWAKE", "SLEEPING", "EXITED"}

SchedTypeOK ==
    /\ state \in [Threads -> ThreadState]
    /\ active \in [Threads \cup Cpus -> BOOLEAN]
    /\ queued_threads \in Seq(Threads)
    /\ current \in [Cpus -> Threads \cup Cpus]
    /\ poll_threads \in Seq(Threads)
    /\ suspended_threads \in Nat
    /\ sched_lock \in Cpus \cup {NoCpu}
    /\ panicked \in BOOLEAN

\* root_task_init() has queued the init thread; every CPU enters sched_loop()
\* with its idle thread as current and has not switched yet.
SchedInit ==
    /\ state = [t \in Threads |-> IF t = InitThread THEN "AWAKE" ELSE "BUILDING"]
    /\ active = [t \in Threads \cup Cpus |-> FALSE]
    /\ queued_threads = <<InitThread>>
    /\ current = [c \in Cpus |-> c]
    /\ poll_threads = <<>>
    /\ suspended_threads = 0
    /\ sched_lock = NoCpu
    /\ panicked = FALSE

SchedLockFree == sched_lock = NoCpu

BugOn(cond) == panicked' = (panicked \/ cond)
-----------------------------------------------------------------------------
\* Mutant: a thread that is still active is queued too.
do_wakeActiveToo(t) ==
    /\ state' = IF state[t] = "SLEEPING"
                THEN [state EXCEPT ![t] = "AWAKE"] ELSE state
    /\ queued_threads' = IF state[t] # "AWAKE"
                         THEN ListAdd(t, queued_threads) ELSE queued_threads

\* do_wake(): only a sleeping thread becomes awake; one that is still active
\* is queued by deactivate_thread() when its CPU gets round to switching.
do_wake(t) ==
    /\ state' = IF state[t] = "SLEEPING"
                THEN [state EXCEPT ![t] = "AWAKE"] ELSE state
    /\ queued_threads' = IF state[t] # "AWAKE" /\ ~active[t]
                         THEN ListAdd(t, queued_threads) ELSE queued_threads

thread_wake(t) ==
    /\ SchedLockFree
    /\ do_wake(t)
    /\ UNCHANGED <<active, current, poll_threads, suspended_threads, sched_lock,
                   panicked>>

thread_poke(t) ==
    /\ SchedLockFree
    /\ IF state[t] = "SLEEPING" THEN do_wake(t)
                                ELSE UNCHANGED <<state, queued_threads>>
    /\ UNCHANGED <<active, current, poll_threads, suspended_threads, sched_lock,
                   panicked>>

\* thread_schedule(): a thread just built pretends to be asleep and is woken.
thread_schedule(t) ==
    /\ SchedLockFree
    /\ state' = [state EXCEPT ![t] = "AWAKE"]
    /\ queued_threads' = IF ~active[t] THEN ListAdd(t, queued_threads)
                                       ELSE queued_threads
    /\ UNCHANGED <<active, current, poll_threads, suspended_threads, sched_lock,
                   panicked>>

\* thread_sleep_prepare(), under the thread's own lock only; `bug` is an
\* assertion of the caller that fails in the same step.
thread_sleep_prepare(t, bug) ==
    /\ BugOn(bug \/ ~active[t] \/ state[t] # "AWAKE")
    /\ state' = [state EXCEPT ![t] = "SLEEPING"]

\* thread_die() up to its sched_switch(), under the thread's own lock only.
thread_die(t) ==
    /\ state' = [state EXCEPT ![t] = "EXITED"]
    /\ UNCHANGED <<active, queued_threads, current, poll_threads,
                   suspended_threads, sched_lock, panicked>>
-----------------------------------------------------------------------------
\* Mutant: every thread is put back, the sleeping and the exited ones too.
RequeuedAlways(old) ==
    IF old \in Threads THEN ListAdd(old, queued_threads) ELSE queued_threads

\* Mutant: a preempted thread is not put back.
RequeuedNever(old) == queued_threads

\* deactivate_thread(): the run queue once `old` has been put back on it.
Requeued(old) ==
    IF old \in Threads /\ state[old] = "AWAKE"
    THEN ListAdd(old, queued_threads) ELSE queued_threads

\* The assertions of deactivate_thread(), and the panic of task_node_zombify()
\* when init exits.
DeactivateBug(old) ==
    /\ old \in Threads
    /\ \/ state[old] = "AWAKE" /\ ~active[old]
       \/ state[old] = "BUILDING"
       \/ state[old] = "EXITED" /\ old = InitThread

\* lock_next_current(): the first queued thread, else the CPU's idle thread.
NextCurrent(c, queue) == IF queue = <<>> THEN c ELSE Head(queue)

\* do_sched_switch() with deactivate_thread(), lock_next_current() and
\* finish_sched_switch(): sched_lock is held throughout.
do_sched_switch(c) ==
    LET old  == current[c]
        q    == Requeued(old)
        next == NextCurrent(c, q)
    IN  /\ SchedLockFree
        /\ queued_threads' = IF q = <<>> THEN q ELSE Tail(q)
        /\ current' = [current EXCEPT ![c] = next]
        /\ active' = [active EXCEPT ![old] = FALSE, ![next] = TRUE]
        /\ BugOn(\/ DeactivateBug(old)
                 \/ next \in Threads /\ state[next] # "AWAKE"
                 \/ old # next /\ active[next])
        /\ UNCHANGED <<state, poll_threads, suspended_threads, sched_lock>>
-----------------------------------------------------------------------------
\* sched_suspend_pending_interrupt() up to its sched_switch().  Adding a node
\* that is on the list already closes a cycle that sched_interrupt_notify()
\* never leaves: that is counted as a panic.
sched_suspend_pending_interrupt(t) ==
    /\ SchedLockFree
    /\ poll_threads' = ListAdd(t, poll_threads)
    /\ suspended_threads' = suspended_threads + 1
    /\ thread_sleep_prepare(t, OnList(t, poll_threads))
    /\ UNCHANGED <<active, queued_threads, current, sched_lock>>

\* sched_interrupt_notify(): take the lock, wake the listed threads one by
\* one, check the counter, reinitialise the list and release the lock.
NotifyLock(c) ==
    /\ SchedLockFree
    /\ sched_lock' = c
    /\ UNCHANGED <<state, active, queued_threads, current, poll_threads,
                   suspended_threads, panicked>>

\* Mutant: the woken thread is still counted as suspended.
NotifyWakeUncounted(c) ==
    /\ sched_lock = c
    /\ poll_threads # <<>>
    /\ do_wake(Head(poll_threads))
    /\ poll_threads' = Tail(poll_threads)
    /\ UNCHANGED <<active, current, suspended_threads, sched_lock, panicked>>

\* Mutant: a thread that has not been switched out yet is dropped, not woken.
NotifyWakeInactive(c) ==
    /\ sched_lock = c
    /\ poll_threads # <<>>
    /\ suspended_threads' = suspended_threads - 1
    /\ IF active[Head(poll_threads)] THEN UNCHANGED <<state, queued_threads>>
                                     ELSE do_wake(Head(poll_threads))
    /\ poll_threads' = Tail(poll_threads)
    /\ UNCHANGED <<active, current, sched_lock, panicked>>

NotifyWake(c) ==
    /\ sched_lock = c
    /\ poll_threads # <<>>
    /\ suspended_threads' = suspended_threads - 1
    /\ do_wake(Head(poll_threads))
    /\ poll_threads' = Tail(poll_threads)
    /\ UNCHANGED <<active, current, sched_lock, panicked>>

NotifyUnlock(c) ==
    /\ sched_lock = c
    /\ poll_threads = <<>>
    /\ BugOn(suspended_threads # 0)
    /\ sched_lock' = NoCpu
    /\ UNCHANGED <<state, active, queued_threads, current, poll_threads,
                   suspended_threads>>
=============================================================================
