----------------------------- MODULE Semaphore -----------------------------
(***************************************************************************)
(* The counting semaphores of kernel/inc/sync/semaphore.h,                 *)
(* semaphore-post.h and kernel/src/sync/semaphore.c.                       *)
(*                                                                         *)
(* try_semaphore_down_while_condition() is a macro around five functions;  *)
(* a thread holds sem->lock from semaphore_down_begin to                   *)
(* thread_sleep_prepare and releases it before sched_switch(), so each of  *)
(* these is a step of its own.  semaphore_up() runs with the lock held     *)
(* from beginning to end and is one step.                                  *)
(***************************************************************************)
EXTENDS Sched

CONSTANTS Sems,      \* the semaphores
          NoThread   \* "sem->lock is free"

ASSUME SemaphoreAssumption == NoThread \notin Threads

VARIABLES
    sem_lock,   \* sem->lock: the thread that holds it across steps
    sem_count,  \* sem->count
    waiters,    \* sem->waiters, first element first
    insem       \* thread->flags & THREAD_FLAG_INSEM

semVars == <<sem_lock, sem_count, waiters, insem>>

SemTypeOK ==
    /\ sem_lock \in [Sems -> Threads \cup {NoThread}]
    /\ sem_count \in [Sems -> Nat]
    /\ waiters \in [Sems -> Seq(Threads)]
    /\ insem \in [Threads -> BOOLEAN]

SemInit ==
    /\ sem_lock = [s \in Sems |-> NoThread]
    /\ sem_count = [s \in Sems |-> 0]
    /\ waiters = [s \in Sems |-> <<>>]
    /\ insem = [t \in Threads |-> FALSE]

SemLockFree(s) == sem_lock[s] = NoThread
-----------------------------------------------------------------------------
\* _semaphore_down_begin() on a semaphore with a positive count, followed by
\* _semaphore_down_end_obtained(): sem->lock is taken and released.
DownAtOnce(s) ==
    /\ SemLockFree(s)
    /\ sem_count[s] > 0
    /\ sem_count' = [sem_count EXCEPT ![s] = @ - 1]
    /\ UNCHANGED <<sem_lock, waiters, insem>>
    /\ UNCHANGED schedVars

\* _semaphore_down_begin() with _semaphore_waitlist_add(): the count is zero
\* and the function returns with sem->lock held.
DownEnqueue(t, s) ==
    /\ SemLockFree(s)
    /\ sem_count[s] = 0
    /\ sem_lock' = [sem_lock EXCEPT ![s] = t]
    /\ waiters' = [waiters EXCEPT ![s] = ListAdd(t, @)]
    /\ insem' = [insem EXCEPT ![t] = TRUE]
    /\ BugOn(insem[t])
    /\ UNCHANGED sem_count
    /\ UNCHANGED <<state, active, queued_threads, current, poll_threads,
                   suspended_threads, sched_lock>>

\* _semaphore_down_end_gaveup() with _semaphore_waitlist_rm().
DownGiveUp(t, s) ==
    /\ waiters' = [waiters EXCEPT ![s] = ListRm(t, @)]
    /\ insem' = [insem EXCEPT ![t] = FALSE]
    /\ BugOn(~insem[t])
    /\ sem_lock' = [sem_lock EXCEPT ![s] = NoThread]
    /\ UNCHANGED sem_count
    /\ UNCHANGED <<state, active, queued_threads, current, poll_threads,
                   suspended_threads, sched_lock>>

\* _semaphore_down_yield() up to its sched_switch(): prepare to sleep, then
\* release sem->lock.
DownPrepare(t, s) ==
    /\ thread_sleep_prepare(t, ~insem[t])
    /\ sem_lock' = [sem_lock EXCEPT ![s] = NoThread]
    /\ UNCHANGED <<sem_count, waiters, insem>>
    /\ UNCHANGED <<active, queued_threads, current, poll_threads,
                   suspended_threads, sched_lock>>

\* The rest of _semaphore_down_yield() when the thread is still on the
\* waiters list: the loop goes round with sem->lock held.
DownAgain(t, s) ==
    /\ SemLockFree(s)
    /\ insem[t]
    /\ sem_lock' = [sem_lock EXCEPT ![s] = t]
    /\ UNCHANGED <<sem_count, waiters, insem>>
    /\ UNCHANGED schedVars

\* Mutant: a woken thread does not take the count it was woken for.
DownObtainKeepsCount(t, s) ==
    /\ SemLockFree(s)
    /\ ~insem[t]
    /\ BugOn(sem_count[s] = 0)
    /\ UNCHANGED <<sem_lock, sem_count, waiters, insem>>
    /\ UNCHANGED <<state, active, queued_threads, current, poll_threads,
                   suspended_threads, sched_lock>>

\* The rest of _semaphore_down_yield() when semaphore_up() has taken the
\* thread off the list, and _semaphore_down_end_obtained().
DownObtain(t, s) ==
    /\ SemLockFree(s)
    /\ ~insem[t]
    /\ BugOn(sem_count[s] = 0)
    /\ sem_count' = [sem_count EXCEPT ![s] = IF @ = 0 THEN 0 ELSE @ - 1]
    /\ UNCHANGED <<sem_lock, waiters, insem>>
    /\ UNCHANGED <<state, active, queued_threads, current, poll_threads,
                   suspended_threads, sched_lock>>

\* Mutant: a waiter that has not been switched out yet is not woken.
semaphore_upInactive(s) ==
    /\ SemLockFree(s)
    /\ sem_count' = [sem_count EXCEPT ![s] = @ + 1]
    /\ UNCHANGED sem_lock
    /\ IF waiters[s] = <<>>
       THEN UNCHANGED <<waiters, insem, schedVars>>
       ELSE LET waiting == Head(waiters[s]) IN
            /\ SchedLockFree
            /\ waiters' = [waiters EXCEPT ![s] = Tail(@)]
            /\ insem' = [insem EXCEPT ![waiting] = FALSE]
            /\ IF active[waiting] THEN UNCHANGED <<state, queued_threads>>
                                  ELSE do_wake(waiting)
            /\ UNCHANGED <<active, current, poll_threads, suspended_threads,
                           sched_lock, panicked>>

\* semaphore_up(): count up; the first waiter leaves the list and is woken.
semaphore_up(s) ==
    /\ SemLockFree(s)
    /\ sem_count' = [sem_count EXCEPT ![s] = @ + 1]
    /\ UNCHANGED sem_lock
    /\ IF waiters[s] = <<>>
       THEN UNCHANGED <<waiters, insem, schedVars>>
       ELSE LET waiting == Head(waiters[s]) IN
            /\ SchedLockFree
            /\ waiters' = [waiters EXCEPT ![s] = Tail(@)]
            /\ insem' = [insem EXCEPT ![waiting] = FALSE]
            /\ BugOn(~insem[waiting])
            /\ do_wake(waiting)
            /\ UNCHANGED <<active, current, poll_threads, suspended_threads,
                           sched_lock>>
=============================================================================
