----------------------------- MODULE KernelInv -----------------------------
(***************************************************************************)
(* The inductive invariant of module Kernel: what it takes to prove that   *)
(* no assertion of the scheduler and of the semaphores fails and that no   *)
(* thread is forgotten or sleeps without a waker.                          *)
(***************************************************************************)
EXTENDS Kernel

\* Where a thread can be while its state is SLEEPING.
Asleep(t) ==
    \/ pc[t] \in {"yield", "relock"} /\ insem[t]
    \/ pc[t] \in {"pyield", "poll"} /\ OnList(t, poll_threads)
    \/ pc[t] = "arm" /\ active[t]
    \/ pc[t] \in {"tyield", "tret"} /\ t \in sleep_timers

\* current and active agree; only CPU c runs the idle thread c.
CurrentInv ==
    /\ \A c, d \in Cpus : current[c] = current[d] => c = d
    /\ \A c, d \in Cpus : current[c] = d => c = d
    /\ \A t \in Threads : active[t] <=> \E c \in Cpus : current[c] = t
    /\ \A c \in Cpus : active[c] => current[c] = c

QueueInv ==
    /\ NoDuplicates(queued_threads)
    /\ \A t \in Threads :
          OnList(t, queued_threads) <=> state[t] = "AWAKE" /\ ~active[t]

\* A sleeping thread has a waker; one that still runs is about to switch; an
\* exited one only waits to be switched out; an unbuilt one does nothing.
StateInv ==
    \A t \in Threads :
        /\ state[t] = "SLEEPING" => Asleep(t)
        /\ state[t] = "SLEEPING" /\ active[t] =>
              pc[t] \in {"yield", "pyield", "arm", "tyield"}
        /\ state[t] = "EXITED" => pc[t] = "user"
        /\ state[t] = "EXITED" => \A c \in Cpus :
                                     current[c] = t => mode[c] = "switch"
        /\ state[t] = "BUILDING" => ~active[t] /\ pc[t] \in {"user", "kern"}

ModeInv ==
    \A c \in Cpus :
        mode[c] = "switch" /\ current[c] \in Threads => state[current[c]] = "EXITED"

\* The poll list holds each thread once and only threads that are asleep.
PollInv ==
    /\ NoDuplicates(poll_threads)
    /\ suspended_threads = Len(poll_threads)
    /\ \A t \in Threads : OnList(t, poll_threads) =>
          /\ t \in Pollers
          /\ state[t] = "SLEEPING"
          /\ pc[t] \in {"pyield", "poll"}
    /\ \A t \in Threads : pc[t] \in {"pyield", "poll", "suspend"} => t \in Pollers

\* msleep() timers belong to threads that sleep for them.
TimerInv ==
    /\ \A t \in sleep_timers :
          t \in Sleepers /\ state[t] = "SLEEPING" /\ pc[t] \in {"tyield", "tret"}
    /\ \A t \in Threads :
          pc[t] = "arm" => t \in Sleepers /\ state[t] = "SLEEPING"

SemPcs == {"cond", "prepare", "yield", "relock"}

\* A thread is on the list of the semaphore it waits for exactly while its
\* INSEM flag is set; a thread that has been taken off finds a count.
SemInv ==
    /\ \A s \in Sems : NoDuplicates(waiters[s])
    /\ \A s \in Sems, t \in Threads :
          OnList(t, waiters[s]) <=> insem[t] /\ wait_on[t] = s
    /\ \A t \in Threads : insem[t] => pc[t] \in SemPcs
    /\ \A t \in Threads : pc[t] \in SemPcs =>
          /\ wait_on[t] \in Sems
          /\ t \in Consumers[wait_on[t]]
          /\ insem[t] \/ sem_count[wait_on[t]] > 0
    /\ \A t \in Threads : pc[t] \in {"cond", "prepare"} =>
          insem[t] /\ sem_lock[wait_on[t]] = t

RequestInv == KtaskdCountsRequests

\* Interrupts are disabled from msleep()'s preparation to its timer.
IrqInv ==
    \A c \in Cpus, t \in Threads :
        current[c] = t /\ pc[t] = "arm" => mode[c] = "run"

\* Init does not exit.
InitRuns == state[InitThread] # "EXITED" /\ ~should_die[InitThread]

IInv ==
    /\ TypeOK
    /\ NoPanic
    /\ CurrentInv
    /\ QueueInv
    /\ StateInv
    /\ ModeInv
    /\ PollInv
    /\ TimerInv
    /\ SemInv
    /\ RequestInv
    /\ IrqInv
    /\ InitRuns
=============================================================================
