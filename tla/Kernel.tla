------------------------------- MODULE Kernel -------------------------------
(***************************************************************************)
(* The threads and interrupts that drive the scheduler: system calls,      *)
(* interrupt_dispatch() of kernel/src/arch/idt.c with the code it runs on  *)
(* the way out (sched_interrupt_notify, sched_deliver_signals,             *)
(* sched_try_resched), fork, exit, msleep, waitpid, the signals sent from  *)
(* the keyboard and the users of semaphores.                               *)
(*                                                                         *)
(* A CPU is in one of these modes:                                         *)
(*   "run"     executing its current thread, at that thread's pc           *)
(*   "isr"     in interrupt_dispatch(), running the handlers               *)
(*   "notify"  in sched_interrupt_notify(), holding sched_lock             *)
(*   "exit"    about to deliver signals and try to reschedule              *)
(*   "switch"  in thread_die() or sched_loop(), about to switch threads     *)
(* Interrupts are disabled in every mode but "run", and in "run" at the    *)
(* pcs of IrqsOff.                                                         *)
(***************************************************************************)
EXTENDS Semaphore

CONSTANTS
    UserThreads,  \* threads of user processes; the others are kernel tasks
    Ktaskd,       \* the kernel task that spawns kernel tasks on request
    KtaskdSem,    \* ktaskd_semaphore
    Consumers,    \* per semaphore, the threads that call semaphore_down()
    Pollers,      \* the threads that call waitpid()
    Sleepers,     \* the threads that call msleep()
    Signalled,    \* the threads signals are sent to
    Exiters,      \* the threads that call _exit()
    MaxCount,     \* bound on the count of the other semaphores
    MaxReqs       \* bound on the length of ktaskd_reqlist

ASSUME KernelAssumption ==
    /\ UserThreads \subseteq Threads
    /\ InitThread \in UserThreads
    /\ Ktaskd \in Threads \ UserThreads
    /\ KtaskdSem \in Sems
    /\ Consumers \in [Sems -> SUBSET Threads]
    /\ \A s \in Sems : Ktaskd \in Consumers[s] => s = KtaskdSem
    /\ Consumers[KtaskdSem] = {Ktaskd}
    /\ Pollers \subseteq UserThreads
    /\ Sleepers \subseteq UserThreads
    /\ Signalled \subseteq Threads
    /\ Exiters \subseteq UserThreads
    /\ MaxCount \in Nat
    /\ MaxReqs \in Nat

VARIABLES
    mode,         \* per CPU, see above
    pc,           \* per thread, where its code is (or will resume)
    wait_on,      \* per thread, the semaphore or the child it waits for
    ignore_sigs,  \* per thread, the semaphore wait ignores signals
    exit_state,   \* task_node->exit_state
    should_die,   \* thread->should_die
    sig_pending,  \* thread->sig_pending is not empty
    sleep_timers, \* the threads whose msleep() timer is on the timer list
    reqs          \* the length of ktaskd_reqlist

taskVars == <<wait_on, ignore_sigs, exit_state, should_die, sig_pending,
              sleep_timers>>
vars == <<schedVars, semVars, mode, pc, taskVars, reqs>>

Mode == {"run", "isr", "notify", "exit", "switch"}

\* "user"     user code
\* "kern"     kernel code outside the operations below
\* "ret"      kernel code with nothing left to do but return to user mode
\* "cond"     semaphore wait, sem->lock held, about to evaluate the condition
\* "prepare"  semaphore wait, sem->lock held, about to prepare to sleep
\* "yield"    semaphore wait, about to call sched_switch()
\* "relock"   semaphore wait, back from sched_switch()
\* "poll"     wait_for_condition(), about to evaluate the condition
\* "suspend"  wait_for_condition(), the condition was false
\* "pyield"   wait_for_condition(), about to call sched_switch()
\* "arm"      msleep(), about to create the timer
\* "tyield"   msleep(), about to call sched_switch()
\* "tret"     msleep(), back from sched_switch(), interrupts still disabled
\* "take"     ktaskd, has passed its semaphore
\* "spawn"    ktaskd, has taken a request off the list
Pc == {"user", "kern", "ret", "cond", "prepare", "yield", "relock",
       "poll", "suspend", "pyield", "arm", "tyield", "tret", "take", "spawn"}

IrqsOff == {"cond", "prepare", "arm", "tyield", "tret"}

KernelTypeOK ==
    /\ mode \in [Cpus -> Mode]
    /\ pc \in [Threads -> Pc]
    /\ wait_on \in [Threads -> Threads \cup Sems \cup {NoThread}]
    /\ ignore_sigs \in [Threads -> BOOLEAN]
    /\ exit_state \in [Threads -> {"RUNNING", "EXITING", "EXITED"}]
    /\ should_die \in [Threads -> BOOLEAN]
    /\ sig_pending \in [Threads -> BOOLEAN]
    /\ sleep_timers \subseteq Threads
    /\ reqs \in Nat

\* Every variable stays in its type.
TypeOK == SchedTypeOK /\ SemTypeOK /\ KernelTypeOK

\* sched_loop(): each CPU is about to make its first do_sched_switch().
Init ==
    /\ SchedInit
    /\ SemInit
    /\ mode = [c \in Cpus |-> "switch"]
    /\ pc = [t \in Threads |-> IF t \in UserThreads \ {InitThread}
                               THEN "user" ELSE "kern"]
    /\ wait_on = [t \in Threads |-> NoThread]
    /\ ignore_sigs = [t \in Threads |-> FALSE]
    /\ exit_state = [t \in Threads |-> "RUNNING"]
    /\ should_die = [t \in Threads |-> FALSE]
    /\ sig_pending = [t \in Threads |-> FALSE]
    /\ sleep_timers = {}
    /\ reqs = 0
-----------------------------------------------------------------------------
\* CPU c executes thread t, which is at one of the pcs in `at`.
Runs(c, t, at) == mode[c] = "run" /\ current[c] = t /\ pc[t] \in at

\* CPU c executes an interrupt handler.
InIsr(c) == mode[c] = "isr"

Goto(t, loc) == pc' = [pc EXCEPT ![t] = loc] /\ UNCHANGED mode

\* A user thread traps into the kernel; enter_syscall() enables interrupts.
Syscall(c, t) ==
    /\ Runs(c, t, {"user"})
    /\ Goto(t, "kern")
    /\ UNCHANGED <<schedVars, semVars, taskVars, reqs>>

\* leave_syscall() disables interrupts; the rest is interrupt_dispatch()'s.
SyscallReturn(c, t) ==
    /\ Runs(c, t, {"kern", "ret", "tret"})
    /\ t \in UserThreads
    /\ pc' = [pc EXCEPT ![t] = "user"]
    /\ mode' = [mode EXCEPT ![c] = "isr"]
    /\ UNCHANGED <<schedVars, semVars, taskVars, reqs>>

\* umain() starting /sbin/init, and execve(): pl_enter_userland() goes to user
\* mode without passing through interrupt_dispatch().
EnterUserland(c, t) ==
    /\ Runs(c, t, {"kern"})
    /\ t \in UserThreads
    /\ Goto(t, "user")
    /\ UNCHANGED <<schedVars, semVars, taskVars, reqs>>

\* thread_fork(), ending in thread_schedule(): user processes fork, and
\* umain() spawns ktaskd.
Fork(c, t, child) ==
    /\ Runs(c, t, {"kern"})
    /\ t \in UserThreads
    /\ child \in UserThreads \/ (t = InitThread /\ child = Ktaskd)
    /\ state[child] = "BUILDING"
    /\ thread_schedule(child)
    /\ UNCHANGED <<semVars, mode, pc, taskVars, reqs>>

\* _exit(): task_node_exit() marks the process's only thread; the thread
\* dies on its way back to user mode.
Exit(c, t) ==
    /\ Runs(c, t, {"kern"})
    /\ t \in Exiters
    /\ exit_state' = [exit_state EXCEPT ![t] = "EXITING"]
    /\ should_die' = [should_die EXCEPT ![t] = TRUE]
    /\ Goto(t, "ret")
    /\ UNCHANGED <<schedVars, semVars, wait_on, ignore_sigs, sig_pending,
                   sleep_timers, reqs>>

\* thread_send_signal(): sigaddset() and thread_poke() are one step (nothing
\* tells a late poke from the pokes of a signal sent later).
\* task_send_signal() finds no thread in a process whose thread has been
\* retired by deactivate_thread().
SendSignal(t) ==
    /\ t \in Signalled
    /\ state[t] # "BUILDING"
    /\ exit_state[t] # "EXITED"
    /\ sig_pending' = [sig_pending EXCEPT ![t] = TRUE]
    /\ thread_poke(t)
-----------------------------------------------------------------------------
\* Where a thread goes once it has passed its semaphore.
Obtained(t) == IF t = Ktaskd THEN "take" ELSE "kern"

\* semaphore_down() or try_semaphore_down_while_condition(): `ignore` says
\* that the condition is the constant true, else it is "no signal pending".
Down(c, t, s, ignore) ==
    /\ Runs(c, t, {"kern"})
    /\ t \in Consumers[s]
    /\ \/ /\ DownAtOnce(s)
          /\ Goto(t, Obtained(t))
          /\ UNCHANGED <<wait_on, ignore_sigs>>
       \/ /\ DownEnqueue(t, s)
          /\ Goto(t, "cond")
          /\ wait_on' = [wait_on EXCEPT ![t] = s]
          /\ ignore_sigs' = [ignore_sigs EXCEPT ![t] = ignore]
    /\ UNCHANGED <<exit_state, should_die, sig_pending, sleep_timers, reqs>>

\* The call returns: its local variables are gone.
Forget(t) ==
    /\ wait_on' = [wait_on EXCEPT ![t] = NoThread]
    /\ ignore_sigs' = [ignore_sigs EXCEPT ![t] = FALSE]
    /\ UNCHANGED <<exit_state, should_die, sig_pending, sleep_timers>>

DownCond(c, t) ==
    /\ Runs(c, t, {"cond"})
    /\ IF ignore_sigs[t] \/ ~sig_pending[t]
       THEN /\ Goto(t, "prepare")
            /\ UNCHANGED <<schedVars, semVars, taskVars>>
       ELSE /\ DownGiveUp(t, wait_on[t])
            /\ Goto(t, "kern")
            /\ Forget(t)
    /\ UNCHANGED reqs

DownSleep(c, t) ==
    /\ Runs(c, t, {"prepare"})
    /\ DownPrepare(t, wait_on[t])
    /\ Goto(t, "yield")
    /\ UNCHANGED <<taskVars, reqs>>

DownRelock(c, t) ==
    /\ Runs(c, t, {"relock"})
    /\ \/ /\ DownAgain(t, wait_on[t])
          /\ Goto(t, "cond")
          /\ UNCHANGED taskVars
       \/ /\ DownObtain(t, wait_on[t])
          /\ Goto(t, Obtained(t))
          /\ Forget(t)
    /\ UNCHANGED reqs

\* semaphore_up() from kernel code or from an interrupt handler.
Up(c, s) ==
    /\ InIsr(c) \/ \E t \in Threads \ {Ktaskd} : Runs(c, t, {"kern"})
    /\ s # KtaskdSem
    /\ sem_count[s] < MaxCount
    /\ semaphore_up(s)
    /\ UNCHANGED <<mode, pc, taskVars, reqs>>

\* ktaskd_request(): ktaskd_lock is held from the insertion of the request to
\* the end of semaphore_up().
ktaskd_request(c) ==
    /\ \E t \in Threads \ {Ktaskd} : Runs(c, t, {"kern"})
    /\ reqs < MaxReqs
    /\ reqs' = reqs + 1
    /\ semaphore_up(KtaskdSem)
    /\ UNCHANGED <<mode, pc, taskVars>>

\* Mutant: the last request is never taken.
KtaskdTakeButOne(c) ==
    /\ Runs(c, Ktaskd, {"take"})
    /\ IF reqs > 1 THEN reqs' = reqs - 1 /\ Goto(Ktaskd, "spawn")
                   ELSE UNCHANGED reqs /\ Goto(Ktaskd, "kern")
    /\ UNCHANGED <<schedVars, semVars, taskVars>>

\* ktaskd_spawn_pending() behind its semaphore_down(): take the first request,
\* if there is one, under ktaskd_lock.
KtaskdTake(c) ==
    /\ Runs(c, Ktaskd, {"take"})
    /\ IF reqs > 0 THEN reqs' = reqs - 1 /\ Goto(Ktaskd, "spawn")
                   ELSE UNCHANGED reqs /\ Goto(Ktaskd, "kern")
    /\ UNCHANGED <<schedVars, semVars, taskVars>>

\* ktaskd_fulfil_req(): spawn_kernel_task() forks a kernel task.  The threads
\* of Threads may all have been built: later tasks are then not represented.
KtaskdSpawn(c) ==
    /\ Runs(c, Ktaskd, {"spawn"})
    /\ LET unbuilt == {k \in Threads \ UserThreads : state[k] = "BUILDING"} IN
       \/ \E k \in unbuilt : thread_schedule(k)
       \/ unbuilt = {} /\ UNCHANGED schedVars
    /\ Goto(Ktaskd, "kern")
    /\ UNCHANGED <<semVars, taskVars, reqs>>
-----------------------------------------------------------------------------
\* waitpid() of one child: wait_for_condition(child->exit_state == EXITED).
\* find_child() finds it; module Process has the call that names no child, and
\* waitpid(-1).
WaitPid(c, t, child) ==
    /\ Runs(c, t, {"kern"})
    /\ t \in Pollers
    /\ child # t
    /\ state[child] # "BUILDING"
    /\ Goto(t, "poll")
    /\ wait_on' = [wait_on EXCEPT ![t] = child]
    /\ UNCHANGED <<schedVars, semVars, ignore_sigs, exit_state, should_die,
                   sig_pending, sleep_timers, reqs>>

PollCond(c, t) ==
    /\ Runs(c, t, {"poll"})
    /\ IF exit_state[wait_on[t]] = "EXITED"
       THEN Goto(t, "kern") /\ Forget(t)
       ELSE Goto(t, "suspend") /\ UNCHANGED taskVars
    /\ UNCHANGED <<schedVars, semVars, reqs>>

PollSuspend(c, t) ==
    /\ Runs(c, t, {"suspend"})
    /\ sched_suspend_pending_interrupt(t)
    /\ Goto(t, "pyield")
    /\ UNCHANGED <<semVars, taskVars, reqs>>

\* msleep(): irqdisable(), prepare, create the timer, switch.
Msleep(c, t) ==
    /\ Runs(c, t, {"kern"})
    /\ t \in Sleepers
    /\ thread_sleep_prepare(t, FALSE)
    /\ Goto(t, "arm")
    /\ UNCHANGED <<active, queued_threads, current, poll_threads,
                   suspended_threads, sched_lock>>
    /\ UNCHANGED <<semVars, taskVars, reqs>>

MsleepArm(c, t) ==
    /\ Runs(c, t, {"arm"})
    /\ sleep_timers' = sleep_timers \cup {t}
    /\ Goto(t, "tyield")
    /\ UNCHANGED <<schedVars, semVars, wait_on, ignore_sigs, exit_state,
                   should_die, sig_pending, reqs>>

\* A thread calls sched_switch(); when it is resumed it continues here:
Resume == [yield |-> "relock", pyield |-> "poll", tyield |-> "tret"]

Yield(c, t) ==
    /\ Runs(c, t, DOMAIN Resume)
    /\ do_sched_switch(c)
    /\ Goto(t, Resume[pc[t]])
    /\ UNCHANGED <<semVars, taskVars, reqs>>
-----------------------------------------------------------------------------
\* An interrupt arrives.
Interrupt(c) ==
    /\ mode[c] = "run"
    /\ current[c] \in Threads => pc[current[c]] \notin IrqsOff
    /\ mode' = [mode EXCEPT ![c] = "isr"]
    /\ UNCHANGED <<schedVars, semVars, pc, taskVars, reqs>>

\* Mutant: the timer stays on the list.
SleepCallbackKeepsTimer(c, t) ==
    /\ InIsr(c)
    /\ t \in sleep_timers
    /\ thread_wake(t)
    /\ UNCHANGED <<semVars, mode, pc, taskVars, reqs>>

\* The clock interrupt's handler runs the callback of an msleep() timer.
SleepCallback(c, t) ==
    /\ InIsr(c)
    /\ t \in sleep_timers
    /\ thread_wake(t)
    /\ sleep_timers' = sleep_timers \ {t}
    /\ UNCHANGED <<semVars, mode, pc, wait_on, ignore_sigs, exit_state,
                   should_die, sig_pending, reqs>>

\* The keyboard interrupt's handler sends SIGINT to the members of the
\* terminal's process group; no other code sends a signal.
IsrSignal(c, target) ==
    /\ InIsr(c)
    /\ SendSignal(target)
    /\ UNCHANGED <<semVars, mode, pc, wait_on, ignore_sigs, exit_state,
                   should_die, sleep_timers, reqs>>

\* Mutant: not every interrupt notifies the polling threads.
NotifySkipped(c) ==
    /\ \/ /\ mode[c] = "isr"
          /\ NotifyLock(c)
          /\ mode' = [mode EXCEPT ![c] = "notify"]
       \/ /\ mode[c] = "notify"
          /\ NotifyWake(c)
          /\ UNCHANGED mode
       \/ /\ mode[c] = "notify"
          /\ NotifyUnlock(c)
          /\ mode' = [mode EXCEPT ![c] = "exit"]
       \/ /\ mode[c] = "isr"
          /\ mode' = [mode EXCEPT ![c] = "exit"]
          /\ UNCHANGED schedVars
    /\ UNCHANGED <<semVars, pc, taskVars, reqs>>

\* interrupt_dispatch() calls sched_interrupt_notify() after the handlers.
Notify(c) ==
    /\ \/ /\ mode[c] = "isr"
          /\ NotifyLock(c)
          /\ mode' = [mode EXCEPT ![c] = "notify"]
       \/ /\ mode[c] = "notify"
          /\ NotifyWake(c)
          /\ UNCHANGED mode
       \/ /\ mode[c] = "notify"
          /\ NotifyUnlock(c)
          /\ mode' = [mode EXCEPT ![c] = "exit"]
    /\ UNCHANGED <<semVars, pc, taskVars, reqs>>

ReturnsToUser(c) == current[c] \in Threads /\ pc[current[c]] = "user"

\* sched_deliver_signals(): a pending signal of a thread that returns to user
\* mode may stay blocked, run its handler, or end the process.
DeliverSignals(c) ==
    /\ mode[c] = "exit"
    /\ ReturnsToUser(c)
    /\ LET t == current[c] IN
       /\ sig_pending[t]
       /\ \/ /\ sig_pending' = [sig_pending EXCEPT ![t] = FALSE]
             /\ UNCHANGED <<exit_state, should_die>>
          \/ /\ t # InitThread
             /\ exit_state[t] = "RUNNING"
             /\ exit_state' = [exit_state EXCEPT ![t] = "EXITING"]
             /\ should_die' = [should_die EXCEPT ![t] = TRUE]
             /\ UNCHANGED sig_pending
    /\ UNCHANGED <<schedVars, semVars, mode, pc, wait_on, ignore_sigs,
                   sleep_timers, reqs>>

\* sched_try_resched(): a marked thread dies instead of returning to user mode.
TryReschedDie(c) ==
    /\ mode[c] = "exit"
    /\ ReturnsToUser(c)
    /\ should_die[current[c]]
    /\ thread_die(current[c])
    /\ mode' = [mode EXCEPT ![c] = "switch"]
    /\ UNCHANGED <<semVars, pc, taskVars, reqs>>

MustDie(c) == ReturnsToUser(c) /\ should_die[current[c]]

\* sched_try_resched(): the quantum may have expired (switch_time is not
\* modelled); a thread that is not awake, and the idle thread, always switch.
TryReschedSwitch(c) ==
    /\ mode[c] = "exit"
    /\ ~MustDie(c)
    /\ do_sched_switch(c)
    /\ mode' = [mode EXCEPT ![c] = "run"]
    /\ UNCHANGED <<semVars, pc, taskVars, reqs>>

TryReschedReturn(c) ==
    /\ mode[c] = "exit"
    /\ ~MustDie(c)
    /\ current[c] \in Threads
    /\ state[current[c]] = "AWAKE"
    /\ mode' = [mode EXCEPT ![c] = "run"]
    /\ UNCHANGED <<schedVars, semVars, pc, taskVars, reqs>>

\* The sched_switch() of thread_die(), and of sched_loop() at boot: the task
\* node of an exited thread is zombified by deactivate_thread().
FinalSwitch(c) ==
    /\ mode[c] = "switch"
    /\ do_sched_switch(c)
    /\ mode' = [mode EXCEPT ![c] = "run"]
    /\ exit_state' = IF current[c] \in Threads
                     THEN [exit_state EXCEPT ![current[c]] = "EXITED"]
                     ELSE exit_state
    /\ UNCHANGED <<semVars, pc, wait_on, ignore_sigs, should_die, sig_pending,
                   sleep_timers, reqs>>
-----------------------------------------------------------------------------
\* The code of thread t, and the requests it chooses to make.
ThreadStep(c, t) ==
    \/ SyscallReturn(c, t)
    \/ DownCond(c, t)
    \/ DownSleep(c, t)
    \/ DownRelock(c, t)
    \/ PollCond(c, t)
    \/ PollSuspend(c, t)
    \/ MsleepArm(c, t)
    \/ Yield(c, t)
    \/ t = Ktaskd /\ Down(c, t, KtaskdSem, TRUE)
    \/ t = Ktaskd /\ KtaskdTake(c)
    \/ t = Ktaskd /\ KtaskdSpawn(c)

ThreadRequest(c, t) ==
    \/ Syscall(c, t)
    \/ EnterUserland(c, t)
    \/ Exit(c, t)
    \/ Msleep(c, t)
    \/ \E child \in Threads : Fork(c, t, child) \/ WaitPid(c, t, child)
    \/ \E s \in Sems \ {KtaskdSem}, ignore \in BOOLEAN : Down(c, t, s, ignore)

\* The code of the interrupt path, and what the devices ask of it.
InterruptStep(c) ==
    \/ Notify(c)
    \/ TryReschedDie(c)
    \/ TryReschedSwitch(c)
    \/ TryReschedReturn(c)
    \/ FinalSwitch(c)

InterruptRequest(c) ==
    \/ \E t \in Threads : SleepCallback(c, t) \/ IsrSignal(c, t)
    \/ \E s \in Sems : Up(c, s)
    \/ ktaskd_request(c)
    \/ DeliverSignals(c)

\* A panic halts every processor.
Next ==
    /\ ~panicked
    /\ \E c \in Cpus :
          \/ \E t \in Threads : ThreadStep(c, t) \/ ThreadRequest(c, t)
          \/ Interrupt(c)
          \/ InterruptStep(c)
          \/ InterruptRequest(c)

Spec == Init /\ [][Next]_vars

\* The clock interrupts every CPU again and again (a pending interrupt is
\* delivered as soon as interrupts are enabled), the code of the interrupt
\* path goes on, a quantum expires again and again, and a thread makes progress
\* between interrupts.  What processes and devices ask for is not fair.
Fairness ==
    \A c \in Cpus :
        /\ SF_vars(Interrupt(c))
        /\ SF_vars(InterruptStep(c))
        /\ SF_vars(TryReschedSwitch(c))
        /\ \A t \in Threads : SF_vars(ThreadStep(c, t))

FairSpec == Spec /\ Fairness
-----------------------------------------------------------------------------
Queued(t) == OnList(t, queued_threads)

\* ktaskd's semaphore counts its requests: when ktaskd passes the semaphore a
\* request is on the list, and no request is on the list uncounted.
KtaskdCountsRequests ==
    reqs = sem_count[KtaskdSem] + (IF pc[Ktaskd] = "take" THEN 1 ELSE 0)

\* The assumption under which the scheduler keeps its promises on any number
\* of CPUs: signals are sent neither to threads that use msleep() nor to
\* threads that use waitpid(), a semaphore has one consumer, and init does not
\* exit.
RolesSeparate ==
    /\ Signalled \cap Sleepers = {}
    /\ Signalled \cap Pollers = {}
    /\ \A s \in Sems : \A t, u \in Consumers[s] : t = u
    /\ InitThread \notin Exiters

\* No BUG_ON and no panic() of the scheduler or of the semaphores is reached:
\* threads go to sleep awake and active, lock_next_current() meets no thread
\* in an illegal state, finish_sched_switch() resumes no thread that another
\* CPU executes, sched_interrupt_notify() finds no orphan, and a semaphore
\* that woke a thread still has the count the thread was woken for.  (The exit
\* of init, on which task_node_zombify() panics, is left to the set Exiters.)
NoPanic == ~panicked

\* The run queue holds each thread once, and only threads that are awake and
\* that no CPU executes.
RunQueueSound ==
    /\ NoDuplicates(queued_threads)
    /\ \A t \in Threads : Queued(t) => state[t] = "AWAKE" /\ ~active[t]

\* A CPU's current thread is active and a thread is current on one CPU at most.
CurrentSound ==
    /\ \A c, d \in Cpus : current[c] = current[d] => c = d
    /\ \A t \in Threads : active[t] <=> \E c \in Cpus : current[c] = t

\* No runnable thread is forgotten: it is on the run queue or on a CPU.
NoForgottenThread ==
    \A t \in Threads : state[t] = "AWAKE" => Queued(t) \/ active[t]

\* No wakeup is lost: a thread that has been switched out asleep is known to
\* the semaphore, the poll list or the timer that will wake it.
NoLostWakeup ==
    \A t \in Threads :
        state[t] = "SLEEPING" /\ ~active[t] =>
            \/ OnList(t, poll_threads)
            \/ t \in sleep_timers
            \/ \E s \in Sems : insem[t] /\ OnList(t, waiters[s])

\* The poll list holds each thread once.  Adding a node that is first on the
\* list makes it its own successor, and sched_interrupt_notify() never leaves
\* its loop, although the comment in that loop says that a thread woken by
\* some other mechanism is dealt with gracefully.
PollListSound == NoDuplicates(poll_threads)

\* waitpid() returns once the child has exited, although nothing wakes the
\* parent when the child becomes a zombie: the next interrupt does.  The run
\* queue is a stack, so the parent must not stay on it for ever, below a
\* thread that never sleeps.
WaitReturns ==
    \A t \in Pollers :
        []<>~Queued(t) =>
            \A child \in Threads :
                wait_on[t] = child /\ exit_state[child] = "EXITED"
                    ~> wait_on[t] = NoThread

\* A request to ktaskd is not forgotten: if ktaskd has been spawned and does
\* not stay on the run queue for ever then it takes a request off the list.
RequestServed ==
    []<>(state[Ktaskd] # "BUILDING" /\ ~Queued(Ktaskd))
        => (reqs > 0 ~> pc[Ktaskd] = "spawn")
=============================================================================
