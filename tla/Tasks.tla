------------------------------- MODULE Tasks -------------------------------
(***************************************************************************)
(* Processes as their system calls see them: the tree of Process, the      *)
(* tables of Descriptors and the signals of Signals, put together by       *)
(* fork, exit and the terminal's interrupt key.                            *)
(***************************************************************************)
EXTENDS Process, Descriptors, Signals

VARIABLE ttygroup    \* tty->pgroup, the group ^C is sent to

taskVars == <<treeVars, fdVars, sigVars, ttygroup>>

TasksTypeOK ==
    ProcessTypeOK /\ DescriptorsTypeOK /\ SignalsTypeOK
    /\ ttygroup \in DOMAIN tree.groups

\* After root_task_init(); umain() has made init's group the terminal's, and the
\* descriptors it opens for the terminal are left to OpenFd and DupFd.
TasksInit ==
    /\ ProcessInit
    /\ DescriptorsInit(InitPid)
    /\ SignalsInit
    /\ ttygroup = tree.pgroup[InitPid]
-----------------------------------------------------------------------------
\* The calls that concern the tree alone, the tables alone, the signals alone.
TreeOnly == UNCHANGED <<fdVars, sigVars, ttygroup>>
FdsOnly == UNCHANGED <<treeVars, sigVars, ttygroup>>
SignalsOnly == UNCHANGED <<treeVars, fdVars, ttygroup>>

\* The pids that a call names: 0 stands for the caller.
User == Pid \ {Idle}

\* fork(), with thread_fork().
fork(p) ==
    /\ ForkNode(p)
    /\ DupContext(p, NextPid)
    /\ BuildSignals(NextPid, p)
    /\ UNCHANGED ttygroup

\* _exit().
exit_call(p) ==
    /\ Calls(p)
    /\ task_node_exit(p)
    /\ TreeOnly

\* The scheduler takes a dead thread off its processor: deactivate_thread().
Reap(p) ==
    /\ ExitNode(p)
    /\ PutContext(p)
    /\ UNCHANGED <<sigVars, ttygroup>>

TreeCalls(p) ==
    /\ \/ \E nohang \in BOOLEAN : WaitAny(p, nohang)
       \/ \E c \in Pid : WaitFor(p, c)
       \/ \E q \in User : getpgid(p, q)
       \/ \E q, pgid \in User : setpgid(p, q, pgid)
    /\ TreeOnly

WaitReturns(p) == (WaitAnyReturns(p) \/ WaitForReturns(p)) /\ TreeOnly

FdCalls(p) ==
    /\ Calls(p)
    /\ \/ OpenFd(p)
       \/ \E fd \in Fd : CloseFd(p, fd) \/ DupFd(p, fd)
       \/ \E fd \in Fd, fd2 \in Fd \cup {MaxNumFds} : Dup2Fd(p, fd, fd2)
    /\ FdsOnly

SignalCalls(p) ==
    /\ Calls(p)
    /\ \/ register_sigtramp(p)
       \/ sigreturn(p)
       \/ \E sa \in [handler : Handler, mask : {{}}] : sigaction(p, "INT", sa)
       \/ \E how \in {"SIG_BLOCK", "SIG_UNBLOCK", "SIG_SETMASK"}, set \in SUBSET {"INT"} :
             sigprocmask(p, how, set)
    /\ SignalsOnly

tcsetpgrp(p, pgid) ==
    /\ Calls(p)
    /\ pgroup_find(tree, pgid) # 0
    /\ ttygroup' = pgroup_find(tree, pgid)
    /\ UNCHANGED <<treeVars, fdVars, sigVars>>

\* ^C: SIGINT to the members of the terminal's group that have a thread.
Interrupt ==
    /\ NoBug(tree)
    /\ SendInterrupt({p \in tree.groups[ttygroup].members : exit[p] # "exited"})
    /\ SignalsOnly

\* On the way to user mode.
Deliver(p) ==
    /\ exit[p] \in {"running", "exiting"} /\ waits[p] = NoPid /\ NoBug(tree)
    /\ \E r \in {Delivery(p)} :
          /\ sched_deliver_signals(p, r)
          /\ IF r.killed THEN task_node_exit(p) ELSE UNCHANGED treeVars
    /\ UNCHANGED <<fdVars, ttygroup>>
-----------------------------------------------------------------------------
\* Every process has a table and signals.
ASSUME TasksAssumption == Procs = Pid /\ SigProcs = Pid

TasksNext ==
    \/ Interrupt
    \/ \E p \in User :
          \/ fork(p) \/ exit_call(p) \/ Reap(p)
          \/ TreeCalls(p) \/ WaitReturns(p)
          \/ FdCalls(p)
          \/ SignalCalls(p) \/ Deliver(p)
          \/ \E pgid \in User : tcsetpgrp(p, pgid)

TasksSpec == TasksInit /\ [][TasksNext]_taskVars
=============================================================================
