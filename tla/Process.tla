------------------------------ MODULE Process ------------------------------
(***************************************************************************)
(* The process tree of kernel/src/sched/sched.c: task nodes with their     *)
(* reference counts, process groups and sessions, exit, orphans, zombies   *)
(* and waitpid().  Every process has one thread.  The tree is walked and   *)
(* changed under sched_lock or a node's lock, so each call is one step;    *)
(* exit and waitpid() take several.                                        *)
(*                                                                         *)
(* Pids are handed out in order: 0 is idle_node, 1 is init_node.           *)
(***************************************************************************)
EXTENDS Naturals, Sequences, FiniteSets, Functions

CONSTANTS MaxPid,      \* bound on the pids handed out
          MaxGroups,   \* bound on the process groups created
          MaxLeaks     \* bound on the references setpgid() leaks per process

ASSUME ProcessAssumption == MaxPid \in Nat \ {0} /\ MaxGroups \in Nat \ {0}

VARIABLES
    tree,     \* the nodes, the groups and the BUG_ON or panic that was hit
    exit,     \* per process: exit_state, or "none" before it is built
    zombies,  \* per process: node->zombies, first element first
    waits,    \* per process: what waitpid() waits for
    reaped,   \* history: the pairs <<parent, child>> waitpid(-1) handed out
    leaked    \* history: per process, the references setpgid() did not return

treeVars == <<tree, exit, zombies, waits, reaped, leaked>>

Pid == 0 .. MaxPid
Idle == 0
InitPid == 1
NoPid == MaxPid + 1     \* no parent; not waiting
AnyPid == MaxPid + 2    \* the argument -1 of waitpid()

NoBug(t) == t.bug = "none"

Running(p) == exit[p] = "running"
Exists(p) == exit[p] # "none"

\* In user mode, where a process makes system calls.
Calls(p) == p # Idle /\ Running(p) /\ waits[p] = NoPid /\ NoBug(tree)

\* No BUG_ON or panic; BUG_ON(!node->refs) of a node; task_node_destroy(); "init
\* exited"; a call with a pid it does not expect.
Bugs == {"none", "refs", "destroy", "init", "pid"}

Bug(t, kind) == IF NoBug(t) THEN [t EXCEPT !.bug = kind] ELSE t

ProcessTypeOK ==
    /\ tree.refs \in [Pid -> Nat]
    /\ tree.parent \in [Pid -> Pid \cup {NoPid}]
    /\ tree.children \in [Pid -> SUBSET Pid]
    /\ tree.session \in [Pid -> Pid]
    /\ tree.pgroup \in [Pid -> 0 .. Len(tree.groups)]
    /\ tree.groups \in Seq([leader : Pid, members : SUBSET Pid])
    /\ tree.bug \in Bugs
    /\ exit \in [Pid -> {"none", "running", "exiting", "exited"}]
    /\ zombies \in [Pid -> Seq(Pid)]
    /\ waits \in [Pid -> Pid \cup {NoPid, AnyPid}]
-----------------------------------------------------------------------------
\* task_node_get() and task_node_put() on the counts of a tree t.  Dropping the
\* last reference calls task_node_destroy(), which panics.
task_node_get(t, p) ==
    IF t.refs[p] = 0 THEN Bug(t, "refs")
                     ELSE [t EXCEPT !.refs[p] = @ + 1]

task_node_put(t, p) ==
    CASE t.refs[p] = 0 -> Bug(t, "refs")
      [] t.refs[p] = 1 -> Bug([t EXCEPT !.refs[p] = 0], "destroy")
      [] OTHER         -> [t EXCEPT !.refs[p] = @ - 1]

\* The outcomes of task_node_find().  No node leaves the list, so a process that
\* once existed is found.  Otherwise the loop ends with t at the head of the list
\* and task_node_get() treats the memory around it as a node, whose count may
\* happen to be zero.
task_node_find(t, p) ==
    IF Exists(p) THEN {task_node_get(t, p)} ELSE {t, Bug(t, "pid")}

\* Each member holds a reference on the leader of its group and its session.
pgroup_add(t, p, g) ==
    [task_node_get(t, t.groups[g].leader) EXCEPT
        !.pgroup[p] = g,
        !.groups[g].members = @ \cup {p}]

\* Mutant: leaving a group keeps the reference on its leader.
pgroup_rmKeepRef(t, p) ==
    [t EXCEPT !.groups[t.pgroup[p]].members = @ \ {p}]

pgroup_rm(t, p) ==
    task_node_put([t EXCEPT !.groups[t.pgroup[p]].members = @ \ {p}],
                  t.groups[t.pgroup[p]].leader)

pgroup_create(t, p) ==
    pgroup_add([t EXCEPT !.groups = Append(@, [leader |-> p, members |-> {}])],
               p, Len(t.groups) + 1)

\* The list of groups is searched newest first.
pgroup_find(t, pgid) ==
    LET led == {g \in DOMAIN t.groups : t.groups[g].leader = pgid}
    IN  IF led = {} THEN 0 ELSE CHOOSE g \in led : \A h \in led : h <= g

session_add(t, p, leader) ==
    [task_node_get(t, leader) EXCEPT !.session[p] = leader]

session_create(t, p) == session_add(t, p, p)

\* task_node_build(): a child joins the session and the group of its parent; a
\* root leads its own.
task_node_build(t, p, parent) ==
    LET new == [t EXCEPT !.refs[p] = 1, !.parent[p] = parent]
    IN  IF parent = NoPid
        THEN pgroup_create(session_create(new, p), p)
        ELSE pgroup_add(session_add([new EXCEPT !.children[parent] = @ \cup {p}],
                                    p, t.session[parent]),
                        p, t.pgroup[parent])

\* sched_init(): the nodes of the idle threads and of init.
ProcessInit ==
    /\ tree = task_node_build(
                task_node_build(
                    [refs     |-> [p \in Pid |-> 0],
                     parent   |-> [p \in Pid |-> NoPid],
                     children |-> [p \in Pid |-> {}],
                     session  |-> [p \in Pid |-> Idle],
                     pgroup   |-> [p \in Pid |-> 0],
                     groups   |-> <<>>,
                     bug      |-> "none"],
                    Idle, NoPid),
                InitPid, NoPid)
    /\ exit = [p \in Pid |-> IF p \in {Idle, InitPid} THEN "running" ELSE "none"]
    /\ zombies = [p \in Pid |-> <<>>]
    /\ waits = [p \in Pid |-> NoPid]
    /\ reaped = {}
    /\ leaked = [p \in Pid |-> 0]
-----------------------------------------------------------------------------
NextPid == CHOOSE p \in Pid : ~Exists(p) /\ \A q \in Pid : q < p => Exists(q)

\* thread_fork(), the part that concerns the tree.
ForkNode(p) ==
    /\ Calls(p)
    /\ ~Exists(MaxPid)
    /\ tree' = task_node_build(tree, NextPid, p)
    /\ exit' = [exit EXCEPT ![NextPid] = "running"]
    /\ UNCHANGED <<zombies, waits, reaped, leaked>>

\* task_node_exit(): the first caller marks the process; its thread dies on its
\* way back to user mode.
task_node_exit(p) ==
    /\ exit' = [exit EXCEPT ![p] = IF Running(p) THEN "exiting" ELSE @]
    /\ UNCHANGED <<tree, zombies, waits, reaped, leaked>>

\* The children of an exiting process, newest first, go to the front of the
\* zombies of init: the loop reads the state of the process itself, which has
\* just become TASK_EXITED, and so never takes the branch that makes init their
\* parent.
OntoZombies(list, children) ==
    LET n == Cardinality(children)
        byPid == CHOOSE s \in [1 .. n -> children] :
                    \A i, j \in 1 .. n : i < j => s[i] < s[j]
    IN  byPid \o list

\* Mutant: every zombie goes to init.
task_node_zombifyInit(z, p) ==
    [z EXCEPT ![InitPid] = OntoZombies(<<p>> \o @, tree.children[p])]

task_node_zombify(z, p) ==
    LET parent == tree.parent[p]
        self == IF Running(parent) THEN [z EXCEPT ![parent] = <<p>> \o @] ELSE z
    IN  [self EXCEPT ![InitPid] = OntoZombies(@, tree.children[p])]

\* deactivate_thread() of a thread that died: its reference on the node goes,
\* without a test for the last one, and the node becomes a zombie.
ExitNode(p) ==
    /\ exit[p] = "exiting" /\ NoBug(tree)
    /\ exit' = [exit EXCEPT ![p] = "exited"]
    /\ tree' = [tree EXCEPT !.refs[p] = @ - 1, !.bug = IF p = InitPid THEN "init" ELSE @]
    /\ zombies' = IF p = InitPid THEN zombies ELSE task_node_zombify(zombies, p)
    /\ UNCHANGED <<waits, reaped, leaked>>
-----------------------------------------------------------------------------
\* reap_zombie() takes the first zombie of the list.
reap_zombie(p) ==
    /\ zombies[p] # <<>>
    /\ zombies' = [zombies EXCEPT ![p] = Tail(@)]
    /\ reaped' = reaped \cup {<<p, Head(zombies[p])>>}

\* waitpid(-1): take a zombie, return at once with WNOHANG, or wait.
WaitAny(p, nohang) ==
    /\ Calls(p)
    /\ \/ /\ reap_zombie(p)
          /\ UNCHANGED waits
       \/ /\ zombies[p] = <<>>
          /\ waits' = [waits EXCEPT ![p] = IF nohang THEN NoPid ELSE AnyPid]
          /\ UNCHANGED <<zombies, reaped>>
    /\ UNCHANGED <<tree, exit, leaked>>

WaitAnyReturns(p) ==
    /\ waits[p] = AnyPid /\ NoBug(tree)
    /\ reap_zombie(p)
    /\ waits' = [waits EXCEPT ![p] = NoPid]
    /\ UNCHANGED <<tree, exit, leaked>>

\* waitpid(pid): find_child() finds a child even when it was reaped, and the
\* child is not reaped.  BUG_ON(!child) or UNIMPLEMENTED() stops a call with the
\* pid of another process, or 0.
WaitFor(p, c) ==
    /\ Calls(p)
    /\ IF c \in tree.children[p]
       THEN waits' = [waits EXCEPT ![p] = c] /\ UNCHANGED tree
       ELSE tree' = Bug(tree, "pid") /\ UNCHANGED waits
    /\ UNCHANGED <<exit, zombies, reaped, leaked>>

WaitForReturns(p) ==
    /\ waits[p] \in Pid /\ NoBug(tree)
    /\ exit[waits[p]] = "exited"
    /\ waits' = [waits EXCEPT ![p] = NoPid]
    /\ UNCHANGED <<tree, exit, zombies, reaped, leaked>>
-----------------------------------------------------------------------------
\* getpgid() of another process: task_node_find() takes a reference and the
\* caller returns it.
getpgid(p, q) ==
    /\ Calls(p)
    /\ q # p
    /\ \E got \in task_node_find(tree, q) :
          tree' = IF Exists(q) THEN task_node_put(got, q) ELSE got
    /\ UNCHANGED <<exit, zombies, waits, reaped, leaked>>

Ancestors(p) ==
    LET up[n \in Nat, q \in Pid \cup {NoPid}] ==
            IF n = 0 \/ q = NoPid THEN {} ELSE {q} \cup up[n - 1, tree.parent[q]]
    IN  up[MaxPid + 1, p]

\* setpgid(pid, pgid) for the caller or a descendant of it.  The two errors
\* return without the reference taken on the process.
setpgid(p, q, pgid) ==
    /\ Calls(p)
    /\ Len(tree.groups) < MaxGroups /\ leaked[q] < MaxLeaks
    /\ \E got \in IF q = p THEN {task_node_get(tree, q)} ELSE task_node_find(tree, q) :
       \E pg \in {pgroup_find(tree, pgid)} :
       LET error == p \notin Ancestors(q) \/ (pgid # q /\ pg = 0)
           moved == IF pgid = q THEN pgroup_create(pgroup_rm(got, q), q)
                                ELSE pgroup_add(pgroup_rm(got, q), q, pg)
       IN  /\ tree' = IF error THEN got ELSE task_node_put(moved, q)
           /\ leaked' = IF error /\ Exists(q) THEN [leaked EXCEPT ![q] = @ + 1] ELSE leaked
    /\ UNCHANGED <<exit, zombies, waits, reaped>>
-----------------------------------------------------------------------------
\* Every change of the tree.
ProcessNext ==
    \E p \in Pid \ {Idle} :
        \/ ForkNode(p)
        \/ task_node_exit(p)
        \/ ExitNode(p)
        \/ \E nohang \in BOOLEAN : WaitAny(p, nohang)
        \/ WaitAnyReturns(p)
        \/ \E c \in Pid : WaitFor(p, c)
        \/ WaitForReturns(p)
        \/ \E q \in Pid \ {Idle} : getpgid(p, q)
        \/ \E q, pgid \in Pid \ {Idle} : setpgid(p, q, pgid)

ProcessSpec == ProcessInit /\ [][ProcessNext]_treeVars
-----------------------------------------------------------------------------
\* The count of a node is exactly what refers to it: its thread until it has
\* died, each member of the session and of the groups it leads, and what the
\* error paths of setpgid() took for good.  So a node that leads somebody is
\* never destroyed, whatever order processes exit and change groups in.
Members(p) ==
    Cardinality({q \in Pid : Exists(q) /\ tree.session[q] = p})
    + Cardinality({q \in Pid : Exists(q) /\ tree.groups[tree.pgroup[q]].leader = p})

RefsCounted ==
    NoBug(tree) => \A p \in Pid :
        tree.refs[p] = Members(p) + leaked[p]
                       + (IF exit[p] \in {"running", "exiting"} THEN 1 ELSE 0)

\* The assertion of task_node_get() and task_node_put(), on the nodes that calls
\* find: a node on the list of tasks is referred to.
FoundReferred == tree.bug # "refs"

\* A parent finds each child that exited on its list exactly once, until
\* waitpid(-1) hands it out: no child is lost between its exit and the wait, none
\* is handed out twice, and none while it still runs.  A process that exited and
\* whose parent exited is on the list of init, or was handed out to it.
ZombiesSound ==
    NoBug(tree) => \A p \in Pid \ {Idle} :
        /\ Running(p) =>
              /\ IsInjective(zombies[p])
              /\ \A c \in tree.children[p] :
                    c \in Range(zombies[p]) <=> exit[c] = "exited" /\ <<p, c>> \notin reaped
        /\ exit[p] = "exited" =>
              \A c \in tree.children[p] :
                  exit[c] = "exited" =>
                      c \in Range(zombies[InitPid]) \/ <<InitPid, c>> \in reaped

=============================================================================
