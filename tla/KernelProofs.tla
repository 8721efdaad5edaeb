---------------------------- MODULE KernelProofs ----------------------------
(***************************************************************************)
(* Every step of module Kernel preserves the invariant of module           *)
(* KernelInv, and the theorems follow: for any number of CPUs, threads and *)
(* semaphores no assertion of the scheduler and of the semaphores fails,   *)
(* and no thread is forgotten or sleeps without a waker.                   *)
(***************************************************************************)
EXTENDS KernelInv, TLAPS
-----------------------------------------------------------------------------
(***************************************************************************)
(* What the list operations do, in terms of list membership.               *)
(***************************************************************************)
\* list_add() puts a node in front of a list.
LEMMA ListAddLemma ==
    ASSUME NEW S, NEW q \in Seq(S), NEW t \in S
    PROVE  /\ ListAdd(t, q) \in Seq(S)
           /\ ListAdd(t, q) # <<>>
           /\ Len(ListAdd(t, q)) = Len(q) + 1
           /\ Head(ListAdd(t, q)) = t
           /\ Tail(ListAdd(t, q)) = q
           /\ \A x : OnList(x, ListAdd(t, q)) <=> x = t \/ OnList(x, q)
           /\ NoDuplicates(q) /\ ~OnList(t, q) => NoDuplicates(ListAdd(t, q))
<1> DEFINE r == ListAdd(t, q)
<1>1. r \in Seq(S) /\ Len(r) = Len(q) + 1 /\ r[1] = t
    BY DEF ListAdd
<1>2. \A i \in DOMAIN q : i + 1 \in DOMAIN r /\ r[i + 1] = q[i]
    BY DEF ListAdd
<1>3. \A i \in DOMAIN r : i # 1 => i - 1 \in DOMAIN q /\ r[i] = q[i - 1]
    BY DEF ListAdd
<1>4. r # <<>> /\ Head(r) = t
    BY <1>1
<1>5. Tail(r) = q
    <2>1. Tail(r) \in Seq(S) /\ Len(Tail(r)) = Len(q)
        BY <1>1, <1>4
    <2>2. \A i \in 1 .. Len(q) : Tail(r)[i] = q[i]
        BY <1>1, <1>2, <1>4
    <2> QED  BY <2>1, <2>2
<1>6. \A x : OnList(x, r) <=> x = t \/ OnList(x, q)
    <2> SUFFICES ASSUME NEW x PROVE OnList(x, r) <=> x = t \/ OnList(x, q)
        OBVIOUS
    <2>1. 1 \in DOMAIN r
        BY <1>1
    <2> QED  BY <1>1, <1>2, <1>3, <2>1 DEF OnList
<1>7. NoDuplicates(q) /\ ~OnList(t, q) => NoDuplicates(r)
    BY <1>1, <1>3 DEF NoDuplicates, OnList
<1> QED  BY <1>1, <1>4, <1>5, <1>6, <1>7

\* Taking the first node off a list.
LEMMA TailLemma ==
    ASSUME NEW S, NEW q \in Seq(S), q # <<>>
    PROVE  /\ Tail(q) \in Seq(S)
           /\ Len(Tail(q)) = Len(q) - 1
           /\ Len(q) > 0
           /\ Head(q) \in S
           /\ OnList(Head(q), q)
           /\ \A x : OnList(x, q) <=> x = Head(q) \/ OnList(x, Tail(q))
           /\ NoDuplicates(q) => NoDuplicates(Tail(q)) /\ ~OnList(Head(q), Tail(q))
<1> DEFINE r == Tail(q)
<1>1. r \in Seq(S) /\ Len(r) = Len(q) - 1 /\ Len(q) > 0
    OBVIOUS
<1>2. \A i \in DOMAIN r : i + 1 \in DOMAIN q /\ i + 1 # 1 /\ r[i] = q[i + 1]
    BY <1>1
<1>3. \A i \in DOMAIN q : i # 1 => i - 1 \in DOMAIN r /\ q[i] = r[i - 1]
    BY <1>1
<1>4. 1 \in DOMAIN q /\ Head(q) = q[1] /\ Head(q) \in S
    BY <1>1
<1>5. \A x : OnList(x, q) <=> x = Head(q) \/ OnList(x, r)
    <2> SUFFICES ASSUME NEW x PROVE OnList(x, q) <=> x = Head(q) \/ OnList(x, r)
        OBVIOUS
    <2> HIDE DEF r
    <2> QED  BY <1>2, <1>3, <1>4 DEF OnList
<1>6. NoDuplicates(q) => NoDuplicates(r) /\ ~OnList(Head(q), r)
    <2> SUFFICES ASSUME NoDuplicates(q)
                 PROVE  NoDuplicates(r) /\ ~OnList(Head(q), r)
        OBVIOUS
    <2> HIDE DEF r
    <2>1. NoDuplicates(r)
        <3> SUFFICES ASSUME NEW i \in DOMAIN r, NEW j \in DOMAIN r, r[i] = r[j]
                     PROVE  i = j
            BY DEF NoDuplicates
        <3>1. i + 1 = j + 1
            BY <1>2 DEF NoDuplicates
        <3> QED  BY <3>1, <1>1
    <2>2. ~OnList(Head(q), r)
        BY <1>2, <1>4 DEF NoDuplicates, OnList
    <2> QED  BY <2>1, <2>2
<1>7. OnList(Head(q), q)
    BY <1>4 DEF OnList
<1> QED  BY <1>1, <1>4, <1>5, <1>6, <1>7

\* list_rm() of a node that is on the list.
LEMMA ListRmLemma ==
    ASSUME NEW S, NEW q \in Seq(S), NEW t, OnList(t, q), NoDuplicates(q)
    PROVE  /\ ListRm(t, q) \in Seq(S)
           /\ \A x : OnList(x, ListRm(t, q)) <=> OnList(x, q) /\ x # t
           /\ NoDuplicates(ListRm(t, q))
<1> DEFINE k == CHOOSE j \in DOMAIN q : q[j] = t
           a == SubSeq(q, 1, k - 1)
           b == SubSeq(q, k + 1, Len(q))
           r == ListRm(t, q)
<1>1. k \in DOMAIN q /\ q[k] = t
    BY DEF OnList
<1>2. k \in 1 .. Len(q) /\ Len(q) \in Nat
    BY <1>1
<1> HIDE DEF k
<1>3. /\ a \in Seq(S) /\ Len(a) = k - 1
      /\ \A i \in 1 .. k - 1 : a[i] = q[i]
    BY <1>2
<1>4. /\ b \in Seq(S) /\ Len(b) = Len(q) - k
      /\ \A i \in 1 .. Len(q) - k : b[i] = q[i + k]
    <2>1. \A i \in k + 1 .. Len(q) : q[i] \in S
        BY <1>2
    <2>2. b = [i \in 1 .. Len(q) - k |-> q[i + k]]
        BY <1>2
    <2> HIDE DEF b
    <2>3. b \in [1 .. Len(q) - k -> S]
        BY <2>1, <2>2, <1>2
    <2> QED  BY <2>2, <2>3, <1>2
<1>5. r = a \o b
    BY DEF ListRm, k
<1> HIDE DEF a, b, r
<1>6. r \in Seq(S) /\ Len(r) = Len(q) - 1
    BY <1>2, <1>3, <1>4, <1>5
<1>7. \A i \in DOMAIN r : r[i] = q[IF i < k THEN i ELSE i + 1]
    <2> SUFFICES ASSUME NEW i \in 1 .. Len(q) - 1
                 PROVE  r[i] = q[IF i < k THEN i ELSE i + 1]
        BY <1>6
    <2>1. CASE i < k
        BY <2>1, <1>2, <1>3, <1>4, <1>5
    <2>2. CASE ~(i < k)
        <3>1. r[i] = b[i - (k - 1)]
            BY <2>2, <1>2, <1>3, <1>4, <1>5
        <3>2. i - (k - 1) \in 1 .. Len(q) - k /\ (i - (k - 1)) + k = i + 1
            BY <2>2, <1>2
        <3> QED  BY <3>1, <3>2, <2>2, <1>4
    <2> QED  BY <2>1, <2>2
<1>8. NoDuplicates(r)
    <2> SUFFICES ASSUME NEW i \in DOMAIN r, NEW j \in DOMAIN r, r[i] = r[j]
                 PROVE  i = j
        BY DEF NoDuplicates
    <2> DEFINE up(n) == IF n < k THEN n ELSE n + 1
    <2>1. up(i) \in DOMAIN q /\ up(j) \in DOMAIN q
        BY <1>2, <1>6
    <2>2. q[up(i)] = q[up(j)]
        BY <1>7
    <2>3. up(i) = up(j)
        BY <2>1, <2>2 DEF NoDuplicates
    <2> QED  BY <2>3, <1>2, <1>6
<1>9. ASSUME NEW x PROVE OnList(x, r) <=> OnList(x, q) /\ x # t
    <2>1. ASSUME OnList(x, r) PROVE OnList(x, q) /\ x # t
        <3>1. PICK i \in DOMAIN r : r[i] = x
            BY <2>1 DEF OnList
        <3> DEFINE n == IF i < k THEN i ELSE i + 1
        <3>2. n \in DOMAIN q /\ n # k
            BY <1>2, <1>6
        <3>3. q[n] = x
            BY <3>1, <1>7
        <3> HIDE DEF n
        <3> QED  BY <3>2, <3>3, <1>1 DEF OnList, NoDuplicates
    <2>2. ASSUME OnList(x, q), x # t PROVE OnList(x, r)
        <3>1. PICK n \in DOMAIN q : q[n] = x
            BY <2>2 DEF OnList
        <3>2. n # k
            BY <3>1, <2>2, <1>1
        <3> DEFINE i == IF n < k THEN n ELSE n - 1
        <3>3. i \in DOMAIN r /\ (IF i < k THEN i ELSE i + 1) = n
            BY <3>2, <1>2, <1>6
        <3>4. r[i] = x
            BY <3>1, <3>3, <1>7
        <3> HIDE DEF i
        <3> QED  BY <3>3, <3>4 DEF OnList
    <2> QED  BY <2>1, <2>2
<1> QED  BY <1>6, <1>8, <1>9 DEF r
-----------------------------------------------------------------------------
\* Zenon is tried at every step that names no other prover.
USE Zenon
-----------------------------------------------------------------------------
(***************************************************************************)
(* What waking a thread and switching threads do to the invariants of the  *)
(* run queue.                                                              *)
(***************************************************************************)

\* do_wake() puts a thread on the run queue once.
LEMMA WakeLemma ==
    ASSUME SchedTypeOK, QueueInv, NEW t \in Threads,
           state[t] \in {"SLEEPING", "AWAKE"},
           do_wake(t), active' = active
    PROVE  /\ state' = [state EXCEPT ![t] = "AWAKE"]
           /\ queued_threads' \in Seq(Threads)
           /\ QueueInv'
<1>1. state' = [state EXCEPT ![t] = "AWAKE"]
    BY DEF do_wake, SchedTypeOK
<1>2. CASE state[t] = "SLEEPING" /\ ~active[t]
    <2>1. queued_threads' = ListAdd(t, queued_threads)
        BY <1>2 DEF do_wake
    <2>2. ~OnList(t, queued_threads)
        BY <1>2 DEF QueueInv
    <2> QED  BY <1>1, <1>2, <2>1, <2>2, ListAddLemma DEF QueueInv, SchedTypeOK
<1>3. CASE ~(state[t] = "SLEEPING" /\ ~active[t])
    <2>1. queued_threads' = queued_threads
        BY <1>3 DEF do_wake
    <2> QED  BY <1>1, <1>3, <2>1 DEF QueueInv, SchedTypeOK
<1> QED  BY <1>1, <1>2, <1>3

\* do_sched_switch(): the CPU goes on with an awake thread or with its idle
\* thread, and no assertion fails.
LEMMA SwitchLemma ==
    ASSUME SchedTypeOK, NoPanic, CurrentInv, QueueInv, StateInv, InitRuns,
           NEW c \in Cpus, do_sched_switch(c)
    PROVE  /\ SchedTypeOK'
           /\ NoPanic'
           /\ CurrentInv'
           /\ QueueInv'
           /\ \A d \in Cpus \ {c} : current'[d] = current[d]
           /\ current'[c] \in Threads => state[current'[c]] = "AWAKE"
           /\ state' = state
           /\ poll_threads' = poll_threads
           /\ suspended_threads' = suspended_threads
<1> DEFINE old  == current[c]
           q    == Requeued(old)
           next == NextCurrent(c, q)
<1>1. /\ queued_threads' = IF q = <<>> THEN q ELSE Tail(q)
      /\ current' = [current EXCEPT ![c] = next]
      /\ active' = [active EXCEPT ![old] = FALSE, ![next] = TRUE]
      /\ panicked' = (panicked \/ (\/ DeactivateBug(old)
                                   \/ next \in Threads /\ state[next] # "AWAKE"
                                   \/ old # next /\ active[next]))
      /\ UNCHANGED <<state, poll_threads, suspended_threads, sched_lock>>
    BY DEF do_sched_switch, BugOn
<1>2. old \in Threads \cup Cpus
    BY DEF SchedTypeOK
<1>3. CASE old \in Threads /\ state[old] = "AWAKE"
    <2>1. q = ListAdd(old, queued_threads)
        BY <1>3 DEF Requeued
    <2>2. next = old /\ q # <<>> /\ Tail(q) = queued_threads
        BY <1>3, <2>1, ListAddLemma, SMT DEF NextCurrent, SchedTypeOK
    <2>3. active[old]
        BY <1>3 DEF CurrentInv
    <2> HIDE DEF next, q
    <2>4. queued_threads' = queued_threads /\ current' = current /\ active' = active
        BY <1>1, <1>2, <2>2, <2>3 DEF SchedTypeOK
    <2>5. ~panicked'
        BY <1>1, <1>3, <2>2, <2>3 DEF NoPanic, DeactivateBug
    <2> QED  BY <1>1, <1>3, <2>4, <2>5, SMT
             DEF SchedTypeOK, NoPanic, CurrentInv, QueueInv
<1>4. CASE ~(old \in Threads /\ state[old] = "AWAKE")
    <2>1. q = queued_threads
        BY <1>4 DEF Requeued
    <2>2. ~DeactivateBug(old)
        BY <1>4 DEF DeactivateBug, StateInv, CurrentInv, InitRuns
    <2>3. /\ next = c \/ (next \in Threads /\ state[next] = "AWAKE" /\ ~active[next])
          /\ queued_threads' \in Seq(Threads)
          /\ NoDuplicates(queued_threads')
          /\ \A x \in Threads : OnList(x, queued_threads') <=>
                                  OnList(x, queued_threads) /\ x # next
        <3>1. CASE queued_threads = <<>>
            <4>1. next = c /\ queued_threads' = queued_threads
                BY <1>1, <2>1, <3>1 DEF NextCurrent
            <4>2. \A x \in Threads : x # next
                BY <4>1, SchedAssumption
            <4> HIDE DEF next
            <4>3. queued_threads \in Seq(Threads) /\ NoDuplicates(queued_threads)
                BY DEF SchedTypeOK, QueueInv
            <4> QED  BY <4>1, <4>2, <4>3
        <3>2. CASE queued_threads # <<>>
            <4>1. next = Head(queued_threads) /\ queued_threads' = Tail(queued_threads)
                BY <1>1, <2>1, <3>2 DEF NextCurrent
            <4> HIDE DEF next
            <4>2. /\ next \in Threads
                  /\ OnList(next, queued_threads)
                  /\ queued_threads' \in Seq(Threads)
                  /\ NoDuplicates(queued_threads')
                  /\ \A x : OnList(x, queued_threads') <=>
                               OnList(x, queued_threads) /\ x # next
                BY <3>2, <4>1, TailLemma DEF SchedTypeOK, QueueInv
            <4> QED  BY <4>2 DEF QueueInv
        <3> QED  BY <3>1, <3>2
    <2> HIDE DEF next, q
    <2>4. next \in Threads \cup Cpus /\ (next \in Cpus => next = c)
        BY <2>3, SchedAssumption
    <2>5. /\ current'[c] = next
          /\ \A d \in Cpus \ {c} : current'[d] = current[d]
        BY <1>1 DEF SchedTypeOK
    <2>6. \A x \in Threads \cup Cpus :
              active'[x] <=> x = next \/ (x # old /\ active[x])
        BY <1>1, <1>2, <2>4 DEF SchedTypeOK
    <2>7. ~(old # next /\ active[next])
        BY <2>3, <2>4 DEF CurrentInv
    <2>8. NoPanic'
        BY <1>1, <2>2, <2>3, <2>7, SchedAssumption DEF NoPanic
    <2>9. SchedTypeOK'
        BY <1>1, <1>2, <2>3, <2>4, <2>8 DEF SchedTypeOK, NoPanic
    <2>10. \A d \in Cpus \ {c} : current[d] # next /\ current[d] # old
        BY <2>3, <2>4 DEF CurrentInv
    <2>11. CurrentInv'
        <3>1. \A d, e \in Cpus : current'[d] = current'[e] => d = e
            BY <2>5, <2>10, SMT DEF CurrentInv
        <3>2. \A d, e \in Cpus : current'[d] = e => d = e
            BY <2>4, <2>5, SMT DEF CurrentInv
        <3>3. ASSUME NEW x \in Threads
              PROVE  active'[x] <=> \E d \in Cpus : current'[d] = x
            <4>1. (\E d \in Cpus : current'[d] = x) <=>
                      x = next \/ \E d \in Cpus \ {c} : current[d] = x
                BY <2>5
            <4>2. (x # old /\ active[x]) <=> \E d \in Cpus \ {c} : current[d] = x
                BY <2>10 DEF CurrentInv
            <4> QED  BY <2>6, <4>1, <4>2
        <3>4. ASSUME NEW d \in Cpus, active'[d] PROVE current'[d] = d
            <4>1. CASE d = next
                BY <2>4, <2>5, <4>1
            <4>2. CASE d # next
                <5>1. d # old /\ active[d]
                    BY <2>6, <3>4, <4>2
                <5>2. current[d] = d
                    BY <5>1 DEF CurrentInv
                <5> QED  BY <2>5, <5>1, <5>2
            <4> QED  BY <4>1, <4>2
        <3> QED  BY <3>1, <3>2, <3>3, <3>4 DEF CurrentInv
    <2>12. ASSUME NEW x \in Threads
           PROVE  OnList(x, queued_threads') <=> state'[x] = "AWAKE" /\ ~active'[x]
        BY <1>1, <1>4, <2>3, <2>6 DEF QueueInv
    <2>13. QueueInv'
        BY <2>3, <2>12 DEF QueueInv
    <2>14. current'[c] \in Threads => state[current'[c]] = "AWAKE"
        BY <2>3, <2>5, SchedAssumption
    <2> QED  BY <1>1, <2>5, <2>8, <2>9, <2>11, <2>13, <2>14
<1> QED  BY <1>3, <1>4

-----------------------------------------------------------------------------
(***************************************************************************)
(* Steps of a kind: what the steps below do to the scheduler's part of the *)
(* invariant.                                                              *)
(***************************************************************************)

\* A thread that a CPU executes is active, and awake unless it is about to
\* call sched_switch().
LEMMA RunsLemma ==
    ASSUME IInv, NEW c \in Cpus, NEW t \in Threads, mode[c] = "run", current[c] = t
    PROVE  /\ active[t]
           /\ pc[t] \notin {"yield", "pyield", "arm", "tyield"} => state[t] = "AWAKE"
           /\ state[t] \in {"AWAKE", "SLEEPING"}
           /\ \A d \in Cpus \ {c} : current[d] # t
<1>1. active[t] /\ state[t] \in ThreadState
    BY DEF IInv, CurrentInv, TypeOK, SchedTypeOK
<1>2. \A d \in Cpus \ {c} : current[d] # t
    BY DEF IInv, CurrentInv
<1> QED  BY <1>1, <1>2 DEF IInv, StateInv, ThreadState

\* The scheduler's and the timers' part of the invariant.
CoreInv ==
    /\ SchedTypeOK
    /\ CurrentInv
    /\ QueueInv
    /\ StateInv
    /\ ModeInv
    /\ PollInv
    /\ TimerInv
    /\ IrqInv

\* An awake thread goes on from one place to another, possibly into
\* interrupt_dispatch().
LEMMA MoveLemma ==
    ASSUME IInv, NEW c \in Cpus, NEW t \in Threads, NEW loc \in Pc \ {"arm"},
           mode[c] = "run", current[c] = t, state[t] = "AWAKE",
           pc' = [pc EXCEPT ![t] = loc],
           mode' = mode \/ mode' = [mode EXCEPT ![c] = "isr"],
           loc \in {"pyield", "poll", "suspend"} => t \in Pollers,
           UNCHANGED <<state, active, queued_threads, current, poll_threads>>,
           UNCHANGED <<suspended_threads, sched_lock, sleep_timers>>,
           NoPanic', panicked' \in BOOLEAN,
           \A x \in Threads \ {t} : insem'[x] = insem[x]
    PROVE  /\ CoreInv'
           /\ pc' \in [Threads -> Pc]
           /\ mode' \in [Cpus -> Mode]
           /\ pc'[t] = loc /\ \A x \in Threads \ {t} : pc'[x] = pc[x]
<1>1. pc' \in [Threads -> Pc] /\ mode' \in [Cpus -> Mode]
    BY DEF IInv, TypeOK, KernelTypeOK, Mode
<1>2. pc'[t] = loc /\ \A x \in Threads \ {t} : pc'[x] = pc[x]
    BY DEF IInv, TypeOK, KernelTypeOK
<1>3. \A d \in Cpus \ {c} : mode'[d] = mode[d] /\ current[d] # t
    BY ZenonT(30) DEF IInv, TypeOK, KernelTypeOK, CurrentInv
<1>4. SchedTypeOK'
    BY DEF IInv, TypeOK, SchedTypeOK
<1>5. CurrentInv' /\ QueueInv'
    BY SMT DEF IInv, CurrentInv, QueueInv
<1>6. StateInv'
    <2> SUFFICES ASSUME NEW x \in Threads \ {t}
                 PROVE  /\ state[x] = "SLEEPING" => Asleep(x)'
                        /\ state[x] = "SLEEPING" /\ active[x] =>
                              pc'[x] \in {"yield", "pyield", "arm", "tyield"}
                        /\ state[x] = "EXITED" => pc'[x] = "user"
                        /\ state[x] = "EXITED" => \A d \in Cpus :
                                         current[d] = x => mode'[d] = "switch"
                        /\ state[x] = "BUILDING" =>
                              ~active[x] /\ pc'[x] \in {"user", "kern"}
        BY ZenonT(30) DEF StateInv
    <2>1. Asleep(x) => Asleep(x)'
        BY <1>2 DEF Asleep
    <2>2. \A d \in Cpus : current[d] = x => mode'[d] = mode[d]
        BY <1>3
    <2> QED  BY <1>2, <2>1, <2>2, ZenonT(30) DEF IInv, StateInv
<1>7. ModeInv'
    <2>1. mode'[c] # "switch"
        BY DEF IInv, TypeOK, KernelTypeOK
    <2> QED  BY <1>3, <2>1 DEF IInv, ModeInv
<1>8. PollInv'
    <2>1. ~OnList(t, poll_threads)
        BY DEF IInv, PollInv
    <2> QED  BY <1>2, <2>1 DEF IInv, PollInv
<1>9. TimerInv'
    <2>1. t \notin sleep_timers /\ sleep_timers \subseteq Threads
        BY DEF IInv, TimerInv, TypeOK, KernelTypeOK
    <2> QED  BY <1>2, <2>1 DEF IInv, TimerInv
<1>10. IrqInv'
    BY <1>2, <1>3, SMT DEF IInv, IrqInv
<1> QED  BY <1>1, <1>2, <1>4, <1>5, <1>6, <1>7, <1>8, <1>9, <1>10 DEF CoreInv

\* Awake threads may move outside the scheduler's operations.
AwakeMoves ==
    \A x \in Threads : \/ pc'[x] = pc[x]
                       \/ state[x] = "AWAKE" /\ pc'[x] \in {"kern", "ret"}

\* Waking a thread, whatever the step does to the thread itself.
LEMMA WakeStepLemma ==
    ASSUME IInv, NEW u \in Threads, state[u] \in {"SLEEPING", "AWAKE"}, do_wake(u),
           UNCHANGED <<active, current, mode>>, AwakeMoves,
           \A x \in Threads \ {u} :
               /\ insem'[x] = insem[x]
               /\ x \in sleep_timers => x \in sleep_timers'
               /\ OnList(x, poll_threads) => OnList(x, poll_threads')
    PROVE  /\ state' = [state EXCEPT ![u] = "AWAKE"]
           /\ state'[u] = "AWAKE" /\ \A x \in Threads \ {u} : state'[x] = state[x]
           /\ queued_threads' \in Seq(Threads)
           /\ CurrentInv' /\ QueueInv' /\ StateInv' /\ ModeInv' /\ IrqInv'
<1>1. /\ state' = [state EXCEPT ![u] = "AWAKE"]
      /\ queued_threads' \in Seq(Threads)
      /\ QueueInv'
    BY WakeLemma DEF IInv, TypeOK
<1>2. state'[u] = "AWAKE" /\ \A x \in Threads \ {u} : state'[x] = state[x]
    BY <1>1 DEF IInv, TypeOK, SchedTypeOK
<1>3. CurrentInv'
    BY ZenonT(30) DEF IInv, CurrentInv
<1>4. StateInv'
    <2> SUFFICES ASSUME NEW x \in Threads \ {u}
                 PROVE  /\ state[x] = "SLEEPING" => Asleep(x)'
                        /\ state[x] = "SLEEPING" /\ active[x] =>
                              pc'[x] \in {"yield", "pyield", "arm", "tyield"}
                        /\ state[x] = "EXITED" => pc'[x] = "user"
                        /\ state[x] = "EXITED" => \A d \in Cpus :
                                         current[d] = x => mode[d] = "switch"
                        /\ state[x] = "BUILDING" =>
                              ~active[x] /\ pc'[x] \in {"user", "kern"}
        BY <1>2 DEF StateInv
    <2>1. state[x] = "AWAKE" \/ pc'[x] = pc[x]
        BY DEF AwakeMoves
    <2>2. state[x] = "SLEEPING" /\ Asleep(x) => Asleep(x)'
        BY <2>1 DEF Asleep
    <2> QED  BY <2>1, <2>2 DEF IInv, StateInv
<1>5. ModeInv'
    <2>1. \A c \in Cpus : mode[c] = "switch" => current[c] # u
        BY DEF IInv, ModeInv
    <2> QED  BY <1>2, <2>1 DEF IInv, ModeInv
<1>6. IrqInv'
    BY SMT DEF IInv, IrqInv, AwakeMoves
<1> QED  BY <1>1, <1>2, <1>3, <1>4, <1>5, <1>6

\* Scheduling a thread that has just been built.
LEMMA ScheduleLemma ==
    ASSUME IInv, NEW k \in Threads, state[k] = "BUILDING", thread_schedule(k),
           UNCHANGED <<mode, insem, sleep_timers>>, AwakeMoves
    PROVE  CoreInv' /\ NoPanic'
<1>1. ~active[k] /\ pc[k] \in {"user", "kern"} /\ pc'[k] = pc[k]
    BY DEF IInv, StateInv, AwakeMoves
<1>2. /\ state' = [state EXCEPT ![k] = "AWAKE"]
      /\ queued_threads' = ListAdd(k, queued_threads)
      /\ UNCHANGED <<active, current, poll_threads, suspended_threads>>
      /\ UNCHANGED <<sched_lock, panicked>>
    BY <1>1 DEF thread_schedule
<1>3. state'[k] = "AWAKE" /\ \A x \in Threads \ {k} : state'[x] = state[x]
    BY <1>2 DEF IInv, TypeOK, SchedTypeOK
<1>4. ~OnList(k, queued_threads)
    BY DEF IInv, QueueInv
<1>5. /\ queued_threads' \in Seq(Threads)
      /\ NoDuplicates(queued_threads')
      /\ \A x : OnList(x, queued_threads') <=> x = k \/ OnList(x, queued_threads)
    BY <1>2, <1>4, ListAddLemma DEF IInv, TypeOK, SchedTypeOK, QueueInv
<1>6. SchedTypeOK'
    BY <1>2, <1>5 DEF IInv, TypeOK, SchedTypeOK, ThreadState
<1>7. QueueInv'
    BY <1>1, <1>2, <1>3, <1>5 DEF IInv, QueueInv
<1>8. CurrentInv' /\ NoPanic'
    BY <1>2 DEF IInv, CurrentInv, NoPanic
<1>9. StateInv'
    <2> SUFFICES ASSUME NEW x \in Threads \ {k}
                 PROVE  /\ state[x] = "SLEEPING" => Asleep(x)'
                        /\ state[x] = "SLEEPING" /\ active[x] =>
                              pc'[x] \in {"yield", "pyield", "arm", "tyield"}
                        /\ state[x] = "EXITED" => pc'[x] = "user"
                        /\ state[x] = "EXITED" => \A d \in Cpus :
                                         current[d] = x => mode[d] = "switch"
                        /\ state[x] = "BUILDING" =>
                              ~active[x] /\ pc'[x] \in {"user", "kern"}
        BY <1>2, <1>3 DEF StateInv
    <2>1. state[x] = "AWAKE" \/ pc'[x] = pc[x]
        BY DEF AwakeMoves
    <2>2. state[x] = "SLEEPING" /\ Asleep(x) => Asleep(x)'
        BY <1>2, <2>1 DEF Asleep
    <2> QED  BY <2>1, <2>2 DEF IInv, StateInv
<1>10. ModeInv'
    <2>1. \A c \in Cpus : mode[c] = "switch" => current[c] # k
        BY DEF IInv, ModeInv
    <2> QED  BY <1>2, <1>3, <2>1 DEF IInv, ModeInv
<1>11. PollInv'
    <2>1. ~OnList(k, poll_threads)
        BY DEF IInv, PollInv
    <2> QED  BY <1>2, <1>3, <2>1 DEF IInv, PollInv, AwakeMoves
<1>12. TimerInv'
    <2>1. k \notin sleep_timers /\ sleep_timers \subseteq Threads
        BY DEF IInv, TimerInv, TypeOK, KernelTypeOK
    <2> QED  BY <1>3, <2>1 DEF IInv, TimerInv, AwakeMoves
<1>13. IrqInv'
    BY <1>2 DEF IInv, IrqInv, AwakeMoves
<1> QED  BY <1>6, <1>7, <1>8, <1>9, <1>10, <1>11, <1>12, <1>13 DEF CoreInv

\* Sending a signal to a thread that neither polls nor uses msleep().
LEMMA SignalLemma ==
    ASSUME IInv, NEW u \in Threads \ (Pollers \cup Sleepers), thread_poke(u),
           UNCHANGED <<mode, insem, sleep_timers>>, AwakeMoves
    PROVE  CoreInv' /\ NoPanic'
<1>1. UNCHANGED <<active, current, poll_threads, suspended_threads, sched_lock,
                  panicked>>
    BY DEF thread_poke
<1>2. /\ SchedTypeOK' /\ CurrentInv' /\ QueueInv' /\ StateInv' /\ ModeInv' /\ IrqInv'
      /\ \A x \in Threads \ {u} : state'[x] = state[x]
    <2>1. CASE state[u] = "SLEEPING"
        <3>1. do_wake(u)
            BY <2>1 DEF thread_poke
        <3>2. /\ state' = [state EXCEPT ![u] = "AWAKE"]
              /\ \A x \in Threads \ {u} : state'[x] = state[x]
              /\ queued_threads' \in Seq(Threads)
              /\ CurrentInv' /\ QueueInv' /\ StateInv' /\ ModeInv' /\ IrqInv'
            BY <1>1, <2>1, <3>1, WakeStepLemma
        <3>3. SchedTypeOK'
            BY <1>1, <3>2 DEF IInv, TypeOK, SchedTypeOK, ThreadState
        <3> QED  BY <3>2, <3>3
    <2>2. CASE state[u] # "SLEEPING"
        <3>1. UNCHANGED <<state, queued_threads>>
            BY <2>2 DEF thread_poke
        <3>2. SchedTypeOK' /\ CurrentInv' /\ QueueInv'
            BY <1>1, <3>1 DEF IInv, TypeOK, SchedTypeOK, CurrentInv, QueueInv
        <3>3. ModeInv' /\ IrqInv'
            <4>1. ModeInv'
                BY <1>1, <3>1 DEF IInv, ModeInv
            <4>2. ASSUME NEW d \in Cpus, NEW x \in Threads, current[d] = x,
                         pc'[x] = "arm"
                  PROVE  mode[d] = "run"
                <5>1. pc[x] = "arm"
                    BY <4>2 DEF AwakeMoves
                <5> QED  BY <4>2, <5>1 DEF IInv, IrqInv
            <4> QED  BY <1>1, <4>1, <4>2 DEF IrqInv
        <3>4. StateInv'
            <4> SUFFICES ASSUME NEW x \in Threads, state[x] # "AWAKE"
                         PROVE  /\ state[x] = "SLEEPING" => Asleep(x)'
                                /\ pc'[x] = pc[x]
                BY <1>1, <3>1 DEF IInv, StateInv
            <4>1. pc'[x] = pc[x]
                BY DEF AwakeMoves
            <4>2. Asleep(x) => Asleep(x)'
                BY <1>1, <4>1 DEF Asleep
            <4> QED  BY <4>1, <4>2 DEF IInv, StateInv
        <3> QED  BY <3>1, <3>2, <3>3, <3>4
    <2> QED  BY <2>1, <2>2
<1>3. PollInv'
    <2>1. ~OnList(u, poll_threads)
        BY DEF IInv, PollInv
    <2> QED  BY <1>1, <1>2, <2>1 DEF IInv, PollInv, AwakeMoves
<1>4. TimerInv'
    <2>1. u \notin sleep_timers /\ sleep_timers \subseteq Threads
        BY DEF IInv, TimerInv, TypeOK, KernelTypeOK
    <2>2. pc[u] # "arm"
        BY DEF IInv, TimerInv
    <2> QED  BY <1>2, <2>1, <2>2 DEF IInv, TimerInv, AwakeMoves
<1>5. NoPanic'
    BY <1>1 DEF IInv, NoPanic
<1> QED  BY <1>2, <1>3, <1>4, <1>5 DEF CoreInv

\* A CPU switches threads; the thread that called sched_switch() will go on
\* behind the call.
LEMMA SwitchStepLemma ==
    ASSUME IInv, NEW c \in Cpus, do_sched_switch(c),
           mode'[c] = "run", \A d \in Cpus \ {c} : mode'[d] = mode[d],
           UNCHANGED <<insem, sleep_timers>>,
           \A x \in Threads :
               \/ pc'[x] = pc[x]
               \/ /\ x = current[c]
                  /\ \/ pc[x] = "yield" /\ pc'[x] = "relock"
                     \/ pc[x] = "pyield" /\ pc'[x] = "poll"
                     \/ pc[x] = "tyield" /\ pc'[x] = "tret",
           \A x \in Threads : pc[x] = "arm" => x # current[c]
    PROVE  CoreInv' /\ NoPanic'
<1>1. /\ SchedTypeOK' /\ NoPanic' /\ CurrentInv' /\ QueueInv'
      /\ \A d \in Cpus \ {c} : current'[d] = current[d]
      /\ current'[c] \in Threads => state[current'[c]] = "AWAKE"
      /\ UNCHANGED <<state, poll_threads, suspended_threads>>
    BY SwitchLemma DEF IInv, TypeOK
<1>2. ASSUME NEW x \in Threads, state[x] # "AWAKE"
      PROVE  /\ active'[x] <=> \E d \in Cpus \ {c} : current[d] = x
             /\ current'[c] # x
             /\ active'[x] => active[x] /\ pc'[x] = pc[x]
    <2>1. current'[c] # x
        BY <1>1, <1>2
    <2>2. active'[x] <=> \E d \in Cpus \ {c} : current[d] = x
        BY <1>1, <2>1, SMT DEF CurrentInv
    <2>3. (\E d \in Cpus \ {c} : current[d] = x) => active[x] /\ x # current[c]
        <3>1. active[x] <=> \E d \in Cpus : current[d] = x
            BY DEF IInv, CurrentInv
        <3>2. \A d \in Cpus : current[d] = current[c] => d = c
            BY DEF IInv, CurrentInv
        <3> QED  BY <3>1, <3>2
    <2> QED  BY <2>1, <2>2, <2>3
<1>3. ASSUME NEW x \in Threads, state[x] = "SLEEPING" PROVE Asleep(x)'
    <2>1. Asleep(x)
        BY <1>3 DEF IInv, StateInv
    <2>2. CASE pc[x] = "arm" /\ active[x]
        <3>1. PICK d \in Cpus : current[d] = x
            BY <2>2 DEF IInv, CurrentInv
        <3>2. d # c /\ pc'[x] = "arm"
            BY <2>2, <3>1
        <3> QED  BY <1>2, <1>3, <3>1, <3>2 DEF Asleep
    <2>3. CASE ~(pc[x] = "arm" /\ active[x])
        BY <1>1, <2>1, <2>3 DEF Asleep
    <2> QED  BY <2>2, <2>3
<1>4. StateInv'
    <2> SUFFICES ASSUME NEW x \in Threads, state[x] # "AWAKE"
                 PROVE  /\ state[x] = "SLEEPING" => Asleep(x)'
                        /\ state[x] = "SLEEPING" /\ active'[x] =>
                              pc'[x] \in {"yield", "pyield", "arm", "tyield"}
                        /\ state[x] = "EXITED" => pc'[x] = "user"
                        /\ state[x] = "EXITED" => \A d \in Cpus :
                                         current'[d] = x => mode'[d] = "switch"
                        /\ state[x] = "BUILDING" =>
                              ~active'[x] /\ pc'[x] \in {"user", "kern"}
        BY <1>1 DEF StateInv
    <2>1. state[x] = "SLEEPING" /\ active'[x] =>
              pc'[x] \in {"yield", "pyield", "arm", "tyield"}
        BY <1>2 DEF IInv, StateInv
    <2>2. state[x] = "EXITED" =>
              /\ pc'[x] = "user"
              /\ \A d \in Cpus : current'[d] = x => mode'[d] = "switch"
        <3>1. state[x] = "EXITED" =>
                 /\ pc[x] = "user"
                 /\ \A d \in Cpus : current[d] = x => mode[d] = "switch"
            BY DEF IInv, StateInv
        <3>2. pc[x] = "user" => pc'[x] = "user"
            OBVIOUS
        <3>3. \A d \in Cpus : current'[d] = x => current[d] = x /\ d # c
            BY <1>1, <1>2
        <3> QED  BY <3>1, <3>2, <3>3
    <2>3. state[x] = "BUILDING" => ~active'[x] /\ pc'[x] \in {"user", "kern"}
        BY <1>2 DEF IInv, StateInv
    <2> QED  BY <1>3, <2>1, <2>2, <2>3
<1>5. ModeInv'
    <2>1. ASSUME NEW d \in Cpus \ {c}, mode[d] = "switch", current[d] \in Threads
          PROVE  state[current[d]] = "EXITED"
        BY <2>1 DEF IInv, ModeInv
    <2>2. ASSUME NEW d \in Cpus, mode'[d] = "switch", current'[d] \in Threads
          PROVE  state'[current'[d]] = "EXITED"
        <3>1. d # c
            BY <2>2
        <3> QED  BY <1>1, <2>1, <2>2, <3>1, SMT
    <2> QED  BY <2>2 DEF ModeInv
<1>6. PollInv'
    BY <1>1 DEF IInv, PollInv
<1>7. TimerInv'
    <2>1. sleep_timers \subseteq Threads
        BY DEF IInv, TypeOK, KernelTypeOK
    <2> QED  BY <1>1, <2>1 DEF IInv, TimerInv
<1>8. IrqInv'
    <2> SUFFICES ASSUME NEW d \in Cpus, NEW x \in Threads,
                        current'[d] = x, pc'[x] = "arm"
                 PROVE  mode'[d] = "run"
        BY DEF IrqInv
    <2> QED  BY <1>1, ZenonT(30) DEF IInv, IrqInv
<1> QED  BY <1>1, <1>4, <1>5, <1>6, <1>7, <1>8 DEF CoreInv

\* An executing thread prepares to sleep, known to its waker.
LEMMA SleepLemma ==
    ASSUME IInv, NEW c \in Cpus, NEW t \in Threads,
           NEW loc \in {"yield", "pyield", "arm"},
           mode[c] = "run", current[c] = t, state[t] = "AWAKE",
           state' = [state EXCEPT ![t] = "SLEEPING"],
           pc' = [pc EXCEPT ![t] = loc],
           UNCHANGED <<active, queued_threads, current, mode, insem, sleep_timers>>,
           \A x \in Threads : OnList(x, poll_threads) => OnList(x, poll_threads'),
           Asleep(t)'
    PROVE  /\ CurrentInv' /\ QueueInv' /\ StateInv' /\ ModeInv' /\ IrqInv'
           /\ state' \in [Threads -> ThreadState] /\ pc' \in [Threads -> Pc]
           /\ state'[t] = "SLEEPING" /\ pc'[t] = loc
           /\ \A x \in Threads \ {t} : state'[x] = state[x] /\ pc'[x] = pc[x]
<1>1. /\ state' \in [Threads -> ThreadState] /\ pc' \in [Threads -> Pc]
      /\ state'[t] = "SLEEPING" /\ pc'[t] = loc
      /\ \A x \in Threads \ {t} : state'[x] = state[x] /\ pc'[x] = pc[x]
    BY DEF IInv, TypeOK, SchedTypeOK, KernelTypeOK, ThreadState, Pc
<1>2. active[t] /\ \A d \in Cpus \ {c} : current[d] # t
    BY RunsLemma
<1>3. CurrentInv'
    BY SMT DEF IInv, CurrentInv
<1>4. QueueInv'
    <2>1. /\ NoDuplicates(queued_threads)
          /\ \A x \in Threads :
                OnList(x, queued_threads) <=> state[x] = "AWAKE" /\ ~active[x]
        BY DEF IInv, QueueInv
    <2>2. \A x \in Threads :
             OnList(x, queued_threads) <=> state'[x] = "AWAKE" /\ ~active[x]
        BY <1>1, <1>2, <2>1, SMT
    <2> QED  BY <2>1, <2>2 DEF QueueInv
<1>5. StateInv'
    <2>1. ASSUME NEW x \in Threads \ {t}, Asleep(x) PROVE Asleep(x)'
        BY <1>1, <2>1 DEF Asleep
    <2>2. ASSUME NEW x \in Threads \ {t}
          PROVE  /\ state[x] = "SLEEPING" => Asleep(x)
                 /\ state[x] = "SLEEPING" /\ active[x] =>
                       pc[x] \in {"yield", "pyield", "arm", "tyield"}
                 /\ state[x] = "EXITED" => pc[x] = "user"
                 /\ state[x] = "EXITED" => \A d \in Cpus :
                                              current[d] = x => mode[d] = "switch"
                 /\ state[x] = "BUILDING" => ~active[x] /\ pc[x] \in {"user", "kern"}
        BY DEF IInv, StateInv
    <2>3. ASSUME NEW x \in Threads \ {t}
          PROVE  /\ state'[x] = "SLEEPING" => Asleep(x)'
                 /\ state'[x] = "SLEEPING" /\ active'[x] =>
                       pc'[x] \in {"yield", "pyield", "arm", "tyield"}
                 /\ state'[x] = "EXITED" => pc'[x] = "user"
                 /\ state'[x] = "EXITED" => \A d \in Cpus :
                                     current'[d] = x => mode'[d] = "switch"
                 /\ state'[x] = "BUILDING" =>
                       ~active'[x] /\ pc'[x] \in {"user", "kern"}
        <3>1. state'[x] = state[x] /\ pc'[x] = pc[x] /\ active'[x] = active[x]
            BY <1>1
        <3> QED  BY <2>1, <2>2, <3>1
    <2>4. state'[t] = "SLEEPING" /\ pc'[t] \in {"yield", "pyield", "arm", "tyield"}
        BY <1>1
    <2> QED  BY <2>3, <2>4 DEF StateInv
<1>6. ModeInv'
    BY <1>1, <1>2 DEF IInv, ModeInv
<1>7. IrqInv'
    <2>1. ASSUME NEW d \in Cpus, NEW x \in Threads, current[d] = x, pc'[x] = "arm"
          PROVE  mode[d] = "run"
        <3>1. CASE x = t
            BY <1>2, <2>1, <3>1
        <3>2. CASE x # t
            <4>1. pc[x] = "arm"
                BY <1>1, <2>1, <3>2
            <4> QED  BY <2>1, <4>1 DEF IInv, IrqInv
        <3> QED  BY <3>1, <3>2
    <2> QED  BY <2>1 DEF IrqInv
<1> QED  BY <1>1, <1>3, <1>4, <1>5, <1>6, <1>7

\* A step that leaves the semaphores alone and moves one thread, if any,
\* between places outside the semaphore code.
LEMMA SemFrame ==
    ASSUME IInv, UNCHANGED semVars, NEW t \in Threads,
           pc[t] \notin SemPcs, pc'[t] \notin SemPcs,
           \A u \in Threads \ {t} : pc'[u] = pc[u] /\ wait_on'[u] = wait_on[u]
    PROVE  SemInv' /\ SemTypeOK'
<1>1. ~insem[t]
    BY DEF IInv, SemInv
<1>2. \A s \in Sems : ~OnList(t, waiters[s])
    BY <1>1 DEF IInv, SemInv
<1>3. UNCHANGED <<sem_lock, sem_count, waiters, insem>>
    BY DEF semVars
<1>4. \A u \in Threads : pc'[u] \in SemPcs => u # t /\ pc[u] \in SemPcs
    OBVIOUS
<1>5. \A s \in Sems : NoDuplicates(waiters'[s])
    BY <1>3 DEF IInv, SemInv
<1>6. ASSUME NEW s \in Sems, NEW u \in Threads
      PROVE  OnList(u, waiters'[s]) <=> insem'[u] /\ wait_on'[u] = s
    BY <1>1, <1>2, <1>3 DEF IInv, SemInv
<1>7. ASSUME NEW u \in Threads
      PROVE  insem'[u] => pc'[u] \in SemPcs
    BY <1>1, <1>3 DEF IInv, SemInv
<1>8. ASSUME NEW u \in Threads, pc'[u] \in SemPcs
      PROVE  /\ wait_on'[u] \in Sems
             /\ u \in Consumers[wait_on'[u]]
             /\ insem'[u] \/ sem_count'[wait_on'[u]] > 0
    BY <1>3, <1>4, <1>8 DEF IInv, SemInv
<1>9. ASSUME NEW u \in Threads, pc'[u] \in {"cond", "prepare"}
      PROVE  insem'[u] /\ sem_lock'[wait_on'[u]] = u
    BY <1>3, <1>4, <1>9 DEF IInv, SemInv, SemPcs
<1>10. SemTypeOK'
    BY <1>3 DEF IInv, TypeOK, SemTypeOK
<1> QED  BY <1>5, <1>6, <1>7, <1>8, <1>9, <1>10 DEF SemInv

\* semaphore_up(): the waiter that is taken off the list finds a count.
LEMMA UpLemma ==
    ASSUME IInv, NEW s \in Sems, semaphore_up(s), UNCHANGED <<mode, pc, taskVars>>
    PROVE  /\ CoreInv' /\ NoPanic' /\ SemTypeOK' /\ SemInv'
           /\ sem_count'[s] = sem_count[s] + 1
           /\ \A r \in Sems \ {s} : sem_count'[r] = sem_count[r]
<1>1. /\ sem_lock[s] = NoThread
      /\ sem_count' = [sem_count EXCEPT ![s] = sem_count[s] + 1]
      /\ UNCHANGED <<sem_lock, wait_on, sleep_timers>>
    BY DEF semaphore_up, SemLockFree, taskVars
<1>2. sem_count \in [Sems -> Nat]
    BY DEF IInv, TypeOK, SemTypeOK
<1>3. /\ sem_count' \in [Sems -> Nat]
      /\ sem_count'[s] = sem_count[s] + 1
      /\ \A r \in Sems \ {s} : sem_count'[r] = sem_count[r]
    BY <1>1, <1>2, SMT
<1>4. \A r \in Sems : sem_count[r] > 0 => sem_count'[r] > 0
    BY <1>2, <1>3, SMT
<1>5. CASE waiters[s] = <<>>
    <2>1. UNCHANGED <<waiters, insem, schedVars>>
        BY <1>5 DEF semaphore_up
    <2>2. SchedTypeOK' /\ NoPanic' /\ CurrentInv' /\ QueueInv'
        BY <2>1 DEF schedVars, IInv, TypeOK, SchedTypeOK, NoPanic, CurrentInv, QueueInv
    <2>3. StateInv' /\ ModeInv' /\ IrqInv'
        BY <1>1, <2>1 DEF schedVars, IInv, StateInv, Asleep, ModeInv, IrqInv
    <2>4. PollInv' /\ TimerInv'
        BY <1>1, <2>1 DEF schedVars, IInv, PollInv, TimerInv
    <2>5. SemTypeOK'
        BY <1>1, <1>3, <2>1 DEF IInv, TypeOK, SemTypeOK
    <2>6. SemInv'
        BY <1>1, <1>4, <2>1 DEF IInv, SemInv
    <2> QED  BY <1>3, <2>2, <2>3, <2>4, <2>5, <2>6 DEF CoreInv
<1>6. CASE waiters[s] # <<>>
    <2> DEFINE u == Head(waiters[s])
    <2>1. /\ waiters' = [waiters EXCEPT ![s] = Tail(waiters[s])]
          /\ insem' = [insem EXCEPT ![u] = FALSE]
          /\ panicked' = (panicked \/ ~insem[u])
          /\ do_wake(u)
          /\ UNCHANGED <<active, current, poll_threads, suspended_threads, sched_lock>>
        BY <1>6 DEF semaphore_up, BugOn
    <2>2. waiters[s] \in Seq(Threads) /\ NoDuplicates(waiters[s])
        BY DEF IInv, TypeOK, SemTypeOK, SemInv
    <2>3. /\ u \in Threads
          /\ Tail(waiters[s]) \in Seq(Threads)
          /\ OnList(u, waiters[s])
          /\ NoDuplicates(Tail(waiters[s]))
          /\ \A x : OnList(x, Tail(waiters[s])) <=> OnList(x, waiters[s]) /\ x # u
        BY <1>6, <2>2, TailLemma
    <2> HIDE DEF u
    <2>4. waiters \in [Sems -> Seq(Threads)] /\ insem \in [Threads -> BOOLEAN]
        BY DEF IInv, TypeOK, SemTypeOK
    <2>5. /\ waiters'[s] = Tail(waiters[s])
          /\ \A r \in Sems \ {s} : waiters'[r] = waiters[r]
          /\ ~insem'[u] /\ \A x \in Threads \ {u} : insem'[x] = insem[x]
        BY <2>1, <2>3, <2>4
    <2>6. insem[u] /\ wait_on[u] = s /\ pc[u] \in SemPcs
        BY <2>3 DEF IInv, SemInv
    <2>7. pc[u] \in {"yield", "relock"}
        BY <1>1, <2>3, <2>6, SemaphoreAssumption DEF IInv, SemInv, SemPcs
    <2>8. state[u] \in {"SLEEPING", "AWAKE"}
        BY <2>3, <2>7 DEF IInv, StateInv, TypeOK, SchedTypeOK, ThreadState
    <2>9. /\ state' = [state EXCEPT ![u] = "AWAKE"]
          /\ state'[u] = "AWAKE" /\ \A x \in Threads \ {u} : state'[x] = state[x]
          /\ queued_threads' \in Seq(Threads)
          /\ CurrentInv' /\ QueueInv' /\ StateInv' /\ ModeInv' /\ IrqInv'
        <3>1. AwakeMoves
            BY DEF AwakeMoves
        <3>2. \A x \in Threads \ {u} :
                /\ insem'[x] = insem[x]
                /\ x \in sleep_timers => x \in sleep_timers'
                /\ OnList(x, poll_threads) => OnList(x, poll_threads')
            BY <1>1, <2>1, <2>5
        <3> QED  BY <2>1, <2>3, <2>8, <3>1, <3>2, WakeStepLemma
    <2>10. NoPanic'
        BY <2>1, <2>6 DEF IInv, NoPanic
    <2>11. SchedTypeOK'
        <3>1. state' \in [Threads -> ThreadState]
            BY <2>9 DEF IInv, TypeOK, SchedTypeOK, ThreadState
        <3>2. panicked' \in BOOLEAN
            BY <2>1
        <3> QED  BY <2>1, <2>9, <3>1, <3>2 DEF IInv, TypeOK, SchedTypeOK
    <2>12. PollInv'
        BY <2>1, <2>7, <2>9 DEF IInv, PollInv
    <2>13. TimerInv'
        <3>1. sleep_timers \subseteq Threads
            BY DEF IInv, TypeOK, KernelTypeOK
        <3> QED  BY <1>1, <2>7, <2>9, <3>1 DEF IInv, TimerInv
    <2>14. SemTypeOK'
        BY <1>1, <1>3, <2>1, <2>3, <2>4 DEF IInv, TypeOK, SemTypeOK
    <2>15. \A r \in Sems : NoDuplicates(waiters'[r])
        BY <2>3, <2>5 DEF IInv, SemInv
    <2>16. ASSUME NEW r \in Sems, NEW x \in Threads
           PROVE  OnList(x, waiters'[r]) <=> insem'[x] /\ wait_on'[x] = r
        <3>0. OnList(x, waiters[r]) <=> insem[x] /\ wait_on[x] = r
            BY DEF IInv, SemInv
        <3>1. CASE r = s
            <4>1. OnList(x, waiters'[r]) <=> x # u /\ OnList(x, waiters[r])
                BY <2>3, <2>5, <3>1
            <4> QED  BY <1>1, <2>5, <3>0, <4>1
        <3>2. CASE r # s
            <4>1. waiters'[r] = waiters[r]
                BY <2>5, <3>2
            <4> QED  BY <1>1, <2>5, <2>6, <3>0, <3>2, <4>1
        <3> QED  BY <3>1, <3>2
    <2>17. \A x \in Threads : insem'[x] => pc'[x] \in SemPcs
        BY <2>5 DEF IInv, SemInv
    <2>18. ASSUME NEW x \in Threads, pc'[x] \in SemPcs
           PROVE  /\ wait_on'[x] \in Sems
                  /\ x \in Consumers[wait_on'[x]]
                  /\ insem'[x] \/ sem_count'[wait_on'[x]] > 0
        <3>1. CASE x = u
            <4>1. sem_count'[s] > 0
                BY <1>2, <1>3, SMT
            <4> QED  BY <1>1, <2>6, <2>18, <3>1, <4>1 DEF IInv, SemInv
        <3>2. CASE x # u
            BY <1>1, <1>4, <2>5, <2>18, <3>2 DEF IInv, SemInv
        <3> QED  BY <3>1, <3>2
    <2>19. ASSUME NEW x \in Threads, pc'[x] \in {"cond", "prepare"}
           PROVE  insem'[x] /\ sem_lock'[wait_on'[x]] = x
        BY <1>1, <2>5, <2>7, <2>19 DEF IInv, SemInv
    <2>20. SemInv'
        BY <2>15, <2>16, <2>17, <2>18, <2>19 DEF SemInv
    <2> QED  BY <1>3, <2>9, <2>10, <2>11, <2>12, <2>13, <2>14, <2>20 DEF CoreInv
<1> QED  BY <1>5, <1>6
-----------------------------------------------------------------------------
(***************************************************************************)
(* The steps of the threads: system calls, semaphores, ktaskd, waitpid()   *)
(* and msleep().                                                           *)
(***************************************************************************)

\* The invariant but for its last conjunct, which InitRunsLemma is about.
SysInv ==
    /\ TypeOK /\ NoPanic /\ CurrentInv /\ QueueInv /\ StateInv /\ ModeInv
    /\ PollInv /\ TimerInv /\ SemInv /\ RequestInv /\ IrqInv

\* The parts of the invariant, as the steps below establish them.
LEMMA Assemble ==
    ASSUME CoreInv', NoPanic', SemTypeOK', KernelTypeOK', SemInv', RequestInv'
    PROVE  SysInv'
BY DEF SysInv, TypeOK, CoreInv

\* A system call.
LEMMA SyscallInv ==
    ASSUME IInv, NEW c \in Cpus, NEW t \in Threads, Syscall(c, t)
    PROVE  SysInv'
<1>1. mode[c] = "run" /\ current[c] = t /\ pc[t] = "user"
    BY DEF Syscall, Runs
<1>2. state[t] = "AWAKE"
    BY <1>1, RunsLemma
<1>3. /\ UNCHANGED <<schedVars, semVars, taskVars, reqs, mode>>
      /\ pc' = [pc EXCEPT ![t] = "kern"]
    BY DEF Syscall, Goto
<1>4. NoPanic' /\ panicked' \in BOOLEAN
    BY <1>3 DEF schedVars, IInv, TypeOK, SchedTypeOK, NoPanic
<1>5. /\ CoreInv' /\ pc' \in [Threads -> Pc] /\ mode' \in [Cpus -> Mode]
      /\ pc'[t] = "kern" /\ \A x \in Threads \ {t} : pc'[x] = pc[x]
    BY <1>1, <1>2, <1>3, <1>4, MoveLemma
       DEF schedVars, semVars, taskVars, Pc
<1>6. SemInv' /\ SemTypeOK'
    BY <1>1, <1>3, <1>5, SemFrame DEF taskVars, SemPcs
<1>7. KernelTypeOK'
    BY <1>3, <1>5 DEF taskVars, IInv, TypeOK, KernelTypeOK
<1>8. RequestInv'
    BY <1>1, <1>3, <1>5, KernelAssumption
       DEF semVars, IInv, RequestInv, KtaskdCountsRequests
<1> QED  BY <1>4, <1>5, <1>6, <1>7, <1>8, Assemble

\* The return from a system call.
LEMMA SyscallReturnInv ==
    ASSUME IInv, NEW c \in Cpus, NEW t \in Threads, SyscallReturn(c, t)
    PROVE  SysInv'
<1>1. mode[c] = "run" /\ current[c] = t /\ pc[t] \in {"kern", "ret", "tret"}
    BY DEF SyscallReturn, Runs
<1>2. state[t] = "AWAKE"
    BY <1>1, RunsLemma
<1>3. /\ UNCHANGED <<schedVars, semVars, taskVars, reqs>>
      /\ pc' = [pc EXCEPT ![t] = "user"]
      /\ mode' = [mode EXCEPT ![c] = "isr"]
    BY DEF SyscallReturn
<1>4. NoPanic' /\ panicked' \in BOOLEAN
    BY <1>3 DEF schedVars, IInv, TypeOK, SchedTypeOK, NoPanic
<1>5. /\ CoreInv' /\ pc' \in [Threads -> Pc] /\ mode' \in [Cpus -> Mode]
      /\ pc'[t] = "user" /\ \A x \in Threads \ {t} : pc'[x] = pc[x]
    BY <1>1, <1>2, <1>3, <1>4, MoveLemma
       DEF schedVars, semVars, taskVars, Pc
<1>6. SemInv' /\ SemTypeOK'
    BY <1>1, <1>3, <1>5, SemFrame DEF taskVars, SemPcs
<1>7. KernelTypeOK'
    BY <1>3, <1>5 DEF taskVars, IInv, TypeOK, KernelTypeOK
<1>8. RequestInv'
    BY <1>1, <1>3, <1>5, KernelAssumption
       DEF semVars, IInv, RequestInv, KtaskdCountsRequests
<1> QED  BY <1>4, <1>5, <1>6, <1>7, <1>8, Assemble

\* execve().
LEMMA EnterUserlandInv ==
    ASSUME IInv, NEW c \in Cpus, NEW t \in Threads, EnterUserland(c, t)
    PROVE  SysInv'
<1>1. mode[c] = "run" /\ current[c] = t /\ pc[t] = "kern"
    BY DEF EnterUserland, Runs
<1>2. state[t] = "AWAKE"
    BY <1>1, RunsLemma
<1>3. /\ UNCHANGED <<schedVars, semVars, taskVars, reqs, mode>>
      /\ pc' = [pc EXCEPT ![t] = "user"]
    BY DEF EnterUserland, Goto
<1>4. NoPanic' /\ panicked' \in BOOLEAN
    BY <1>3 DEF schedVars, IInv, TypeOK, SchedTypeOK, NoPanic
<1>5. /\ CoreInv' /\ pc' \in [Threads -> Pc] /\ mode' \in [Cpus -> Mode]
      /\ pc'[t] = "user" /\ \A x \in Threads \ {t} : pc'[x] = pc[x]
    BY <1>1, <1>2, <1>3, <1>4, MoveLemma
       DEF schedVars, semVars, taskVars, Pc
<1>6. SemInv' /\ SemTypeOK'
    BY <1>1, <1>3, <1>5, SemFrame DEF taskVars, SemPcs
<1>7. KernelTypeOK'
    BY <1>3, <1>5 DEF taskVars, IInv, TypeOK, KernelTypeOK
<1>8. RequestInv'
    BY <1>1, <1>3, <1>5, KernelAssumption
       DEF semVars, IInv, RequestInv, KtaskdCountsRequests
<1> QED  BY <1>4, <1>5, <1>6, <1>7, <1>8, Assemble

\* _exit().
LEMMA ExitInv ==
    ASSUME IInv, NEW c \in Cpus, NEW t \in Threads, Exit(c, t)
    PROVE  SysInv'
<1>1. mode[c] = "run" /\ current[c] = t /\ pc[t] = "kern"
    BY DEF Exit, Runs
<1>2. state[t] = "AWAKE"
    BY <1>1, RunsLemma
<1>3. /\ UNCHANGED <<schedVars, semVars, wait_on, ignore_sigs, sig_pending>>
      /\ UNCHANGED <<sleep_timers, reqs, mode>>
      /\ exit_state' = [exit_state EXCEPT ![t] = "EXITING"]
      /\ should_die' = [should_die EXCEPT ![t] = TRUE]
      /\ pc' = [pc EXCEPT ![t] = "ret"]
    BY DEF Exit, Goto
<1>4. NoPanic' /\ panicked' \in BOOLEAN
    BY <1>3 DEF schedVars, IInv, TypeOK, SchedTypeOK, NoPanic
<1>5. /\ CoreInv' /\ pc' \in [Threads -> Pc] /\ mode' \in [Cpus -> Mode]
      /\ pc'[t] = "ret" /\ \A x \in Threads \ {t} : pc'[x] = pc[x]
    BY <1>1, <1>2, <1>3, <1>4, MoveLemma DEF schedVars, semVars, Pc
<1>6. SemInv' /\ SemTypeOK'
    BY <1>1, <1>3, <1>5, SemFrame DEF SemPcs
<1>7. KernelTypeOK'
    BY <1>3, <1>5 DEF IInv, TypeOK, KernelTypeOK
<1>8. RequestInv'
    BY <1>1, <1>3, <1>5, KernelAssumption
       DEF semVars, IInv, RequestInv, KtaskdCountsRequests
<1> QED  BY <1>4, <1>5, <1>6, <1>7, <1>8, Assemble

\* waitpid() begins to poll.
LEMMA WaitPidInv ==
    ASSUME IInv, NEW c \in Cpus, NEW t \in Threads, NEW child \in Threads,
           WaitPid(c, t, child)
    PROVE  SysInv'
<1>1. mode[c] = "run" /\ current[c] = t /\ pc[t] = "kern" /\ t \in Pollers
    BY DEF WaitPid, Runs
<1>2. state[t] = "AWAKE"
    BY <1>1, RunsLemma
<1>3. /\ UNCHANGED <<schedVars, semVars, ignore_sigs, exit_state, should_die>>
      /\ UNCHANGED <<sig_pending, sleep_timers, reqs, mode>>
      /\ wait_on' = [wait_on EXCEPT ![t] = child]
      /\ pc' = [pc EXCEPT ![t] = "poll"]
    BY DEF WaitPid, Goto
<1>4. NoPanic' /\ panicked' \in BOOLEAN
    BY <1>3 DEF schedVars, IInv, TypeOK, SchedTypeOK, NoPanic
<1>5. /\ CoreInv' /\ pc' \in [Threads -> Pc] /\ mode' \in [Cpus -> Mode]
      /\ pc'[t] = "poll" /\ \A x \in Threads \ {t} : pc'[x] = pc[x]
    BY <1>1, <1>2, <1>3, <1>4, MoveLemma DEF schedVars, semVars, Pc
<1>6. KernelTypeOK' /\ \A x \in Threads \ {t} : wait_on'[x] = wait_on[x]
    BY <1>3, <1>5 DEF IInv, TypeOK, KernelTypeOK
<1>7. SemInv' /\ SemTypeOK'
    BY <1>1, <1>3, <1>5, <1>6, SemFrame DEF SemPcs
<1>8. RequestInv'
    BY <1>1, <1>3, <1>5, KernelAssumption
       DEF semVars, IInv, RequestInv, KtaskdCountsRequests
<1> QED  BY <1>4, <1>5, <1>6, <1>7, <1>8, Assemble

\* waitpid() evaluates its condition.
LEMMA PollCondInv ==
    ASSUME IInv, NEW c \in Cpus, NEW t \in Threads, PollCond(c, t)
    PROVE  SysInv'
<1>1. mode[c] = "run" /\ current[c] = t /\ pc[t] = "poll" /\ t \in Pollers
    BY DEF PollCond, Runs, IInv, PollInv
<1>2. state[t] = "AWAKE"
    BY <1>1, RunsLemma
<1>3. /\ UNCHANGED <<schedVars, semVars, exit_state, should_die>>
      /\ UNCHANGED <<sig_pending, sleep_timers, reqs, mode>>
      /\ wait_on' = wait_on \/ wait_on' = [wait_on EXCEPT ![t] = NoThread]
      /\ ignore_sigs' = ignore_sigs \/ ignore_sigs' = [ignore_sigs EXCEPT ![t] = FALSE]
    BY DEF PollCond, Goto, Forget, taskVars
<1>4. PICK loc \in {"kern", "suspend"} : pc' = [pc EXCEPT ![t] = loc]
    BY DEF PollCond, Goto
<1>5. NoPanic' /\ panicked' \in BOOLEAN
    BY <1>3 DEF schedVars, IInv, TypeOK, SchedTypeOK, NoPanic
<1>6. /\ CoreInv' /\ pc' \in [Threads -> Pc] /\ mode' \in [Cpus -> Mode]
      /\ pc'[t] = loc /\ \A x \in Threads \ {t} : pc'[x] = pc[x]
    BY <1>1, <1>2, <1>3, <1>4, <1>5, MoveLemma DEF schedVars, semVars, Pc
<1>7. KernelTypeOK' /\ \A x \in Threads \ {t} : wait_on'[x] = wait_on[x]
    BY <1>3, <1>6 DEF IInv, TypeOK, KernelTypeOK
<1>8. SemInv' /\ SemTypeOK'
    BY <1>1, <1>3, <1>6, <1>7, SemFrame DEF SemPcs
<1>9. RequestInv'
    BY <1>1, <1>3, <1>6, KernelAssumption
       DEF semVars, IInv, RequestInv, KtaskdCountsRequests
<1> QED  BY <1>5, <1>6, <1>7, <1>8, <1>9, Assemble

\* ktaskd takes a request off its list.
LEMMA KtaskdTakeInv ==
    ASSUME IInv, NEW c \in Cpus, KtaskdTake(c)
    PROVE  SysInv'
<1>1. /\ mode[c] = "run" /\ current[c] = Ktaskd /\ pc[Ktaskd] = "take"
      /\ Ktaskd \in Threads /\ KtaskdSem \in Sems
    BY KernelAssumption DEF KtaskdTake, Runs
<1>2. state[Ktaskd] = "AWAKE"
    BY <1>1, RunsLemma
<1>3. UNCHANGED <<schedVars, semVars, taskVars, mode>>
    BY DEF KtaskdTake, Goto
<1>4. PICK loc \in {"kern", "spawn"} : pc' = [pc EXCEPT ![Ktaskd] = loc]
    BY DEF KtaskdTake, Goto
<1>5. NoPanic' /\ panicked' \in BOOLEAN
    BY <1>3 DEF schedVars, IInv, TypeOK, SchedTypeOK, NoPanic
<1>6. /\ CoreInv' /\ pc' \in [Threads -> Pc] /\ mode' \in [Cpus -> Mode]
      /\ pc'[Ktaskd] = loc /\ \A x \in Threads \ {Ktaskd} : pc'[x] = pc[x]
    BY <1>1, <1>2, <1>3, <1>4, <1>5, MoveLemma
       DEF schedVars, semVars, taskVars, Pc
<1>7. SemInv' /\ SemTypeOK'
    BY <1>1, <1>3, <1>6, SemFrame DEF taskVars, SemPcs
<1>8. reqs = sem_count[KtaskdSem] + 1 /\ sem_count[KtaskdSem] \in Nat
    BY <1>1 DEF IInv, RequestInv, KtaskdCountsRequests, TypeOK, SemTypeOK
<1>9. reqs' = sem_count[KtaskdSem]
    BY <1>8, SMT DEF KtaskdTake
<1>10. KernelTypeOK'
    BY <1>3, <1>6, <1>8, <1>9 DEF taskVars, IInv, TypeOK, KernelTypeOK
<1>11. RequestInv'
    BY <1>3, <1>6, <1>8, <1>9, SMT
       DEF semVars, IInv, RequestInv, KtaskdCountsRequests
<1> QED  BY <1>5, <1>6, <1>7, <1>10, <1>11, Assemble

-----------------------------------------------------------------------------
(***************************************************************************)
(* The semaphore operations.                                               *)
(***************************************************************************)

\* Obtained() by a thread that is, or is not, ktaskd: what ktaskd's semaphore
\* counts.
LEMMA ObtainRequest ==
    ASSUME IInv, NEW t \in Threads, NEW s \in Sems, t \in Consumers[s],
           pc[t] # "take", sem_count[s] > 0,
           sem_count'[s] = sem_count[s] - 1,
           \A r \in Sems \ {s} : sem_count'[r] = sem_count[r],
           pc'[t] = Obtained(t), \A x \in Threads \ {t} : pc'[x] = pc[x],
           reqs' = reqs
    PROVE  RequestInv'
<1>1. KtaskdSem \in Sems /\ Ktaskd \in Threads /\ (t = Ktaskd <=> s = KtaskdSem)
    BY KernelAssumption
<1>2. sem_count[s] \in Nat
    BY DEF IInv, TypeOK, SemTypeOK
<1>3. CASE t = Ktaskd
    BY <1>1, <1>2, <1>3, SMT DEF Obtained, IInv, RequestInv, KtaskdCountsRequests
<1>4. CASE t # Ktaskd
    BY <1>1, <1>4 DEF IInv, RequestInv, KtaskdCountsRequests
<1> QED  BY <1>3, <1>4

\* semaphore_down() on a positive count.
LEMMA DownAtOnceInv ==
    ASSUME IInv, RolesSeparate, NEW c \in Cpus, NEW t \in Threads, NEW s \in Sems,
           Runs(c, t, {"kern"}), t \in Consumers[s],
           DownAtOnce(s), Goto(t, Obtained(t)), UNCHANGED <<taskVars, reqs>>
    PROVE  SysInv'
<1>1. mode[c] = "run" /\ current[c] = t /\ pc[t] = "kern"
    BY DEF Runs
<1>2. state[t] = "AWAKE"
    BY <1>1, RunsLemma
<1>3. /\ UNCHANGED <<schedVars, sem_lock, waiters, insem, mode>>
      /\ sem_count' = [sem_count EXCEPT ![s] = sem_count[s] - 1]
      /\ pc' = [pc EXCEPT ![t] = Obtained(t)]
      /\ sem_count[s] > 0
      /\ Obtained(t) \in {"take", "kern"}
    BY DEF DownAtOnce, Goto, Obtained
<1>4. NoPanic' /\ panicked' \in BOOLEAN
    BY <1>3 DEF schedVars, IInv, TypeOK, SchedTypeOK, NoPanic
<1>5. /\ CoreInv' /\ pc' \in [Threads -> Pc] /\ mode' \in [Cpus -> Mode]
      /\ pc'[t] = Obtained(t) /\ \A x \in Threads \ {t} : pc'[x] = pc[x]
    BY <1>1, <1>2, <1>3, <1>4, MoveLemma DEF schedVars, taskVars, Pc
<1>6. sem_count \in [Sems -> Nat] /\ sem_count[s] - 1 \in Nat
    <2>1. sem_count \in [Sems -> Nat]
        BY DEF IInv, TypeOK, SemTypeOK
    <2>2. sem_count[s] \in Nat
        BY <2>1
    <2> QED  BY <1>3, <2>1, <2>2, SMT
<1>7. /\ sem_count' \in [Sems -> Nat]
      /\ sem_count'[s] = sem_count[s] - 1
      /\ \A r \in Sems \ {s} : sem_count'[r] = sem_count[r]
    BY <1>3, <1>6
<1>8. SemTypeOK'
    BY <1>3, <1>7 DEF IInv, TypeOK, SemTypeOK
<1>9. SemInv'
    <2>1. ~insem[t]
        BY <1>1 DEF IInv, SemInv, SemPcs
    <2>2. pc'[t] \notin SemPcs
        BY <1>3, <1>5 DEF SemPcs
    <2>3. ASSUME NEW x \in Threads, pc'[x] \in SemPcs
          PROVE  /\ x # t /\ pc[x] \in SemPcs
                 /\ wait_on[x] \in Sems \ {s}
        <3>1. x # t /\ pc[x] \in SemPcs
            BY <1>5, <2>2, <2>3
        <3> QED  BY <3>1 DEF IInv, SemInv, RolesSeparate
    <2>4. \A x \in Threads : insem'[x] => pc'[x] \in SemPcs
        BY <1>3, <1>5, <2>1 DEF IInv, SemInv
    <2>5. ASSUME NEW x \in Threads, pc'[x] \in SemPcs
          PROVE  /\ wait_on'[x] \in Sems
                 /\ x \in Consumers[wait_on'[x]]
                 /\ insem'[x] \/ sem_count'[wait_on'[x]] > 0
        BY <1>3, <1>7, <2>3, <2>5 DEF IInv, SemInv, taskVars
    <2>6. ASSUME NEW x \in Threads, pc'[x] \in {"cond", "prepare"}
          PROVE  insem'[x] /\ sem_lock'[wait_on'[x]] = x
        BY <1>3, <1>5, <2>2, <2>6 DEF IInv, SemInv, taskVars, SemPcs
    <2>7. /\ \A r \in Sems : NoDuplicates(waiters'[r])
          /\ \A r \in Sems, x \in Threads :
                OnList(x, waiters'[r]) <=> insem'[x] /\ wait_on'[x] = r
        BY <1>3 DEF IInv, SemInv, taskVars
    <2> QED  BY <2>4, <2>5, <2>6, <2>7 DEF SemInv
<1>10. KernelTypeOK'
    BY <1>5 DEF taskVars, IInv, TypeOK, KernelTypeOK
<1>11. RequestInv'
    BY <1>1, <1>3, <1>5, <1>7, ObtainRequest
<1> QED  BY <1>4, <1>5, <1>8, <1>9, <1>10, <1>11, Assemble

\* semaphore_down() on a count of zero: the thread joins the list.
LEMMA DownEnqueueInv ==
    ASSUME IInv, NEW c \in Cpus, NEW t \in Threads, NEW s \in Sems,
           NEW ignore \in BOOLEAN,
           Runs(c, t, {"kern"}), t \in Consumers[s],
           DownEnqueue(t, s), Goto(t, "cond"),
           wait_on' = [wait_on EXCEPT ![t] = s],
           ignore_sigs' = [ignore_sigs EXCEPT ![t] = ignore],
           UNCHANGED <<exit_state, should_die, sig_pending, sleep_timers, reqs>>
    PROVE  SysInv'
<1>1. mode[c] = "run" /\ current[c] = t /\ pc[t] = "kern"
    BY DEF Runs
<1>2. state[t] = "AWAKE"
    BY <1>1, RunsLemma
<1>3. ~insem[t]
    BY <1>1 DEF IInv, SemInv, SemPcs
<1>4. /\ UNCHANGED <<state, active, queued_threads, current, poll_threads>>
      /\ UNCHANGED <<suspended_threads, sched_lock, sem_count, mode>>
      /\ sem_lock[s] = NoThread
      /\ sem_lock' = [sem_lock EXCEPT ![s] = t]
      /\ waiters' = [waiters EXCEPT ![s] = ListAdd(t, waiters[s])]
      /\ insem' = [insem EXCEPT ![t] = TRUE]
      /\ panicked' = (panicked \/ insem[t])
      /\ pc' = [pc EXCEPT ![t] = "cond"]
    BY DEF DownEnqueue, Goto, BugOn, SemLockFree
<1>5. NoPanic' /\ panicked' \in BOOLEAN
    BY <1>3, <1>4 DEF IInv, NoPanic
<1>6. /\ insem' \in [Threads -> BOOLEAN]
      /\ insem'[t] /\ \A x \in Threads \ {t} : insem'[x] = insem[x]
    BY <1>4 DEF IInv, TypeOK, SemTypeOK
<1>7. /\ CoreInv' /\ pc' \in [Threads -> Pc] /\ mode' \in [Cpus -> Mode]
      /\ pc'[t] = "cond" /\ \A x \in Threads \ {t} : pc'[x] = pc[x]
    <2>1. "cond" \in Pc \ {"arm"}
        BY DEF Pc
    <2> QED  BY <1>1, <1>2, <1>4, <1>5, <1>6, <2>1, MoveLemma
<1>8. /\ sem_lock' \in [Sems -> Threads \cup {NoThread}]
      /\ sem_lock'[s] = t /\ \A r \in Sems \ {s} : sem_lock'[r] = sem_lock[r]
    BY <1>4 DEF IInv, TypeOK, SemTypeOK
<1>9. waiters \in [Sems -> Seq(Threads)]
    BY DEF IInv, TypeOK, SemTypeOK
<1>10. \A r \in Sems : ~OnList(t, waiters[r])
    BY <1>3 DEF IInv, SemInv
<1>11. /\ ListAdd(t, waiters[s]) \in Seq(Threads)
       /\ NoDuplicates(ListAdd(t, waiters[s]))
       /\ \A x : OnList(x, ListAdd(t, waiters[s])) <=> x = t \/ OnList(x, waiters[s])
    BY <1>9, <1>10, ListAddLemma DEF IInv, SemInv
<1>12. /\ waiters' \in [Sems -> Seq(Threads)]
       /\ waiters'[s] = ListAdd(t, waiters[s])
       /\ \A r \in Sems \ {s} : waiters'[r] = waiters[r]
    BY <1>4, <1>9, <1>11
<1>13. SemTypeOK'
    BY <1>4, <1>6, <1>8, <1>12 DEF IInv, TypeOK, SemTypeOK
<1>14. wait_on'[t] = s /\ \A x \in Threads \ {t} : wait_on'[x] = wait_on[x]
    BY DEF IInv, TypeOK, KernelTypeOK
<1>15. SemInv'
    <2>1. \A r \in Sems : NoDuplicates(waiters'[r])
        BY <1>11, <1>12 DEF IInv, SemInv
    <2>2. ASSUME NEW r \in Sems, NEW x \in Threads
          PROVE  OnList(x, waiters'[r]) <=> insem'[x] /\ wait_on'[x] = r
        <3>1. CASE x = t
            BY <1>6, <1>10, <1>11, <1>12, <1>14, <3>1, ZenonT(30)
        <3>2. CASE x # t
            <4>1. OnList(x, waiters'[r]) <=> OnList(x, waiters[r])
                BY <1>11, <1>12, <3>2
            <4> QED  BY <1>6, <1>14, <3>2, <4>1 DEF IInv, SemInv
        <3> QED  BY <3>1, <3>2
    <2>3. \A x \in Threads : insem'[x] => pc'[x] \in SemPcs
        BY <1>6, <1>7 DEF IInv, SemInv, SemPcs
    <2>4. ASSUME NEW x \in Threads, pc'[x] \in SemPcs
          PROVE  /\ wait_on'[x] \in Sems
                 /\ x \in Consumers[wait_on'[x]]
                 /\ insem'[x] \/ sem_count'[wait_on'[x]] > 0
        <3>1. CASE x = t
            BY <1>6, <1>14, <3>1
        <3>2. CASE x # t
            BY <1>4, <1>6, <1>7, <1>14, <2>4, <3>2 DEF IInv, SemInv
        <3> QED  BY <3>1, <3>2
    <2>5. ASSUME NEW x \in Threads, pc'[x] \in {"cond", "prepare"}
          PROVE  insem'[x] /\ sem_lock'[wait_on'[x]] = x
        <3>1. CASE x = t
            BY <1>6, <1>8, <1>14, <3>1
        <3>2. CASE x # t
            <4>1. /\ pc[x] \in SemPcs /\ wait_on[x] \in Sems
                  /\ insem[x] /\ sem_lock[wait_on[x]] = x
                BY <1>7, <2>5, <3>2 DEF IInv, SemInv, SemPcs
            <4>2. wait_on[x] # s
                BY <1>4, <4>1, SemaphoreAssumption
            <4> QED  BY <1>6, <1>8, <1>14, <3>2, <4>1, <4>2, SMT
        <3> QED  BY <3>1, <3>2
    <2> QED  BY <2>1, <2>2, <2>3, <2>4, <2>5 DEF SemInv
<1>16. RequestInv'
    BY <1>1, <1>4, <1>7, KernelAssumption DEF IInv, RequestInv, KtaskdCountsRequests
<1>17. KernelTypeOK'
    BY <1>7 DEF IInv, TypeOK, KernelTypeOK
<1> QED  BY <1>5, <1>7, <1>13, <1>15, <1>16, <1>17, Assemble

\* The waiting thread finds its condition true and goes on to sleep.
LEMMA DownWaitInv ==
    ASSUME IInv, NEW c \in Cpus, NEW t \in Threads, Runs(c, t, {"cond"}),
           Goto(t, "prepare"), UNCHANGED <<schedVars, semVars, taskVars, reqs>>
    PROVE  SysInv'
<1>1. mode[c] = "run" /\ current[c] = t /\ pc[t] = "cond"
    BY DEF Runs
<1>2. state[t] = "AWAKE"
    BY <1>1, RunsLemma
<1>3. UNCHANGED mode /\ pc' = [pc EXCEPT ![t] = "prepare"]
    BY DEF Goto
<1>4. NoPanic' /\ panicked' \in BOOLEAN
    BY DEF schedVars, IInv, TypeOK, SchedTypeOK, NoPanic
<1>5. /\ CoreInv' /\ pc' \in [Threads -> Pc] /\ mode' \in [Cpus -> Mode]
      /\ pc'[t] = "prepare" /\ \A x \in Threads \ {t} : pc'[x] = pc[x]
    BY <1>1, <1>2, <1>3, <1>4, MoveLemma DEF schedVars, semVars, taskVars, Pc
<1>6. SemTypeOK' /\ KernelTypeOK'
    BY <1>5 DEF semVars, taskVars, IInv, TypeOK, SemTypeOK, KernelTypeOK
<1>7. SemInv'
    <2>1. \A x \in Threads : /\ pc'[x] \in SemPcs <=> pc[x] \in SemPcs
                             /\ pc'[x] \in {"cond", "prepare"} <=>
                                   pc[x] \in {"cond", "prepare"}
        BY <1>1, <1>5 DEF SemPcs
    <2> QED  BY <2>1 DEF semVars, taskVars, IInv, SemInv
<1>8. RequestInv'
    BY <1>1, <1>5, KernelAssumption
       DEF semVars, IInv, RequestInv, KtaskdCountsRequests
<1> QED  BY <1>4, <1>5, <1>6, <1>7, <1>8, Assemble

\* The waiting thread finds a signal pending and gives up.
LEMMA DownGiveUpInv ==
    ASSUME IInv, NEW c \in Cpus, NEW t \in Threads, Runs(c, t, {"cond"}),
           DownGiveUp(t, wait_on[t]), Goto(t, "kern"), Forget(t), UNCHANGED reqs
    PROVE  SysInv'
<1> DEFINE s == wait_on[t]
<1>1. mode[c] = "run" /\ current[c] = t /\ pc[t] = "cond"
    BY DEF Runs
<1>2. state[t] = "AWAKE"
    BY <1>1, RunsLemma
<1>3. s \in Sems /\ insem[t] /\ sem_lock[s] = t /\ OnList(t, waiters[s])
    BY <1>1 DEF IInv, SemInv, SemPcs
<1>4. /\ UNCHANGED <<state, active, queued_threads, current, poll_threads>>
      /\ UNCHANGED <<suspended_threads, sched_lock, sem_count, mode>>
      /\ UNCHANGED <<exit_state, should_die, sig_pending, sleep_timers>>
      /\ sem_lock' = [sem_lock EXCEPT ![s] = NoThread]
      /\ waiters' = [waiters EXCEPT ![s] = ListRm(t, waiters[s])]
      /\ insem' = [insem EXCEPT ![t] = FALSE]
      /\ panicked' = (panicked \/ ~insem[t])
      /\ pc' = [pc EXCEPT ![t] = "kern"]
      /\ wait_on' = [wait_on EXCEPT ![t] = NoThread]
      /\ ignore_sigs' = [ignore_sigs EXCEPT ![t] = FALSE]
    BY DEF DownGiveUp, Goto, BugOn, Forget
<1> HIDE DEF s
<1>5. NoPanic' /\ panicked' \in BOOLEAN
    BY <1>3, <1>4 DEF IInv, NoPanic
<1>6. /\ insem' \in [Threads -> BOOLEAN]
      /\ ~insem'[t] /\ \A x \in Threads \ {t} : insem'[x] = insem[x]
    BY <1>4 DEF IInv, TypeOK, SemTypeOK
<1>7. /\ CoreInv' /\ pc' \in [Threads -> Pc] /\ mode' \in [Cpus -> Mode]
      /\ pc'[t] = "kern" /\ \A x \in Threads \ {t} : pc'[x] = pc[x]
    <2>1. "kern" \in Pc \ {"arm"}
        BY DEF Pc
    <2> QED  BY <1>1, <1>2, <1>4, <1>5, <1>6, <2>1, MoveLemma, ZenonT(30)
<1>8. /\ sem_lock' \in [Sems -> Threads \cup {NoThread}]
      /\ \A r \in Sems \ {s} : sem_lock'[r] = sem_lock[r]
    BY <1>4 DEF IInv, TypeOK, SemTypeOK
<1>9. waiters \in [Sems -> Seq(Threads)]
    BY DEF IInv, TypeOK, SemTypeOK
<1>10. NoDuplicates(waiters[s])
    BY <1>3 DEF IInv, SemInv
<1>11. /\ ListRm(t, waiters[s]) \in Seq(Threads)
       /\ NoDuplicates(ListRm(t, waiters[s]))
       /\ \A x : OnList(x, ListRm(t, waiters[s])) <=> OnList(x, waiters[s]) /\ x # t
    BY <1>3, <1>9, <1>10, ListRmLemma
<1>12. /\ waiters' \in [Sems -> Seq(Threads)]
       /\ waiters'[s] = ListRm(t, waiters[s])
       /\ \A r \in Sems \ {s} : waiters'[r] = waiters[r]
    BY <1>3, <1>4, <1>9, <1>11
<1>13. SemTypeOK'
    BY <1>4, <1>6, <1>8, <1>12 DEF IInv, TypeOK, SemTypeOK
<1>14. \A x \in Threads \ {t} : wait_on'[x] = wait_on[x]
    BY <1>4 DEF IInv, TypeOK, KernelTypeOK
<1>15. KernelTypeOK'
    BY <1>4, <1>7 DEF IInv, TypeOK, KernelTypeOK
<1>16. SemInv'
    <2>1. \A r \in Sems : NoDuplicates(waiters'[r])
        BY <1>11, <1>12 DEF IInv, SemInv
    <2>2. ASSUME NEW r \in Sems, NEW x \in Threads
          PROVE  OnList(x, waiters'[r]) <=> insem'[x] /\ wait_on'[x] = r
        <3>1. CASE x = t
            <4>1. r # s => ~OnList(t, waiters[r])
                BY DEF s, IInv, SemInv
            <4> QED  BY <1>6, <1>11, <1>12, <3>1, <4>1
        <3>2. CASE x # t
            <4>1. OnList(x, waiters'[r]) <=> OnList(x, waiters[r])
                BY <1>11, <1>12, <3>2
            <4> QED  BY <1>6, <1>14, <3>2, <4>1 DEF IInv, SemInv
        <3> QED  BY <3>1, <3>2
    <2>3. pc'[t] \notin SemPcs
        BY <1>7 DEF SemPcs
    <2>4. \A x \in Threads : insem'[x] => pc'[x] \in SemPcs
        BY <1>6, <1>7 DEF IInv, SemInv
    <2>5. ASSUME NEW x \in Threads, pc'[x] \in SemPcs
          PROVE  /\ wait_on'[x] \in Sems
                 /\ x \in Consumers[wait_on'[x]]
                 /\ insem'[x] \/ sem_count'[wait_on'[x]] > 0
        <3>1. x # t
            BY <2>3, <2>5
        <3> QED  BY <1>4, <1>6, <1>7, <1>14, <2>5, <3>1 DEF IInv, SemInv
    <2>6. ASSUME NEW x \in Threads, pc'[x] \in {"cond", "prepare"}
          PROVE  insem'[x] /\ sem_lock'[wait_on'[x]] = x
        <3>1. x # t /\ pc[x] \in SemPcs
            BY <1>7, <2>6 DEF SemPcs
        <3>2. /\ insem[x] /\ sem_lock[wait_on[x]] = x /\ wait_on[x] \in Sems
            BY <1>7, <2>6, <3>1 DEF IInv, SemInv
        <3>3. wait_on[x] # s
            BY <1>3, <3>1, <3>2
        <3> QED  BY <1>6, <1>8, <1>14, <3>1, <3>2, <3>3
    <2> QED  BY <2>1, <2>2, <2>4, <2>5, <2>6 DEF SemInv
<1>17. RequestInv'
    BY <1>1, <1>4, <1>7, KernelAssumption DEF IInv, RequestInv, KtaskdCountsRequests
<1> QED  BY <1>5, <1>7, <1>13, <1>15, <1>16, <1>17, Assemble

\* The waiting thread prepares to sleep and releases the semaphore's lock.
LEMMA DownSleepInv ==
    ASSUME IInv, NEW c \in Cpus, NEW t \in Threads, DownSleep(c, t)
    PROVE  SysInv'
<1> DEFINE s == wait_on[t]
<1>1. mode[c] = "run" /\ current[c] = t /\ pc[t] = "prepare"
    BY DEF DownSleep, Runs
<1>2. active[t] /\ state[t] = "AWAKE"
    BY <1>1, RunsLemma
<1>3. s \in Sems /\ insem[t] /\ sem_lock[s] = t
    BY <1>1 DEF IInv, SemInv, SemPcs
<1>4. /\ UNCHANGED <<active, queued_threads, current, poll_threads>>
      /\ UNCHANGED <<suspended_threads, sched_lock, sem_count, waiters, insem>>
      /\ UNCHANGED <<mode, taskVars, reqs>>
      /\ state' = [state EXCEPT ![t] = "SLEEPING"]
      /\ panicked' = (panicked \/ (~insem[t] \/ ~active[t] \/ state[t] # "AWAKE"))
      /\ sem_lock' = [sem_lock EXCEPT ![s] = NoThread]
      /\ pc' = [pc EXCEPT ![t] = "yield"]
    BY DEF DownSleep, DownPrepare, thread_sleep_prepare, BugOn, Goto
<1> HIDE DEF s
<1>5. NoPanic' /\ panicked' \in BOOLEAN
    BY <1>2, <1>3, <1>4 DEF IInv, NoPanic
<1>6. Asleep(t)'
    BY <1>3, <1>4 DEF Asleep, IInv, TypeOK, KernelTypeOK
<1>7. /\ CurrentInv' /\ QueueInv' /\ StateInv' /\ ModeInv' /\ IrqInv'
      /\ state' \in [Threads -> ThreadState] /\ pc' \in [Threads -> Pc]
      /\ state'[t] = "SLEEPING" /\ pc'[t] = "yield"
      /\ \A x \in Threads \ {t} : state'[x] = state[x] /\ pc'[x] = pc[x]
    BY <1>1, <1>2, <1>4, <1>6, SleepLemma DEF taskVars
<1>8. SchedTypeOK'
    BY <1>4, <1>5, <1>7 DEF IInv, TypeOK, SchedTypeOK
<1>9. PollInv' /\ TimerInv'
    <2>1. ~OnList(t, poll_threads) /\ t \notin sleep_timers
        BY <1>2 DEF IInv, PollInv, TimerInv
    <2>2. sleep_timers \subseteq Threads
        BY DEF IInv, TypeOK, KernelTypeOK
    <2>3. PollInv'
        BY <1>1, <1>4, <1>7, <2>1 DEF IInv, PollInv
    <2> QED  BY <1>4, <1>7, <2>1, <2>2, <2>3 DEF IInv, TimerInv, taskVars
<1>10. \A r \in Sems \ {s} : sem_lock'[r] = sem_lock[r]
    BY <1>4 DEF IInv, TypeOK, SemTypeOK
<1>11. SemTypeOK' /\ KernelTypeOK'
    <2>1. SemTypeOK'
        BY <1>4 DEF IInv, TypeOK, SemTypeOK
    <2> QED  BY <1>4, <1>7, <2>1 DEF taskVars, IInv, TypeOK, KernelTypeOK
<1>12. SemInv'
    <2>1. ASSUME NEW x \in Threads, pc'[x] \in {"cond", "prepare"}
          PROVE  insem'[x] /\ sem_lock'[wait_on'[x]] = x
        <3>1. x # t /\ pc[x] \in SemPcs
            BY <1>7, <2>1 DEF SemPcs
        <3>2. /\ insem[x] /\ sem_lock[wait_on[x]] = x /\ wait_on[x] \in Sems
            BY <1>7, <2>1, <3>1 DEF IInv, SemInv
        <3>3. wait_on[x] # s
            BY <1>3, <3>1, <3>2
        <3> QED  BY <1>4, <1>10, <3>1, <3>2, <3>3 DEF taskVars
    <2>2. \A x \in Threads : pc'[x] \in SemPcs <=> pc[x] \in SemPcs
        BY <1>1, <1>7 DEF SemPcs
    <2> QED  BY <1>4, <2>1, <2>2 DEF IInv, SemInv, taskVars
<1>13. RequestInv'
    BY <1>1, <1>4, <1>7, KernelAssumption DEF IInv, RequestInv, KtaskdCountsRequests
<1>14. CoreInv'
    BY <1>7, <1>8, <1>9 DEF CoreInv
<1> QED  BY <1>5, <1>11, <1>12, <1>13, <1>14, Assemble

\* A thread woken before its turn goes round the loop.
LEMMA DownAgainInv ==
    ASSUME IInv, NEW c \in Cpus, NEW t \in Threads, Runs(c, t, {"relock"}),
           DownAgain(t, wait_on[t]), Goto(t, "cond"), UNCHANGED <<taskVars, reqs>>
    PROVE  SysInv'
<1> DEFINE s == wait_on[t]
<1>1. mode[c] = "run" /\ current[c] = t /\ pc[t] = "relock"
    BY DEF Runs
<1>2. state[t] = "AWAKE"
    BY <1>1, RunsLemma
<1>3. /\ UNCHANGED <<schedVars, sem_count, waiters, insem, mode>>
      /\ pc' = [pc EXCEPT ![t] = "cond"]
      /\ insem[t]
      /\ sem_lock[s] = NoThread
      /\ sem_lock' = [sem_lock EXCEPT ![s] = t]
    BY DEF DownAgain, Goto, SemLockFree
<1>4. s \in Sems
    BY <1>1 DEF IInv, SemInv, SemPcs
<1>5. NoPanic' /\ panicked' \in BOOLEAN
    BY <1>3 DEF schedVars, IInv, TypeOK, SchedTypeOK, NoPanic
<1>6. /\ CoreInv' /\ pc' \in [Threads -> Pc] /\ mode' \in [Cpus -> Mode]
      /\ pc'[t] = "cond" /\ \A x \in Threads \ {t} : pc'[x] = pc[x]
    BY <1>1, <1>2, <1>3, <1>5, MoveLemma DEF schedVars, taskVars, Pc
<1>7. /\ sem_lock' \in [Sems -> Threads \cup {NoThread}]
      /\ sem_lock'[s] = t /\ \A r \in Sems \ {s} : sem_lock'[r] = sem_lock[r]
    BY <1>3, <1>4 DEF IInv, TypeOK, SemTypeOK
<1>8. SemTypeOK' /\ KernelTypeOK'
    BY <1>3, <1>6, <1>7 DEF taskVars, IInv, TypeOK, SemTypeOK, KernelTypeOK
<1>9. SemInv'
    <2>1. ASSUME NEW x \in Threads, pc'[x] \in {"cond", "prepare"}
          PROVE  insem'[x] /\ sem_lock'[wait_on'[x]] = x
        <3>1. CASE x = t
            BY <1>3, <1>7, <3>1 DEF taskVars
        <3>2. CASE x # t
            <4>1. pc[x] \in SemPcs /\ pc[x] \in {"cond", "prepare"}
                BY <1>6, <2>1, <3>2 DEF SemPcs
            <4>2. /\ insem[x] /\ sem_lock[wait_on[x]] = x /\ wait_on[x] \in Sems
                BY <4>1 DEF IInv, SemInv
            <4>3. wait_on[x] # s
                BY <1>3, <4>2, SemaphoreAssumption
            <4> QED  BY <1>3, <1>7, <4>2, <4>3 DEF taskVars
        <3> QED  BY <3>1, <3>2
    <2>2. \A x \in Threads : pc'[x] \in SemPcs <=> pc[x] \in SemPcs
        BY <1>1, <1>6 DEF SemPcs
    <2> QED  BY <1>3, <2>1, <2>2 DEF IInv, SemInv, taskVars
<1>10. RequestInv'
    BY <1>1, <1>3, <1>6, KernelAssumption DEF IInv, RequestInv, KtaskdCountsRequests
<1> QED  BY <1>5, <1>6, <1>8, <1>9, <1>10, Assemble

\* A thread passes the semaphore it was woken for: as its only consumer it
\* finds the count that semaphore_up() left.
LEMMA DownObtainInv ==
    ASSUME IInv, RolesSeparate, NEW c \in Cpus, NEW t \in Threads,
           Runs(c, t, {"relock"}), DownObtain(t, wait_on[t]),
           Goto(t, Obtained(t)), Forget(t), UNCHANGED reqs
    PROVE  SysInv'
<1> DEFINE s == wait_on[t]
<1>1. mode[c] = "run" /\ current[c] = t /\ pc[t] = "relock"
    BY DEF Runs
<1>2. state[t] = "AWAKE"
    BY <1>1, RunsLemma
<1>3. /\ UNCHANGED <<state, active, queued_threads, current, poll_threads>>
      /\ UNCHANGED <<suspended_threads, sched_lock, sem_lock, waiters, insem, mode>>
      /\ UNCHANGED <<exit_state, should_die, sig_pending, sleep_timers>>
      /\ panicked' = (panicked \/ sem_count[s] = 0)
      /\ sem_count' = [sem_count EXCEPT ![s] = IF sem_count[s] = 0 THEN 0
                                               ELSE sem_count[s] - 1]
      /\ ~insem[t]
      /\ pc' = [pc EXCEPT ![t] = Obtained(t)]
      /\ wait_on' = [wait_on EXCEPT ![t] = NoThread]
      /\ ignore_sigs' = [ignore_sigs EXCEPT ![t] = FALSE]
    BY DEF DownObtain, Goto, BugOn, Forget
<1>4. s \in Sems /\ t \in Consumers[s] /\ sem_count[s] > 0
    BY <1>1, <1>3 DEF IInv, SemInv, SemPcs
<1>5. Obtained(t) \in {"take", "kern"}
    BY DEF Obtained
<1> HIDE DEF s
<1>6. sem_count \in [Sems -> Nat] /\ sem_count[s] # 0 /\ sem_count[s] - 1 \in Nat
    BY <1>4, SMT DEF IInv, TypeOK, SemTypeOK
<1>7. /\ sem_count' \in [Sems -> Nat]
      /\ sem_count'[s] = sem_count[s] - 1
      /\ \A r \in Sems \ {s} : sem_count'[r] = sem_count[r]
    BY <1>3, <1>4, <1>6
<1>8. NoPanic' /\ panicked' \in BOOLEAN
    BY <1>3, <1>6 DEF IInv, NoPanic
<1>9. /\ CoreInv' /\ pc' \in [Threads -> Pc] /\ mode' \in [Cpus -> Mode]
      /\ pc'[t] = Obtained(t) /\ \A x \in Threads \ {t} : pc'[x] = pc[x]
    <2>1. Obtained(t) \in Pc \ {"arm", "pyield", "poll", "suspend"}
        BY <1>5 DEF Pc
    <2> QED  BY <1>1, <1>2, <1>3, <1>8, <2>1, MoveLemma
<1>10. SemTypeOK'
    BY <1>3, <1>7 DEF IInv, TypeOK, SemTypeOK
<1>11. KernelTypeOK' /\ \A x \in Threads \ {t} : wait_on'[x] = wait_on[x]
    BY <1>3, <1>9 DEF IInv, TypeOK, KernelTypeOK
<1>12. SemInv'
    <2>1. \A r \in Sems : ~OnList(t, waiters[r])
        BY <1>3 DEF IInv, SemInv
    <2>2. pc'[t] \notin SemPcs
        BY <1>5, <1>9 DEF SemPcs
    <2>3. ASSUME NEW x \in Threads, pc'[x] \in SemPcs
          PROVE  /\ x # t /\ pc[x] \in SemPcs
                 /\ wait_on[x] \in Sems \ {s}
        <3>1. x # t /\ pc[x] \in SemPcs
            BY <1>9, <2>2, <2>3
        <3> QED  BY <1>4, <3>1 DEF IInv, SemInv, RolesSeparate
    <2>4. \A x \in Threads : insem'[x] => pc'[x] \in SemPcs
        BY <1>3, <1>9 DEF IInv, SemInv
    <2>5. ASSUME NEW x \in Threads, pc'[x] \in SemPcs
          PROVE  /\ wait_on'[x] \in Sems
                 /\ x \in Consumers[wait_on'[x]]
                 /\ insem'[x] \/ sem_count'[wait_on'[x]] > 0
        <3>1. x # t /\ pc[x] \in SemPcs /\ wait_on[x] \in Sems \ {s}
            BY <2>3, <2>5
        <3>2. wait_on'[x] = wait_on[x] /\ sem_count'[wait_on[x]] = sem_count[wait_on[x]]
            BY <1>7, <1>11, <3>1
        <3> QED  BY <1>3, <3>1, <3>2 DEF IInv, SemInv
    <2>6. ASSUME NEW x \in Threads, pc'[x] \in {"cond", "prepare"}
          PROVE  insem'[x] /\ sem_lock'[wait_on'[x]] = x
        <3>1. x # t
            BY <1>5, <1>9, <2>6
        <3> QED  BY <1>3, <1>9, <1>11, <2>6, <3>1 DEF IInv, SemInv
    <2>7. ASSUME NEW r \in Sems, NEW x \in Threads
          PROVE  OnList(x, waiters'[r]) <=> insem'[x] /\ wait_on'[x] = r
        <3>1. CASE x = t
            BY <1>3, <2>1, <3>1
        <3>2. CASE x # t
            BY <1>3, <1>11, <3>2 DEF IInv, SemInv
        <3> QED  BY <3>1, <3>2
    <2>8. \A r \in Sems : NoDuplicates(waiters'[r])
        BY <1>3 DEF IInv, SemInv
    <2> QED  BY <2>4, <2>5, <2>6, <2>7, <2>8 DEF SemInv
<1>13. RequestInv'
    BY <1>1, <1>4, <1>7, <1>9, ObtainRequest
<1> QED  BY <1>8, <1>9, <1>10, <1>11, <1>12, <1>13, Assemble

\* semaphore_up() from kernel code or from a handler.
LEMMA UpInv ==
    ASSUME IInv, NEW c \in Cpus, NEW s \in Sems, Up(c, s)
    PROVE  SysInv'
<1>1. s # KtaskdSem /\ semaphore_up(s) /\ UNCHANGED <<mode, pc, taskVars, reqs>>
    BY DEF Up
<1>2. /\ CoreInv' /\ NoPanic' /\ SemTypeOK' /\ SemInv'
      /\ \A r \in Sems \ {s} : sem_count'[r] = sem_count[r]
    BY <1>1, UpLemma
<1>3. KernelTypeOK'
    BY <1>1 DEF taskVars, IInv, TypeOK, KernelTypeOK
<1>4. RequestInv'
    BY <1>1, <1>2, KernelAssumption DEF IInv, RequestInv, KtaskdCountsRequests
<1> QED  BY <1>2, <1>3, <1>4, Assemble

\* A request to ktaskd.
LEMMA RequestStepInv ==
    ASSUME IInv, NEW c \in Cpus, ktaskd_request(c)
    PROVE  SysInv'
<1>1. semaphore_up(KtaskdSem) /\ reqs' = reqs + 1 /\ UNCHANGED <<mode, pc, taskVars>>
    BY DEF ktaskd_request
<1>2. /\ CoreInv' /\ NoPanic' /\ SemTypeOK' /\ SemInv'
      /\ sem_count'[KtaskdSem] = sem_count[KtaskdSem] + 1
    BY <1>1, UpLemma, KernelAssumption
<1>3. reqs \in Nat /\ sem_count[KtaskdSem] \in Nat
    BY KernelAssumption DEF IInv, TypeOK, SemTypeOK, KernelTypeOK
<1>4. KernelTypeOK'
    BY <1>1, <1>3, SMT DEF taskVars, IInv, TypeOK, KernelTypeOK
<1>5. RequestInv'
    <2> DEFINE taken == IF pc[Ktaskd] = "take" THEN 1 ELSE 0
    <2>1. reqs = sem_count[KtaskdSem] + taken
        BY DEF IInv, RequestInv, KtaskdCountsRequests
    <2>2. taken \in Nat /\ taken' = taken
        BY <1>1
    <2> HIDE DEF taken
    <2>3. reqs' = sem_count'[KtaskdSem] + taken'
        BY <1>1, <1>2, <1>3, <2>1, <2>2, SMT
    <2> QED  BY <2>3 DEF taken, RequestInv, KtaskdCountsRequests
<1> QED  BY <1>2, <1>4, <1>5, Assemble

-----------------------------------------------------------------------------
(***************************************************************************)
(* Polling, msleep() and the building of threads.                          *)
(***************************************************************************)

\* fork().
LEMMA ForkInv ==
    ASSUME IInv, NEW c \in Cpus, NEW t \in Threads, NEW k \in Threads, Fork(c, t, k)
    PROVE  SysInv'
<1>1. /\ state[k] = "BUILDING" /\ thread_schedule(k)
      /\ UNCHANGED <<semVars, mode, pc, taskVars, reqs>>
    BY DEF Fork
<1>2. AwakeMoves
    BY <1>1 DEF AwakeMoves
<1>3. CoreInv' /\ NoPanic'
    BY <1>1, <1>2, ScheduleLemma DEF semVars, taskVars
<1>4. SemTypeOK' /\ KernelTypeOK'
    BY <1>1 DEF semVars, taskVars, IInv, TypeOK, SemTypeOK, KernelTypeOK
<1>5. SemInv' /\ RequestInv'
    BY <1>1 DEF semVars, taskVars, IInv, SemInv, RequestInv, KtaskdCountsRequests
<1> QED  BY <1>3, <1>4, <1>5, Assemble

\* ktaskd spawns a kernel task.
LEMMA KtaskdSpawnInv ==
    ASSUME IInv, NEW c \in Cpus, KtaskdSpawn(c)
    PROVE  SysInv'
<1>1. /\ Ktaskd \in Threads /\ mode[c] = "run" /\ current[c] = Ktaskd
      /\ pc[Ktaskd] = "spawn"
    BY KernelAssumption DEF KtaskdSpawn, Runs
<1>2. state[Ktaskd] = "AWAKE"
    BY <1>1, RunsLemma
<1>3. /\ pc' = [pc EXCEPT ![Ktaskd] = "kern"]
      /\ UNCHANGED <<semVars, mode, taskVars, reqs>>
    BY DEF KtaskdSpawn, Goto
<1>4. /\ pc' \in [Threads -> Pc] /\ pc'[Ktaskd] = "kern"
      /\ \A x \in Threads \ {Ktaskd} : pc'[x] = pc[x]
    BY <1>1, <1>3 DEF IInv, TypeOK, KernelTypeOK, Pc
<1>5. AwakeMoves
    BY <1>2, <1>4 DEF AwakeMoves
<1>6. CoreInv' /\ NoPanic'
    <2>1. CASE \E k \in Threads : state[k] = "BUILDING" /\ thread_schedule(k)
        BY <1>3, <1>5, <2>1, ScheduleLemma DEF semVars, taskVars
    <2>2. CASE UNCHANGED schedVars
        <3>1. NoPanic' /\ panicked' \in BOOLEAN
            BY <2>2 DEF schedVars, IInv, TypeOK, SchedTypeOK, NoPanic
        <3> QED  BY <1>1, <1>2, <1>3, <2>2, <3>1, MoveLemma
                 DEF schedVars, semVars, taskVars, Pc
    <2> QED  BY <2>1, <2>2 DEF KtaskdSpawn
<1>7. SemInv' /\ SemTypeOK'
    BY <1>1, <1>3, <1>4, SemFrame DEF taskVars, SemPcs
<1>8. KernelTypeOK'
    BY <1>3, <1>4 DEF taskVars, IInv, TypeOK, KernelTypeOK
<1>9. RequestInv'
    BY <1>1, <1>3, <1>4 DEF semVars, IInv, RequestInv, KtaskdCountsRequests
<1> QED  BY <1>6, <1>7, <1>8, <1>9, Assemble

\* waitpid() suspends the thread until the next interrupt: an awake thread is
\* not on the poll list.
LEMMA PollSuspendInv ==
    ASSUME IInv, NEW c \in Cpus, NEW t \in Threads, PollSuspend(c, t)
    PROVE  SysInv'
<1>1. mode[c] = "run" /\ current[c] = t /\ pc[t] = "suspend" /\ t \in Pollers
    BY DEF PollSuspend, Runs, IInv, PollInv
<1>2. active[t] /\ state[t] = "AWAKE"
    BY <1>1, RunsLemma
<1>3. ~OnList(t, poll_threads) /\ t \notin sleep_timers
    BY <1>2 DEF IInv, PollInv, TimerInv
<1>4. /\ UNCHANGED <<active, queued_threads, current, sched_lock>>
      /\ UNCHANGED <<semVars, taskVars, reqs, mode>>
      /\ state' = [state EXCEPT ![t] = "SLEEPING"]
      /\ panicked' = (panicked \/ (OnList(t, poll_threads) \/ ~active[t]
                                   \/ state[t] # "AWAKE"))
      /\ poll_threads' = ListAdd(t, poll_threads)
      /\ suspended_threads' = suspended_threads + 1
      /\ pc' = [pc EXCEPT ![t] = "pyield"]
    BY DEF PollSuspend, sched_suspend_pending_interrupt, thread_sleep_prepare,
           BugOn, Goto
<1>5. NoPanic' /\ panicked' \in BOOLEAN
    BY <1>2, <1>3, <1>4 DEF IInv, NoPanic
<1>6. poll_threads \in Seq(Threads) /\ suspended_threads = Len(poll_threads)
    BY DEF IInv, TypeOK, SchedTypeOK, PollInv
<1>7. /\ poll_threads' \in Seq(Threads)
      /\ Len(poll_threads') = Len(poll_threads) + 1
      /\ NoDuplicates(poll_threads')
      /\ \A x : OnList(x, poll_threads') <=> x = t \/ OnList(x, poll_threads)
    BY <1>3, <1>4, <1>6, ListAddLemma DEF IInv, PollInv
<1>8. Asleep(t)'
    BY <1>4, <1>7 DEF Asleep, IInv, TypeOK, KernelTypeOK
<1>9. /\ CurrentInv' /\ QueueInv' /\ StateInv' /\ ModeInv' /\ IrqInv'
      /\ state' \in [Threads -> ThreadState] /\ pc' \in [Threads -> Pc]
      /\ state'[t] = "SLEEPING" /\ pc'[t] = "pyield"
      /\ \A x \in Threads \ {t} : state'[x] = state[x] /\ pc'[x] = pc[x]
    BY <1>1, <1>2, <1>4, <1>7, <1>8, SleepLemma DEF taskVars, semVars
<1>10. suspended_threads' = Len(poll_threads') /\ suspended_threads' \in Nat
    <2>1. Len(poll_threads) \in Nat
        BY <1>6, SMT
    <2>2. suspended_threads' = suspended_threads + 1
        BY <1>4
    <2>3. Len(poll_threads') = Len(poll_threads) + 1
        BY <1>7
    <2> QED  BY <1>6, <2>1, <2>2, <2>3, SMT
<1>11. SchedTypeOK'
    BY <1>4, <1>5, <1>7, <1>9, <1>10 DEF IInv, TypeOK, SchedTypeOK
<1>12. PollInv'
    BY <1>1, <1>7, <1>9, <1>10 DEF IInv, PollInv
<1>13. TimerInv'
    <2>1. sleep_timers \subseteq Threads
        BY DEF IInv, TypeOK, KernelTypeOK
    <2> QED  BY <1>3, <1>4, <1>9, <2>1 DEF IInv, TimerInv, taskVars
<1>14. CoreInv'
    BY <1>9, <1>11, <1>12, <1>13 DEF CoreInv
<1>15. SemInv' /\ SemTypeOK'
    BY <1>1, <1>4, <1>9, SemFrame DEF taskVars, SemPcs
<1>16. KernelTypeOK'
    BY <1>4, <1>9 DEF taskVars, IInv, TypeOK, KernelTypeOK
<1>17. RequestInv'
    BY <1>1, <1>4, <1>9, KernelAssumption
       DEF semVars, IInv, RequestInv, KtaskdCountsRequests
<1> QED  BY <1>5, <1>14, <1>15, <1>16, <1>17, Assemble

\* msleep() prepares to sleep.
LEMMA MsleepInv ==
    ASSUME IInv, NEW c \in Cpus, NEW t \in Threads, Msleep(c, t)
    PROVE  SysInv'
<1>1. mode[c] = "run" /\ current[c] = t /\ pc[t] = "kern" /\ t \in Sleepers
    BY DEF Msleep, Runs
<1>2. active[t] /\ state[t] = "AWAKE"
    BY <1>1, RunsLemma
<1>3. ~OnList(t, poll_threads) /\ t \notin sleep_timers
    BY <1>2 DEF IInv, PollInv, TimerInv
<1>4. /\ UNCHANGED <<active, queued_threads, current, poll_threads>>
      /\ UNCHANGED <<suspended_threads, sched_lock, semVars, taskVars, reqs, mode>>
      /\ state' = [state EXCEPT ![t] = "SLEEPING"]
      /\ panicked' = (panicked \/ (FALSE \/ ~active[t] \/ state[t] # "AWAKE"))
      /\ pc' = [pc EXCEPT ![t] = "arm"]
    BY DEF Msleep, thread_sleep_prepare, BugOn, Goto
<1>5. NoPanic' /\ panicked' \in BOOLEAN
    BY <1>2, <1>4 DEF IInv, NoPanic
<1>6. Asleep(t)'
    BY <1>2, <1>4 DEF Asleep, IInv, TypeOK, KernelTypeOK
<1>7. /\ CurrentInv' /\ QueueInv' /\ StateInv' /\ ModeInv' /\ IrqInv'
      /\ state' \in [Threads -> ThreadState] /\ pc' \in [Threads -> Pc]
      /\ state'[t] = "SLEEPING" /\ pc'[t] = "arm"
      /\ \A x \in Threads \ {t} : state'[x] = state[x] /\ pc'[x] = pc[x]
    BY <1>1, <1>2, <1>4, <1>6, SleepLemma DEF taskVars, semVars
<1>8. SchedTypeOK'
    BY <1>4, <1>5, <1>7 DEF IInv, TypeOK, SchedTypeOK
<1>9. PollInv'
    BY <1>3, <1>4, <1>7 DEF IInv, PollInv
<1>10. TimerInv'
    <2>1. sleep_timers \subseteq Threads
        BY DEF IInv, TypeOK, KernelTypeOK
    <2> QED  BY <1>1, <1>3, <1>4, <1>7, <2>1 DEF IInv, TimerInv, taskVars
<1>11. CoreInv'
    BY <1>7, <1>8, <1>9, <1>10 DEF CoreInv
<1>12. SemInv' /\ SemTypeOK'
    BY <1>1, <1>4, <1>7, SemFrame DEF taskVars, SemPcs
<1>13. KernelTypeOK'
    BY <1>4, <1>7 DEF taskVars, IInv, TypeOK, KernelTypeOK
<1>14. RequestInv'
    BY <1>1, <1>4, <1>7, KernelAssumption
       DEF semVars, IInv, RequestInv, KtaskdCountsRequests
<1> QED  BY <1>5, <1>11, <1>12, <1>13, <1>14, Assemble

\* msleep() creates its timer.
LEMMA MsleepArmInv ==
    ASSUME IInv, NEW c \in Cpus, NEW t \in Threads, MsleepArm(c, t)
    PROVE  SysInv'
<1>1. /\ mode[c] = "run" /\ current[c] = t /\ pc[t] = "arm"
      /\ t \in Sleepers /\ state[t] = "SLEEPING"
    BY DEF MsleepArm, Runs, IInv, TimerInv
<1>2. /\ UNCHANGED <<schedVars, semVars, wait_on, ignore_sigs, exit_state>>
      /\ UNCHANGED <<should_die, sig_pending, reqs, mode>>
      /\ sleep_timers' = sleep_timers \cup {t}
      /\ pc' = [pc EXCEPT ![t] = "tyield"]
    BY DEF MsleepArm, Goto
<1>3. /\ pc' \in [Threads -> Pc]
      /\ pc'[t] = "tyield" /\ \A x \in Threads \ {t} : pc'[x] = pc[x]
    BY <1>2 DEF IInv, TypeOK, KernelTypeOK, Pc
<1>4. SchedTypeOK' /\ NoPanic' /\ CurrentInv' /\ QueueInv'
    BY <1>2 DEF schedVars, IInv, TypeOK, SchedTypeOK, NoPanic, CurrentInv, QueueInv
<1>5. StateInv'
    <2>1. ASSUME NEW x \in Threads \ {t}, Asleep(x) PROVE Asleep(x)'
        BY <1>2, <1>3, <2>1 DEF Asleep, schedVars, semVars
    <2>2. Asleep(t)'
        BY <1>2, <1>3 DEF Asleep
    <2> QED  BY <1>1, <1>2, <1>3, <2>1, <2>2 DEF IInv, StateInv, schedVars
<1>6. ModeInv' /\ IrqInv'
    BY <1>2, <1>3 DEF IInv, ModeInv, IrqInv, schedVars
<1>7. PollInv'
    <2>1. ~OnList(t, poll_threads)
        BY <1>1 DEF IInv, PollInv
    <2> QED  BY <1>2, <1>3, <2>1 DEF IInv, PollInv, schedVars
<1>8. TimerInv'
    <2>1. sleep_timers \subseteq Threads
        BY DEF IInv, TypeOK, KernelTypeOK
    <2> QED  BY <1>1, <1>2, <1>3, <2>1 DEF IInv, TimerInv, schedVars
<1>9. CoreInv'
    BY <1>4, <1>5, <1>6, <1>7, <1>8 DEF CoreInv
<1>10. SemInv' /\ SemTypeOK'
    BY <1>1, <1>2, <1>3, SemFrame DEF SemPcs
<1>11. KernelTypeOK'
    BY <1>2, <1>3 DEF IInv, TypeOK, KernelTypeOK
<1>12. RequestInv'
    BY <1>1, <1>2, <1>3, KernelAssumption
       DEF semVars, IInv, RequestInv, KtaskdCountsRequests
<1> QED  BY <1>4, <1>9, <1>10, <1>11, <1>12, Assemble
-----------------------------------------------------------------------------
(***************************************************************************)
(* Interrupts.                                                             *)
(***************************************************************************)

\* A step that leaves the threads where they are and the semaphores alone.
LEMMA StillFrame ==
    ASSUME IInv, UNCHANGED <<semVars, pc, wait_on, reqs>>
    PROVE  SemTypeOK' /\ SemInv' /\ RequestInv'
<1>1. SemTypeOK'
    BY DEF semVars, IInv, TypeOK, SemTypeOK
<1>2. SemInv'
    BY DEF semVars, IInv, SemInv
<1>3. RequestInv'
    BY DEF semVars, IInv, RequestInv, KtaskdCountsRequests
<1> QED  BY <1>1, <1>2, <1>3

\* A step that changes neither the threads nor the modes.
LEMMA CoreFrame ==
    ASSUME IInv, UNCHANGED <<schedVars, mode, pc, insem, sleep_timers>>
    PROVE  CoreInv' /\ NoPanic'
<1>1. SchedTypeOK' /\ NoPanic'
    BY DEF schedVars, IInv, TypeOK, SchedTypeOK, NoPanic
<1>2. CurrentInv'
    BY DEF schedVars, IInv, CurrentInv
<1>3. QueueInv'
    BY DEF schedVars, IInv, QueueInv
<1>4. StateInv'
    <2>1. \A x \in Threads : Asleep(x) => Asleep(x)'
        BY DEF Asleep, schedVars
    <2> QED  BY <2>1 DEF IInv, StateInv, schedVars
<1>5. ModeInv'
    BY DEF schedVars, IInv, ModeInv
<1>6. IrqInv'
    BY DEF schedVars, IInv, IrqInv
<1>7. PollInv'
    BY DEF schedVars, IInv, PollInv
<1>8. TimerInv'
    BY DEF schedVars, IInv, TimerInv
<1> QED  BY <1>1, <1>2, <1>3, <1>4, <1>5, <1>6, <1>7, <1>8 DEF CoreInv

\* A CPU goes from one mode to another without switching threads.
LEMMA ModeLemma ==
    ASSUME IInv, NEW c \in Cpus, NEW m \in Mode \ {"switch"}, mode[c] # "switch",
           mode' = [mode EXCEPT ![c] = m],
           UNCHANGED <<state, active, queued_threads, current, poll_threads>>,
           UNCHANGED <<suspended_threads, pc, insem, sleep_timers>>,
           sched_lock' \in Cpus \cup {NoCpu}, NoPanic', panicked' \in BOOLEAN,
           \A x \in Threads : pc[x] = "arm" /\ current[c] = x => m = "run"
    PROVE  CoreInv' /\ mode' \in [Cpus -> Mode]
<1>1. /\ mode' \in [Cpus -> Mode]
      /\ mode'[c] = m /\ \A d \in Cpus \ {c} : mode'[d] = mode[d]
    BY DEF IInv, TypeOK, KernelTypeOK
<1>2. SchedTypeOK'
    BY DEF IInv, TypeOK, SchedTypeOK
<1>3. CurrentInv' /\ QueueInv'
    BY DEF IInv, CurrentInv, QueueInv
<1>4. StateInv'
    <2>1. \A x \in Threads : Asleep(x) => Asleep(x)'
        BY DEF Asleep
    <2>2. ASSUME NEW x \in Threads, state[x] = "EXITED", NEW d \in Cpus,
                 current[d] = x
          PROVE  mode'[d] = "switch"
        BY <1>1, <2>2 DEF IInv, StateInv
    <2> QED  BY <2>1, <2>2 DEF IInv, StateInv
<1>5. ModeInv'
    BY <1>1 DEF IInv, ModeInv
<1>6. IrqInv'
    BY <1>1 DEF IInv, IrqInv
<1>7. PollInv' /\ TimerInv'
    BY DEF IInv, PollInv, TimerInv
<1> QED  BY <1>1, <1>2, <1>3, <1>4, <1>5, <1>6, <1>7 DEF CoreInv

\* An interrupt arrives.
LEMMA InterruptInv ==
    ASSUME IInv, NEW c \in Cpus, Interrupt(c)
    PROVE  SysInv'
<1>1. /\ mode[c] = "run" /\ mode' = [mode EXCEPT ![c] = "isr"]
      /\ current[c] \in Threads => pc[current[c]] # "arm"
      /\ UNCHANGED <<schedVars, semVars, pc, taskVars, reqs>>
    BY DEF Interrupt, IrqsOff
<1>2. NoPanic' /\ sched_lock' \in Cpus \cup {NoCpu} /\ panicked' \in BOOLEAN
    BY <1>1 DEF schedVars, IInv, TypeOK, SchedTypeOK, NoPanic
<1>3. CoreInv' /\ mode' \in [Cpus -> Mode]
    BY <1>1, <1>2, ModeLemma DEF schedVars, semVars, taskVars, Mode
<1>4. SemTypeOK' /\ SemInv' /\ RequestInv'
    BY <1>1, StillFrame DEF taskVars
<1>5. KernelTypeOK'
    BY <1>1, <1>3 DEF taskVars, IInv, TypeOK, KernelTypeOK
<1> QED  BY <1>2, <1>3, <1>4, <1>5, Assemble

\* A current thread between msleep()'s preparation and its timer keeps its
\* CPU in mode "run".
LEMMA ArmLemma ==
    ASSUME IInv, NEW c \in Cpus, mode[c] # "run"
    PROVE  \A x \in Threads : pc[x] = "arm" => current[c] # x
BY DEF IInv, IrqInv

\* sched_interrupt_notify() takes sched_lock.
LEMMA NotifyLockInv ==
    ASSUME IInv, NEW c \in Cpus, mode[c] = "isr", NotifyLock(c),
           mode' = [mode EXCEPT ![c] = "notify"],
           UNCHANGED <<semVars, pc, taskVars, reqs>>
    PROVE  SysInv'
<1>1. /\ sched_lock' = c
      /\ UNCHANGED <<state, active, queued_threads, current, poll_threads,
                     suspended_threads, panicked>>
    BY DEF NotifyLock
<1>2. NoPanic' /\ panicked' \in BOOLEAN
    BY <1>1 DEF IInv, TypeOK, SchedTypeOK, NoPanic
<1>3. CoreInv' /\ mode' \in [Cpus -> Mode]
    BY <1>1, <1>2, ArmLemma, ModeLemma DEF semVars, taskVars, Mode
<1>4. SemTypeOK' /\ SemInv' /\ RequestInv'
    BY StillFrame DEF taskVars
<1>5. KernelTypeOK'
    BY <1>3 DEF taskVars, IInv, TypeOK, KernelTypeOK
<1> QED  BY <1>2, <1>3, <1>4, <1>5, Assemble

\* sched_interrupt_notify() finds no orphan: the counter is the length of the
\* poll list.
LEMMA NotifyUnlockInv ==
    ASSUME IInv, NEW c \in Cpus, mode[c] = "notify", NotifyUnlock(c),
           mode' = [mode EXCEPT ![c] = "exit"],
           UNCHANGED <<semVars, pc, taskVars, reqs>>
    PROVE  SysInv'
<1>1. /\ poll_threads = <<>>
      /\ panicked' = (panicked \/ (suspended_threads # 0))
      /\ sched_lock' = NoCpu
      /\ UNCHANGED <<state, active, queued_threads, current, poll_threads,
                     suspended_threads>>
    BY DEF NotifyUnlock, BugOn
<1>2. suspended_threads = 0
    BY <1>1 DEF IInv, PollInv
<1>3. NoPanic' /\ panicked' \in BOOLEAN
    BY <1>1, <1>2 DEF IInv, TypeOK, SchedTypeOK, NoPanic
<1>4. CoreInv' /\ mode' \in [Cpus -> Mode]
    BY <1>1, <1>3, ArmLemma, ModeLemma DEF semVars, taskVars, Mode
<1>5. SemTypeOK' /\ SemInv' /\ RequestInv'
    BY StillFrame DEF taskVars
<1>6. KernelTypeOK'
    BY <1>4 DEF taskVars, IInv, TypeOK, KernelTypeOK
<1> QED  BY <1>3, <1>4, <1>5, <1>6, Assemble

\* sched_interrupt_notify() wakes the first polling thread.
LEMMA NotifyWakeInv ==
    ASSUME IInv, NEW c \in Cpus, NotifyWake(c),
           UNCHANGED <<semVars, pc, taskVars, reqs, mode>>
    PROVE  SysInv'
<1> DEFINE u == Head(poll_threads)
<1>1. /\ poll_threads # <<>> /\ do_wake(u)
      /\ suspended_threads' = suspended_threads - 1
      /\ poll_threads' = Tail(poll_threads)
      /\ UNCHANGED <<active, current, sched_lock, panicked>>
    BY DEF NotifyWake
<1>2. /\ poll_threads \in Seq(Threads) /\ NoDuplicates(poll_threads)
      /\ suspended_threads = Len(poll_threads)
    BY DEF IInv, TypeOK, SchedTypeOK, PollInv
<1>3. /\ u \in Threads /\ OnList(u, poll_threads)
      /\ poll_threads' \in Seq(Threads)
      /\ Len(poll_threads') = Len(poll_threads) - 1
      /\ Len(poll_threads') \in Nat
      /\ NoDuplicates(poll_threads')
      /\ \A x : OnList(x, poll_threads') <=> x # u /\ OnList(x, poll_threads)
    BY <1>1, <1>2, TailLemma, SMT
<1> HIDE DEF u
<1>4. /\ state[u] = "SLEEPING" /\ u \in Pollers /\ pc[u] \in {"pyield", "poll"}
      /\ u \notin sleep_timers
    BY <1>3 DEF IInv, PollInv, TimerInv
<1>5. AwakeMoves
    BY DEF AwakeMoves
<1>6. /\ state' = [state EXCEPT ![u] = "AWAKE"]
      /\ state'[u] = "AWAKE" /\ \A x \in Threads \ {u} : state'[x] = state[x]
      /\ queued_threads' \in Seq(Threads)
      /\ CurrentInv' /\ QueueInv' /\ StateInv' /\ ModeInv' /\ IrqInv'
    BY <1>1, <1>3, <1>4, <1>5, WakeStepLemma DEF semVars, taskVars
<1>7. NoPanic' /\ panicked' \in BOOLEAN
    BY <1>1 DEF IInv, TypeOK, SchedTypeOK, NoPanic
<1>8. suspended_threads' = Len(poll_threads') /\ suspended_threads' \in Nat
    BY <1>1, <1>2, <1>3
<1>9. state' \in [Threads -> ThreadState]
    BY <1>6 DEF IInv, TypeOK, SchedTypeOK, ThreadState
<1>10. SchedTypeOK'
    BY <1>1, <1>3, <1>6, <1>7, <1>8, <1>9 DEF IInv, TypeOK, SchedTypeOK
<1>11. PollInv'
    BY <1>3, <1>6, <1>8 DEF IInv, PollInv
<1>12. TimerInv'
    <2>1. sleep_timers \subseteq Threads /\ pc[u] # "arm"
        BY <1>4 DEF IInv, TypeOK, KernelTypeOK
    <2> QED  BY <1>3, <1>4, <1>6, <2>1 DEF IInv, TimerInv, taskVars
<1>13. CoreInv'
    BY <1>6, <1>10, <1>11, <1>12 DEF CoreInv
<1>14. SemTypeOK' /\ SemInv' /\ RequestInv'
    BY StillFrame DEF taskVars
<1>15. KernelTypeOK'
    BY DEF taskVars, IInv, TypeOK, KernelTypeOK
<1> QED  BY <1>7, <1>13, <1>14, <1>15, Assemble

\* The callback of an msleep() timer.
LEMMA SleepCallbackInv ==
    ASSUME IInv, NEW c \in Cpus, NEW u \in Threads, SleepCallback(c, u)
    PROVE  SysInv'
<1>1. /\ u \in sleep_timers /\ do_wake(u)
      /\ sleep_timers' = sleep_timers \ {u}
      /\ UNCHANGED <<active, current, poll_threads, suspended_threads, sched_lock,
                     panicked>>
      /\ UNCHANGED <<semVars, mode, pc, wait_on, ignore_sigs, exit_state>>
      /\ UNCHANGED <<should_die, sig_pending, reqs>>
    BY DEF SleepCallback, thread_wake
<1>2. state[u] = "SLEEPING" /\ pc[u] \in {"tyield", "tret"} /\ ~OnList(u, poll_threads)
    BY <1>1 DEF IInv, TimerInv, PollInv
<1>3. AwakeMoves
    BY <1>1 DEF AwakeMoves
<1>4. /\ state' = [state EXCEPT ![u] = "AWAKE"]
      /\ state'[u] = "AWAKE" /\ \A x \in Threads \ {u} : state'[x] = state[x]
      /\ queued_threads' \in Seq(Threads)
      /\ CurrentInv' /\ QueueInv' /\ StateInv' /\ ModeInv' /\ IrqInv'
    <2>1. \A x \in Threads \ {u} :
            /\ insem'[x] = insem[x]
            /\ x \in sleep_timers => x \in sleep_timers'
            /\ OnList(x, poll_threads) => OnList(x, poll_threads')
        BY <1>1 DEF semVars
    <2> QED  BY <1>1, <1>2, <1>3, <2>1, WakeStepLemma
<1>5. NoPanic' /\ panicked' \in BOOLEAN
    BY <1>1 DEF IInv, TypeOK, SchedTypeOK, NoPanic
<1>6. state' \in [Threads -> ThreadState]
    BY <1>4 DEF IInv, TypeOK, SchedTypeOK, ThreadState
<1>7. SchedTypeOK'
    BY <1>1, <1>4, <1>5, <1>6 DEF IInv, TypeOK, SchedTypeOK
<1>8. PollInv'
    BY <1>1, <1>2, <1>4 DEF IInv, PollInv
<1>9. TimerInv'
    <2>1. sleep_timers \subseteq Threads /\ pc[u] # "arm"
        BY <1>2 DEF IInv, TypeOK, KernelTypeOK
    <2> QED  BY <1>1, <1>4, <2>1 DEF IInv, TimerInv
<1>10. CoreInv'
    BY <1>4, <1>7, <1>8, <1>9 DEF CoreInv
<1>11. SemTypeOK' /\ SemInv' /\ RequestInv'
    BY <1>1, StillFrame
<1>12. KernelTypeOK'
    BY <1>1 DEF IInv, TypeOK, KernelTypeOK
<1> QED  BY <1>5, <1>10, <1>11, <1>12, Assemble

\* A signal sent from a handler.
LEMMA IsrSignalInv ==
    ASSUME IInv, RolesSeparate, NEW c \in Cpus, NEW u \in Threads, IsrSignal(c, u)
    PROVE  SysInv'
<1>1. /\ u \in Signalled /\ thread_poke(u)
      /\ sig_pending' = [sig_pending EXCEPT ![u] = TRUE]
      /\ UNCHANGED <<semVars, mode, pc, wait_on, ignore_sigs, exit_state>>
      /\ UNCHANGED <<should_die, sleep_timers, reqs>>
    BY DEF IsrSignal, SendSignal
<1>2. u \in Threads \ (Pollers \cup Sleepers)
    BY <1>1 DEF RolesSeparate
<1>3. AwakeMoves
    BY <1>1 DEF AwakeMoves
<1>4. CoreInv' /\ NoPanic'
    BY <1>1, <1>2, <1>3, SignalLemma DEF semVars
<1>5. SemTypeOK' /\ SemInv' /\ RequestInv'
    BY <1>1, StillFrame
<1>6. KernelTypeOK'
    BY <1>1 DEF IInv, TypeOK, KernelTypeOK
<1> QED  BY <1>4, <1>5, <1>6, Assemble

\* sched_deliver_signals().
LEMMA DeliverSignalsInv ==
    ASSUME IInv, NEW c \in Cpus, DeliverSignals(c)
    PROVE  SysInv'
<1>1. current[c] \in Threads
    BY DEF DeliverSignals, ReturnsToUser
<1>2. /\ UNCHANGED <<schedVars, semVars, mode, pc, wait_on, ignore_sigs>>
      /\ UNCHANGED <<sleep_timers, reqs>>
    BY DEF DeliverSignals
<1>3. \/ /\ sig_pending' = [sig_pending EXCEPT ![current[c]] = FALSE]
         /\ UNCHANGED <<exit_state, should_die>>
      \/ /\ exit_state' = [exit_state EXCEPT ![current[c]] = "EXITING"]
         /\ should_die' = [should_die EXCEPT ![current[c]] = TRUE]
         /\ UNCHANGED sig_pending
    BY DEF DeliverSignals
<1>4. KernelTypeOK'
    <2>1. CASE /\ sig_pending' = [sig_pending EXCEPT ![current[c]] = FALSE]
               /\ UNCHANGED <<exit_state, should_die>>
        BY <1>1, <1>2, <2>1 DEF IInv, TypeOK, KernelTypeOK
    <2>2. CASE /\ exit_state' = [exit_state EXCEPT ![current[c]] = "EXITING"]
               /\ should_die' = [should_die EXCEPT ![current[c]] = TRUE]
               /\ UNCHANGED sig_pending
        BY <1>1, <1>2, <2>2 DEF IInv, TypeOK, KernelTypeOK
    <2> QED  BY <1>3, <2>1, <2>2
<1>5. CoreInv' /\ NoPanic'
    BY <1>2, CoreFrame DEF semVars
<1>6. SemTypeOK' /\ SemInv' /\ RequestInv'
    BY <1>2, StillFrame
<1> QED  BY <1>4, <1>5, <1>6, Assemble

\* The interrupted thread goes on.
LEMMA TryReschedReturnInv ==
    ASSUME IInv, NEW c \in Cpus, TryReschedReturn(c)
    PROVE  SysInv'
<1>1. /\ mode[c] = "exit" /\ mode' = [mode EXCEPT ![c] = "run"]
      /\ UNCHANGED <<schedVars, semVars, pc, taskVars, reqs>>
    BY DEF TryReschedReturn
<1>2. NoPanic' /\ sched_lock' \in Cpus \cup {NoCpu} /\ panicked' \in BOOLEAN
    BY <1>1 DEF schedVars, IInv, TypeOK, SchedTypeOK, NoPanic
<1>3. CoreInv' /\ mode' \in [Cpus -> Mode]
    BY <1>1, <1>2, ModeLemma DEF schedVars, semVars, taskVars, Mode
<1>4. SemTypeOK' /\ SemInv' /\ RequestInv'
    BY <1>1, StillFrame DEF taskVars
<1>5. KernelTypeOK'
    BY <1>1, <1>3 DEF taskVars, IInv, TypeOK, KernelTypeOK
<1> QED  BY <1>2, <1>3, <1>4, <1>5, Assemble

\* A marked thread dies: it returned to user mode, so it was awake.
LEMMA TryReschedDieInv ==
    ASSUME IInv, NEW c \in Cpus, TryReschedDie(c)
    PROVE  SysInv'
<1> DEFINE t == current[c]
<1>1. /\ t \in Threads /\ pc[t] = "user" /\ mode[c] = "exit"
      /\ state' = [state EXCEPT ![t] = "EXITED"]
      /\ UNCHANGED <<active, queued_threads, current, poll_threads,
                     suspended_threads, sched_lock, panicked>>
      /\ mode' = [mode EXCEPT ![c] = "switch"]
      /\ UNCHANGED <<semVars, pc, taskVars, reqs>>
    BY DEF TryReschedDie, ReturnsToUser, thread_die
<1>2. active[t] /\ \A d \in Cpus \ {c} : current[d] # t
    BY <1>1 DEF IInv, CurrentInv
<1>3. current[c] = t
    OBVIOUS
<1> HIDE DEF t
<1>4. /\ mode' \in [Cpus -> Mode]
      /\ mode'[c] = "switch" /\ \A d \in Cpus \ {c} : mode'[d] = mode[d]
    BY <1>1 DEF IInv, TypeOK, KernelTypeOK, Mode
<1>5. /\ state' \in [Threads -> ThreadState]
      /\ state'[t] = "EXITED" /\ \A x \in Threads \ {t} : state'[x] = state[x]
    BY <1>1 DEF IInv, TypeOK, SchedTypeOK, ThreadState
<1>6. NoPanic' /\ SchedTypeOK'
    BY <1>1, <1>5 DEF IInv, TypeOK, SchedTypeOK, NoPanic
<1>7. CurrentInv'
    BY <1>1, ZenonT(30) DEF IInv, CurrentInv
<1>8. QueueInv'
    <2>1. ~OnList(t, queued_threads)
        BY <1>1, <1>2 DEF IInv, QueueInv
    <2> QED  BY <1>1, <1>5, <2>1 DEF IInv, QueueInv
<1>9. StateInv'
    <2>1. \A x \in Threads : Asleep(x) => Asleep(x)'
        BY <1>1 DEF Asleep, semVars, taskVars
    <2>2. ASSUME NEW x \in Threads, state'[x] = "EXITED", NEW d \in Cpus,
                 current[d] = x
          PROVE  mode'[d] = "switch"
        <3>1. CASE x = t
            BY <1>2, <1>4, <2>2, <3>1
        <3>2. CASE x # t
            <4>1. state[x] = "EXITED"
                BY <1>5, <2>2, <3>2
            <4>2. mode[d] = "switch"
                BY <2>2, <4>1 DEF IInv, StateInv
            <4>3. d # c
                BY <1>3, <2>2, <3>2
            <4> QED  BY <1>4, <4>2, <4>3
        <3> QED  BY <3>1, <3>2
    <2>3. ASSUME NEW x \in Threads \ {t}
          PROVE  /\ state[x] = "SLEEPING" => Asleep(x)
                 /\ state[x] = "SLEEPING" /\ active[x] =>
                       pc[x] \in {"yield", "pyield", "arm", "tyield"}
                 /\ state[x] = "EXITED" => pc[x] = "user"
                 /\ state[x] = "BUILDING" => ~active[x] /\ pc[x] \in {"user", "kern"}
        BY DEF IInv, StateInv
    <2>4. ASSUME NEW x \in Threads \ {t}
          PROVE  state'[x] = state[x] /\ pc'[x] = pc[x] /\ active'[x] = active[x]
        BY <1>1, <1>5
    <2>5. state'[t] = "EXITED" /\ pc'[t] = "user"
        BY <1>1, <1>5
    <2>6. \A d \in Cpus : current'[d] = current[d]
        BY <1>1
    <2> QED  BY <2>1, <2>2, <2>3, <2>4, <2>5, <2>6, SMT DEF StateInv
<1>10. ModeInv'
    BY <1>1, <1>2, <1>3, <1>4, <1>5 DEF IInv, ModeInv
<1>11. IrqInv'
    <2>1. \A x \in Threads : pc[x] = "arm" => current[c] # x
        BY <1>1, ArmLemma
    <2> QED  BY <1>1, <1>4, <2>1 DEF IInv, IrqInv
<1>12. PollInv'
    <2>1. ~OnList(t, poll_threads)
        BY <1>1 DEF IInv, PollInv
    <2> QED  BY <1>1, <1>5, <2>1 DEF IInv, PollInv
<1>13. TimerInv'
    <2>1. sleep_timers \subseteq Threads /\ t \notin sleep_timers
        BY <1>1 DEF IInv, TypeOK, KernelTypeOK, TimerInv
    <2> QED  BY <1>1, <1>5, <2>1 DEF IInv, TimerInv, taskVars
<1>14. CoreInv'
    BY <1>6, <1>7, <1>8, <1>9, <1>10, <1>11, <1>12, <1>13 DEF CoreInv
<1>15. SemTypeOK' /\ SemInv' /\ RequestInv'
    BY <1>1, StillFrame DEF taskVars
<1>16. KernelTypeOK'
    BY <1>1, <1>4 DEF taskVars, IInv, TypeOK, KernelTypeOK
<1> QED  BY <1>6, <1>14, <1>15, <1>16, Assemble

\* A thread calls sched_switch().
LEMMA YieldInv ==
    ASSUME IInv, NEW c \in Cpus, NEW t \in Threads, Yield(c, t)
    PROVE  SysInv'
<1>1. /\ mode[c] = "run" /\ current[c] = t
      /\ pc[t] \in {"yield", "pyield", "tyield"}
      /\ do_sched_switch(c) /\ UNCHANGED <<semVars, taskVars, reqs, mode>>
      /\ pc' = [pc EXCEPT ![t] = Resume[pc[t]]]
    BY DEF Yield, Runs, Resume, Goto
<1>2. \/ pc[t] = "yield" /\ Resume[pc[t]] = "relock"
      \/ pc[t] = "pyield" /\ Resume[pc[t]] = "poll"
      \/ pc[t] = "tyield" /\ Resume[pc[t]] = "tret"
    <2>1. /\ Resume["yield"] = "relock" /\ Resume["pyield"] = "poll"
          /\ Resume["tyield"] = "tret"
        BY DEF Resume
    <2> QED  BY <1>1, <2>1
<1>3. /\ pc' \in [Threads -> Pc] /\ pc'[t] = Resume[pc[t]]
      /\ \A x \in Threads \ {t} : pc'[x] = pc[x]
    BY <1>1, <1>2 DEF IInv, TypeOK, KernelTypeOK, Pc
<1>4. \A x \in Threads :
         \/ pc'[x] = pc[x]
         \/ /\ x = current[c]
            /\ \/ pc[x] = "yield" /\ pc'[x] = "relock"
               \/ pc[x] = "pyield" /\ pc'[x] = "poll"
               \/ pc[x] = "tyield" /\ pc'[x] = "tret"
    BY <1>1, <1>2, <1>3
<1>5. \A x \in Threads : pc[x] = "arm" => x # current[c]
    BY <1>1
<1>6. CoreInv' /\ NoPanic'
    BY <1>1, <1>4, <1>5, SwitchStepLemma DEF semVars, taskVars
<1>7. SemInv' /\ SemTypeOK'
    <2>1. CASE pc[t] = "yield"
        <3>1. \A x \in Threads : pc'[x] \in SemPcs <=> pc[x] \in SemPcs
            BY <1>2, <1>3, <2>1 DEF SemPcs
        <3>2. \A x \in Threads : pc'[x] \in {"cond", "prepare"} => pc'[x] = pc[x]
            BY <1>2, <1>3, <2>1
        <3>3. SemTypeOK'
            BY <1>1 DEF semVars, IInv, TypeOK, SemTypeOK
        <3> QED  BY <1>1, <3>1, <3>2, <3>3 DEF semVars, taskVars, IInv, SemInv
    <2>2. CASE pc[t] # "yield"
        BY <1>1, <1>2, <1>3, <2>2, SemFrame DEF taskVars, SemPcs
    <2> QED  BY <2>1, <2>2
<1>8. KernelTypeOK'
    BY <1>1, <1>3 DEF taskVars, IInv, TypeOK, KernelTypeOK
<1>9. RequestInv'
    <2>1. pc'[Ktaskd] = "take" <=> pc[Ktaskd] = "take"
        BY <1>1, <1>2, <1>3, KernelAssumption
    <2> QED  BY <1>1, <2>1 DEF semVars, IInv, RequestInv, KtaskdCountsRequests
<1> QED  BY <1>6, <1>7, <1>8, <1>9, Assemble

\* sched_try_resched() switches threads.
LEMMA TryReschedSwitchInv ==
    ASSUME IInv, NEW c \in Cpus, TryReschedSwitch(c)
    PROVE  SysInv'
<1>1. /\ mode[c] = "exit" /\ do_sched_switch(c)
      /\ mode' = [mode EXCEPT ![c] = "run"]
      /\ UNCHANGED <<semVars, pc, taskVars, reqs>>
    BY DEF TryReschedSwitch
<1>2. /\ mode' \in [Cpus -> Mode]
      /\ mode'[c] = "run" /\ \A d \in Cpus \ {c} : mode'[d] = mode[d]
    BY <1>1 DEF IInv, TypeOK, KernelTypeOK, Mode
<1>3. CoreInv' /\ NoPanic'
    <2>1. \A x \in Threads : pc[x] = "arm" => x # current[c]
        BY <1>1, ArmLemma
    <2>2. \A x \in Threads : pc'[x] = pc[x]
        BY <1>1
    <2> QED  BY <1>1, <1>2, <2>1, <2>2, SwitchStepLemma DEF semVars, taskVars
<1>4. SemTypeOK' /\ SemInv' /\ RequestInv'
    BY <1>1, StillFrame DEF taskVars
<1>5. KernelTypeOK'
    BY <1>1, <1>2 DEF taskVars, IInv, TypeOK, KernelTypeOK
<1> QED  BY <1>3, <1>4, <1>5, Assemble

\* The last switch of an exited thread, and the first switch of a CPU.
LEMMA FinalSwitchInv ==
    ASSUME IInv, NEW c \in Cpus, FinalSwitch(c)
    PROVE  SysInv'
<1>1. /\ mode[c] = "switch" /\ do_sched_switch(c)
      /\ mode' = [mode EXCEPT ![c] = "run"]
      /\ exit_state' = IF current[c] \in Threads
                       THEN [exit_state EXCEPT ![current[c]] = "EXITED"]
                       ELSE exit_state
      /\ UNCHANGED <<semVars, pc, wait_on, ignore_sigs, should_die, sig_pending>>
      /\ UNCHANGED <<sleep_timers, reqs>>
    BY DEF FinalSwitch
<1>2. /\ mode' \in [Cpus -> Mode]
      /\ mode'[c] = "run" /\ \A d \in Cpus \ {c} : mode'[d] = mode[d]
    BY <1>1 DEF IInv, TypeOK, KernelTypeOK, Mode
<1>3. CoreInv' /\ NoPanic'
    <2>1. \A x \in Threads : pc[x] = "arm" => x # current[c]
        BY <1>1, ArmLemma
    <2>2. \A x \in Threads : pc'[x] = pc[x]
        BY <1>1
    <2> QED  BY <1>1, <1>2, <2>1, <2>2, SwitchStepLemma DEF semVars
<1>4. SemTypeOK' /\ SemInv' /\ RequestInv'
    BY <1>1, StillFrame
<1>5. KernelTypeOK'
    BY <1>1, <1>2 DEF IInv, TypeOK, KernelTypeOK
<1> QED  BY <1>3, <1>4, <1>5, Assemble

-----------------------------------------------------------------------------
(***************************************************************************)
(* The invariant is inductive.                                             *)
(***************************************************************************)

\* Both ends of a semaphore wait, from their parts.
LEMMA DownInv ==
    ASSUME IInv, RolesSeparate, NEW c \in Cpus, NEW t \in Threads, NEW s \in Sems,
           NEW ignore \in BOOLEAN, Down(c, t, s, ignore)
    PROVE  SysInv'
<1>1. /\ Runs(c, t, {"kern"}) /\ t \in Consumers[s]
      /\ UNCHANGED <<exit_state, should_die, sig_pending, sleep_timers, reqs>>
    BY DEF Down
<1>2. CASE /\ DownAtOnce(s) /\ Goto(t, Obtained(t))
           /\ UNCHANGED <<wait_on, ignore_sigs>>
    BY <1>1, <1>2, DownAtOnceInv DEF taskVars
<1>3. CASE /\ DownEnqueue(t, s) /\ Goto(t, "cond")
           /\ wait_on' = [wait_on EXCEPT ![t] = s]
           /\ ignore_sigs' = [ignore_sigs EXCEPT ![t] = ignore]
    BY <1>1, <1>3, DownEnqueueInv
<1> QED  BY <1>2, <1>3 DEF Down

\* The check of the condition in semaphore_down() keeps the invariant.
LEMMA DownCondInv ==
    ASSUME IInv, NEW c \in Cpus, NEW t \in Threads, DownCond(c, t)
    PROVE  SysInv'
<1>1. Runs(c, t, {"cond"}) /\ UNCHANGED reqs
    BY DEF DownCond
<1>2. CASE Goto(t, "prepare") /\ UNCHANGED <<schedVars, semVars, taskVars>>
    BY <1>1, <1>2, DownWaitInv
<1>3. CASE DownGiveUp(t, wait_on[t]) /\ Goto(t, "kern") /\ Forget(t)
    BY <1>1, <1>3, DownGiveUpInv
<1> QED  BY <1>2, <1>3 DEF DownCond

\* Taking the semaphore's lock again after a wakeup keeps the invariant.
LEMMA DownRelockInv ==
    ASSUME IInv, RolesSeparate, NEW c \in Cpus, NEW t \in Threads, DownRelock(c, t)
    PROVE  SysInv'
<1>1. Runs(c, t, {"relock"}) /\ UNCHANGED reqs
    BY DEF DownRelock
<1>2. CASE DownAgain(t, wait_on[t]) /\ Goto(t, "cond") /\ UNCHANGED taskVars
    BY <1>1, <1>2, DownAgainInv
<1>3. CASE DownObtain(t, wait_on[t]) /\ Goto(t, Obtained(t)) /\ Forget(t)
    BY <1>1, <1>3, DownObtainInv
<1> QED  BY <1>2, <1>3 DEF DownRelock

\* Every step that notifies keeps the invariant.
LEMMA NotifyInv ==
    ASSUME IInv, NEW c \in Cpus, Notify(c)
    PROVE  SysInv'
<1>1. UNCHANGED <<semVars, pc, taskVars, reqs>>
    BY DEF Notify
<1>2. CASE /\ mode[c] = "isr" /\ NotifyLock(c)
           /\ mode' = [mode EXCEPT ![c] = "notify"]
    BY <1>1, <1>2, NotifyLockInv
<1>3. CASE mode[c] = "notify" /\ NotifyWake(c) /\ UNCHANGED mode
    BY <1>1, <1>3, NotifyWakeInv
<1>4. CASE /\ mode[c] = "notify" /\ NotifyUnlock(c)
           /\ mode' = [mode EXCEPT ![c] = "exit"]
    BY <1>1, <1>4, NotifyUnlockInv
<1> QED  BY <1>2, <1>3, <1>4 DEF Notify

\* The code of a thread.
LEMMA ThreadStepInv ==
    ASSUME IInv, RolesSeparate, NEW c \in Cpus, NEW t \in Threads, ThreadStep(c, t)
    PROVE  SysInv'
<1>1. CASE SyscallReturn(c, t)       BY <1>1, SyscallReturnInv
<1>2. CASE DownCond(c, t)            BY <1>2, DownCondInv
<1>3. CASE DownSleep(c, t)           BY <1>3, DownSleepInv
<1>4. CASE DownRelock(c, t)          BY <1>4, DownRelockInv
<1>5. CASE PollCond(c, t)            BY <1>5, PollCondInv
<1>6. CASE PollSuspend(c, t)         BY <1>6, PollSuspendInv
<1>7. CASE MsleepArm(c, t)           BY <1>7, MsleepArmInv
<1>8. CASE Yield(c, t)               BY <1>8, YieldInv
<1>9. CASE Down(c, t, KtaskdSem, TRUE)
    BY <1>9, DownInv, KernelAssumption
<1>10. CASE KtaskdTake(c)            BY <1>10, KtaskdTakeInv
<1>11. CASE KtaskdSpawn(c)           BY <1>11, KtaskdSpawnInv
<1> QED  BY <1>1, <1>2, <1>3, <1>4, <1>5, <1>6, <1>7, <1>8, <1>9, <1>10, <1>11
         DEF ThreadStep

\* Every request of a thread keeps the invariant.
LEMMA ThreadRequestInv ==
    ASSUME IInv, RolesSeparate, NEW c \in Cpus, NEW t \in Threads,
           ThreadRequest(c, t)
    PROVE  SysInv'
<1>1. CASE Syscall(c, t)             BY <1>1, SyscallInv
<1>2. CASE EnterUserland(c, t)       BY <1>2, EnterUserlandInv
<1>3. CASE Exit(c, t)                BY <1>3, ExitInv
<1>4. CASE Msleep(c, t)              BY <1>4, MsleepInv
<1>5. CASE \E child \in Threads : Fork(c, t, child) \/ WaitPid(c, t, child)
    <2>1. PICK child \in Threads : Fork(c, t, child) \/ WaitPid(c, t, child)
        BY <1>5
    <2> QED  BY <2>1, ForkInv, WaitPidInv
<1>6. CASE \E s \in Sems \ {KtaskdSem}, ignore \in BOOLEAN : Down(c, t, s, ignore)
    <2>1. PICK s \in Sems \ {KtaskdSem}, ignore \in BOOLEAN : Down(c, t, s, ignore)
        BY <1>6
    <2> QED  BY <2>1, DownInv
<1> QED  BY <1>1, <1>2, <1>3, <1>4, <1>5, <1>6 DEF ThreadRequest

\* The interrupt path.
LEMMA InterruptStepInv ==
    ASSUME IInv, NEW c \in Cpus, InterruptStep(c)
    PROVE  SysInv'
<1>1. CASE Notify(c)                 BY <1>1, NotifyInv
<1>2. CASE TryReschedDie(c)          BY <1>2, TryReschedDieInv
<1>3. CASE TryReschedSwitch(c)       BY <1>3, TryReschedSwitchInv
<1>4. CASE TryReschedReturn(c)       BY <1>4, TryReschedReturnInv
<1>5. CASE FinalSwitch(c)            BY <1>5, FinalSwitchInv
<1> QED  BY <1>1, <1>2, <1>3, <1>4, <1>5 DEF InterruptStep

\* Every request of an interrupt handler keeps the invariant.
LEMMA InterruptRequestInv ==
    ASSUME IInv, RolesSeparate, NEW c \in Cpus, InterruptRequest(c)
    PROVE  SysInv'
<1>1. CASE \E t \in Threads : SleepCallback(c, t) \/ IsrSignal(c, t)
    <2>1. PICK t \in Threads : SleepCallback(c, t) \/ IsrSignal(c, t)
        BY <1>1
    <2> QED  BY <2>1, SleepCallbackInv, IsrSignalInv
<1>2. CASE \E s \in Sems : Up(c, s)
    <2>1. PICK s \in Sems : Up(c, s)
        BY <1>2
    <2> QED  BY <2>1, UpInv
<1>3. CASE ktaskd_request(c)         BY <1>3, RequestStepInv
<1>4. CASE DeliverSignals(c)         BY <1>4, DeliverSignalsInv
<1> QED  BY <1>1, <1>2, <1>3, <1>4 DEF InterruptRequest

\* What a step does to the state of a thread other than to retire it.
LEMMA WakesLemma ==
    ASSUME IInv, NEW t,
           \/ UNCHANGED state
           \/ do_wake(t)
           \/ state' = [state EXCEPT ![t] = "AWAKE"]
           \/ state' = [state EXCEPT ![t] = "SLEEPING"]
    PROVE  state'[InitThread] # "EXITED"
<1>1. /\ InitThread \in Threads /\ state \in [Threads -> ThreadState]
      /\ state[InitThread] # "EXITED"
    BY KernelAssumption, SchedAssumption DEF IInv, TypeOK, SchedTypeOK, InitRuns
<1> QED  BY <1>1 DEF do_wake

\* Only a thread that is marked is retired, and only a call of _exit() and a
\* signal to a thread other than init mark one.
LEMMA InitRunsLemma ==
    ASSUME IInv, RolesSeparate, Next
    PROVE  InitRuns'
<1>1. /\ InitThread \in Threads /\ state \in [Threads -> ThreadState]
      /\ should_die \in [Threads -> BOOLEAN]
      /\ state[InitThread] # "EXITED" /\ ~should_die[InitThread]
    BY SchedAssumption DEF IInv, TypeOK, SchedTypeOK, KernelTypeOK, InitRuns
<1> DEFINE Woken == state'[InitThread] # "EXITED" /\ UNCHANGED should_die
<1>2. Woken => InitRuns'
    BY <1>1 DEF InitRuns
<1>3. PICK c \in Cpus :
         \/ \E t \in Threads : ThreadStep(c, t) \/ ThreadRequest(c, t)
         \/ Interrupt(c)
         \/ InterruptStep(c)
         \/ InterruptRequest(c)
    BY DEF Next
<1>4. ASSUME NEW t \in Threads, ThreadStep(c, t) PROVE InitRuns'
    <2>1. CASE SyscallReturn(c, t)
        BY <1>2, <2>1, WakesLemma DEF SyscallReturn, schedVars, taskVars
    <2>2. CASE DownCond(c, t)
        BY <1>2, <2>2, WakesLemma DEF DownCond, DownGiveUp, Forget, schedVars, taskVars
    <2>3. CASE DownSleep(c, t)
        BY <1>2, <2>3, WakesLemma DEF DownSleep, DownPrepare, thread_sleep_prepare, taskVars
    <2>4. CASE DownRelock(c, t)
        BY <1>2, <2>4, WakesLemma
           DEF DownRelock, DownAgain, DownObtain, Forget, schedVars, taskVars
    <2>5. CASE PollCond(c, t)
        BY <1>2, <2>5, WakesLemma DEF PollCond, Forget, schedVars, taskVars
    <2>6. CASE PollSuspend(c, t)
        BY <1>2, <2>6, WakesLemma
           DEF PollSuspend, sched_suspend_pending_interrupt, thread_sleep_prepare, taskVars
    <2>7. CASE MsleepArm(c, t)
        BY <1>2, <2>7, WakesLemma DEF MsleepArm, schedVars
    <2>8. CASE Yield(c, t)
        BY <1>2, <2>8, WakesLemma DEF Yield, do_sched_switch, taskVars
    <2>9. CASE Down(c, t, KtaskdSem, TRUE)
        BY <1>2, <2>9, WakesLemma DEF Down, DownAtOnce, DownEnqueue, schedVars
    <2>10. CASE KtaskdTake(c)
        BY <1>2, <2>10, WakesLemma DEF KtaskdTake, schedVars, taskVars
    <2>11. CASE KtaskdSpawn(c)
        <3>1. UNCHANGED should_die /\ (UNCHANGED state \/ \E k : thread_schedule(k))
            BY <2>11 DEF KtaskdSpawn, schedVars, taskVars
        <3> QED  BY <1>2, <3>1, WakesLemma DEF thread_schedule
    <2> QED  BY <1>4, <2>1, <2>2, <2>3, <2>4, <2>5, <2>6, <2>7, <2>8, <2>9, <2>10, <2>11
             DEF ThreadStep
<1>5. ASSUME NEW t \in Threads, ThreadRequest(c, t) PROVE InitRuns'
    <2>1. CASE Syscall(c, t)
        BY <1>2, <2>1, WakesLemma DEF Syscall, schedVars, taskVars
    <2>2. CASE EnterUserland(c, t)
        BY <1>2, <2>2, WakesLemma DEF EnterUserland, schedVars, taskVars
    <2>3. CASE Exit(c, t)
        <3>1. t # InitThread
            BY <2>3 DEF Exit, RolesSeparate
        <3>2. should_die' = [should_die EXCEPT ![t] = TRUE] /\ UNCHANGED state
            BY <2>3 DEF Exit, schedVars
        <3> QED  BY <1>1, <3>1, <3>2 DEF InitRuns
    <2>4. CASE Msleep(c, t)
        BY <1>2, <2>4, WakesLemma DEF Msleep, thread_sleep_prepare, taskVars
    <2>5. ASSUME NEW child \in Threads, Fork(c, t, child) PROVE InitRuns'
        BY <1>2, <2>5, WakesLemma DEF Fork, thread_schedule, taskVars
    <2>6. ASSUME NEW child \in Threads, WaitPid(c, t, child) PROVE InitRuns'
        BY <1>2, <2>6, WakesLemma DEF WaitPid, schedVars
    <2>7. ASSUME NEW s \in Sems, NEW ignore \in BOOLEAN, Down(c, t, s, ignore)
          PROVE  InitRuns'
        BY <1>2, <2>7, WakesLemma DEF Down, DownAtOnce, DownEnqueue, schedVars
    <2> QED  BY <1>5, <2>1, <2>2, <2>3, <2>4, <2>5, <2>6, <2>7 DEF ThreadRequest
<1>6. CASE Interrupt(c)
    BY <1>2, <1>6, WakesLemma DEF Interrupt, schedVars, taskVars
<1>7. CASE InterruptStep(c)
    <2>1. CASE Notify(c)
        <3>1. UNCHANGED should_die /\ (UNCHANGED state \/ \E k : do_wake(k))
            BY <2>1 DEF Notify, NotifyLock, NotifyWake, NotifyUnlock, taskVars
        <3> QED  BY <1>2, <3>1, WakesLemma
    <2>2. CASE TryReschedDie(c)
        <3>1. /\ current[c] # InitThread
              /\ state' = [state EXCEPT ![current[c]] = "EXITED"]
              /\ UNCHANGED should_die
            BY <1>1, <2>2 DEF TryReschedDie, thread_die, taskVars
        <3> QED  BY <1>1, <3>1 DEF InitRuns
    <2>3. CASE TryReschedSwitch(c)
        BY <1>2, <2>3, WakesLemma DEF TryReschedSwitch, do_sched_switch, taskVars
    <2>4. CASE TryReschedReturn(c)
        BY <1>2, <2>4, WakesLemma DEF TryReschedReturn, schedVars, taskVars
    <2>5. CASE FinalSwitch(c)
        BY <1>2, <2>5, WakesLemma DEF FinalSwitch, do_sched_switch
    <2> QED  BY <1>7, <2>1, <2>2, <2>3, <2>4, <2>5 DEF InterruptStep
<1>8. CASE InterruptRequest(c)
    <2>1. ASSUME NEW s, semaphore_up(s), UNCHANGED taskVars PROVE InitRuns'
        <3>1. UNCHANGED should_die /\ (UNCHANGED state \/ \E k : do_wake(k))
            BY <2>1 DEF semaphore_up, schedVars, taskVars
        <3> QED  BY <1>2, <3>1, WakesLemma
    <2>2. ASSUME NEW t \in Threads, SleepCallback(c, t) PROVE InitRuns'
        BY <1>2, <2>2, WakesLemma DEF SleepCallback, thread_wake
    <2>3. ASSUME NEW t \in Threads, IsrSignal(c, t) PROVE InitRuns'
        BY <1>2, <2>3, WakesLemma DEF IsrSignal, SendSignal, thread_poke
    <2>4. ASSUME NEW s \in Sems, Up(c, s) PROVE InitRuns'
        BY <2>1, <2>4 DEF Up
    <2>5. CASE ktaskd_request(c)
        BY <2>1, <2>5 DEF ktaskd_request
    <2>6. CASE DeliverSignals(c)
        <3>1. UNCHANGED state
            BY <2>6 DEF DeliverSignals, schedVars
        <3>2. \/ UNCHANGED should_die
              \/ /\ current[c] # InitThread
                 /\ should_die' = [should_die EXCEPT ![current[c]] = TRUE]
            BY <2>6 DEF DeliverSignals
        <3> QED  BY <1>1, <3>1, <3>2 DEF InitRuns
    <2> QED  BY <1>8, <2>2, <2>3, <2>4, <2>5, <2>6 DEF InterruptRequest
<1> QED  BY <1>3, <1>4, <1>5, <1>6, <1>7, <1>8

\* Every step keeps the invariant.
LEMMA NextInv ==
    ASSUME IInv, RolesSeparate, Next
    PROVE  IInv'
<1> SUFFICES SysInv'
    BY InitRunsLemma DEF IInv, SysInv
<1>1. PICK c \in Cpus :
         \/ \E t \in Threads : ThreadStep(c, t) \/ ThreadRequest(c, t)
         \/ Interrupt(c)
         \/ InterruptStep(c)
         \/ InterruptRequest(c)
    BY DEF Next
<1>2. CASE \E t \in Threads : ThreadStep(c, t) \/ ThreadRequest(c, t)
    <2>1. PICK t \in Threads : ThreadStep(c, t) \/ ThreadRequest(c, t)
        BY <1>2
    <2> QED  BY <2>1, ThreadStepInv, ThreadRequestInv
<1>3. CASE Interrupt(c)              BY <1>3, InterruptInv
<1>4. CASE InterruptStep(c)          BY <1>4, InterruptStepInv
<1>5. CASE InterruptRequest(c)       BY <1>5, InterruptRequestInv
<1> QED  BY <1>1, <1>2, <1>3, <1>4, <1>5

\* A step that changes nothing.
LEMMA StutterInv ==
    ASSUME IInv, UNCHANGED vars
    PROVE  IInv'
<1>1. UNCHANGED <<schedVars, semVars, mode, pc, taskVars, reqs>>
    BY DEF vars
<1>2. CoreInv' /\ NoPanic'
    BY <1>1, CoreFrame DEF semVars, taskVars
<1>3. KernelTypeOK'
    BY <1>1 DEF taskVars, IInv, TypeOK, KernelTypeOK
<1>4. SemTypeOK' /\ SemInv' /\ RequestInv'
    BY <1>1, StillFrame DEF taskVars
<1>5. InitRuns'
    BY <1>1 DEF schedVars, taskVars, IInv, InitRuns
<1> QED  BY <1>2, <1>3, <1>4, <1>5, Assemble DEF SysInv, IInv

\* The state in which every CPU enters sched_loop().
LEMMA InitInv ==
    ASSUME Init
    PROVE  IInv
<1>1. /\ state = [t \in Threads |-> IF t = InitThread THEN "AWAKE" ELSE "BUILDING"]
      /\ active = [t \in Threads \cup Cpus |-> FALSE]
      /\ queued_threads = <<InitThread>>
      /\ current = [c \in Cpus |-> c]
      /\ poll_threads = <<>> /\ suspended_threads = 0
      /\ sched_lock = NoCpu /\ panicked = FALSE
    BY DEF Init, SchedInit
<1>2. /\ mode = [c \in Cpus |-> "switch"]
      /\ pc = [t \in Threads |-> IF t \in UserThreads \ {InitThread}
                                 THEN "user" ELSE "kern"]
      /\ sleep_timers = {} /\ reqs = 0
    BY DEF Init
<1>3. InitThread \in Threads /\ KtaskdSem \in Sems /\ Ktaskd \in Threads \ UserThreads
    BY KernelAssumption, SchedAssumption
<1>4. /\ SchedTypeOK /\ NoPanic
      /\ SemTypeOK /\ KernelTypeOK
    <2>1. SchedTypeOK /\ NoPanic
        <3>1. /\ state \in [Threads -> ThreadState]
              /\ queued_threads \in Seq(Threads) /\ poll_threads \in Seq(Threads)
              /\ current \in [Cpus -> Threads \cup Cpus] /\ suspended_threads \in Nat
            BY <1>1, <1>3, SMT DEF ThreadState
        <3>2. active \in [Threads \cup Cpus -> BOOLEAN]
            BY <1>1
        <3> QED  BY <1>1, <3>1, <3>2 DEF SchedTypeOK, NoPanic
    <2>2. SemTypeOK
        <3>1. /\ sem_lock = [s \in Sems |-> NoThread]
              /\ sem_count = [s \in Sems |-> 0]
              /\ waiters = [s \in Sems |-> <<>>]
              /\ insem = [t \in Threads |-> FALSE]
            BY DEF Init, SemInit
        <3>2. sem_count \in [Sems -> Nat] /\ waiters \in [Sems -> Seq(Threads)]
            BY <3>1, SMT
        <3>3. insem \in [Threads -> BOOLEAN]
            BY <3>1
        <3> QED  BY <3>1, <3>2, <3>3 DEF SemTypeOK
    <2>3. /\ mode \in [Cpus -> Mode] /\ pc \in [Threads -> Pc]
          /\ sleep_timers \subseteq Threads /\ reqs \in Nat
        BY <1>2 DEF Mode, Pc
    <2>4. /\ wait_on \in [Threads -> Threads \cup Sems \cup {NoThread}]
          /\ ignore_sigs \in [Threads -> BOOLEAN]
          /\ exit_state \in [Threads -> {"RUNNING", "EXITING", "EXITED"}]
          /\ should_die \in [Threads -> BOOLEAN]
          /\ sig_pending \in [Threads -> BOOLEAN]
        BY DEF Init
    <2> QED  BY <2>1, <2>2, <2>3, <2>4 DEF KernelTypeOK
<1>5. /\ \A t \in Threads : pc[t] \in {"user", "kern"} /\ ~active[t]
      /\ \A t \in Threads : state[t] = (IF t = InitThread THEN "AWAKE" ELSE "BUILDING")
      /\ \A c \in Cpus : current[c] = c /\ current[c] \notin Threads /\ ~active[c]
      /\ \A t \in Threads : ~OnList(t, poll_threads)
      /\ pc[Ktaskd] = "kern"
    BY <1>1, <1>2, <1>3, SchedAssumption, SMT DEF OnList
<1>6. CurrentInv
    <2>1. \A t \in Threads, c \in Cpus : current[c] # t
        BY <1>5
    <2>2. \A c, d \in Cpus : current[c] = current[d] => c = d
        BY <1>5, SMT
    <2>3. \A c, d \in Cpus : current[c] = d => c = d
        BY <1>5
    <2> QED  BY <1>5, <2>1, <2>2, <2>3 DEF CurrentInv
<1>7. QueueInv
    <2>1. DOMAIN queued_threads = {1} /\ queued_threads[1] = InitThread
        BY <1>1, SMT
    <2> QED  BY <1>5, <2>1 DEF QueueInv, OnList, NoDuplicates
<1>8. StateInv /\ ModeInv /\ IrqInv
    BY <1>5 DEF StateInv, ModeInv, IrqInv
<1>9. PollInv /\ TimerInv
    <2>1. NoDuplicates(poll_threads) /\ suspended_threads = Len(poll_threads)
        BY <1>1, SMT DEF NoDuplicates
    <2> QED  BY <1>2, <1>5, <2>1 DEF PollInv, TimerInv
<1>10. SemInv
    <2>1. \A s \in Sems : waiters[s] = <<>>
        BY DEF Init, SemInit
    <2>2. \A s \in Sems : NoDuplicates(waiters[s])
                          /\ \A t \in Threads : ~OnList(t, waiters[s])
        BY <2>1, SMT DEF NoDuplicates, OnList
    <2>3. \A t \in Threads : ~insem[t]
        BY DEF Init, SemInit
    <2> QED  BY <1>5, <2>2, <2>3 DEF SemInv, SemPcs
<1>11. RequestInv
    <2>1. sem_count[KtaskdSem] = 0
        BY <1>3 DEF Init, SemInit
    <2> QED  BY <1>2, <1>5, <2>1, SMT DEF RequestInv, KtaskdCountsRequests
<1>12. InitRuns
    BY <1>3, <1>5 DEF Init, InitRuns
<1> QED  BY <1>4, <1>6, <1>7, <1>8, <1>9, <1>10, <1>11, <1>12 DEF IInv, TypeOK
-----------------------------------------------------------------------------
(***************************************************************************)
(* The theorems.                                                           *)
(***************************************************************************)

\* What the invariant says of each property.
LEMMA InvConsequences ==
    ASSUME IInv
    PROVE  /\ TypeOK /\ NoPanic /\ RunQueueSound /\ CurrentSound /\ PollListSound
           /\ NoForgottenThread /\ NoLostWakeup /\ KtaskdCountsRequests
<1>1. TypeOK /\ NoPanic /\ KtaskdCountsRequests
    BY DEF IInv, RequestInv
<1>2. RunQueueSound /\ NoForgottenThread
    BY DEF IInv, QueueInv, RunQueueSound, NoForgottenThread, Queued
<1>3. CurrentSound
    BY DEF IInv, CurrentInv, CurrentSound
<1>4. NoLostWakeup
    <2> SUFFICES ASSUME NEW t \in Threads, state[t] = "SLEEPING", ~active[t]
                 PROVE  \/ OnList(t, poll_threads)
                        \/ t \in sleep_timers
                        \/ \E s \in Sems : insem[t] /\ OnList(t, waiters[s])
        BY DEF NoLostWakeup
    <2>1. Asleep(t)
        BY DEF IInv, StateInv
    <2>2. CASE insem[t]
        BY <2>2 DEF IInv, SemInv
    <2> QED  BY <2>1, <2>2 DEF Asleep
<1>5. PollListSound
    BY DEF IInv, PollInv, PollListSound
<1> QED  BY <1>1, <1>2, <1>3, <1>4, <1>5

\* The invariant of module KernelInv holds on every number of CPUs when
\* signals, msleep() and waitpid() are used by different threads.
THEOREM Invariance ==
    ASSUME RolesSeparate
    PROVE  Spec => []IInv
<1>1. Init => IInv
    BY InitInv
<1>2. IInv /\ [Next]_vars => IInv'
    BY NextInv, StutterInv
<1> QED  BY <1>1, <1>2, PTL DEF Spec

\* No BUG_ON and no panic() of the scheduler and the semaphores is reached.
THEOREM NoPanicTheorem ==
    ASSUME RolesSeparate
    PROVE  Spec => []NoPanic
<1>1. IInv => NoPanic
    BY InvConsequences
<1> QED  BY <1>1, Invariance, PTL

\* Every variable keeps its type.
THEOREM TypeTheorem ==
    ASSUME RolesSeparate
    PROVE  Spec => []TypeOK
<1>1. IInv => TypeOK
    BY InvConsequences
<1> QED  BY <1>1, Invariance, PTL

\* The run queue holds each thread once, and only runnable ones; a thread is
\* current on one CPU at most.
THEOREM QueueTheorem ==
    ASSUME RolesSeparate
    PROVE  Spec => [](RunQueueSound /\ CurrentSound)
<1>1. IInv => RunQueueSound /\ CurrentSound
    BY InvConsequences
<1> QED  BY <1>1, Invariance, PTL

\* No runnable thread is forgotten by the scheduler.
THEOREM ForgottenTheorem ==
    ASSUME RolesSeparate
    PROVE  Spec => []NoForgottenThread
<1>1. IInv => NoForgottenThread
    BY InvConsequences
<1> QED  BY <1>1, Invariance, PTL

\* No wakeup of a semaphore, of the poll list or of a timer is lost.
THEOREM WakeupTheorem ==
    ASSUME RolesSeparate
    PROVE  Spec => []NoLostWakeup
<1>1. IInv => NoLostWakeup
    BY InvConsequences
<1> QED  BY <1>1, Invariance, PTL

\* ktaskd's semaphore counts the requests on its list.
THEOREM RequestTheorem ==
    ASSUME RolesSeparate
    PROVE  Spec => []KtaskdCountsRequests
<1>1. IInv => KtaskdCountsRequests
    BY InvConsequences
<1> QED  BY <1>1, Invariance, PTL

\* The poll list holds each thread once, so that sched_interrupt_notify() walks
\* it to its end.
THEOREM PollListTheorem ==
    ASSUME RolesSeparate
    PROVE  Spec => []PollListSound
<1>1. IInv => PollListSound
    BY InvConsequences
<1> QED  BY <1>1, Invariance, PTL
=============================================================================
