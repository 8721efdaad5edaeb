----------------------------- MODULE TicketLock -----------------------------
(***************************************************************************)
(* The ticket spinlock of kernel/src/arch/spinlock.c.  The lock's word     *)
(* holds two tickets: tail is the next one handed out, head the one being  *)
(* served.  Each is ticket_t wide and wraps; TicketValues is 2^16 in the   *)
(* code.  A processor uses the lock with interrupts disabled, so it is one *)
(* process.  Each access to the shared word is a step, and so are the      *)
(* holder's bookkeeping and the release that follows it.                   *)
(***************************************************************************)
EXTENDS Integers, FiniteSets

CONSTANTS Processors,          \* the processors that use the lock
          TicketValues,  \* the number of values of ticket_t
          NoHolder       \* lock->arch.holder = 0xFFFF

ASSUME TicketAssumption ==
    /\ IsFiniteSet(Processors)
    /\ TicketValues \in Nat
    /\ Cardinality(Processors) < TicketValues
    /\ NoHolder \notin Processors

VARIABLES
    head,     \* lock->arch.tickets.head
    tail,     \* lock->arch.tickets.tail
    holder,   \* lock->arch.holder
    at,       \* per CPU: where it is in the lock's functions
    local,    \* per CPU: the local ticket, or the tail read by _spin_trylock()
    locks_held, \* per CPU: how often it holds the lock
    violation \* a panicf() about the holder was reached

lockVars == <<head, tail, holder, at, local, locks_held, violation>>

Ticket == 0 .. TicketValues - 1

\* "out"      does not use the lock
\* "spin"     in the loop of _spin_lock()
\* "cas"      _spin_trylock() has read equal tickets
\* "got"      at lock_out, or behind a successful cmpxchg
\* "held"     in the critical section
\* "unlock"   _spin_unlock() has cleared the holder
Places == {"out", "spin", "cas", "got", "held", "unlock"}

\* The processors that have drawn a ticket and not returned it.
Outstanding == {c \in Processors : at[c] \in {"spin", "got", "held", "unlock"}}

\* The processors that have been granted the lock.
Granted == {c \in Processors : at[c] \in {"got", "held", "unlock"}}

\* Tickets stay in the range of ticket_t, and the holder is a processor or none.
LockTypeOK ==
    /\ head \in Ticket
    /\ tail \in Ticket
    /\ holder \in Processors \cup {NoHolder}
    /\ at \in [Processors -> Places]
    /\ local \in [Processors -> Ticket]
    /\ locks_held \in [Processors -> Nat]
    /\ violation \in BOOLEAN

LockInit ==
    /\ head = 0
    /\ tail = 0
    /\ holder = NoHolder
    /\ at = [c \in Processors |-> "out"]
    /\ local = [c \in Processors |-> 0]
    /\ locks_held = [c \in Processors |-> 0]
    /\ violation = FALSE

\* A 16-bit addition of one.
Inc(t) == (t + 1) % TicketValues
-----------------------------------------------------------------------------
\* _spin_lock(): the atomic exchange-and-add returns the old word.
DrawTicket(c) ==
    /\ at[c] = "out"
    /\ local' = [local EXCEPT ![c] = tail]
    /\ tail' = Inc(tail)
    /\ at' = [at EXCEPT ![c] = IF head = tail THEN "got" ELSE "spin"]
    /\ UNCHANGED <<head, holder, locks_held, violation>>

\* Mutant: any ticket that has been called already is good enough.
SpinNotBehind(c) ==
    /\ at[c] = "spin"
    /\ head >= local[c]
    /\ at' = [at EXCEPT ![c] = "got"]
    /\ UNCHANGED <<head, tail, holder, local, locks_held, violation>>

\* The loop of _spin_lock(), when the ticket is being served.
Spin(c) ==
    /\ at[c] = "spin"
    /\ head = local[c]
    /\ at' = [at EXCEPT ![c] = "got"]
    /\ UNCHANGED <<head, tail, holder, local, locks_held, violation>>

\* _spin_trylock(): read the word; give up if the lock is taken.
TryRead(c) ==
    /\ at[c] = "out"
    /\ head = tail
    /\ local' = [local EXCEPT ![c] = tail]
    /\ at' = [at EXCEPT ![c] = "cas"]
    /\ UNCHANGED <<head, tail, holder, locks_held, violation>>

\* _spin_trylock(): the compare-and-exchange of the whole word.
TryExchange(c) ==
    /\ at[c] = "cas"
    /\ IF head = local[c] /\ tail = local[c]
       THEN /\ tail' = Inc(tail)
            /\ at' = [at EXCEPT ![c] = "got"]
       ELSE /\ at' = [at EXCEPT ![c] = "out"]
            /\ UNCHANGED tail
    /\ UNCHANGED <<head, holder, local, locks_held, violation>>

\* The bookkeeping at the end of _spin_lock() and _spin_trylock().
Enter(c) ==
    /\ at[c] = "got"
    /\ violation' = (violation \/ holder # NoHolder)
    /\ holder' = c
    /\ locks_held' = [locks_held EXCEPT ![c] = @ + 1]
    /\ at' = [at EXCEPT ![c] = "held"]
    /\ UNCHANGED <<head, tail, local>>

\* Mutant: the holder is not cleared.
LeaveKeepsHolder(c) ==
    /\ at[c] = "held"
    /\ violation' = (violation \/ holder = NoHolder)
    /\ locks_held' = [locks_held EXCEPT ![c] = @ - 1]
    /\ at' = [at EXCEPT ![c] = "unlock"]
    /\ UNCHANGED <<head, tail, holder, local>>

\* _spin_unlock() up to its barrier.
Leave(c) ==
    /\ at[c] = "held"
    /\ violation' = (violation \/ holder = NoHolder)
    /\ holder' = NoHolder
    /\ locks_held' = [locks_held EXCEPT ![c] = @ - 1]
    /\ at' = [at EXCEPT ![c] = "unlock"]
    /\ UNCHANGED <<head, tail, local>>

\* Mutant: the addition is not confined to the head's half of the word.
ServeNextCarries(c) ==
    /\ at[c] = "unlock"
    /\ head' = Inc(head)
    /\ tail' = IF Inc(head) = 0 THEN Inc(tail) ELSE tail
    /\ at' = [at EXCEPT ![c] = "out"]
    /\ UNCHANGED <<holder, local, locks_held, violation>>

\* Mutant: the head moves on twice when somebody waits.
ServeNextTwice(c) ==
    /\ at[c] = "unlock"
    /\ head' = IF Inc(head) = tail THEN tail ELSE Inc(Inc(head))
    /\ at' = [at EXCEPT ![c] = "out"]
    /\ UNCHANGED <<tail, holder, local, locks_held, violation>>

\* The addition to the head that ends _spin_unlock().
ServeNext(c) ==
    /\ at[c] = "unlock"
    /\ head' = Inc(head)
    /\ at' = [at EXCEPT ![c] = "out"]
    /\ UNCHANGED <<tail, holder, local, locks_held, violation>>

\* A processor asks for the lock, and goes on once it has asked.
Request(c) == DrawTicket(c) \/ TryRead(c)
Step(c) == Spin(c) \/ TryExchange(c) \/ Enter(c) \/ Leave(c) \/ ServeNext(c)

LockNext == \E c \in Processors : Request(c) \/ Step(c)

LockSpec == LockInit /\ [][LockNext]_lockVars

\* Interrupts are off: a processor that has asked for the lock goes on.
FairLockSpec == LockSpec /\ \A c \in Processors : WF_lockVars(Step(c))
-----------------------------------------------------------------------------
\* One processor at a time has the lock, whatever the tickets' width.
MutualExclusion == \A c, d \in Granted : c = d

\* The holder recorded in the lock is the processor in its critical section,
\* its count of locks is right, and no panicf() about the holder is reached.
HolderSound ==
    /\ ~violation
    /\ \A c \in Processors : (holder = c) <=> (at[c] = "held")
    /\ \A c \in Processors : locks_held[c] = IF at[c] = "held" THEN 1 ELSE 0

\* How many tickets are served before ticket t.
Ahead(t) == IF t >= head THEN t - head ELSE t - head + TicketValues

\* The processors with a ticket, in the order of their tickets.
Queue == [i \in 1 .. Ahead(tail) |->
            CHOOSE c \in Outstanding : Ahead(local[c]) = i - 1]

Fifo == INSTANCE FifoLock WITH queue <- Queue

\* The lock is granted in the order in which processors drew their tickets,
\* and a processor that succeeds in _spin_trylock() overtakes nobody.
FirstComeFirstServed == Fifo!Spec

\* A processor that waits is served.
Served == \A c \in Processors : at[c] = "spin" ~> at[c] = "held"
=============================================================================
