------------------------------ MODULE FifoLock ------------------------------
(***************************************************************************)
(* What a spinlock promises its users: it is granted to one processor at a *)
(* time, in the order in which the processors asked for it.                *)
(***************************************************************************)
EXTENDS Sequences

CONSTANT Processors

VARIABLE queue    \* the processors that asked for the lock; the first owns it

Init == queue = <<>>

Ask(c) ==
    /\ \A i \in DOMAIN queue : queue[i] # c
    /\ queue' = Append(queue, c)

Release(c) ==
    /\ queue # <<>>
    /\ Head(queue) = c
    /\ queue' = Tail(queue)

Next == \E c \in Processors : Ask(c) \/ Release(c)

Spec == Init /\ [][Next]_queue
=============================================================================
