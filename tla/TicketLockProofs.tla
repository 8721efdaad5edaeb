-------------------------- MODULE TicketLockProofs --------------------------
(***************************************************************************)
(* Proofs about the ticket lock, for any set of processors smaller than    *)
(* the number of tickets.                                                  *)
(***************************************************************************)
EXTENDS TicketLock, Sequences, FiniteSetTheorems, TLAPS

\* What Append and Tail do to a sequence, and when two sequences are the same.
LEMMA QueueAppend ==
    ASSUME NEW S, NEW s \in Seq(S), NEW x \in S
    PROVE  /\ Append(s, x) \in Seq(S)
           /\ Len(Append(s, x)) = Len(s) + 1
           /\ \A i \in 1 .. Len(s) : Append(s, x)[i] = s[i]
           /\ Append(s, x)[Len(s) + 1] = x
  OBVIOUS

\* The tail of a sequence is the sequence without its first element.
LEMMA QueueTail ==
    ASSUME NEW S, NEW s \in Seq(S), s # <<>>
    PROVE  /\ Tail(s) \in Seq(S)
           /\ Len(Tail(s)) = Len(s) - 1
           /\ \A i \in 1 .. Len(Tail(s)) : Tail(s)[i] = s[i + 1]
  OBVIOUS

\* Sequences of the same length with the same elements are the same.
LEMMA SameQueue ==
    ASSUME NEW S, NEW s \in Seq(S), NEW t \in Seq(S), Len(s) = Len(t),
           \A i \in 1 .. Len(s) : s[i] = t[i]
    PROVE  s = t
  OBVIOUS

\* The inductive invariant.  The outstanding tickets are exactly the ones from
\* head to tail, each drawn by one processor, and only the processor whose
\* ticket is head has been granted the lock.
TicketsDistinct ==
    \A c, d \in Outstanding : local[c] = local[d] => c = d

TicketsDrawn ==
    \A c \in Outstanding : Ahead(local[c]) < Ahead(tail)

TicketsOwned ==
    \A i \in 0 .. Ahead(tail) - 1 :
        \E c \in Outstanding : Ahead(local[c]) = i

GrantedHead == \A c \in Granted : local[c] = head

TicketInv ==
    /\ LockTypeOK
    /\ TicketsDistinct
    /\ TicketsDrawn
    /\ TicketsOwned
    /\ GrantedHead
    /\ HolderSound

\* A 16-bit addition wraps from the last ticket to the first one.
LEMMA IncWraps ==
    \A t \in Ticket :
        /\ Inc(t) \in Ticket
        /\ Inc(t) = IF t = TicketValues - 1 THEN 0 ELSE t + 1
BY TicketAssumption, SMT DEF Inc, Ticket

\* The distance of a ticket from head is less than the number of tickets, and
\* tells tickets apart.
LEMMA BeforeType ==
    ASSUME LockTypeOK
    PROVE  /\ \A t \in Ticket : Ahead(t) \in Ticket
           /\ \A t, u \in Ticket : Ahead(t) = Ahead(u) => t = u
BY TicketAssumption, SMT DEF LockTypeOK, Ahead, Ticket

\* A processor that has no ticket leaves room for one more: the tickets in use
\* never fill the whole range, so that head = tail means that the lock is free.
LEMMA RoomForTicket ==
    ASSUME TicketInv, NEW c \in Processors, c \notin Outstanding
    PROVE  Ahead(tail) + 1 < TicketValues
<1> DEFINE n == Ahead(tail)
           S == 0 .. n - 1
           T == Processors \ {c}
           f == [i \in S |-> CHOOSE d \in Outstanding : Ahead(local[d]) = i]
<1>1. n \in Ticket /\ n \in Nat
  BY BeforeType, SMT DEF TicketInv, LockTypeOK, Ticket
<1>2. IsFiniteSet(S) /\ Cardinality(S) = n
  <2>1. 0 \in Int /\ n - 1 \in Int
    BY <1>1, SMT
  <2>2. IsFiniteSet(S) /\ Cardinality(S) = IF 0 > n - 1 THEN 0 ELSE (n - 1) - 0 + 1
    BY <2>1, FS_Interval
  <2> QED BY <1>1, <2>2, SMT
<1>3. IsFiniteSet(T) /\ Cardinality(T) = Cardinality(Processors) - 1
  BY TicketAssumption, FS_RemoveElement
<1>4. \A i \in S : f[i] \in Outstanding /\ Ahead(local[f[i]]) = i
  <2> TAKE i \in S
  <2>1. \E d \in Outstanding : Ahead(local[d]) = i
    BY DEF TicketInv, TicketsOwned
  <2> QED BY <2>1, Zenon
<1>5. f \in [S -> T]
  BY <1>4, Zenon DEF Outstanding
<1>6. ~ \E x, y \in S : x # y /\ f[x] = f[y]
  BY <1>4, Zenon
<1>7. ~ (Cardinality(T) < Cardinality(S))
  <2> HIDE DEF S, T, f
  <2> QED BY <1>2, <1>3, <1>5, <1>6, FS_PigeonHole, Zenon
<1>8. Cardinality(Processors) \in Nat
  BY TicketAssumption, FS_CardinalityType
<1> HIDE DEF n, S, T
<1>9. n + 1 < TicketValues
  BY <1>1, <1>2, <1>3, <1>7, <1>8, TicketAssumption, SMT
<1> QED BY <1>9 DEF n

\* The part of the invariant that is about tickets.
Tickets == TicketsDistinct /\ TicketsDrawn /\ TicketsOwned

\* A processor without a ticket draws one.
LEMMA DrawKeepsTickets ==
    ASSUME TicketInv, LockTypeOK', NEW c \in Processors, c \notin Outstanding,
           head' = head, tail' = Inc(tail), local'[c] = tail,
           \A d \in Processors \ {c} : local'[d] = local[d],
           Outstanding' = Outstanding \cup {c}
    PROVE  /\ Tickets'
           /\ Ahead(tail)' = Ahead(tail) + 1
           /\ \A t \in Ticket : Ahead(t)' = Ahead(t)
<1> USE DEF TicketInv
<1>1. Ahead(tail) + 1 < TicketValues
  BY RoomForTicket
<1>2. \A t \in Ticket : Ahead(t)' = Ahead(t)
  BY SMT DEF Ahead
<1>3. tail \in Ticket /\ \A d \in Processors : local[d] \in Ticket
  BY SMT DEF LockTypeOK
<1>4. Ahead(tail)' = Ahead(tail) + 1
  BY <1>1, <1>3, IncWraps, TicketAssumption, SMT DEF Ahead, LockTypeOK, Ticket
<1>5. Outstanding \subseteq Processors
  BY DEF Outstanding
<1>6. /\ Ahead(local[c])' = Ahead(tail)
      /\ \A d \in Outstanding : Ahead(local[d])' = Ahead(local[d])
  BY <1>2, <1>3, <1>5, SMT DEF Ahead
<1>7. Ahead(tail) \in Nat /\ \A d \in Outstanding : Ahead(local[d]) \in Nat
  BY <1>3, <1>5, BeforeType, TicketAssumption, SMT DEF Ticket
<1>8. TicketsDrawn'
  BY <1>4, <1>6, <1>7, SMT DEF TicketsDrawn
<1>9. TicketsOwned'
  <2> SUFFICES ASSUME NEW i \in 0 .. Ahead(tail)
               PROVE  \E d \in Outstanding \cup {c} : Ahead(local[d])' = i
    BY <1>4, <1>7, SMT DEF TicketsOwned
  <2>1. CASE i = Ahead(tail)
    BY <1>6, <2>1, Zenon
  <2>2. CASE i # Ahead(tail)
    <3>1. i \in 0 .. Ahead(tail) - 1
      BY <1>7, <2>2, SMT
    <3> QED BY <3>1, <1>6, Zenon DEF TicketsOwned
  <2> QED BY <2>1, <2>2
<1>10. TicketsDistinct'
  <2> SUFFICES ASSUME NEW x \in Outstanding \cup {c}, NEW y \in Outstanding \cup {c},
                      local'[x] = local'[y]
               PROVE  x = y
    BY DEF TicketsDistinct
  <2>1. \A d \in Outstanding : local'[d] = local[d] /\ local[d] # tail
    BY <1>5, <1>7, SMT DEF TicketsDrawn
  <2> QED BY <2>1, Zenon DEF TicketsDistinct
<1> QED BY <1>2, <1>4, <1>8, <1>9, <1>10 DEF Tickets

\* The processor whose ticket is served returns it.
LEMMA ServeKeepsTickets ==
    ASSUME TicketInv, LockTypeOK', NEW c \in Processors, c \in Outstanding, local[c] = head,
           head' = Inc(head), tail' = tail, local' = local,
           Outstanding' = Outstanding \ {c}
    PROVE  /\ Tickets'
           /\ Ahead(tail) > 0
           /\ Ahead(tail)' = Ahead(tail) - 1
           /\ \A d \in Outstanding \ {c} : /\ Ahead(local[d]) > 0
                                          /\ Ahead(local[d])' = Ahead(local[d]) - 1
<1> USE DEF TicketInv
<1>1. head \in Ticket /\ tail \in Ticket /\ \A d \in Processors : local[d] \in Ticket
  BY SMT DEF LockTypeOK
<1>2. Outstanding \subseteq Processors
  BY DEF Outstanding
<1>3. \A t \in Ticket : /\ Ahead(t) \in Nat
                        /\ Ahead(t) > 0 => Ahead(t)' = Ahead(t) - 1
                        /\ Ahead(t) = 0 <=> t = head
  BY <1>1, IncWraps, TicketAssumption, SMT DEF Ahead, Ticket
<1>4. Ahead(tail) > 0
  BY <1>1, <1>3, SMT DEF TicketsDrawn
<1>5. Ahead(tail)' = Ahead(tail) - 1
  BY <1>1, <1>3, <1>4, SMT DEF Ahead
<1>6. \A d \in Outstanding \ {c} : local[d] # head
  BY <1>2, Zenon DEF TicketsDistinct
<1>7. \A d \in Outstanding \ {c} : Ahead(local[d]) > 0
  BY <1>1, <1>2, <1>3, <1>6, SMT
<1>8. \A d \in Outstanding \ {c} : Ahead(local[d])' = Ahead(local[d]) - 1
  BY <1>1, <1>2, <1>3, <1>7, SMT DEF Ahead
<1>9. TicketsDrawn'
  BY <1>1, <1>2, <1>3, <1>5, <1>8, SMT DEF TicketsDrawn
<1>10. TicketsOwned'
  <2> SUFFICES ASSUME NEW i \in 0 .. Ahead(tail) - 2
               PROVE  \E d \in Outstanding \ {c} : Ahead(local[d])' = i
    BY <1>1, <1>3, <1>5, SMT DEF TicketsOwned
  <2>1. i + 1 \in 0 .. Ahead(tail) - 1
    BY <1>1, <1>3, SMT
  <2>2. PICK d \in Outstanding : Ahead(local[d]) = i + 1
    BY <2>1, Zenon DEF TicketsOwned
  <2>3. d # c
    BY <2>2, <1>1, <1>3, SMT
  <2> QED BY <2>2, <2>3, <1>8, SMT
<1>11. TicketsDistinct'
  BY Zenon DEF TicketsDistinct
<1> QED BY <1>4, <1>5, <1>7, <1>8, <1>9, <1>10, <1>11, Zenon DEF Tickets

\* A step that moves no ticket.
LEMMA TicketsFrame ==
    ASSUME Tickets, head' = head, tail' = tail, local' = local,
           Outstanding' = Outstanding
    PROVE  Tickets'
BY Zenon DEF Tickets, TicketsDistinct, TicketsDrawn, TicketsOwned, Ahead

\* The lock's types hold initially.
LEMMA TypeInit == LockInit => LockTypeOK
<1>1. Cardinality(Processors) \in Nat
  BY TicketAssumption, FS_CardinalityType
<1>2. 0 \in Ticket
  BY <1>1, TicketAssumption, SMT DEF Ticket
<1>3. 0 \in Nat
  BY SMT
<1> QED BY <1>2, <1>3, Zenon DEF LockInit, LockTypeOK, Places

\* locks_held is decremented by a holder only, so that it stays natural.
LEMMA TypeStep == TicketInv /\ [LockNext]_lockVars => LockTypeOK'
<1> SUFFICES ASSUME TicketInv, [LockNext]_lockVars PROVE LockTypeOK'
  OBVIOUS
<1> USE DEF TicketInv, LockTypeOK
<1>1. ASSUME NEW c \in Processors, DrawTicket(c) PROVE LockTypeOK'
  BY <1>1, IncWraps, SMT DEF DrawTicket, Places
<1>2. ASSUME NEW c \in Processors, TryRead(c) PROVE LockTypeOK'
  BY <1>2, SMT DEF TryRead, Places
<1>3. ASSUME NEW c \in Processors, Spin(c) PROVE LockTypeOK'
  BY <1>3, SMT DEF Spin, Places
<1>4. ASSUME NEW c \in Processors, TryExchange(c) PROVE LockTypeOK'
  BY <1>4, IncWraps, SMT DEF TryExchange, Places
<1>5. ASSUME NEW c \in Processors, Enter(c) PROVE LockTypeOK'
  BY <1>5, SMT DEF Enter, Places
<1>6. ASSUME NEW c \in Processors, Leave(c) PROVE LockTypeOK'
  <2>1. locks_held[c] = 1
    BY <1>6 DEF Leave, HolderSound
  <2>2. locks_held' \in [Processors -> Nat]
    BY <1>6, <2>1, SMT DEF Leave
  <2> QED BY <1>6, <2>2, SMT DEF Leave, Places
<1>7. ASSUME NEW c \in Processors, ServeNext(c) PROVE LockTypeOK'
  BY <1>7, IncWraps, SMT DEF ServeNext, Places
<1>8. CASE UNCHANGED lockVars
  BY <1>8 DEF lockVars
<1> QED BY <1>1, <1>2, <1>3, <1>4, <1>5, <1>6, <1>7, <1>8 DEF LockNext, Request, Step

\* Every step of the lock keeps its invariant.
LEMMA InvStep == TicketInv /\ [LockNext]_lockVars => TicketInv'
<1> SUFFICES ASSUME TicketInv, [LockNext]_lockVars PROVE TicketInv'
  OBVIOUS
<1>0. LockTypeOK /\ LockTypeOK' /\ Tickets
  BY TypeStep DEF TicketInv, Tickets
<1> SUFFICES Tickets' /\ GrantedHead' /\ HolderSound'
  BY <1>0 DEF TicketInv, Tickets
<1>1. ASSUME NEW c \in Processors, DrawTicket(c)
      PROVE  Tickets' /\ GrantedHead' /\ HolderSound'
  <2> DEFINE l == IF head = tail THEN "got" ELSE "spin"
  <2>1. l \in Places /\ at' = [at EXCEPT ![c] = l] /\ c \notin Outstanding /\ c \notin Granted
    BY <1>1 DEF DrawTicket, Places, Outstanding, Granted
  <2>2. /\ Outstanding' = Outstanding \cup {c}
        /\ Granted' = IF l = "got" THEN Granted \cup {c} ELSE Granted \ {c}
    BY <1>0, <2>1, SMT DEF LockTypeOK, Outstanding, Granted
  <2>3. local'[c] = tail /\ \A d \in Processors \ {c} : local'[d] = local[d]
    BY <1>0, <1>1, SMT DEF DrawTicket, LockTypeOK
  <2>4. Tickets'
    BY <1>0, <1>1, <2>1, <2>2, <2>3, DrawKeepsTickets DEF DrawTicket
  <2>5. GrantedHead'
    BY <1>1, <2>1, <2>2, <2>3, SMT DEF DrawTicket, GrantedHead, TicketInv, Granted
  <2>6. HolderSound'
    BY <1>0, <1>1, SMT DEF DrawTicket, HolderSound, TicketInv, LockTypeOK
  <2> QED BY <2>4, <2>5, <2>6
<1>2. ASSUME NEW c \in Processors, TryRead(c)
      PROVE  Tickets' /\ GrantedHead' /\ HolderSound'
  <2>1. Outstanding' = Outstanding /\ Granted' = Granted
    BY <1>0, <1>2, SMT DEF TryRead, Outstanding, Granted, LockTypeOK
  <2>2. \A d \in Outstanding : local'[d] = local[d]
    BY <1>0, <1>2, SMT DEF TryRead, Outstanding, LockTypeOK
  <2>3. Tickets'
    BY <1>0, <1>2, <2>1, <2>2, SMT
       DEF TryRead, Tickets, TicketsDistinct, TicketsDrawn, TicketsOwned, Ahead
  <2>4. GrantedHead'
    BY <1>2, <2>1, <2>2, SMT DEF TryRead, GrantedHead, TicketInv, Granted, Outstanding
  <2>5. HolderSound'
    BY <1>0, <1>2, SMT DEF TryRead, HolderSound, TicketInv, LockTypeOK
  <2> QED BY <2>3, <2>4, <2>5
<1>3. ASSUME NEW c \in Processors, Spin(c)
      PROVE  Tickets' /\ GrantedHead' /\ HolderSound'
  <2>1. "got" \in Places /\ at' = [at EXCEPT ![c] = "got"] /\ c \in Outstanding
    BY <1>3 DEF Spin, Places, Outstanding
  <2>2. Outstanding' = Outstanding /\ Granted' = Granted \cup {c}
    BY <1>0, <2>1, SMT DEF LockTypeOK, Outstanding, Granted
  <2>3. Tickets'
    BY <1>0, <1>3, <2>2, TicketsFrame DEF Spin
  <2>4. GrantedHead'
    BY <1>3, <2>2, SMT DEF Spin, GrantedHead, TicketInv
  <2>5. HolderSound'
    BY <1>0, <1>3, SMT DEF Spin, HolderSound, TicketInv, LockTypeOK
  <2> QED BY <2>3, <2>4, <2>5
<1>4. ASSUME NEW c \in Processors, TryExchange(c)
      PROVE  Tickets' /\ GrantedHead' /\ HolderSound'
  <2>1. CASE head = local[c] /\ tail = local[c]
    <3>1. "got" \in Places /\ at' = [at EXCEPT ![c] = "got"]
          /\ c \notin Outstanding /\ c \notin Granted
      BY <1>4, <2>1 DEF TryExchange, Places, Outstanding, Granted
    <3>2. Outstanding' = Outstanding \cup {c} /\ Granted' = Granted \cup {c}
      BY <1>0, <3>1, SMT DEF LockTypeOK, Outstanding, Granted
    <3>3. Tickets'
      BY <1>0, <1>4, <2>1, <3>1, <3>2, DrawKeepsTickets DEF TryExchange
    <3>4. GrantedHead'
      BY <1>4, <2>1, <3>2, SMT DEF TryExchange, GrantedHead, TicketInv
    <3> QED BY <1>0, <1>4, <3>3, <3>4, SMT DEF TryExchange, HolderSound, TicketInv, LockTypeOK
  <2>2. CASE ~ (head = local[c] /\ tail = local[c])
    <3>1. Outstanding' = Outstanding /\ Granted' = Granted
      BY <1>0, <1>4, <2>2, SMT DEF TryExchange, Outstanding, Granted, LockTypeOK
    <3>2. Tickets'
      BY <1>0, <1>4, <2>2, <3>1, TicketsFrame DEF TryExchange
    <3>3. GrantedHead'
      BY <1>4, <2>2, <3>1 DEF TryExchange, GrantedHead, TicketInv
    <3> QED BY <1>0, <1>4, <2>2, <3>2, <3>3, SMT DEF TryExchange, HolderSound, TicketInv, LockTypeOK
  <2> QED BY <2>1, <2>2
<1>5. ASSUME NEW c \in Processors, Enter(c)
      PROVE  Tickets' /\ GrantedHead' /\ HolderSound'
  <2>1. Outstanding' = Outstanding /\ Granted' = Granted
    BY <1>0, <1>5, SMT DEF Enter, Outstanding, Granted, LockTypeOK
  <2>2. Tickets' /\ GrantedHead'
    BY <1>0, <1>5, <2>1, TicketsFrame DEF Enter, GrantedHead, TicketInv
  <2>3. \A d \in Processors : d # c => at[d] # "held"
    BY <1>5, SMT DEF Enter, TicketInv, TicketsDistinct, GrantedHead, Outstanding, Granted
  <2>4. holder = NoHolder
    BY <1>0, <1>5, <2>3, SMT DEF Enter, TicketInv, HolderSound, LockTypeOK
  <2>5. HolderSound'
    BY <1>0, <1>5, <2>3, <2>4, TicketAssumption, SMT DEF Enter, TicketInv, HolderSound, LockTypeOK
  <2> QED BY <2>2, <2>5
<1>6. ASSUME NEW c \in Processors, Leave(c)
      PROVE  Tickets' /\ GrantedHead' /\ HolderSound'
  <2>1. Outstanding' = Outstanding /\ Granted' = Granted
    BY <1>0, <1>6, SMT DEF Leave, Outstanding, Granted, LockTypeOK
  <2>2. Tickets' /\ GrantedHead'
    BY <1>0, <1>6, <2>1, TicketsFrame DEF Leave, GrantedHead, TicketInv
  <2>3. HolderSound'
    BY <1>0, <1>6, TicketAssumption, SMT DEF Leave, TicketInv, HolderSound, LockTypeOK
  <2> QED BY <2>2, <2>3
<1>7. ASSUME NEW c \in Processors, ServeNext(c)
      PROVE  Tickets' /\ GrantedHead' /\ HolderSound'
  <2>1. "out" \in Places /\ at' = [at EXCEPT ![c] = "out"]
        /\ c \in Outstanding /\ c \in Granted /\ local[c] = head
    BY <1>7 DEF ServeNext, Places, Outstanding, Granted, GrantedHead, TicketInv
  <2>2. Outstanding' = Outstanding \ {c} /\ Granted' = Granted \ {c}
        /\ Granted \subseteq Outstanding
    BY <1>0, <2>1, SMT DEF LockTypeOK, Outstanding, Granted
  <2>3. Tickets'
    BY <1>0, <1>7, <2>1, <2>2, ServeKeepsTickets DEF ServeNext
  <2>4. Granted' = {}
    BY <2>1, <2>2, SMT DEF TicketInv, TicketsDistinct, GrantedHead
  <2>5. HolderSound'
    BY <1>0, <1>7, SMT DEF ServeNext, TicketInv, HolderSound, LockTypeOK
  <2> QED BY <2>3, <2>4, <2>5 DEF GrantedHead
<1>8. CASE UNCHANGED lockVars
  <2>1. Outstanding' = Outstanding /\ Granted' = Granted
    BY <1>8 DEF lockVars, Outstanding, Granted
  <2> QED BY <1>0, <1>8, <2>1, TicketsFrame DEF lockVars, GrantedHead, HolderSound, TicketInv
<1> QED BY <1>1, <1>2, <1>3, <1>4, <1>5, <1>6, <1>7, <1>8 DEF LockNext, Request, Step

\* The lock's invariant holds initially.
LEMMA InvInit == LockInit => TicketInv
<1> SUFFICES ASSUME LockInit PROVE TicketInv
  OBVIOUS
<1>1. Outstanding = {} /\ Granted = {}
  BY SMT DEF LockInit, Outstanding, Granted
<1>2. Ahead(tail) = 0
  BY SMT DEF LockInit, Ahead
<1>3. TicketsOwned
  BY <1>2, SMT DEF TicketsOwned
<1>4. HolderSound
  BY TicketAssumption, SMT DEF LockInit, HolderSound
<1> QED BY <1>1, <1>3, <1>4, TypeInit, Zenon
        DEF TicketInv, TicketsDistinct, TicketsDrawn, GrantedHead

\* The invariant holds for any set of processors smaller than the number of
\* tickets: the outstanding tickets of _spin_lock() and _spin_trylock() are the
\* interval from head to tail, across the wrap of the 16-bit counters.
THEOREM TicketInvariance == LockSpec => []TicketInv
<1> QED BY InvInit, InvStep, PTL DEF LockSpec

\* _spin_lock() and _spin_trylock() let one processor at a time into the
\* critical section.
THEOREM TicketExclusion == LockSpec => []MutualExclusion
<1>1. TicketInv => MutualExclusion
  BY Zenon DEF TicketInv, TicketsDistinct, GrantedHead, MutualExclusion, Granted,
               Outstanding
<1> QED BY <1>1, TicketInvariance, PTL

\* The panicf() calls about the lock's holder are unreachable and locks_held
\* is right.
THEOREM TicketHolder == LockSpec => []HolderSound
<1>1. TicketInv => HolderSound
  BY DEF TicketInv
<1> QED BY <1>1, TicketInvariance, PTL

\* What the refinement mapping computes: the i-th processor of the queue is the
\* one whose ticket is called after i - 1 others.
QueueSound ==
    /\ Ahead(tail) \in Nat
    /\ Queue \in Seq(Processors)
    /\ Len(Queue) = Ahead(tail)
    /\ \A i \in 1 .. Ahead(tail) :
          Queue[i] \in Outstanding /\ Ahead(local[Queue[i]]) = i - 1
    /\ \A i \in 1 .. Ahead(tail), d \in Outstanding :
          Ahead(local[d]) = i - 1 => Queue[i] = d

\* The queue read off the tickets has each processor that drew one, in order.
LEMMA QueueLemma == TicketInv => QueueSound
<1> SUFFICES ASSUME TicketInv PROVE QueueSound
  OBVIOUS
<1> DEFINE n == Ahead(tail)
<1>1. n \in Nat /\ tail \in Ticket /\ \A d \in Processors : local[d] \in Ticket
  BY BeforeType, SMT DEF TicketInv, LockTypeOK, Ticket
<1>2. Outstanding \subseteq Processors
  BY DEF Outstanding
<1>3. \A i \in 1 .. n : Queue[i] \in Outstanding /\ Ahead(local[Queue[i]]) = i - 1
  <2> TAKE i \in 1 .. n
  <2>1. i - 1 \in 0 .. n - 1
    BY <1>1, SMT
  <2>2. \E c \in Outstanding : Ahead(local[c]) = i - 1
    BY <2>1, Zenon DEF TicketInv, TicketsOwned
  <2>3. Queue[i] = CHOOSE c \in Outstanding : Ahead(local[c]) = i - 1
    BY Zenon DEF Queue
  <2> QED BY <2>2, <2>3, Zenon
<1>4. Queue \in [1 .. n -> Processors]
  <2> DEFINE e(i) == CHOOSE c \in Outstanding : Ahead(local[c]) = i - 1
  <2>1. Queue = [i \in 1 .. n |-> e(i)]
    BY DEF Queue
  <2>2. \A i \in 1 .. n : e(i) \in Processors
    BY <1>2, <1>3, <2>1, Zenon
  <2> HIDE DEF n, e
  <2> QED BY <2>1, <2>2, Zenon
<1>5. Queue \in Seq(Processors) /\ Len(Queue) = n
  <2> HIDE DEF n
  <2> QED BY <1>1, <1>4, SMT
<1>6. \A i \in 1 .. n, d \in Outstanding : Ahead(local[d]) = i - 1 => Queue[i] = d
  <2> TAKE i \in 1 .. n, d \in Outstanding
  <2> HAVE Ahead(local[d]) = i - 1
  <2>1. local[d] \in Ticket /\ local[Queue[i]] \in Ticket
    BY <1>1, <1>2, <1>3, Zenon
  <2>2. local[Queue[i]] = local[d]
    BY <1>3, <2>1, BeforeType, Zenon DEF TicketInv
  <2> QED BY <1>3, <2>2, Zenon DEF TicketInv, TicketsDistinct
<1> QED BY <1>1, <1>3, <1>5, <1>6 DEF QueueSound

\* A processor that draws a ticket is appended to the queue.
LEMMA DrawAppends ==
    ASSUME TicketInv, TicketInv', NEW c \in Processors, c \notin Outstanding,
           head' = head, tail' = Inc(tail), local'[c] = tail,
           \A d \in Processors \ {c} : local'[d] = local[d],
           Outstanding' = Outstanding \cup {c}
    PROVE  Fifo!Ask(c)
<1> DEFINE n == Ahead(tail)
<1>1. QueueSound /\ QueueSound'
  <2>1. TicketInv' => QueueSound'
    BY QueueLemma, PTL
  <2> QED BY <2>1, QueueLemma
<1>2. /\ Ahead(tail)' = n + 1
      /\ \A t \in Ticket : Ahead(t)' = Ahead(t)
  BY DrawKeepsTickets DEF TicketInv
<1>3. tail \in Ticket /\ \A d \in Processors : local[d] \in Ticket
  BY SMT DEF TicketInv, LockTypeOK
<1>4. Outstanding \subseteq Processors
  BY DEF Outstanding
<1>5. n \in Nat /\ Queue \in Seq(Processors) /\ Len(Queue) = n
  BY <1>1 DEF QueueSound
<1>6. /\ Append(Queue, c) \in Seq(Processors)
      /\ Len(Append(Queue, c)) = n + 1
      /\ \A i \in 1 .. n : Append(Queue, c)[i] = Queue[i]
      /\ Append(Queue, c)[n + 1] = c
  <2>1. /\ Append(Queue, c) \in Seq(Processors)
        /\ Len(Append(Queue, c)) = Len(Queue) + 1
        /\ \A i \in 1 .. Len(Queue) : Append(Queue, c)[i] = Queue[i]
        /\ Append(Queue, c)[Len(Queue) + 1] = c
    <3> HIDE DEF n
    <3>1. Queue \in Seq(Processors)
      BY <1>5
    <3> HIDE DEF Queue
    <3> QED BY <3>1, QueueAppend
  <2> HIDE DEF n
  <2> QED BY <2>1, <1>5, SMT
<1>7. Queue' \in Seq(Processors) /\ Len(Queue') = n + 1
  BY <1>1, <1>2 DEF QueueSound
<1>8. \A i \in 1 .. n + 1 : Append(Queue, c)[i] = Queue'[i]
  <2> TAKE i \in 1 .. n + 1
  <2>1. CASE i \in 1 .. n
    <3>0. Queue[i] \in Outstanding /\ Ahead(local[Queue[i]]) = i - 1
      BY <1>1, <2>1 DEF QueueSound
    <3>1. PICK d \in Outstanding : d = Queue[i] /\ Ahead(local[d]) = i - 1
      BY <3>0
    <3>2. d \in Outstanding' /\ local'[d] = local[d] /\ local[d] \in Ticket
      BY <3>1, <1>3, <1>4, Zenon
    <3>3. Ahead(local[d])' = i - 1
      BY <3>1, <3>2, <1>2, SMT DEF Ahead
    <3>4. i \in 1 .. Ahead(tail)'
      BY <1>2
    <3>5. Queue'[i] = d
      BY <3>2, <3>3, <3>4, <1>1, Zenon DEF QueueSound
    <3> QED BY <3>1, <3>5, <1>6, <2>1
  <2>2. CASE i = n + 1
    <3>1. c \in Outstanding' /\ Ahead(local[c])' = i - 1
      BY <1>2, <1>3, <1>5, <2>2, SMT DEF Ahead
    <3>2. i \in 1 .. Ahead(tail)'
      BY <1>2
    <3>3. Queue'[i] = c
      BY <3>1, <3>2, <1>1, Zenon DEF QueueSound
    <3> QED BY <3>3, <1>6, <2>2
  <2>3. i \in 1 .. n \/ i = n + 1
    BY <1>5, SMT
  <2> QED BY <2>1, <2>2, <2>3, Zenon
<1>9. Queue' = Append(Queue, c)
  <2> HIDE DEF n
  <2> QED BY <1>6, <1>7, <1>8, SameQueue, Zenon
<1>10. \A i \in DOMAIN Queue : Queue[i] # c
  <2>1. DOMAIN Queue = 1 .. n
    BY Zenon DEF Queue
  <2> SUFFICES ASSUME NEW i \in 1 .. n PROVE Queue[i] # c
    BY <2>1
  <2> QED BY <1>1 DEF QueueSound
<1> QED BY <1>9, <1>10 DEF Fifo!Ask

\* The processor that returns its ticket was first in the queue.
LEMMA ServeShortens ==
    ASSUME TicketInv, TicketInv', NEW c \in Processors, c \in Outstanding, local[c] = head,
           head' = Inc(head), tail' = tail, local' = local,
           Outstanding' = Outstanding \ {c}
    PROVE  Fifo!Release(c)
<1> DEFINE n == Ahead(tail)
<1>1. QueueSound /\ QueueSound'
  <2>1. TicketInv' => QueueSound'
    BY QueueLemma, PTL
  <2> QED BY <2>1, QueueLemma
<1>2. /\ n > 0
      /\ Ahead(tail)' = n - 1
      /\ \A d \in Outstanding \ {c} : /\ Ahead(local[d]) > 0
                                     /\ Ahead(local[d])' = Ahead(local[d]) - 1
  BY ServeKeepsTickets DEF TicketInv
<1>3. n \in Nat /\ Queue \in Seq(Processors) /\ Len(Queue) = n
  BY <1>1 DEF QueueSound
<1>4. Ahead(local[c]) = 0
  BY SMT DEF Ahead, TicketInv, LockTypeOK, Ticket
<1>5. Queue # <<>>
  <2> HIDE DEF n
  <2> QED BY <1>2, <1>3, SMT
<1>6. Queue[1] = c
  <2>1. 1 \in 1 .. n /\ Ahead(local[c]) = 1 - 1
    BY <1>2, <1>3, <1>4, SMT
  <2> QED BY <2>1, <1>1, Zenon DEF QueueSound
<1>7. Head(Queue) = c
  BY <1>6, <1>5, <1>3, SMT
<1>8. /\ Tail(Queue) \in Seq(Processors)
      /\ Len(Tail(Queue)) = n - 1
      /\ \A i \in 1 .. n - 1 : Tail(Queue)[i] = Queue[i + 1]
  <2> HIDE DEF n
  <2>1. /\ Tail(Queue) \in Seq(Processors)
        /\ Len(Tail(Queue)) = Len(Queue) - 1
        /\ \A i \in 1 .. Len(Tail(Queue)) : Tail(Queue)[i] = Queue[i + 1]
    BY <1>3, <1>5, QueueTail, Zenon
  <2> QED BY <2>1, <1>3, Zenon
<1>9. Queue' \in Seq(Processors) /\ Len(Queue') = n - 1
  BY <1>1, <1>2 DEF QueueSound
<1>10. \A i \in 1 .. n - 1 : Tail(Queue)[i] = Queue'[i]
  <2> TAKE i \in 1 .. n - 1
  <2>1. i + 1 \in 1 .. n /\ (i + 1) - 1 = i /\ i # 0 /\ i \in Int
    BY <1>3, SMT
  <2>0. Queue[i + 1] \in Outstanding /\ Ahead(local[Queue[i + 1]]) = i
    BY <2>1, <1>1, Zenon DEF QueueSound
  <2>2. PICK d \in Outstanding : d = Queue[i + 1] /\ Ahead(local[d]) = i
    BY <2>0
  <2>3. d # c
    BY <2>1, <2>2, <1>4, Zenon
  <2>4. d \in Outstanding' /\ Ahead(local[d])' = i - 1
    BY <2>2, <2>3, <1>2, SMT
  <2>5. i \in 1 .. Ahead(tail)'
    BY <1>2
  <2>6. Queue'[i] = d
    BY <2>4, <2>5, <1>1, Zenon DEF QueueSound
  <2> QED BY <2>2, <2>6, <1>8
<1>11. Queue' = Tail(Queue)
  <2> HIDE DEF n
  <2> QED BY <1>8, <1>9, <1>10, SameQueue, Zenon
<1> QED BY <1>5, <1>7, <1>11 DEF Fifo!Release

\* A step that moves no ticket leaves the queue as it is.
LEMMA QueueFrame ==
    ASSUME head' = head, tail' = tail, Outstanding' = Outstanding,
           \A d \in Outstanding : local'[d] = local[d]
    PROVE  Queue' = Queue
<1>1. Ahead(tail)' = Ahead(tail)
  BY DEF Ahead
<1>2. \A d \in Outstanding : Ahead(local[d])' = Ahead(local[d])
  BY DEF Ahead
<1>3. \A i : (CHOOSE d \in Outstanding : Ahead(local[d]) = i - 1)'
              = CHOOSE d \in Outstanding : Ahead(local[d]) = i - 1
  BY <1>2
<1> QED BY <1>1, <1>3 DEF Queue

\* Every step of the lock is a step of the FIFO lock or changes nothing in it.
LEMMA QueueStep ==
    TicketInv /\ TicketInv' /\ [LockNext]_lockVars => [Fifo!Next]_Queue
<1> SUFFICES ASSUME TicketInv, TicketInv', [LockNext]_lockVars
             PROVE  Fifo!Next \/ Queue' = Queue
  OBVIOUS
<1>0. LockTypeOK /\ LockTypeOK'
  BY DEF TicketInv
<1>1. ASSUME NEW c \in Processors, DrawTicket(c) PROVE Fifo!Next
  <2>1. c \notin Outstanding
    BY <1>1 DEF DrawTicket, Outstanding
  <2>2. Outstanding' = Outstanding \cup {c}
    BY <1>0, <1>1, SMT DEF DrawTicket, Outstanding, LockTypeOK
  <2>3. local'[c] = tail /\ \A d \in Processors \ {c} : local'[d] = local[d]
    BY <1>0, <1>1, SMT DEF DrawTicket, LockTypeOK
  <2>4. Fifo!Ask(c)
    BY <1>1, <2>1, <2>2, <2>3, DrawAppends DEF DrawTicket
  <2> QED BY <2>4 DEF Fifo!Next
<1>2. ASSUME NEW c \in Processors, TryRead(c) PROVE Queue' = Queue
  <2>1. Outstanding' = Outstanding /\ \A d \in Outstanding : local'[d] = local[d]
    BY <1>0, <1>2, SMT DEF TryRead, Outstanding, LockTypeOK
  <2> QED BY <1>2, <2>1, QueueFrame DEF TryRead
<1>3. ASSUME NEW c \in Processors, Spin(c) \/ Enter(c) \/ Leave(c) PROVE Queue' = Queue
  <2>1. Outstanding' = Outstanding
    BY <1>0, <1>3, SMT DEF Spin, Enter, Leave, Outstanding, LockTypeOK
  <2>2. head' = head /\ tail' = tail /\ local' = local
    BY <1>3 DEF Spin, Enter, Leave
  <2> QED BY <2>1, <2>2, QueueFrame
<1>4. ASSUME NEW c \in Processors, TryExchange(c) PROVE Fifo!Next \/ Queue' = Queue
  <2>1. CASE head = local[c] /\ tail = local[c]
    <3>1. c \notin Outstanding
      BY <1>4 DEF TryExchange, Outstanding
    <3>2. Outstanding' = Outstanding \cup {c}
      BY <1>0, <1>4, <2>1, SMT DEF TryExchange, Outstanding, LockTypeOK
    <3>3. Fifo!Ask(c)
      BY <1>4, <2>1, <3>1, <3>2, DrawAppends DEF TryExchange
    <3> QED BY <3>3 DEF Fifo!Next
  <2>2. CASE ~ (head = local[c] /\ tail = local[c])
    <3>1. Outstanding' = Outstanding
      BY <1>0, <1>4, <2>2, SMT DEF TryExchange, Outstanding, LockTypeOK
    <3>2. head' = head /\ tail' = tail /\ local' = local
      BY <1>4, <2>2 DEF TryExchange
    <3> QED BY <3>1, <3>2, QueueFrame
  <2> QED BY <2>1, <2>2
<1>5. ASSUME NEW c \in Processors, ServeNext(c) PROVE Fifo!Next
  <2>1. c \in Outstanding /\ local[c] = head
    BY <1>5 DEF ServeNext, Outstanding, Granted, GrantedHead, TicketInv
  <2>2. Outstanding' = Outstanding \ {c}
    BY <1>0, <1>5, SMT DEF ServeNext, Outstanding, LockTypeOK
  <2>3. Fifo!Release(c)
    BY <1>5, <2>1, <2>2, ServeShortens DEF ServeNext
  <2> QED BY <2>3 DEF Fifo!Next
<1>6. CASE UNCHANGED lockVars
  <2>1. Outstanding' = Outstanding
    BY <1>6 DEF lockVars, Outstanding
  <2> QED BY <1>6, <2>1, QueueFrame DEF lockVars
<1> QED BY <1>1, <1>2, <1>3, <1>4, <1>5, <1>6 DEF LockNext, Request, Step

\* The ticket lock implements the first-come-first-served lock: _spin_lock()
\* and a successful _spin_trylock() queue the processor when they draw its
\* ticket, and _spin_unlock() serves the queue in order.
THEOREM TicketRefinesFifo == LockSpec => FirstComeFirstServed
<1>1. LockInit => Fifo!Init
  <2> SUFFICES ASSUME LockInit PROVE Queue = <<>>
    BY DEF Fifo!Init
  <2>1. TicketInv
    BY InvInit
  <2>2. QueueSound
    BY <2>1, QueueLemma
  <2>3. Ahead(tail) = 0
    BY SMT DEF LockInit, Ahead
  <2> QED BY <2>2, <2>3, SMT DEF QueueSound
<1> QED BY <1>1, TicketInvariance, QueueStep, PTL DEF LockSpec, Fifo!Spec, FirstComeFirstServed
=============================================================================
