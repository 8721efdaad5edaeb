------------------------------- MODULE E1000 -------------------------------
(***************************************************************************)
(* The descriptor rings of kernel/src/driver/net/e1000.c.  The card, which *)
(* is external, stores frames in receive descriptors and fetches transmit  *)
(* descriptors at any time.  The interrupt handler empties the receive     *)
(* ring; threads and handlers send, on any processor and without a lock.   *)
(***************************************************************************)
EXTENDS Integers, FiniteSets, Sequences, Functions

CONSTANTS NUM_RX_DESCS,
          NUM_TX_DESCS,
          Senders,         \* the threads and handlers that may call packet_send()
          MaxFrames,       \* bound on the frames that arrive
          MaxSends         \* bound on the frames that are sent

ASSUME E1000Assumption ==
    /\ NUM_RX_DESCS \in Nat \ {0}
    /\ NUM_TX_DESCS \in Nat \ {0}
    /\ IsFiniteSet(Senders) /\ Cardinality(Senders) < NUM_TX_DESCS
    /\ MaxFrames \in Nat /\ MaxSends \in Nat

VARIABLES
    rx_desc,    \* per descriptor: DD, and the frame in its buffer
    rx_front,
    rx_head,    \* external: RDH
    rx_owned,   \* external: how many descriptors the card may fill, from RDH on
    strict,     \* external: to the card, a RDT that is equal to RDH means none
    rxt,        \* ICR_RXT
    polling,    \* where the handler is in net_825xx_poll(), or "no"
    arrived,    \* history: the frames stored, good (1) or to be dropped (0)
    received,   \* history: the frames given to net_recieve(), by number
    tx_desc,    \* per descriptor: sta, and the frame in its buffer
    tx_front,
    tx_head,    \* external: TDH
    tx_tail,    \* external: TDT
    sender,     \* net_825xx_send() of a sender: where it is, its descriptor, the
                \* frame, and the value that it is about to store in tx_front
    sent,       \* history: how many frames were given to net_825xx_send()
    transmitted,\* history: the frames that the card sent
    crossed,    \* history: a call began while another was before its wait
    overtaken   \* history: TDT reached TDH with frames to send

rxVars == <<rx_desc, rx_front, rx_head, rx_owned, strict, rxt, polling, arrived, received>>
txVars == <<tx_desc, tx_front, tx_head, tx_tail, sender, sent, transmitted, crossed, overtaken>>
ringVars == <<rxVars, txVars>>

Rx == 0 .. NUM_RX_DESCS - 1
Tx == 0 .. NUM_TX_DESCS - 1
Idle == [pc |-> "idle", desc |-> 0, frame |-> 0, next |-> 0]

E1000TypeOK ==
    /\ rx_desc \in [Rx -> [dd : BOOLEAN, frame : 0 .. MaxFrames]]
    /\ rx_front \in Rx /\ rx_head \in Rx /\ rx_owned \in 0 .. NUM_RX_DESCS
    /\ polling \in {"no", "turn", "tail"}
    /\ tx_desc \in [Tx -> [sta : BOOLEAN, frame : 0 .. MaxSends]]
    /\ tx_front \in Tx /\ tx_head \in Tx /\ tx_tail \in Tx
    /\ sender \in [Senders -> [pc : {"idle", "fill", "advance", "tail", "wait"}, desc : Tx,
                               frame : 0 .. MaxSends, next : Tx]]

\* After net_825xx_probe() and net_825xx_enable().
E1000Init ==
    /\ rx_desc = [i \in Rx |-> [dd |-> FALSE, frame |-> 0]]
    /\ rx_front = 0 /\ rx_head = 0 /\ rx_owned = NUM_RX_DESCS
    /\ strict \in BOOLEAN
    /\ rxt = FALSE /\ polling = "no"
    /\ arrived = <<>> /\ received = <<>>
    /\ tx_desc = [i \in Tx |-> [sta |-> FALSE, frame |-> 0]]
    /\ tx_front = 0 /\ tx_head = 0 /\ tx_tail = 0
    /\ sender = [s \in Senders |-> Idle]
    /\ sent = 0 /\ transmitted = <<>>
    /\ crossed = FALSE /\ overtaken = FALSE
-----------------------------------------------------------------------------
\* External: the card stores a frame.
card_receive(good) ==
    /\ Len(arrived) < MaxFrames
    /\ rx_owned > 0
    /\ rx_owned' = rx_owned - 1
    /\ rx_desc' = [rx_desc EXCEPT ![rx_head] = [dd |-> TRUE, frame |-> Len(arrived) + 1]]
    /\ rx_head' = (rx_head + 1) % NUM_RX_DESCS
    /\ rxt' = TRUE
    /\ arrived' = Append(arrived, good)
    /\ UNCHANGED <<rx_front, strict, polling, received, txVars>>

\* handle_network() reads ICR, which clears it.
handle_receive ==
    /\ rxt /\ polling = "no"
    /\ rxt' = FALSE /\ polling' = "turn"
    /\ UNCHANGED <<rx_desc, rx_front, rx_head, rx_owned, strict, arrived, received, txVars>>

\* Mutant: the status is cleared behind rx_front when that has advanced.
ClearedNext(front) == [rx_desc EXCEPT ![(front + 1) % NUM_RX_DESCS].dd = FALSE]

Cleared(front) == [rx_desc EXCEPT ![front].dd = FALSE]

\* A turn of the loop of net_825xx_poll() up to the write of RDT: a frame that is
\* short or has no EOP is dropped.
net_825xx_poll ==
    /\ polling = "turn"
    /\ \/ /\ rx_desc[rx_front].dd
          /\ received' = IF arrived[rx_desc[rx_front].frame] = 1
                         THEN Append(received, rx_desc[rx_front].frame) ELSE received
          /\ rx_desc' = Cleared(rx_front)
          /\ rx_front' = (rx_front + 1) % NUM_RX_DESCS
          /\ polling' = "tail"
       \/ /\ ~rx_desc[rx_front].dd
          /\ polling' = "no"
          /\ UNCHANGED <<received, rx_desc, rx_front>>
    /\ UNCHANGED <<rx_head, rx_owned, strict, rxt, arrived, txVars>>

\* External: the descriptors from RDH up to RDT are the card's.
Owned(tail) ==
    IF tail = rx_head THEN IF strict THEN 0 ELSE NUM_RX_DESCS
    ELSE (tail - rx_head) % NUM_RX_DESCS

\* The write of RDT.
poll_tail ==
    /\ polling = "tail"
    /\ rx_owned' = Owned(rx_front)
    /\ polling' = "turn"
    /\ UNCHANGED <<rx_desc, rx_front, rx_head, strict, rxt, arrived, received, txVars>>
-----------------------------------------------------------------------------
\* net_825xx_send(): the descriptor, the frame in the buffer at tx_front, the
\* addition to tx_front, the write of TDT, and the wait for the status.
Calling == {s \in Senders : sender[s].pc \in {"fill", "advance", "tail"}}

net_825xx_send(s) ==
    /\ sender[s].pc = "idle" /\ sent < MaxSends
    /\ sent' = sent + 1
    /\ sender' = [sender EXCEPT ![s] = [Idle EXCEPT !.pc = "fill", !.desc = tx_front,
                                                    !.frame = sent + 1]]
    /\ crossed' = (crossed \/ Calling # {})
    /\ UNCHANGED <<tx_desc, tx_front, tx_head, tx_tail, transmitted, overtaken, rxVars>>

send_fill(s) ==
    /\ sender[s].pc = "fill"
    /\ tx_desc' = [tx_desc EXCEPT ![tx_front].frame = sender[s].frame]
    /\ sender' = [sender EXCEPT ![s].pc = "advance", ![s].next = (tx_front + 1) % NUM_TX_DESCS]
    /\ UNCHANGED <<tx_front, tx_head, tx_tail, sent, transmitted, crossed, overtaken, rxVars>>

send_advance(s) ==
    /\ sender[s].pc = "advance"
    /\ tx_front' = sender[s].next
    /\ sender' = [sender EXCEPT ![s].pc = "tail"]
    /\ UNCHANGED <<tx_desc, tx_head, tx_tail, sent, transmitted, crossed, overtaken, rxVars>>

send_tail(s) ==
    /\ sender[s].pc = "tail"
    /\ tx_tail' = tx_front
    /\ overtaken' = (overtaken \/ tx_front = tx_head)
    /\ sender' = [sender EXCEPT ![s].pc = "wait"]
    /\ UNCHANGED <<tx_desc, tx_front, tx_head, sent, transmitted, crossed, rxVars>>

send_return(s) ==
    /\ sender[s].pc = "wait" /\ tx_desc[sender[s].desc].sta
    /\ sender' = [sender EXCEPT ![s] = Idle]
    /\ UNCHANGED <<tx_desc, tx_front, tx_head, tx_tail, sent, transmitted, crossed, overtaken,
                   rxVars>>

\* External: the card sends the frame at its head and reports the status.
card_transmit ==
    /\ tx_head # tx_tail
    /\ transmitted' = Append(transmitted, tx_desc[tx_head].frame)
    /\ tx_desc' = [tx_desc EXCEPT ![tx_head].sta = TRUE]
    /\ tx_head' = (tx_head + 1) % NUM_TX_DESCS
    /\ UNCHANGED <<tx_front, tx_tail, sender, sent, crossed, overtaken, rxVars>>

RxNext ==
    \/ \E good \in {0, 1} : card_receive(good)
    \/ handle_receive
    \/ net_825xx_poll
    \/ poll_tail

TxNext ==
    \/ \E s \in Senders :
          \/ net_825xx_send(s)
          \/ send_fill(s)
          \/ send_advance(s)
          \/ send_tail(s)
          \/ send_return(s)
    \/ card_transmit

E1000Spec == E1000Init /\ [][RxNext \/ TxNext]_ringVars
-----------------------------------------------------------------------------
\* The frames that the stack gets are the good ones of the first that the card
\* stored, in order and once each, and all of them when the handler is done and no
\* interrupt is to come, whenever frames arrive.  The frames that the card sends
\* are those it was given, in order, as long as no two calls were in the part of
\* net_825xx_send() that a lock would protect and the tail has not overtaken the
\* card.  It can do so only on its second lap, when the status that a sender waits
\* for is left from the first, or by as many frames earlier as there are other
\* senders that wait at the same time.
Good(n) == {i \in 1 .. n : arrived[i] = 1}

RingsInOrder ==
    /\ \E n \in 0 .. Len(arrived) : Range(received) = Good(n)
    /\ \A i, j \in DOMAIN received : i < j => received[i] < received[j]
    /\ polling = "no" /\ ~rxt => Range(received) = Good(Len(arrived))
    /\ ~crossed /\ ~overtaken =>
          /\ transmitted = [i \in 1 .. Len(transmitted) |-> i]
          /\ tx_head = tx_tail => Len(transmitted) >= sent - 1
    /\ ~crossed /\ overtaken => sent > 2 * NUM_TX_DESCS - Cardinality(Senders)
=============================================================================
