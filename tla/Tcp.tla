-------------------------------- MODULE Tcp --------------------------------
(***************************************************************************)
(* TCP, of kernel/src/net/ip/tcp.c, with the checks of net/socket.c: a     *)
(* program that connects, on one machine, and a server that listens,       *)
(* accepts and closes, on another, both this kernel.  A segment that was   *)
(* sent may be lost, delivered late, out of order or more than once.       *)
(*                                                                         *)
(* Each call, and the handler of a socket that connected, holds the lock   *)
(* of its socket.  The handler of an accepted socket holds only the lock   *)
(* of the listener: its program, on another processor, may make calls      *)
(* between what the handler reads and what it writes.  tcp_queue_send()    *)
(* lets the lock go around packet_send(), when the segment is built and    *)
(* only its delivery is to come; to the model that is time on the wire.    *)
(* One thread uses a socket.  The fields of a segment are in host order,   *)
(* as both ends read them.                                                 *)
(***************************************************************************)
EXTENDS Integers, Sequences

CONSTANTS HalfWord,         \* a sequence number is two digits of this base
          Isns,             \* what rand32() returns, draw after draw: further
                            \* apart than the bytes a socket sends
          MaxChildren,      \* the backlog given to listen()
          MaxBytes,         \* bound on the bytes a socket sends
          MaxRecv,          \* bound on the bytes a program asks for at once, and
                            \* beyond MaxBytes in all
          RecvBuffSize,     \* recv_buff_size: PAGE_SIZE
          IndexSpace,       \* the number of values of an unsigned index
          TCP_SYN_RETRYS

SeqSpace == HalfWord * HalfWord

ASSUME TcpAssumption ==
    /\ HalfWord \in Nat \ {0}
    /\ MaxChildren \in Nat \ {0}
    /\ MaxBytes \in Nat /\ MaxRecv \in Nat /\ TCP_SYN_RETRYS \in Nat
    /\ MaxBytes + 1 < SeqSpace
    /\ RecvBuffSize \in Nat \ {0}
    /\ IndexSpace \in Nat /\ IndexSpace > RecvBuffSize + 2

\* The numbers that two connections of one machine use do not meet.
ASSUME IsnAssumption ==
    /\ Isns \in Seq(0 .. SeqSpace - 1)
    /\ MaxChildren <= Len(Isns) /\ TCP_SYN_RETRYS < Len(Isns)
    /\ \A i, j \in DOMAIN Isns : \A a, b \in 1 .. MaxBytes + 1 :
          (Isns[i] + a) % SeqSpace = (Isns[j] + b) % SeqSpace => i = j

VARIABLES
    socks,     \* sock_t and tcp_data_conn_t of each socket
    listener,  \* tcp_data_listen_t: open, backlog, accept_semaphore, connections
    children,  \* its list of children: the links of the nodes
    wire,      \* the segments sent
    failing,   \* a SYN waits for an address that will not be resolved
    resend,    \* a timer that calls tcp_resend_syn()
    phase,     \* per socket: what its program has done with it
    want,      \* per socket: the bytes that its program still waits for
    handling   \* the handler of a child that runs: the child as it found it, and
               \* what it makes of it

tcpVars == <<socks, listener, children, wire, failing, resend, phase, want, handling>>

Client == 0
Children == 1 .. MaxChildren
Sock == {Client} \cup Children

\* The bytes stored from recv_buff on are buff: recv_buff_front is its length, and
\* beyond recv_buff_size it is other memory.  back is recv_buff_back; sent and got,
\* what recv() returned, are history.
NoConn == [state |-> "none", seq |-> 0, peer_seq |-> 0, buff |-> <<>>, back |-> IndexSpace - 1,
           sent |-> <<>>, got |-> <<>>, retrys |-> 0, recv_sem |-> 0, est_sem |-> 0,
           queue |-> <<>>, flags |-> {}]

State == {"none", "RETRY", "SYN_SENT", "SYN_RECIEVED", "ESTABLISHED", "FIN_WAITA",
          "FIN_WAITB", "CLOSED"}

TcpTypeOK ==
    /\ \A s \in Sock : /\ socks[s].state \in State
                       /\ socks[s].seq \in 0 .. SeqSpace - 1
                       /\ socks[s].peer_seq \in 0 .. SeqSpace - 1
                       /\ socks[s].back \in 0 .. RecvBuffSize - 1 \cup {IndexSpace - 1}
    /\ listener.connections \subseteq Children
    /\ phase \in [Sock -> {"new", "connect", "open", "closed"}]
    /\ want \in [Sock -> 0 .. MaxRecv]

\* After bind() and tcp_listen() on the server.
TcpInit ==
    /\ socks = [s \in Sock |-> NoConn]
    /\ listener = [open |-> TRUE, backlog |-> MaxChildren, accept_semaphore |-> 0,
                   connections |-> {}]
    /\ children = [next |-> [s \in Sock |-> s], prev |-> [s \in Sock |-> s]]
    /\ wire = {}
    /\ failing = FALSE
    /\ resend = FALSE
    /\ phase = [s \in Sock |-> "new"]
    /\ want = [s \in Sock |-> 0]
    /\ handling = <<>>
-----------------------------------------------------------------------------
\* The list of children with its links: node Client stands for the head.
list_join(l, a, b) == [next |-> [l.next EXCEPT ![a] = b], prev |-> [l.prev EXCEPT ![b] = a]]
list_add_before(l, n) == list_join(list_join(l, l.prev[Client], n), n, Client)
list_rm(l, n) == list_join(l, l.prev[n], l.next[n])

OnList ==
    LET at[n \in Sock] ==
            IF n = 0 THEN children.next[Client]
            ELSE IF at[n - 1] = Client THEN Client ELSE children.next[at[n - 1]]
    IN  {at[n] : n \in Sock} \ {Client}
-----------------------------------------------------------------------------
swap(n) == (n % HalfWord) * HalfWord + n \div HalfWord

Segment(s, c, flags, data) ==
    [to |-> IF s = Client THEN "server" ELSE "client", flags |-> flags, seq |-> c.seq,
     ack |-> IF "ACK" \in flags THEN c.peer_seq ELSE 0, data |-> data]

tcp_send_ack(s, c) == Segment(s, c, {"ACK"}, <<>>)
tcp_send_rst(s, c) == Segment(s, c, {"RST", "ACK"}, <<>>)

tcp_reset(c, isn) ==
    [c EXCEPT !.seq = isn, !.peer_seq = 0, !.buff = <<>>, !.back = IndexSpace - 1]

\* tcp_queue_add(): seq_num is kept in network order.
tcp_queue_add(c, flags, data) ==
    [c EXCEPT !.queue = Append(@, [seq_num |-> swap(c.seq), fin |-> "FIN" \in flags]),
              !.seq = (@ + Len(data) + (IF "SYN" \in flags THEN 1 ELSE 0)) % SeqSpace,
              !.sent = @ \o data]

\* tcp_ack_recieved() compares it with a number in host order.
tcp_ack_recieved(c, ack) ==
    LET kept == {i \in DOMAIN c.queue : c.queue[i].seq_num >= ack}
        acked == IF kept = {} THEN Len(c.queue)
                 ELSE (CHOOSE i \in kept : \A j \in kept : i <= j) - 1
    IN  [c EXCEPT !.queue = SubSeq(@, acked + 1, Len(@)),
                  !.state = IF \E i \in 1 .. acked : c.queue[i].fin THEN "FIN_WAITB"
                                                                    ELSE @]

\* The bytes that fit before recv_buff_front is one behind recv_buff_back.
Least(m, n) == IF m < n THEN m ELSE n
Fits(c, data) == SubSeq(data, 1, Least(Len(data), (c.back - 1 - Len(c.buff)) % IndexSpace))

\* Mutant: the reader is not woken.
StoreSilent(c, seg) ==
    [c EXCEPT !.peer_seq = (seg.seq + Len(seg.data)) % SeqSpace,
              !.buff = IF "SHUT_RD" \in c.flags THEN @ ELSE @ \o Fits(c, seg.data)]

\* Data that is next in the stream is kept unless the reader shut the socket; what
\* does not fit is acknowledged all the same.
Store(c, seg) ==
    [c EXCEPT !.peer_seq = (seg.seq + Len(seg.data)) % SeqSpace,
              !.buff = IF "SHUT_RD" \in c.flags THEN @ ELSE @ \o Fits(c, seg.data),
              !.recv_sem = @ + 1]

\* What a handler leaves: the socket, the answer, and whether it set the timer.
Quiet(c) == [conn |-> c, reply |-> {}, resend |-> FALSE]
Answer(c, seg) == [conn |-> c, reply |-> {seg}, resend |-> FALSE]
-----------------------------------------------------------------------------
\* tcp_sock_handle() in the state SYN_SENT.
SynSent(s, c, seg) ==
    IF {"ACK", "SYN"} \subseteq seg.flags
    THEN LET e == [tcp_ack_recieved(c, seg.ack) EXCEPT
                     !.state = "ESTABLISHED", !.flags = @ \cup {"CONNECTED"},
                     !.peer_seq = (seg.seq + Len(seg.data) + 1) % SeqSpace,
                     !.est_sem = @ + 1]
         IN  Answer(e, tcp_send_ack(s, e))
    ELSE IF c.retrys + 1 > TCP_SYN_RETRYS
    THEN Quiet([c EXCEPT !.retrys = @ + 1, !.state = "CLOSED", !.est_sem = @ + 1])
    ELSE [conn |-> [tcp_reset(c, Isns[c.retrys + 2]) EXCEPT
                      !.retrys = @ + 1, !.state = "RETRY"],
          reply |-> {tcp_send_rst(s, c)}, resend |-> TRUE]

\* In SYN_RECIEVED: what data the segment has is not looked at.
SynReceived(c, seg) ==
    IF /\ c.peer_seq = seg.seq
       /\ "ACK" \in seg.flags /\ "SYN" \notin seg.flags
       /\ seg.ack = c.seq
    THEN Quiet([c EXCEPT !.state = "ESTABLISHED", !.flags = @ \cup {"CONNECTED"}])
    ELSE Quiet(c)

\* In ESTABLISHED and after a shutdown, the acknowledgement comes first.
AckOf(c, seg) == IF "ACK" \in seg.flags THEN tcp_ack_recieved(c, seg.ack) ELSE c

\* A FIN or a RST does not up the recv_semaphore.
FinOrRst(c, seg) ==
    LET e == IF "FIN" \in seg.flags THEN [c EXCEPT !.flags = @ \cup {"SHUT_RD"}] ELSE c
    IN  IF "RST" \in seg.flags \/ e.flags \cap {"SHUT_RD", "SHUT_WR"} # {}
        THEN [e EXCEPT !.state = "CLOSED"] ELSE e

\* Mutant: data ahead of what was received is taken as well.
ReceivedAhead(s, c, seg) ==
    IF seg.data = <<>> \/ c.peer_seq > seg.seq THEN Quiet(c)
    ELSE Answer(Store(c, seg), tcp_send_ack(s, Store(c, seg)))

Received(s, c, seg) ==
    LET fresh == seg.data # <<>>
        f == FinOrRst(IF fresh THEN Store(c, seg) ELSE c, seg)
    IN  CASE fresh /\ c.peer_seq > seg.seq -> Quiet(c)
          [] fresh /\ c.peer_seq < seg.seq -> Answer(c, tcp_send_ack(s, c))
          [] OTHER -> IF fresh \/ seg.flags \cap {"SYN", "FIN"} # {}
                      THEN Answer(f, tcp_send_ack(s, f)) ELSE Quiet(f)

Established(s, c, seg) == Received(s, AckOf(c, seg), seg)

tcp_sock_handle(s, c, seg) ==
    CASE c.state = "SYN_SENT" -> SynSent(s, c, seg)
      [] c.state = "SYN_RECIEVED" -> SynReceived(c, seg)
      [] c.state \in {"ESTABLISHED", "FIN_WAITA", "FIN_WAITB"} -> Established(s, c, seg)
      [] c.state \in {"RETRY", "CLOSED"} -> Quiet(c)

\* A SYN from a peer that has no child.
NewChild(seg) ==
    /\ "SYN" \in seg.flags /\ "ACK" \notin seg.flags
    /\ listener.backlog > 0
    /\ \E s \in {MaxChildren - listener.backlog + 1} :
       \E c \in {[NoConn EXCEPT !.state = "SYN_RECIEVED", !.seq = Isns[s],
                                !.peer_seq = (seg.seq + Len(seg.data) + 1) % SeqSpace,
                                !.flags = {"CONNECTED", "CHILD"}]} :
          /\ socks' = [socks EXCEPT ![s] = tcp_queue_add(c, {"SYN", "ACK"}, <<>>)]
          /\ wire' = wire \cup {Segment(s, c, {"SYN", "ACK"}, <<>>)}
          /\ children' = list_add_before(children, s)
          /\ listener' = [listener EXCEPT !.backlog = @ - 1, !.connections = @ \cup {s},
                                          !.accept_semaphore = @ + 1]
    /\ UNCHANGED <<resend, phase, want, failing, handling>>

\* tcp_handle() for the socket of the port that the segment is sent to.
Handled(s, seg) ==
    /\ \E r \in {tcp_sock_handle(s, socks[s], seg)} :
          /\ socks' = [socks EXCEPT ![s] = r.conn]
          /\ wire' = wire \cup r.reply
          /\ resend' = (resend \/ r.resend)
    /\ UNCHANGED <<listener, children, phase, want, failing, handling>>

\* For a child that a program uses, which does not wait for the listener's lock:
\* the handler reads, and writes later.
HandledBegin(s, seg) ==
    /\ handling' = <<[sock |-> s, found |-> socks[s],
                      made |-> tcp_sock_handle(s, socks[s], seg)]>>
    /\ UNCHANGED <<socks, listener, children, wire, failing, resend, phase, want>>

\* The list of segments and the flags are changed in place, by the program as well:
\* what it added may be lost.
Queues(now, found, made) ==
    LET acked == Len(found.queue) - Len(made.queue)
    IN  IF acked = 0 THEN {now.queue}
        ELSE {SubSeq(now.queue, acked + 1, Len(now.queue)), made.queue}

Flags(now, found, made) ==
    IF made.flags = found.flags THEN {now.flags} ELSE {now.flags \cup made.flags, made.flags}

handle_end ==
    /\ handling # <<>>
    /\ \E h \in {handling[1]} :
       \E now \in {socks[h.sock]}, found \in {h.found}, made \in {h.made.conn} :
       \E queue \in Queues(now, found, made), flags \in Flags(now, found, made) :
          /\ socks' = [socks EXCEPT ![h.sock] =
                [now EXCEPT !.state = IF made.state = found.state THEN @ ELSE made.state,
                            !.peer_seq = made.peer_seq,
                            !.buff = made.buff,
                            !.recv_sem = @ + made.recv_sem - found.recv_sem,
                            !.queue = queue,
                            !.flags = flags]]
          /\ wire' = wire \cup {[seg EXCEPT !.seq = now.seq] : seg \in h.made.reply}
    /\ handling' = <<>>
    /\ UNCHANGED <<listener, children, failing, resend, phase, want>>

tcp_handle(seg) ==
    /\ seg \in wire
    /\ \/ /\ seg.to = "client"
          /\ socks[Client].state # "none" /\ "CLOSED" \notin socks[Client].flags
          /\ Handled(Client, seg)
       \/ /\ seg.to = "server" /\ listener.open /\ handling = <<>>
          /\ \/ \E s \in listener.connections : phase[s] = "new" /\ Handled(s, seg)
             \/ \E s \in listener.connections : phase[s] # "new" /\ HandledBegin(s, seg)
             \/ listener.connections = {} /\ NewChild(seg)
-----------------------------------------------------------------------------
\* connect() sends a SYN and waits on the established_semaphore.  The SYN goes out,
\* or fails later with the callback of its packet.
connect ==
    /\ phase[Client] = "new"
    /\ phase' = [phase EXCEPT ![Client] = "connect"]
    /\ \E c \in {[tcp_reset(NoConn, Isns[1]) EXCEPT !.state = "SYN_SENT"]} :
          /\ socks' = [socks EXCEPT ![Client] = tcp_queue_add(c, {"SYN"}, <<>>)]
          /\ \/ wire' = wire \cup {Segment(Client, c, {"SYN"}, <<>>)} /\ UNCHANGED failing
             \/ failing' = TRUE /\ UNCHANGED wire
    /\ UNCHANGED <<listener, children, resend, want, handling>>

connect_return ==
    /\ phase[Client] = "connect"
    /\ socks[Client].est_sem > 0
    /\ socks' = [socks EXCEPT ![Client].est_sem = @ - 1]
    /\ phase' = [phase EXCEPT ![Client] = "open"]
    /\ UNCHANGED <<listener, children, wire, failing, resend, want, handling>>

tcp_callback ==
    /\ failing
    /\ failing' = FALSE
    /\ socks' = IF socks[Client].state = "SYN_SENT"
                THEN [socks EXCEPT ![Client].state = "CLOSED", ![Client].est_sem = @ + 1]
                ELSE socks
    /\ UNCHANGED <<listener, children, wire, resend, phase, want, handling>>

\* The hardware address of the peer is known: ip_handle() stored that of the segment
\* that led to the retry.
tcp_resend_syn ==
    /\ resend
    /\ resend' = FALSE
    /\ IF "CLOSED" \in socks[Client].flags \/ socks[Client].state = "CLOSED"
       THEN UNCHANGED <<socks, wire>>
       ELSE \E c \in {[socks[Client] EXCEPT !.state = "SYN_SENT"]} :
               /\ socks' = [socks EXCEPT ![Client] = tcp_queue_add(c, {"SYN"}, <<>>)]
               /\ wire' = wire \cup {Segment(Client, c, {"SYN"}, <<>>)}
    /\ UNCHANGED <<listener, children, failing, phase, want, handling>>

\* accept(): the semaphore may count a child that is not on the list.  A call that a
\* signal interrupts changes nothing, and the listener is not shut, for
\* sock_shutdown() refuses a socket that is not connected.
accept ==
    /\ listener.open /\ listener.accept_semaphore > 0 /\ handling = <<>>
    /\ listener' = [listener EXCEPT !.accept_semaphore = @ - 1]
    /\ \E s \in {children.next[Client]} :
          IF s = Client
          THEN UNCHANGED <<children, phase>>
          ELSE /\ children' = list_rm(children, s)
               /\ phase' = [phase EXCEPT ![s] = "open"]
    /\ UNCHANGED <<socks, wire, failing, resend, want, handling>>

\* tcp_close() of a connection, on a child that accept() took off the list too.
Rst(s) == IF socks[s].state = "CLOSED" THEN {} ELSE {tcp_send_rst(s, socks[s])}

close(s) ==
    /\ phase[s] = "open" /\ want[s] = 0
    /\ phase' = [phase EXCEPT ![s] = "closed"]
    /\ socks' = [socks EXCEPT ![s].flags = @ \cup {"CLOSED"}]
    /\ wire' = wire \cup Rst(s)
    /\ children' = IF s = Client THEN children ELSE list_rm(children, s)
    /\ listener' = [listener EXCEPT !.connections = @ \ {s}]
    /\ UNCHANGED <<failing, resend, want, handling>>

\* tcp_close() of the listener closes the children on its list; what was accepted
\* before gets no more segments.
close_listener ==
    /\ listener.open /\ handling = <<>>
    /\ listener' = [listener EXCEPT !.open = FALSE, !.connections = @ \ OnList]
    /\ children' = [children EXCEPT !.next[Client] = Client, !.prev[Client] = Client]
    /\ phase' = [s \in Sock |-> IF s \in OnList THEN "closed" ELSE phase[s]]
    /\ socks' = [s \in Sock |-> IF s \in OnList
                                THEN [socks[s] EXCEPT !.flags = @ \cup {"CLOSED"}]
                                ELSE socks[s]]
    /\ wire' = wire \cup UNION {Rst(s) : s \in {c \in OnList : phase[c] # "closed"}}
    /\ want' = [s \in Sock |-> IF s \in OnList THEN 0 ELSE want[s]]
    /\ UNCHANGED <<failing, resend, handling>>
-----------------------------------------------------------------------------
Usable(s) == phase[s] = "open" /\ want[s] = 0 /\ "CONNECTED" \in socks[s].flags

\* sock_shutdown() leaves out the directions that are shut already.
ShutBits(s, how) == how \ socks[s].flags

shutdown(s, how) ==
    /\ Usable(s)
    /\ \E bits \in {ShutBits(s, how)} :
       \E c \in {[socks[s] EXCEPT !.flags = @ \cup bits,
                                  !.state = IF "SHUT_WR" \in bits THEN "FIN_WAITA"
                                                                  ELSE @]} :
          IF "SHUT_WR" \in bits
          THEN /\ socks' = [socks EXCEPT ![s] = tcp_queue_add(c, {"FIN", "ACK"}, <<>>)]
               /\ wire' = wire \cup {Segment(s, c, {"FIN", "ACK"}, <<>>)}
          ELSE socks' = [socks EXCEPT ![s] = c] /\ UNCHANGED wire
    /\ UNCHANGED <<listener, children, failing, resend, phase, want, handling>>

\* The bytes of a stream are told apart by the socket and their place.
Data(s, n) == [i \in 1 .. n |-> <<s, Len(socks[s].sent) + i>>]

send(s, n) ==
    /\ Usable(s)
    /\ socks[s].state # "CLOSED" /\ "SHUT_WR" \notin socks[s].flags
    /\ Len(socks[s].sent) + n <= MaxBytes
    /\ socks' = [socks EXCEPT ![s] = tcp_queue_add(@, {"ACK"}, Data(s, n))]
    /\ wire' = wire \cup {Segment(s, socks[s], {"ACK"}, Data(s, n))}
    /\ UNCHANGED <<listener, children, failing, resend, phase, want, handling>>

\* recv_buff_back + 1, which is recv_buff_front when there is nothing to read.  With
\* recv_buff_front beyond the buffer that is never so.
Ahead(c) == (c.back + 1) % IndexSpace
Empty(c) == Ahead(c) = Len(c.buff)

\* The loop of tcp_recv() for n more bytes, until it has them or has to wait.
Take(s, c, n) ==
    LET k == IF Len(c.buff) > RecvBuffSize THEN n ELSE Least(n, Len(c.buff) - Ahead(c))
        bytes == [i \in 1 .. k |-> c.buff[((Ahead(c) + i - 1) % RecvBuffSize) + 1]]
    IN  /\ socks' = [socks EXCEPT ![s] =
              [c EXCEPT !.back = IF k = 0 THEN @ ELSE (Ahead(c) + k - 1) % RecvBuffSize,
                        !.got = @ \o bytes]]
        /\ want' = [want EXCEPT ![s] = IF "SHUT_RD" \in c.flags THEN 0 ELSE n - k]

recv(s, n) ==
    /\ Usable(s)
    /\ Len(socks[s].got) + n <= MaxBytes + MaxRecv
    /\ ~(socks[s].state = "CLOSED" /\ Empty(socks[s]))
    /\ Take(s, socks[s], n)
    /\ UNCHANGED <<listener, children, wire, failing, resend, phase, handling>>

\* After semaphore_down(): a socket that was shut returns what it has so far.
recv_wake(s) ==
    /\ want[s] > 0 /\ socks[s].recv_sem > 0
    /\ \E c \in {[socks[s] EXCEPT !.recv_sem = @ - 1]} :
          Take(s, c, IF "SHUT_RD" \in c.flags THEN 0 ELSE want[s])
    /\ UNCHANGED <<listener, children, wire, failing, resend, phase, handling>>
-----------------------------------------------------------------------------
TcpNext ==
    \/ connect \/ connect_return \/ tcp_callback \/ tcp_resend_syn
    \/ accept \/ close_listener \/ handle_end
    \/ \E seg \in wire : tcp_handle(seg)
    \/ \E s \in Sock : \/ close(s)
                       \/ recv_wake(s)
                       \/ \E n \in 1 .. MaxRecv : send(s, n) \/ recv(s, n)
                       \/ \E how \in (SUBSET {"SHUT_RD", "SHUT_WR"}) \ {{}} :
                             shutdown(s, how)

TcpSpec == TcpInit /\ [][TcpNext]_tcpVars
-----------------------------------------------------------------------------
\* Whatever the wire loses, repeats or reorders, across retries and after other
\* connections of the same two ports, recv() returns the bytes that one socket of
\* the peer sent, in order, from the first on and without a gap, and the others are
\* stored behind them, also when the handler of a child runs beside the calls of its
\* program.  That holds until a connection has stored more than recv_buff_size bytes
\* in all: recv_buff_front does not wrap, and recv_buff_back does.
TcpInOrder ==
    \A s \in {r \in Sock : Len(socks[r].buff) <= RecvBuffSize} :
        /\ \E n \in 0 .. Len(socks[s].buff) : socks[s].got = SubSeq(socks[s].buff, 1, n)
        /\ \E t \in IF s = Client THEN Children ELSE {Client} :
           \E n \in 0 .. Len(socks[t].sent) :
                socks[s].buff = SubSeq(socks[t].sent, 1, n)

\* A program that sleeps in recv() with nothing to wake it has taken all that
\* arrived.
ReceiverAwake ==
    \A s \in Sock :
        want[s] > 0 /\ socks[s].recv_sem = 0 => Empty(socks[s])
=============================================================================
