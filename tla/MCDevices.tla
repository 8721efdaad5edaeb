----------------------------- MODULE MCDevices -----------------------------
(***************************************************************************)
(* The devices and the network: timers, the screen, disks, the rings of    *)
(* the network card, the address of the interface, ARP and TCP.  They      *)
(* share no state; a behaviour picks one of them.  TCP is picked with one  *)
(* of four programs, which between them make every call.                   *)
(***************************************************************************)
EXTENDS Timers, Console, Disks, E1000, Interface, Arp, Tcp

VARIABLE focus

vars == <<timerVars, conVars, diskVars, ringVars, ifVars, arpVars, tcpVars, focus>>

Tcps == {"stream", "teardown", "half closed", "both ways"}

Init ==
    /\ focus \in {"timers", "screen", "disks", "receive", "transmit", "address", "arp"} \cup Tcps
    /\ TimersInit /\ ConsoleInit /\ DisksInit /\ E1000Init /\ InterfaceInit
    /\ ArpInit /\ TcpInit
    /\ focus # "address" => ~linkup /\ ~several
    /\ focus # "arp" => arp_procs = 1
    /\ focus # "timers" => procs = 1
    /\ focus # "receive" => strict

\* rand32() for each machine: far apart, and the first near the end of the range.
IsnSeq == <<21, 6, 13>>

\* The list is newest first; the order in which the labels register depends on the
\* order of the object files.
LabelSeq == <<"msdos", "gpt">>

\* In an escape sequence the characters that it may consist of, and one that it
\* may not.
Printed == IF term = "ESCSEQ" THEN DOMAIN Digit \cup {";", "["} \cup Command ELSE Char

Handshake ==
    connect \/ connect_return \/ accept \/ handle_end \/ \E seg \in wire : tcp_handle(seg)

\* The client sends all it can, the server reads.
Stream ==
    \E n \in 1 .. MaxRecv :
        \/ send(Client, n)
        \/ \E s \in Children : recv(s, n) \/ recv_wake(s)

\* The server says a byte and closes, at any time; the client tries again.
Once(s) == socks[s].sent = <<>> /\ send(s, 1)

Teardown ==
    \/ tcp_resend_syn \/ tcp_callback \/ close_listener
    \/ recv(Client, 1) \/ recv_wake(Client)
    \/ \E s \in Children : close(s) \/ Once(s)

\* The server says a byte and shuts its direction.
HalfClosed ==
    \/ recv(Client, 1) \/ recv_wake(Client)
    \/ \E s \in Children : Once(s) \/ shutdown(s, {"SHUT_WR"})

\* Both say a byte, and the client shuts one direction or both and closes.
BothWays ==
    \/ \E s \in Sock : Once(s) \/ recv(s, 1) \/ recv_wake(s)
    \/ \E how \in {{"SHUT_RD"}, {"SHUT_RD", "SHUT_WR"}} : shutdown(Client, how)
    \/ close(Client)

Next ==
    /\ UNCHANGED focus
    /\ focus = "timers" \/ UNCHANGED timerVars
    /\ focus = "screen" \/ UNCHANGED conVars
    /\ focus = "disks" \/ UNCHANGED diskVars
    /\ focus \in {"receive", "transmit"} \/ UNCHANGED ringVars
    /\ focus = "address" \/ UNCHANGED ifVars
    /\ focus = "arp" \/ UNCHANGED arpVars
    /\ focus \in Tcps \/ UNCHANGED tcpVars
    /\ \/ focus = "timers" /\ TimersNext
       \/ focus = "screen" /\ (vram_init \/ \E c \in Printed : vram_handle(c))
       \/ focus = "disks" /\ DisksNext
       \/ focus = "receive" /\ RxNext
       \/ focus = "transmit" /\ TxNext
       \/ focus = "address" /\ InterfaceNext
       \/ focus = "arp" /\ ArpNext
       \/ focus \in Tcps /\ Handshake
       \/ focus = "stream" /\ Stream
       \/ focus = "teardown" /\ Teardown
       \/ focus = "half closed" /\ HalfClosed
       \/ focus = "both ways" /\ BothWays

Spec == Init /\ [][Next]_vars /\ DisksFairness
=============================================================================
