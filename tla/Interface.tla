----------------------------- MODULE Interface -----------------------------
(***************************************************************************)
(* A network interface and its address, of kernel/src/net/interface.c,     *)
(* net/ip/ip.c, udp.c, dhcp.c and nbns.c, and the link interrupt of        *)
(* driver/net/e1000.c.  All of it runs in the interrupt handler of the     *)
(* network card, one frame or one change of the link at a time.  A message *)
(* may be lost, delivered late, out of order or more than once; messages   *)
(* for other machines arrive as well.                                      *)
(***************************************************************************)
EXTENDS Naturals

CONSTANTS Addr,     \* the addresses the server gives out
          Self,     \* the hardware address of the interface
          Other     \* that of another machine

ASSUME InterfaceAssumption == Self # Other

VARIABLES
    linkup,   \* STATUS_LU, of the card
    lsc,      \* ICR_LSC: the link has changed since the register was read
    ifstate,  \* interface->state
    ip_addr,  \* ip_addr, of interface->ip_data
    several,  \* external: the server gives options that are longer than the parser
              \* goes over, such as several routers or name servers
    dhcpnet,  \* the messages on the network
    leased,   \* history: the addresses that a server acknowledged to this machine
    told,     \* history: the addresses that NBNS gave as those of this machine
    misread   \* history: a reply was taken for one of another type

ifVars == <<linkup, lsc, ifstate, ip_addr, several, dhcpnet, leased, told, misread>>

IP_NONE == "0.0.0.0"
AddrOrNone == Addr \cup {IP_NONE}

\* A request names the address it asks for, and an answer the hardware address
\* it is for.
Request == [op : {"request"}, type : {"DISCOVER", "REQUEST"}, addr : AddrOrNone]
Reply == [op : {"reply"}, type : {"OFFER", "ACK", "NAK"}, addr : AddrOrNone,
          chaddr : {Self, Other}]

InterfaceTypeOK ==
    /\ ifstate \in {"DOWN", "UP", "READY"}
    /\ ip_addr \in AddrOrNone
    /\ dhcpnet \subseteq Request \cup Reply
-----------------------------------------------------------------------------
\* The listeners of net_set_state(), which are told of a change of the state.
inet_callback(state, ip) == IF state = "DOWN" THEN IP_NONE ELSE ip

dhcp_callback(state) ==
    IF state = "UP" THEN {[op |-> "request", type |-> "DISCOVER", addr |-> IP_NONE]} ELSE {}

nbns_callback(state, ip) == IF state = "READY" THEN {ip} ELSE {}

\* net_set_state() of an interface that has address ip by now.
net_set_state(state, ip) ==
    /\ ifstate' = state
    /\ ip_addr' = IF state = ifstate THEN ip ELSE inet_callback(state, ip)
    /\ dhcpnet' = dhcpnet \cup (IF state = ifstate THEN {} ELSE dhcp_callback(state))
    /\ told' = told \cup (IF state = ifstate THEN {} ELSE nbns_callback(state, ip))

\* register_net_interface(), and the state that net_825xx_enable() sets first.
InterfaceInit ==
    /\ linkup \in BOOLEAN
    /\ lsc = FALSE
    /\ ifstate = IF linkup THEN "UP" ELSE "DOWN"
    /\ ip_addr = IP_NONE
    /\ several \in BOOLEAN
    /\ dhcpnet = dhcp_callback(ifstate)
    /\ leased = {}
    /\ told = {}
    /\ misread = FALSE

\* handle_network(), on a change of the link.
handle_link ==
    /\ lsc
    /\ lsc' = FALSE
    /\ net_set_state(IF linkup THEN "UP" ELSE "DOWN", ip_addr)
    /\ UNCHANGED <<linkup, several, leased, misread>>

\* Mutant: answers for other machines are taken as well.
ForUsAny(m) == m.op = "reply"

\* udp_handle() takes a DHCP answer while the interface is up and not ready;
\* dhcp_handle() takes it if it is for this machine.  The xid is not compared.
ForUs(m) == m.op = "reply" /\ m.chaddr = Self

Accepts(m) == ifstate = "UP" /\ ForUs(m)

dhcp_send_request(m) ==
    /\ dhcpnet' = dhcpnet \cup {[op |-> "request", type |-> "REQUEST", addr |-> m.addr]}
    /\ UNCHANGED <<ifstate, ip_addr, told>>

dhcp_ack(m) == net_set_state("READY", m.addr)

\* dhcp_parse_options() finds the type.  It goes over one address of a list,
\* however many there are, and takes the bytes of the next ones for options: what it
\* finds then depends on them.  A reply that it refuses is as good as lost.
dhcp_parse_options(m) == IF several THEN {"OFFER", "ACK", "NAK", "none"} ELSE {m.type}

dhcp_handle(m) ==
    /\ m \in dhcpnet /\ Accepts(m)
    /\ \E type \in dhcp_parse_options(m) :
          /\ misread' = (misread \/ type # m.type)
          /\ \/ type = "OFFER" /\ dhcp_send_request(m)
             \/ type = "ACK" /\ dhcp_ack(m)
    /\ UNCHANGED <<linkup, lsc, several, leased>>

\* nbns_handle(), of a query for the name of this machine.
nbns_handle ==
    /\ ifstate = "READY"
    /\ told' = told \cup {ip_addr}
    /\ UNCHANGED <<linkup, lsc, ifstate, ip_addr, several, dhcpnet, leased, misread>>
-----------------------------------------------------------------------------
\* The cable, and a DHCP server: it offers any address, and acknowledges or
\* refuses the one that is asked for; it does the same for another machine.
link_change ==
    /\ linkup' = ~linkup
    /\ lsc' = TRUE
    /\ UNCHANGED <<ifstate, ip_addr, several, dhcpnet, leased, told, misread>>

Answers(type, addr, chaddr) ==
    dhcpnet' = dhcpnet \cup {[op |-> "reply", type |-> type, addr |-> addr,
                              chaddr |-> chaddr]}

server ==
    /\ \E m \in dhcpnet, addr \in Addr :
          \/ /\ m.op = "request" /\ m.type = "DISCOVER"
             /\ Answers("OFFER", addr, Self)
             /\ UNCHANGED leased
          \/ /\ m.op = "request" /\ m.type = "REQUEST" /\ m.addr = addr
             /\ Answers("ACK", addr, Self)
             /\ leased' = leased \cup {addr}
          \/ /\ m.op = "request" /\ m.type = "REQUEST" /\ m.addr = addr
             /\ Answers("NAK", addr, Self)
             /\ UNCHANGED leased
          \/ /\ Answers("ACK", addr, Other)
             /\ UNCHANGED leased
    /\ UNCHANGED <<linkup, lsc, ifstate, ip_addr, several, told, misread>>

InterfaceNext ==
    \/ handle_link
    \/ \E m \in dhcpnet : dhcp_handle(m)
    \/ nbns_handle
    \/ link_change
    \/ server

InterfaceSpec == InterfaceInit /\ [][InterfaceNext]_ifVars
-----------------------------------------------------------------------------
\* A ready interface has an address that a server acknowledged to this machine,
\* and one whose link is down has none, through any sequence of link changes and
\* of old, repeated and foreign answers; NBNS never gives out another address.  All
\* that as long as no reply was misread, which takes a server that gives options
\* longer than those that the parser goes over.
AddressLeased ==
    /\ ifstate = "DOWN" => ip_addr = IP_NONE
    /\ ~several => ~misread
    /\ ~misread => /\ ifstate = "READY" => ip_addr \in leased
                   /\ told \subseteq leased
=============================================================================
