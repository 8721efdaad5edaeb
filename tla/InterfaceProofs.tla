-------------------------- MODULE InterfaceProofs --------------------------
(***************************************************************************)
(* The address of a network interface, for any set of addresses: what the  *)
(* interface holds and what it tells others was leased to this machine.    *)
(***************************************************************************)
EXTENDS Interface, TLAPS

\* What makes AddressLeased inductive: an acknowledgement on the network that is
\* meant for this machine names an address that a server gave it, however old the
\* acknowledgement is.
AcksLeased ==
    \A m \in dhcpnet :
        m.op = "reply" /\ m.type = "ACK" /\ m.chaddr = Self => m.addr \in leased

AddressInv ==
    InterfaceTypeOK /\ misread \in BOOLEAN /\ AcksLeased /\ AddressLeased

\* At boot the interface has no address and nothing was acknowledged.
LEMMA AddressInvInit == InterfaceInit => AddressInv
<1> SUFFICES ASSUME InterfaceInit PROVE AddressInv
  OBVIOUS
<1>1. ifstate \in {"DOWN", "UP"} /\ ip_addr = IP_NONE /\ told = {} /\ misread = FALSE
  BY DEF InterfaceInit
<1>2. \A m \in dhcpnet : m \in Request /\ m.op = "request"
  BY DEF InterfaceInit, dhcp_callback, Request, AddrOrNone
<1> QED
  BY <1>1, <1>2 DEF AddressInv, InterfaceTypeOK, AcksLeased, AddressLeased, AddrOrNone

\* net_set_state() on a change that leaves the leases alone: the interface may
\* become ready only with a leased address.
LEMMA SetState ==
    ASSUME AddressInv, UNCHANGED <<several, leased>>, misread' \in BOOLEAN,
           ~several => ~misread', ~misread' => ~misread,
           NEW state \in {"DOWN", "UP", "READY"}, NEW ip \in AddrOrNone,
           net_set_state(state, ip),
           ~misread' /\ state = "READY" => ip \in leased,
           state = ifstate => ip = ip_addr
    PROVE  AddressInv'
<1>1. ifstate' = state /\ ip_addr' \in AddrOrNone
  BY DEF net_set_state, inet_callback, AddrOrNone
<1>2. \A m \in dhcpnet' : m \in dhcpnet \/ (m \in Request /\ m.op = "request")
  BY DEF net_set_state, dhcp_callback, Request, AddrOrNone
<1>3. InterfaceTypeOK'
  BY <1>1, <1>2 DEF AddressInv, InterfaceTypeOK
<1>4. AcksLeased'
  BY <1>2 DEF AddressInv, AcksLeased
<1>5. ~misread' => told' \subseteq leased'
  BY DEF AddressInv, AddressLeased, net_set_state, nbns_callback
<1>6. ~misread' /\ ifstate' = "READY" => ip_addr' \in leased'
  BY DEF AddressInv, AddressLeased, net_set_state, inet_callback
<1>7. ifstate' = "DOWN" => ip_addr' = IP_NONE
  BY DEF AddressInv, AddressLeased, net_set_state, inet_callback
<1> QED
  BY <1>3, <1>4, <1>5, <1>6, <1>7 DEF AddressInv, AddressLeased

\* A handler of the interface keeps the invariant.
LEMMA HandlerKeeps ==
    ASSUME AddressInv, handle_link \/ (\E m \in dhcpnet : dhcp_handle(m)) \/ nbns_handle
    PROVE  AddressInv'
<1>1. CASE handle_link
  <2> DEFINE state == IF linkup THEN "UP" ELSE "DOWN"
  <2>1. /\ net_set_state(state, ip_addr) /\ UNCHANGED <<several, leased, misread>>
        /\ state \in {"DOWN", "UP", "READY"}
    BY <1>1 DEF handle_link
  <2>2. /\ ip_addr \in AddrOrNone /\ state # "READY"
        /\ misread' \in BOOLEAN /\ (~several => ~misread') /\ (~misread' => ~misread)
    BY <2>1 DEF AddressInv, InterfaceTypeOK, AddressLeased
  <2> QED
    BY <2>1, <2>2, SetState
<1>2. ASSUME NEW m \in dhcpnet, dhcp_handle(m) PROVE AddressInv'
  <2>1. m.op = "reply" /\ m.chaddr = Self /\ ifstate = "UP" /\ UNCHANGED <<several, leased>>
    BY <1>2 DEF dhcp_handle, Accepts, ForUs
  <2>2. m \in Reply /\ m.addr \in AddrOrNone
    BY <2>1 DEF AddressInv, InterfaceTypeOK, Request, Reply
  <2>a. PICK type \in dhcp_parse_options(m) :
          /\ misread' = (misread \/ type # m.type)
          /\ \/ type = "OFFER" /\ dhcp_send_request(m)
             \/ type = "ACK" /\ dhcp_ack(m)
    BY <1>2 DEF dhcp_handle
  <2>b. /\ misread' \in BOOLEAN /\ (~misread' => ~misread /\ type = m.type)
        /\ ~several => ~misread'
    <3>1. ~several => type = m.type
      BY DEF dhcp_parse_options
    <3> QED
      BY <2>a, <3>1 DEF AddressInv, AddressLeased
  <2>3. CASE type = "OFFER" /\ dhcp_send_request(m)
    <3> DEFINE asks == [op |-> "request", type |-> "REQUEST", addr |-> m.addr]
    <3>1. asks \in Request /\ asks.op = "request"
      BY <2>2 DEF Request
    <3>2. dhcpnet' = dhcpnet \cup {asks} /\ UNCHANGED <<ifstate, ip_addr, told, leased>>
      BY <2>1, <2>3 DEF dhcp_send_request
    <3> HIDE DEF asks
    <3> QED
      BY <2>1, <2>b, <3>1, <3>2 DEF AddressInv, InterfaceTypeOK, AcksLeased, AddressLeased
  <2>4. CASE type = "ACK" /\ dhcp_ack(m)
    <3>1. ~misread' => m.addr \in leased
      BY <2>1, <2>b, <2>4 DEF AddressInv, AcksLeased
    <3>2. net_set_state("READY", m.addr)
      BY <2>4 DEF dhcp_ack
    <3> QED
      BY <2>1, <2>2, <2>b, <3>1, <3>2, SetState
  <2> QED
    BY <2>a, <2>3, <2>4
<1>3. CASE nbns_handle
  BY <1>3 DEF nbns_handle, AddressInv, InterfaceTypeOK, AcksLeased, AddressLeased
<1> QED
  BY <1>1, <1>2, <1>3

\* So do the cable and the server, which acknowledges to another machine what it
\* likes and to this one only what it leases.
LEMMA EnvironmentKeeps ==
    ASSUME AddressInv, link_change \/ server
    PROVE  AddressInv'
<1>1. CASE link_change
  BY <1>1 DEF link_change, AddressInv, InterfaceTypeOK, AcksLeased, AddressLeased
<1>2. CASE server
  <2>1. PICK type \in {"OFFER", "ACK", "NAK"}, addr \in Addr, chaddr \in {Self, Other} :
           /\ Answers(type, addr, chaddr)
           /\ leased \subseteq leased'
           /\ type = "ACK" /\ chaddr = Self => addr \in leased'
    BY <1>2, InterfaceAssumption DEF server
  <2> DEFINE answer == [op |-> "reply", type |-> type, addr |-> addr, chaddr |-> chaddr]
  <2>2. answer \in Reply /\ answer.type = type /\ answer.chaddr = chaddr /\ answer.addr = addr
    BY DEF Reply, AddrOrNone
  <2>3. dhcpnet' = dhcpnet \cup {answer}
    BY <2>1 DEF Answers
  <2>4. UNCHANGED <<ifstate, ip_addr, several, told, misread>>
    BY <1>2 DEF server
  <2> HIDE DEF answer
  <2>5. AcksLeased'
    BY <2>1, <2>2, <2>3 DEF AddressInv, AcksLeased
  <2> QED
    BY <2>1, <2>2, <2>3, <2>4, <2>5 DEF AddressInv, InterfaceTypeOK, AddressLeased
<1> QED
  BY <1>1, <1>2

\* However the link flaps and whatever old, repeated or foreign answers arrive, a
\* ready interface has an address that a DHCP server acknowledged to this machine,
\* one whose link is down has none, and NBNS tells no other, unless
\* dhcp_parse_options() misread a reply, which it does only for options longer than
\* those it goes over.
THEOREM AddressTheorem == InterfaceSpec => []AddressLeased
<1>1. InterfaceInit => AddressInv
  BY AddressInvInit
<1>2. AddressInv /\ [InterfaceNext]_ifVars => AddressInv'
  <2> SUFFICES ASSUME AddressInv, [InterfaceNext]_ifVars PROVE AddressInv'
    OBVIOUS
  <2>1. CASE InterfaceNext
    BY <2>1, HandlerKeeps, EnvironmentKeeps DEF InterfaceNext
  <2>2. CASE UNCHANGED ifVars
    BY <2>2 DEF ifVars, AddressInv, InterfaceTypeOK, AcksLeased, AddressLeased
  <2> QED
    BY <2>1, <2>2
<1>3. AddressInv => AddressLeased
  BY DEF AddressInv
<1> QED
  BY <1>1, <1>2, <1>3, PTL DEF InterfaceSpec
=============================================================================
