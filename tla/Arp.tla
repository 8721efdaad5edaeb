-------------------------------- MODULE Arp --------------------------------
(***************************************************************************)
(* Sending a packet to an IP address, of kernel/src/net/packet.c,          *)
(* net/eth/eth.c and net/ip/arp.c: a packet waits in the cache entry of    *)
(* its destination until the hardware address is known.  arp_resolve() and *)
(* arp_cache_store() hold arp_cache_lock and arp_watchdog() the lock of    *)
(* its entry, all with interrupts off, so each is one step, but for the    *)
(* walk of arp_cache_store() over packets that are freed as they are sent. *)
(***************************************************************************)
EXTENDS Integers, Sequences, Functions

CONSTANTS Ip,            \* the neighbours
          Mac,           \* the hardware addresses they may have
          MaxPackets,    \* bound on the packets sent
          ARP_RETRYS,
          ArpProcs       \* the numbers of processors

VARIABLES
    arp_cache,    \* per address: its arp_cache_entry_t
    watchdogs,    \* the addresses that have a timer for arp_watchdog()
    walk,         \* the walk of arp_cache_store(): its address and the packets left
    arp_procs,    \* the number of processors
    spinning,     \* how many of them spin for ever
    held,         \* the locks that these hold: those of entries, and the two below
    overwritten,  \* history: a freed packet was reused before its link was read
    outbox,       \* history: the destination of each packet, and where it went
    asked         \* history: the addresses a request was sent for

arpVars == <<arp_cache, watchdogs, walk, arp_procs, spinning, held, overwritten, outbox, asked>>

Broadcast == "broadcast"
NoMac == "none"
Failed == "unknown host"           \* PRESULT_UNKNOWNHOST
NoEntry == [state |-> "none", mac |-> NoMac, retrys |-> -1, pending |-> <<>>]
NoWalk == [ip |-> Broadcast, left |-> <<>>]
CacheLock == "arp_cache_lock"
TimerLock == "timer_lock"

ASSUME ArpAssumption ==
    /\ Ip \cap {Broadcast, CacheLock, TimerLock} = {}
    /\ ARP_RETRYS \in Nat /\ ArpProcs \subseteq Nat \ {0}

ArpTypeOK ==
    /\ \A ip \in Ip : /\ arp_cache[ip].state \in {"none", "unresolved", "resolved"}
                      /\ arp_cache[ip].mac \in Mac \cup {NoMac}
                      /\ arp_cache[ip].retrys \in -1 .. ARP_RETRYS
    /\ watchdogs \subseteq Ip
    /\ walk.ip \in Ip \cup {Broadcast}
    /\ spinning \in 0 .. arp_procs
    /\ held \subseteq Ip \cup {CacheLock, TimerLock}

ArpInit ==
    /\ arp_cache = [ip \in Ip |-> NoEntry]
    /\ watchdogs = {}
    /\ walk = NoWalk
    /\ arp_procs \in ArpProcs
    /\ spinning = 0 /\ held = {}
    /\ overwritten = FALSE
    /\ outbox = <<>>
    /\ asked = {}
-----------------------------------------------------------------------------
\* The packets of a set, handed to the driver for mac, or destroyed.
Dispatch(box, packets, mac) ==
    [p \in DOMAIN box |-> IF p \in packets THEN [box[p] EXCEPT !.went = Append(@, mac)]
                                           ELSE box[p]]

\* A processor spins for a lock that will not be let go, and keeps its own.
Spin(locks) == held' = held \cup locks /\ spinning' = spinning + 1

\* A processor that neither spins nor walks, with interrupts off, runs.
Runs == spinning + (IF walk = NoWalk THEN 0 ELSE 1) < arp_procs

\* arp_cache_lock can be had.
CacheFree == Runs /\ CacheLock \notin held /\ walk = NoWalk

\* arp_watchdog() of an unresolved entry: count, then give up or ask.
Counted(e) == [e EXCEPT !.retrys = @ + 1]
GivesUp(e) == e.retrys + 1 >= ARP_RETRYS
GivenUp(e) == [e EXCEPT !.retrys = -1, !.pending = <<>>]

\* packet_send() of a new packet, with eth_resolve() and arp_resolve().  The
\* watchdog it calls for a new entry, or for one that was given up, asks and sets
\* a timer.
arp_resolve(ip) ==
    LET p == Len(outbox) + 1
        handed(went) == Append(outbox, [dst |-> ip, went |-> went])
        e == IF ip \in Ip THEN arp_cache[ip] ELSE NoEntry
        joined == [e EXCEPT !.state = "unresolved", !.pending = <<p>> \o @]
    IN  /\ Runs /\ p <= MaxPackets
        /\ \/ /\ ip = Broadcast
              /\ outbox' = handed(<<Broadcast>>)
              /\ UNCHANGED <<arp_cache, watchdogs, spinning, held, asked>>
           \/ /\ CacheFree /\ ip # Broadcast /\ e.state = "resolved"
              /\ outbox' = handed(<<e.mac>>)
              /\ UNCHANGED <<arp_cache, watchdogs, spinning, held, asked>>
           \/ /\ CacheFree /\ ip \in held
              /\ Spin({CacheLock})
              /\ UNCHANGED <<arp_cache, watchdogs, outbox, asked>>
           \/ /\ CacheFree /\ ip \notin held \cup {Broadcast}
              /\ e.state # "resolved" /\ e.retrys # -1
              /\ outbox' = handed(<<>>)
              /\ arp_cache' = [arp_cache EXCEPT ![ip] = joined]
              /\ UNCHANGED <<watchdogs, spinning, held, asked>>
           \/ /\ CacheFree /\ ip \notin held \cup {Broadcast}
              /\ e.state # "resolved" /\ e.retrys = -1
              /\ outbox' = handed(<<>>)
              /\ arp_cache' = [arp_cache EXCEPT ![ip] = Counted(joined)]
              /\ asked' = asked \cup {ip}
              /\ IF TimerLock \in held
                 THEN Spin({CacheLock, ip}) /\ UNCHANGED watchdogs
                 ELSE watchdogs' = watchdogs \cup {ip} /\ UNCHANGED <<spinning, held>>
        /\ UNCHANGED <<walk, arp_procs, overwritten>>

\* The timer: time_tick() calls the watchdog with timer_lock held, and a watchdog
\* that asks again calls timer_create(), which takes that lock.  With an ARP_RETRYS
\* above 1 that is the first to expire, and none gives up.
arp_watchdog(ip) ==
    LET e == arp_cache[ip]
        fails == GivesUp(e)
    IN  /\ Runs /\ TimerLock \notin held /\ ip \in watchdogs
        /\ watchdogs' = watchdogs \ {ip}
        /\ \/ /\ e.state = "resolved"
              /\ UNCHANGED <<arp_cache, outbox, asked, spinning, held>>
           \/ /\ e.state = "unresolved"
              /\ arp_cache' = [arp_cache EXCEPT ![ip] = IF fails THEN GivenUp(e)
                                                                 ELSE Counted(e)]
              /\ outbox' = IF fails THEN Dispatch(outbox, Range(e.pending), Failed)
                                    ELSE outbox
              /\ asked' = IF fails THEN asked ELSE asked \cup {ip}
              /\ IF fails THEN UNCHANGED <<spinning, held>> ELSE Spin({TimerLock, ip})
        /\ UNCHANGED <<walk, arp_procs, overwritten>>
-----------------------------------------------------------------------------
\* arp_cache_store(), of arp_handle() and ip_handle(): an address that is known
\* is not changed, and the list of a resolved entry is not emptied.
arp_cache_store(ip, mac) ==
    LET e == arp_cache[ip]
    IN  /\ CacheFree
        /\ e.state # "resolved"
        /\ \/ /\ ip \notin held
              /\ arp_cache' = [arp_cache EXCEPT ![ip].state = "resolved", ![ip].mac = mac]
              /\ walk' = IF e.pending = <<>> THEN NoWalk ELSE [ip |-> ip, left |-> e.pending]
              /\ UNCHANGED <<spinning, held>>
           \/ /\ ip \in held
              /\ Spin({CacheLock})
              /\ UNCHANGED <<arp_cache, walk>>
        /\ UNCHANGED <<watchdogs, arp_procs, overwritten, outbox, asked>>

\* Mutant: the walk ends behind the newest packet.
RestNone(left) == <<>>

Rest(left) == Tail(left)

\* A turn of its loop: packet_send() frees the packet, then its link is read.  On
\* another processor the memory may be allocated and written between the two; the
\* walk then goes on anywhere, here to its end.
store_send ==
    /\ walk # NoWalk
    /\ outbox' = Dispatch(outbox, {Head(walk.left)}, arp_cache[walk.ip].mac)
    /\ \/ /\ walk' = IF Rest(walk.left) = <<>> THEN NoWalk
                                               ELSE [walk EXCEPT !.left = Rest(@)]
          /\ UNCHANGED overwritten
       \/ /\ arp_procs > 1
          /\ walk' = NoWalk
          /\ overwritten' = TRUE
    /\ UNCHANGED <<arp_cache, watchdogs, arp_procs, spinning, held, asked>>

ArpNext ==
    \/ \E ip \in Ip \cup {Broadcast} : arp_resolve(ip)
    \/ \E ip \in Ip : arp_watchdog(ip)
    \/ \E ip \in Ip, mac \in Mac : arp_cache_store(ip, mac)
    \/ store_send

ArpSpec == ArpInit /\ [][ArpNext]_arpVars
-----------------------------------------------------------------------------
\* As long as no freed packet is reused under the walk, which takes a second
\* processor, each packet is in one place: it waits in the entry of its destination
\* while that is unresolved, or it was sent once, to the address that its
\* destination announced, or it failed once.  None is lost or sent twice when the
\* answer, the watchdog and further packets for the same destination meet; and
\* packets that wait have a watchdog to come, unless the processor that runs theirs
\* spins for the timer_lock that it holds itself.
Waits(ip, p) ==
    \/ arp_cache[ip].state = "unresolved" /\ p \in Range(arp_cache[ip].pending)
    \/ p \in Range(walk.left)

ArpOnce ==
    /\ arp_procs = 1 => ~overwritten
    /\ ~overwritten =>
          \A p \in {q \in DOMAIN outbox : outbox[q].dst # Broadcast} :
              IF Waits(outbox[p].dst, p) THEN outbox[p].went = <<>>
              ELSE outbox[p].went \in {<<arp_cache[outbox[p].dst].mac>>, <<Failed>>}
    /\ \A ip \in Ip :
          arp_cache[ip].state = "unresolved" /\ arp_cache[ip].pending # <<>> =>
              ip \in watchdogs \cup held
=============================================================================
