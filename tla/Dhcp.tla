------------------------------- MODULE Dhcp --------------------------------
(***************************************************************************)
(* get_lease() of protocols/dhcp.rs, which lock_in() calls on the BSP for  *)
(* a device before any other core runs, and the servers it talks to. The   *)
(* wire keeps every message ever sent: one may arrive late (in a later     *)
(* boot), twice, out of order or never. The kernel is loaded up to MaxBoots*)
(* times; every kernel draws a transaction id of its own from the cycle    *)
(* counter. A reply whose server leaves out option 54 names no server.     *)
(***************************************************************************)
EXTENDS NetDevice

VARIABLES
    step,           \* where get_lease() is
    offered_ip, server_ip,
    wire            \* every DHCP message sent

dhcp == <<step, offered_ip, server_ip>>

Xid == boot         \* rdtsc() as u32, taken once per get_lease()

Discover(xid) == [type |-> "discover", xid |-> xid]
Request(xid, ip, s) == [type |-> "request", xid |-> xid, ip |-> ip, server |-> s]
Reply(type, xid, ip, s) == [type |-> type, xid |-> xid, ip |-> ip, server |-> s]

InitDhcp == step = "bind" /\ offered_ip = None /\ server_ip = None

\* bind_udp_port(68), then the discover phase.
SendDiscover ==
    /\ phase = "dhcp" /\ step = "bind" /\ CLIENT_PORT \notin binds
    /\ binds' = binds \cup {CLIENT_PORT}
    /\ wire' = wire \cup {Discover(Xid)}
    /\ step' = "offer"
    /\ UNCHANGED <<boot, phase, rx, lease, next_port, app, out, offered_ip, server_ip>>

\* parse_dhcp_reply(): a reply to this exchange.
ParseAnyReply(m) == m.type \in {"offer", "ack", "nak"}      \* Mutant: the xid is not compared
ParseDhcpReply(m) == m.type \in {"offer", "ack", "nak"} /\ m.xid = Xid

\* The callback that waits for an offer takes both addresses from it. Without
\* a server address get_lease() gives up. Otherwise the request phase.
TakeOffer(m) ==
    /\ phase = "dhcp" /\ step = "offer" /\ m \in wire
    /\ ParseDhcpReply(m) /\ m.type = "offer"
    /\ offered_ip' = m.ip /\ server_ip' = m.server
    /\ \/ m.server = None /\ step' = "none" /\ wire' = wire
       \/ /\ m.server # None /\ step' = "ack"
          /\ wire' = wire \cup {Request(Xid, m.ip, m.server)}
    /\ UNCHANGED <<boot, phase, device, app, out>>

\* The callback that waits for the acknowledgement.
TakeAck(m) ==
    /\ phase = "dhcp" /\ step = "ack" /\ m \in wire
    /\ ParseDhcpReply(m) /\ m.type = "ack"
    /\ step' = "some"
    /\ UNCHANGED <<boot, phase, device, app, out, wire, offered_ip, server_ip>>

DhcpTimeoutOnce ==          \* Mutant: only the wait for an offer times out
    /\ phase = "dhcp" /\ step = "offer"
    /\ step' = "none"
    /\ UNCHANGED <<boot, phase, device, app, out, wire, offered_ip, server_ip>>
\* recv_timeout() gives up; there is no second attempt.
DhcpTimeout ==
    /\ phase = "dhcp" /\ step \in {"offer", "ack"}
    /\ step' = "none"
    /\ UNCHANGED <<boot, phase, device, app, out, wire, offered_ip, server_ip>>

\* get_lease() returns: the bind is dropped, lock_in() stores the lease and
\* keeps the device if there is one. Then the other cores are started. What
\* is still on the wire then is junk to the last kernel, up to its own lease.
LockIn ==
    /\ phase = "dhcp" /\ step \in {"some", "none"}
    /\ binds' = binds \ {CLIENT_PORT}
    /\ lease' = IF step = "some" THEN [client_ip |-> offered_ip, server_ip |-> server_ip] ELSE None
    /\ phase' = IF step = "some" THEN "up" ELSE "none"
    /\ wire' = IF boot < MaxBoots THEN wire ELSE {m \in wire : m.xid = boot /\ m.type = "ack"}
    /\ UNCHANGED <<boot, rx, next_port, app, out, dhcp>>

-----------------------------------------------------------------------------
(* External: DHCP servers, each with its own addresses *)

Pool == CHOOSE f \in [Servers -> SUBSET Ips] :
            /\ UNION {f[s] : s \in Servers} = Ips
            /\ \A s, t \in Servers : s # t => f[s] \cap f[t] = {}
            /\ \A s, t \in Servers : Cardinality(f[s]) <= Cardinality(f[t]) + 1

Offer(s, ip, xid) ==
    /\ phase = "dhcp" /\ Discover(xid) \in wire /\ ip \in Pool[s]
    /\ \E named \in {s, None} : wire' = wire \cup {Reply("offer", xid, ip, named)}
    /\ UNCHANGED <<boot, phase, device, app, out, dhcp>>

\* A request is answered by the server that it names.
Acknowledge(s, ip, xid) ==
    /\ phase = "dhcp" /\ Request(xid, ip, s) \in wire
    /\ \E type \in {"ack", "nak"} : wire' = wire \cup {Reply(type, xid, ip, s)}
    /\ UNCHANGED <<boot, phase, device, app, out, dhcp>>

DhcpNext ==
    \/ SendDiscover \/ DhcpTimeout \/ LockIn
    \/ \E m \in wire : TakeOffer(m) \/ TakeAck(m)
    \/ \E s \in Servers, ip \in Ips, xid \in 1..MaxBoots : Offer(s, ip, xid) \/ Acknowledge(s, ip, xid)
=============================================================================
