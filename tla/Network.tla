------------------------------ MODULE Network -------------------------------
(***************************************************************************)
(* The network stack over the lives of a machine: every kernel locks its   *)
(* device in (Dhcp), and then the cores use it (NetDevice) while frames    *)
(* come in from the network.                                               *)
(***************************************************************************)
EXTENDS Dhcp

CONSTANTS
    UserPorts,          \* the ports that applications ask for themselves
    Peers               \* the hosts that applications want to talk to

ASSUME NetworkAssumption ==
    /\ EPHEMERAL_START \in Nat /\ LastPort \in Nat /\ EPHEMERAL_START < LastPort
    /\ CLIENT_PORT \in Nat \ (Ephemeral \cup UserPorts)
    /\ UserPorts \subseteq Nat /\ Peers \subseteq Hosts
    /\ N_RETRIES \in Nat \ {0} /\ RingSize \in Nat \ {0} /\ MaxBoots \in Nat \ {0}
    /\ None \notin Servers \cup Ips \cup Hosts \cup Nat \cup [client_ip : Ips, server_ip : Servers]

vars == <<boot, phase, rx, binds, lease, next_port, app, out, dhcp, wire>>

Init == boot = 1 /\ phase = "dhcp" /\ InitDevice /\ InitDhcp /\ wire = {}

\* A soft reboot, at any time: only what is on the wire survives.
Reboot ==
    /\ boot < MaxBoots
    /\ boot' = boot + 1 /\ phase' = "dhcp"
    /\ rx' = <<>> /\ binds' = {} /\ lease' = None /\ next_port' = EPHEMERAL_START
    /\ app' = [c \in Cores |-> Idle] /\ out' = None
    /\ step' = "bind" /\ offered_ip' = None /\ server_ip' = None
    /\ wire' = wire

\* External: a frame comes in. An ARP packet asks for our address or that of a
\* peer, or tells us the address of its sender.
Incoming ==
    {UdpFrame(p) : p \in Ephemeral \cup UserPorts} \cup {Other}
    \cup {ArpFrame("request", h, ip) : h \in Hosts \ Peers, ip \in Peers \cup {lease.client_ip}}
    \cup {ArpFrame("reply", h, lease.client_ip) : h \in Hosts}
Receive ==
    /\ phase = "up" /\ boot = MaxBoots /\ Len(rx) < RingSize
    /\ \E f \in Incoming : rx' = Append(rx, f)
    /\ UNCHANGED <<boot, phase, binds, lease, next_port, app, out, dhcp, wire>>

\* Applications run on the last kernel. One resolves a peer before it binds.
AppStep(c) ==
    \/ BindUdpStart(c) \/ BindUdpDraw(c) \/ BindUdpTry(c) \/ UnbindUdp(c)
    \/ \E p \in UserPorts : BindUdpPort(c, p)
    \/ RecvUdp(c) \/ GotUdp(c) \/ Discard(c)
    \/ app[c].port = None /\ \E ip \in Peers : ArpStart(c, ip)
    \/ ArpSend(c) \/ ArpTimeout(c) \/ ArpRecv(c) \/ ArpDone(c)
Apps == boot = MaxBoots /\ \E c \in Cores : AppStep(c) /\ UNCHANGED <<boot, phase, dhcp, wire>>

\* Nothing of the network runs any more on a machine without a lease.
Quiet == phase = "none" /\ boot = MaxBoots /\ UNCHANGED vars

Next == DhcpNext \/ Reboot \/ Receive \/ Apps \/ Quiet
Spec == Init /\ [][Next]_vars

\* A core that is in a call goes on with it, and the clock that a waiting one
\* reads in every round passes the deadline in the end. The last line is the
\* application's: it polls the port that it is bound to.
Does(c, A) == boot = MaxBoots /\ A /\ UNCHANGED <<boot, phase, dhcp, wire>>
Fairness ==
    /\ WF_vars(SendDiscover) /\ WF_vars(DhcpTimeout) /\ WF_vars(LockIn)
    /\ \A c \in Cores :
        /\ WF_vars(Does(c, BindUdpDraw(c))) /\ WF_vars(Does(c, BindUdpTry(c)))
        /\ WF_vars(Does(c, GotUdp(c))) /\ WF_vars(Does(c, Discard(c)))
        /\ WF_vars(Does(c, ArpSend(c))) /\ WF_vars(Does(c, ArpDone(c)))
        /\ SF_vars(Does(c, ArpTimeout(c)))
        /\ WF_vars(Does(c, RecvUdp(c)))
FairSpec == Spec /\ Fairness

-----------------------------------------------------------------------------
(* Properties *)

TypeOK ==
    /\ boot \in 1..MaxBoots /\ phase \in {"dhcp", "up", "none"}
    /\ Len(rx) <= RingSize
    /\ binds \subseteq Ephemeral \cup UserPorts \cup {CLIENT_PORT}
    /\ next_port \in Ephemeral
    /\ phase = "up" <=> lease # None
    /\ step \in {"bind", "offer", "ack", "some", "none"}
    /\ offered_ip \in Ips \cup {None} /\ server_ip \in Servers \cup {None}
    /\ \A c \in Cores : app[c].retry \in 0..N_RETRIES

\* A device is only used with an address that the server of the lease has
\* acknowledged to this kernel: a reply that is late, of another exchange, of
\* another server or only an offer never becomes a lease (get_lease()).
LeaseAcknowledged ==
    lease # None => Reply("ack", boot, lease.client_ip, lease.server_ip) \in wire

\* A UDP port has one UdpBind, which is on one core, and a port without one is
\* free again: bind_udp(), bind_udp_port(), the drop of a UdpBind and every
\* way out of get_lease() agree on udp_binds.
BindsOwned ==
    /\ binds = ({app[c].port : c \in Cores} \ {None})
               \cup (IF phase = "dhcp" /\ step # "bind" THEN {CLIENT_PORT} ELSE {})
    /\ \A c, d \in Cores : c # d /\ app[c].port # None => app[c].port # app[d].port

\* arp() only returns the MAC address of the host it was asked about, whatever
\* ARP packets come in, and whichever core takes them out of the ring.
ArpResolvesHost == \A c \in Cores : app[c].pc = "resolved" => app[c].mac = Mac(app[c].ip)

\* lock_in() comes to an end whatever is lost: the boot does not hang in it.
LockInReturns == phase = "dhcp" ~> phase # "dhcp"

\* bind_udp() finds a port once the other cores leave theirs alone.
Binding(c) == app[c].pc \in {"draw", "bind"}
OthersStill(c) == \A d \in Cores \ {c} : app'[d].port = app[d].port
BindReturns ==
    \A c \in Cores : <>[][OthersStill(c)]_vars => (Binding(c) ~> ~Binding(c))

\* arp() returns after at most N_RETRIES requests, however many other frames
\* it has to discard meanwhile.
ArpReturns == \A c \in Cores : app[c].ip # None ~> app[c].ip = None

\* What the docs say (net.rs:234, udp.rs:181): a datagram that a core takes out
\* of the ring for nothing gets to the core that is bound to its port.
DatagramReachesBind ==
    \A c, d \in Cores :
        /\ app[c].pc = "discard" /\ app[c].frame.kind = "udp"
        /\ app[d].port = app[c].frame.port
        ~> app[d].pc = "got" \/ app[d].port = None
=============================================================================
