----------------------------- MODULE NetDevice -----------------------------
(***************************************************************************)
(* A network device (net/net.rs) with its bound UDP ports (protocols/      *)
(* udp.rs) and ARP (protocols/arp.rs), used by several cores once it is    *)
(* locked in. The driver is the queue of received frames that IntelNic     *)
(* implements. A frame is a record of what the parsers of Packets.tla      *)
(* return; a call is split where another core can get in between.          *)
(*                                                                         *)
(* A UDP bind starts with a queue that has no capacity (VecDeque::new()),  *)
(* which never changes, so no packet is ever put into one.                 *)
(***************************************************************************)
EXTENDS Naturals, Sequences, FiniteSets

CONSTANTS
    Cores,              \* the cores with applications
    EPHEMERAL_START, LastPort,      \* ports that bind_udp() takes from
    CLIENT_PORT,        \* of DHCP
    Hosts,              \* the IP addresses of the other hosts
    N_RETRIES,          \* of arp()
    RingSize,           \* frames the receive ring holds
    MaxBoots,           \* bound: how often the kernel is loaded
    Servers, Ips,       \* DHCP servers, and the addresses they have
    None

VARIABLES
    boot,       \* which kernel this is
    phase,      \* "dhcp" in lock_in(), then "up" or "none"
    rx,         \* the frames in the receive ring
    binds,      \* udp_binds: the bound ports, their queues are empty
    lease,      \* dhcp_lease
    next_port,  \* NEXT_FREE_PORT
    app,        \* [Cores -> what the core does with the device]
    out         \* the last ARP packet that was sent

device == <<rx, binds, lease, next_port>>

Ephemeral == EPHEMERAL_START .. LastPort
Mac(ip) == <<"mac", ip>>                \* external: the card of a host

\* Frames: a datagram, an ARP packet, or something else.
UdpFrame(port) == [kind |-> "udp", port |-> port]
ArpFrame(op, sender, target) ==
    [kind |-> "arp", op |-> op, sender_ip |-> sender, sender_mac |-> Mac(sender), target_ip |-> target]
Other == [kind |-> "other"]

Idle == [pc |-> "idle", port |-> None, draw |-> None, frame |-> None,
         ip |-> None, retry |-> 0, mac |-> None, back |-> "idle"]

InitDevice ==
    /\ rx = <<>> /\ binds = {} /\ lease = None /\ next_port = EPHEMERAL_START
    /\ app = [c \in Cores |-> Idle] /\ out = None

Go(c, r) == app' = [app EXCEPT ![c] = r]
At(c, pc) == phase = "up" /\ app[c].pc = pc

-----------------------------------------------------------------------------
(* Ports *)

\* Port::next_free(): the port before the update, wrapping around.
NextFreeSticks == IF next_port = LastPort THEN LastPort ELSE next_port + 1      \* Mutant: no way back
NextFree == IF next_port = LastPort THEN EPHEMERAL_START ELSE next_port + 1

BindUdpStart(c) ==
    /\ At(c, "idle") /\ app[c].port = None
    /\ Go(c, [app[c] EXCEPT !.pc = "draw"])
    /\ UNCHANGED <<device, out>>

BindUdpDraw(c) ==
    /\ At(c, "draw")
    /\ next_port' = NextFree
    /\ Go(c, [app[c] EXCEPT !.pc = "bind", !.draw = next_port])
    /\ UNCHANGED <<rx, binds, lease, out>>

\* bind_udp_port() on the port that was drawn; draw again if it is bound.
BindUdpTryShares(c) ==      \* Mutant: a bound port is bound again
    /\ At(c, "bind")
    /\ binds' = binds \cup {app[c].draw}
    /\ Go(c, [app[c] EXCEPT !.pc = "idle", !.port = app[c].draw, !.draw = None])
    /\ UNCHANGED <<rx, lease, next_port, out>>
BindUdpTry(c) ==
    /\ At(c, "bind")
    /\ \/ /\ app[c].draw \notin binds
          /\ binds' = binds \cup {app[c].draw}
          /\ Go(c, [app[c] EXCEPT !.pc = "idle", !.port = app[c].draw, !.draw = None])
       \/ /\ app[c].draw \in binds
          /\ Go(c, [app[c] EXCEPT !.pc = "draw", !.draw = None])
          /\ binds' = binds
    /\ UNCHANGED <<rx, lease, next_port, out>>

\* bind_udp_port() on a port of the application's choice.
BindUdpPort(c, p) ==
    /\ At(c, "idle") /\ app[c].port = None /\ p \notin binds
    /\ binds' = binds \cup {p}
    /\ Go(c, [app[c] EXCEPT !.port = p])
    /\ UNCHANGED <<rx, lease, next_port, out>>

\* Drop of a UdpBind: unbind_udp().
UnbindUdp(c) ==
    /\ At(c, "idle") /\ app[c].port # None
    /\ binds' = binds \ {app[c].port}
    /\ Go(c, [app[c] EXCEPT !.port = None])
    /\ UNCHANGED <<rx, lease, next_port, out>>

-----------------------------------------------------------------------------
(* Receiving *)

\* recv_udp() on a bound port: the queue is empty, so receive a raw packet. A
\* datagram for the port goes to the caller, anything else is discarded.
RecvUdp(c) ==
    /\ At(c, "idle") /\ app[c].port # None
    /\ rx # <<>>
    /\ rx' = Tail(rx)
    /\ LET f == Head(rx) IN
       \/ /\ f.kind = "udp" /\ f.port = app[c].port
          /\ Go(c, [app[c] EXCEPT !.pc = "got"])
       \/ /\ ~(f.kind = "udp" /\ f.port = app[c].port)
          /\ Go(c, [app[c] EXCEPT !.pc = "discard", !.frame = f])
    /\ UNCHANGED <<binds, lease, next_port, out>>

\* The callback returns, and the lease of the packet is dropped.
GotUdp(c) ==
    /\ At(c, "got")
    /\ Go(c, [app[c] EXCEPT !.pc = "idle"])
    /\ UNCHANGED <<device, out>>

\* discard(): discard_arp() answers a request for our address; discard_udp()
\* finds no queue with space. Then the lease of the packet is dropped.
IsRequest(f) == f.kind = "arp" /\ f.op = "request" /\ f.target_ip = lease.client_ip
Discard(c) ==
    /\ At(c, "discard")
    /\ out' = IF IsRequest(app[c].frame)
              THEN [op |-> "reply", from |-> lease.client_ip, to |-> app[c].frame.sender_ip]
              ELSE out
    /\ Go(c, [app[c] EXCEPT !.pc = app[c].back, !.frame = None, !.back = "idle"])
    /\ UNCHANGED device

-----------------------------------------------------------------------------
(* arp() *)

ArpStart(c, ip) ==
    /\ At(c, "idle")
    /\ Go(c, [app[c] EXCEPT !.pc = "arp", !.ip = ip, !.mac = None, !.retry = 0])
    /\ UNCHANGED <<device, out>>

\* Send a request, or give up.
ArpSend(c) ==
    /\ At(c, "arp")
    /\ \/ /\ app[c].retry < N_RETRIES
          /\ out' = [op |-> "request", from |-> lease.client_ip, to |-> app[c].ip]
          /\ Go(c, [app[c] EXCEPT !.pc = "arpwait"])
       \/ /\ app[c].retry = N_RETRIES
          /\ Go(c, [app[c] EXCEPT !.pc = "idle", !.ip = None, !.retry = 0])
          /\ out' = out
    /\ UNCHANGED device

ArpTimeoutForgets(c) ==     \* Mutant: a timeout does not use up a retry
    /\ At(c, "arpwait")
    /\ Go(c, [app[c] EXCEPT !.pc = "arp"])
    /\ UNCHANGED <<device, out>>
ArpTimeout(c) ==
    /\ At(c, "arpwait")
    /\ Go(c, [app[c] EXCEPT !.pc = "arp", !.retry = app[c].retry + 1])
    /\ UNCHANGED <<device, out>>

\* is_valid_reply(), for a packet that is addressed to our card.
AnyReply(f, ip) ==          \* Mutant: whoever it is from
    f.kind = "arp" /\ f.op = "reply" /\ f.target_ip = lease.client_ip
IsValidReply(f, ip) ==
    /\ f.kind = "arp" /\ f.op = "reply"
    /\ f.sender_ip = ip /\ f.target_ip = lease.client_ip

ArpRecv(c) ==
    /\ At(c, "arpwait") /\ rx # <<>>
    /\ rx' = Tail(rx)
    /\ LET f == Head(rx) IN
       \/ /\ IsValidReply(f, app[c].ip)
          /\ Go(c, [app[c] EXCEPT !.pc = "resolved", !.mac = f.sender_mac, !.retry = 0])
       \/ /\ ~IsValidReply(f, app[c].ip)
          /\ Go(c, [app[c] EXCEPT !.pc = "discard", !.back = "arpwait", !.frame = f])
    /\ UNCHANGED <<binds, lease, next_port, out>>

\* The application has used the address.
ArpDone(c) ==
    /\ At(c, "resolved")
    /\ Go(c, [app[c] EXCEPT !.pc = "idle", !.ip = None, !.mac = None])
    /\ UNCHANGED <<device, out>>
=============================================================================
