---------------------------- MODULE NetworkProof ----------------------------
(***************************************************************************)
(* The safety properties of Network, for any number of cores, ports,       *)
(* servers, hosts and boots, and any size of the receive ring.             *)
(***************************************************************************)
EXTENDS Network, TLAPS

AppPorts == Ephemeral \cup UserPorts
Messages ==
    [type : {"discover"}, xid : Nat]
    \cup [type : {"request"}, xid : Nat, ip : Ips, server : Servers]
    \cup [type : {"offer", "ack", "nak"}, xid : Nat, ip : Ips, server : Servers \cup {None}]
Frames ==
    {UdpFrame(p) : p \in Nat} \cup {Other}
    \cup {ArpFrame(op, h, ip) : op \in {"request", "reply"}, h \in Hosts, ip \in Hosts \cup Ips}
Calls ==
    [pc : {"idle", "draw", "bind", "got", "discard", "arp", "arpwait", "resolved"},
     port : AppPorts \cup {None}, draw : Ephemeral \cup {None}, frame : Frames \cup {None},
     ip : Hosts \cup {None}, retry : 0 .. N_RETRIES, mac : {Mac(h) : h \in Hosts} \cup {None},
     back : {"idle", "arpwait"}]

(* The exchange of this boot is about one offer: a request or an           *)
(* acknowledgement of it can only be on the wire for what get_lease() has  *)
(* taken from that offer.                                                  *)
ExchangeInv ==
    /\ wire \subseteq Messages
    /\ \A m \in wire : m.xid <= boot
    /\ \A m \in wire : m.xid = boot /\ m.type \in {"request", "ack"} =>
          /\ m.ip = offered_ip /\ m.server = server_ip
          /\ step \notin {"bind", "offer"}
    /\ step = "ack" => offered_ip \in Ips /\ server_ip \in Servers
    /\ step = "some" =>
          /\ offered_ip \in Ips /\ server_ip \in Servers
          /\ Reply("ack", boot, offered_ip, server_ip) \in wire
    /\ phase = "up" => /\ step = "some"
                       /\ lease = [client_ip |-> offered_ip, server_ip |-> server_ip]
    /\ phase # "up" => lease = None

(* A core between the draw of a port and the bind has no port, and one     *)
(* that waits for a reply, or discards a frame meanwhile, has a retry left.*)
CallInv ==
    /\ rx \in Seq(Frames)
    /\ app \in [Cores -> Calls]
    /\ \A c \in Cores :
          /\ app[c].pc \in {"draw", "bind"} => app[c].port = None
          /\ app[c].pc = "bind" => app[c].draw \in Ephemeral
          /\ app[c].pc = "arpwait" \/ app[c].back = "arpwait" => app[c].retry < N_RETRIES
          /\ app[c].back = "arpwait" => app[c].pc = "discard"
          /\ app[c].pc = "discard" => app[c].frame \in Frames

Inv == TypeOK /\ ExchangeInv /\ CallInv /\ BindsOwned /\ ArpResolvesHost

-----------------------------------------------------------------------------
(* The constants: what None is not, and which ports there are. *)
LEMMA Constants ==
    /\ CLIENT_PORT \notin AppPorts /\ None \notin AppPorts \cup {CLIENT_PORT}
    /\ EPHEMERAL_START \in Ephemeral /\ Ephemeral \subseteq Nat /\ AppPorts \subseteq Nat
    /\ N_RETRIES \in Nat \ {0} /\ RingSize \in Nat \ {0} /\ MaxBoots \in Nat \ {0}
    /\ None \notin Servers /\ None \notin Ips
    /\ \A ip \in Ips, s \in Servers : None # [client_ip |-> ip, server_ip |-> s]
  BY NetworkAssumption DEF AppPorts, Ephemeral

(* A kernel starts with an empty device and no call under way. *)
LEMMA FreshDevice ==
    /\ <<>> \in Seq(Frames) /\ Idle \in Calls
    /\ [c \in Cores |-> Idle] \in [Cores -> Calls]
  BY Constants DEF Calls, Idle

(* The first kernel starts with nothing bound, no lease and no message. *)
LEMMA InitInv == Init => Inv
<1> SUFFICES ASSUME Init PROVE Inv
  OBVIOUS
<1> USE Constants, FreshDevice DEF Init, InitDevice, InitDhcp
<1>1. TypeOK
  BY DEF TypeOK, Idle
<1>2. ExchangeInv
  BY DEF ExchangeInv
<1>3. CallInv
  BY DEF CallInv, Idle
<1>4. BindsOwned /\ ArpResolvesHost
  BY DEF BindsOwned, ArpResolvesHost, Idle
<1> QED BY <1>1, <1>2, <1>3, <1>4 DEF Inv

(* A soft reboot: no message carries the transaction of the new kernel. *)
LEMMA RebootInv == ASSUME Inv, Reboot PROVE Inv'
<1> USE Constants, FreshDevice DEF Reboot
<1>1. TypeOK'
  BY DEF Inv, TypeOK, Idle
<1>2. ExchangeInv'
  <2>1. \A m \in wire : m.xid \in Nat /\ m.xid <= boot /\ boot \in Nat
    BY DEF Inv, ExchangeInv, Messages, TypeOK
  <2> QED BY <2>1 DEF Inv, ExchangeInv
<1>3. CallInv'
  BY DEF CallInv, Idle
<1>4. BindsOwned' /\ ArpResolvesHost'
  BY DEF BindsOwned, ArpResolvesHost, Idle
<1> QED BY <1>1, <1>2, <1>3, <1>4 DEF Inv

(* External: a frame that comes in names the card of its sender. *)
LEMMA ReceiveInv == ASSUME Inv, Receive PROVE Inv'
<1>1. PICK f \in Incoming : rx' = Append(rx, f)
  BY DEF Receive
<1>2. f \in Frames
  <2>1. lease.client_ip \in Ips
    BY DEF Inv, ExchangeInv, Receive
  <2> QED BY <1>1, <2>1, NetworkAssumption DEF Incoming, Frames, Ephemeral
<1>3. rx' \in Seq(Frames) /\ Len(rx') <= RingSize
  BY <1>1, <1>2, Constants DEF Inv, CallInv, Receive
<1>4. UNCHANGED <<boot, phase, binds, lease, next_port, app, out, step, offered_ip, server_ip, wire>>
  BY DEF Receive, dhcp
<1>5. TypeOK'
  BY <1>3, <1>4 DEF Inv, TypeOK
<1>6. ExchangeInv'
  BY <1>4 DEF Inv, ExchangeInv
<1>7. CallInv'
  BY <1>3, <1>4 DEF Inv, CallInv
<1>8. BindsOwned' /\ ArpResolvesHost'
  BY <1>4 DEF Inv, BindsOwned, ArpResolvesHost
<1> QED BY <1>5, <1>6, <1>7, <1>8 DEF Inv

-----------------------------------------------------------------------------
(* get_lease() and the servers: what its steps do to the exchange. *)
LEMMA ExchangeStep == ASSUME Inv, DhcpNext PROVE ExchangeInv'
<1>1. boot \in Nat /\ \A m \in wire : m \in Messages /\ m.xid \in Nat /\ m.xid <= boot
  BY DEF Inv, ExchangeInv, Messages, TypeOK
<1>2. CASE SendDiscover
  <2>1. Discover(Xid) \in Messages /\ Discover(Xid).type = "discover" /\ Discover(Xid).xid = boot
    BY <1>1 DEF Discover, Messages, Xid
  <2> QED BY <1>2, <2>1, <1>1 DEF SendDiscover, Inv, ExchangeInv
<1>3. CASE DhcpTimeout
  BY <1>3 DEF DhcpTimeout, Inv, ExchangeInv, device
<1>4. CASE LockIn
  <2>1. wire' \subseteq wire
    BY <1>4 DEF LockIn
  <2>2. step = "some" => Reply("ack", boot, offered_ip, server_ip) \in wire'
    BY <1>4 DEF LockIn, Inv, ExchangeInv, Reply
  <2> QED BY <1>4, <2>1, <2>2 DEF LockIn, Inv, ExchangeInv, dhcp
<1>5. ASSUME NEW m \in wire, TakeOffer(m) PROVE ExchangeInv'
  <2>1. m.ip \in Ips /\ m.server \in Servers \cup {None} /\ m.xid = boot
    BY <1>1, <1>5 DEF TakeOffer, ParseDhcpReply, Messages, Xid
  <2>2. \A n \in wire : n.xid = boot => n.type \notin {"request", "ack"}
    BY <1>5 DEF TakeOffer, Inv, ExchangeInv
  <2>3. CASE m.server = None
    BY <1>5, <2>1, <2>2, <2>3 DEF TakeOffer, Inv, ExchangeInv, device
  <2>4. CASE m.server # None
    <3> DEFINE r == Request(Xid, m.ip, m.server)
    <3>1. r \in Messages /\ r.type = "request" /\ r.xid = boot /\ r.ip = m.ip /\ r.server = m.server
      BY <1>1, <2>1, <2>4 DEF Request, Messages, Xid
    <3>2. /\ wire' = wire \cup {r} /\ step' = "ack" /\ phase = "dhcp" /\ lease' = lease
          /\ offered_ip' = m.ip /\ server_ip' = m.server /\ UNCHANGED <<boot, phase>>
      BY <1>5, <2>4 DEF TakeOffer, device
    <3> HIDE DEF r
    <3> QED BY <1>1, <2>1, <2>2, <2>4, <3>1, <3>2 DEF Inv, ExchangeInv
  <2> QED BY <2>3, <2>4
<1>6. ASSUME NEW m \in wire, TakeAck(m) PROVE ExchangeInv'
  <2>1. m.ip = offered_ip /\ m.server = server_ip /\ m.xid = boot /\ m.type = "ack"
    BY <1>6 DEF TakeAck, ParseDhcpReply, Xid, Inv, ExchangeInv
  <2>2. m = Reply("ack", boot, offered_ip, server_ip)
    BY <1>1, <2>1 DEF Messages, Reply
  <2> QED BY <1>6, <2>2 DEF TakeAck, Inv, ExchangeInv, device
<1>7. ASSUME NEW s \in Servers, NEW ip \in Ips, NEW xid \in 1..MaxBoots,
             Offer(s, ip, xid) \/ Acknowledge(s, ip, xid)
      PROVE  ExchangeInv'
  <2>1. PICK type \in {"offer", "ack", "nak"}, named \in {s, None} :
           /\ wire' = wire \cup {Reply(type, xid, ip, named)}
           /\ type = "ack" => Request(xid, ip, named) \in wire
           /\ Discover(xid) \in wire \/ Request(xid, ip, s) \in wire
    BY <1>7 DEF Offer, Acknowledge
  <2> DEFINE r == Reply(type, xid, ip, named)
  <2>2. r \in Messages /\ r.type = type /\ r.xid = xid /\ r.ip = ip /\ r.server = named
    BY Constants DEF Reply, Messages
  <2>3. xid <= boot
    BY <1>1, <2>1 DEF Discover, Request
  <2>4. type = "ack" /\ xid = boot =>
           ip = offered_ip /\ named = server_ip /\ step \notin {"bind", "offer"}
    BY <2>1 DEF Inv, ExchangeInv, Request
  <2>5. UNCHANGED <<boot, phase, lease, step, offered_ip, server_ip>> /\ wire' = wire \cup {r}
    BY <1>7, <2>1 DEF Offer, Acknowledge, device, dhcp
  <2> HIDE DEF r
  <2> QED BY <1>1, <2>2, <2>3, <2>4, <2>5 DEF Inv, ExchangeInv
<1> QED BY <1>2, <1>3, <1>4, <1>5, <1>6, <1>7 DEF DhcpNext

(* lock_in() on the device: port 68 is bound during the exchange, and the  *)
(* calls of the cores have not begun.                                      *)
LEMMA DhcpInv == ASSUME Inv, DhcpNext PROVE Inv'
<1>1. UNCHANGED <<boot, rx, next_port, app>>
  BY DEF DhcpNext, SendDiscover, DhcpTimeout, LockIn, TakeOffer, TakeAck, Offer, Acknowledge, device
<1>2. CallInv' /\ ArpResolvesHost'
  BY <1>1 DEF Inv, CallInv, ArpResolvesHost
<1>3. TypeOK' /\ BindsOwned'
  <2>1. \A c \in Cores : app[c].port # CLIENT_PORT
    BY Constants DEF Inv, CallInv, Calls
  <2>2. CASE SendDiscover
    BY <1>1, <2>1, <2>2 DEF SendDiscover, Inv, TypeOK, BindsOwned
  <2>3. CASE DhcpTimeout
    BY <1>1, <2>3 DEF DhcpTimeout, Inv, TypeOK, BindsOwned, device
  <2>4. CASE LockIn
    <3>1. step = "some" => [client_ip |-> offered_ip, server_ip |-> server_ip] # None
      BY Constants DEF Inv, ExchangeInv
    <3>2. TypeOK'
      BY <1>1, <2>4, <3>1 DEF LockIn, Inv, TypeOK, dhcp
    <3>3. binds = ({app[c].port : c \in Cores} \ {None}) \cup {CLIENT_PORT}
      BY <2>4 DEF LockIn, Inv, BindsOwned
    <3>4. binds' = {app[c].port : c \in Cores} \ {None}
      BY <2>1, <2>4, <3>3 DEF LockIn
    <3> QED BY <1>1, <2>4, <3>2, <3>4 DEF LockIn, Inv, BindsOwned
  <2>5. ASSUME NEW m \in wire, TakeOffer(m) PROVE TypeOK' /\ BindsOwned'
    <3>1. m.ip \in Ips /\ m.server \in Servers \cup {None}
      BY <2>5 DEF TakeOffer, ParseDhcpReply, Inv, ExchangeInv, Messages
    <3> QED BY <1>1, <2>5, <3>1 DEF TakeOffer, Inv, TypeOK, BindsOwned, device
  <2>6. ASSUME NEW m \in wire, TakeAck(m) PROVE TypeOK' /\ BindsOwned'
    BY <1>1, <2>6 DEF TakeAck, Inv, TypeOK, BindsOwned, device
  <2>7. ASSUME NEW s \in Servers, NEW ip \in Ips, NEW xid \in 1..MaxBoots,
               Offer(s, ip, xid) \/ Acknowledge(s, ip, xid)
        PROVE  TypeOK' /\ BindsOwned'
    BY <1>1, <2>7 DEF Offer, Acknowledge, Inv, TypeOK, BindsOwned, device, dhcp
  <2> QED BY <2>2, <2>3, <2>4, <2>5, <2>6, <2>7 DEF DhcpNext
<1> QED BY <1>2, <1>3, ExchangeStep DEF Inv

-----------------------------------------------------------------------------
(* What the invariant says of the call that one core is in. *)
GoodCall(r) ==
    /\ r \in Calls
    /\ r.pc \in {"draw", "bind"} => r.port = None
    /\ r.pc = "bind" => r.draw \in Ephemeral
    /\ r.pc = "arpwait" \/ r.back = "arpwait" => r.retry < N_RETRIES
    /\ r.back = "arpwait" => r.pc = "discard"
    /\ r.pc = "discard" => r.frame \in Frames
    /\ r.pc = "resolved" => r.mac = Mac(r.ip)

(* Every call that is under way is in such a state. *)
LEMMA CallsAreGood == ASSUME Inv, NEW c \in Cores PROVE GoodCall(app[c])
  BY DEF Inv, CallInv, ArpResolvesHost, GoodCall

(* A step of a core that brings its call into the state `r', and with it   *)
(* binds, gives back or keeps the port: what is left to show is about `r'. *)
LEMMA CallStep ==
  ASSUME Inv, NEW c \in Cores, NEW r, Go(c, r), GoodCall(r),
         rx' \in Seq(Frames), Len(rx') <= RingSize, next_port' \in Ephemeral,
         UNCHANGED <<boot, phase, lease, step, offered_ip, server_ip, wire>>,
         \/ r.port = app[c].port /\ binds' = binds
         \/ r.port = None /\ app[c].port # None /\ binds' = binds \ {app[c].port}
         \/ app[c].port = None /\ r.port \in AppPorts \ binds /\ binds' = binds \cup {r.port}
  PROVE  Inv'
<1>1. app' = [app EXCEPT ![c] = r] /\ app \in [Cores -> Calls] /\ r \in Calls
  BY DEF Go, Inv, CallInv, GoodCall
<1>2. app' \in [Cores -> Calls] /\ app'[c] = r /\ \A d \in Cores \ {c} : app'[d] = app[d]
  BY <1>1
<1>3. CallInv' /\ ArpResolvesHost'
  BY <1>2 DEF Inv, CallInv, ArpResolvesHost, GoodCall
<1>4. ExchangeInv'
  BY DEF Inv, ExchangeInv
<1>5. BindsOwned'
  <2> DEFINE Ports(a) == {a[d].port : d \in Cores} \ {None}
             Dhcp == IF phase = "dhcp" /\ step # "bind" THEN {CLIENT_PORT} ELSE {}
  <2>1. binds = Ports(app) \cup Dhcp /\ \A d, e \in Cores : d # e /\ app[d].port # None => app[d].port # app[e].port
    BY DEF Inv, BindsOwned
  <2>2. CASE r.port = app[c].port /\ binds' = binds
    <3>1. \A d \in Cores : app'[d].port = app[d].port
      BY <1>2, <2>2
    <3> QED BY <2>1, <2>2, <3>1 DEF BindsOwned
  <2>3. CASE r.port = None /\ app[c].port # None /\ binds' = binds \ {app[c].port}
    <3>1. Ports(app') = Ports(app) \ {app[c].port}
      BY <1>2, <2>1, <2>3
    <3>2. app[c].port \notin Dhcp
      BY <1>1, <2>3, Constants DEF Calls
    <3>3. binds' = Ports(app') \cup Dhcp
      BY <2>1, <2>3, <3>1, <3>2
    <3>4. \A d, e \in Cores : d # e /\ app'[d].port # None => app'[d].port # app'[e].port
      BY <1>2, <2>1, <2>3
    <3> QED BY <3>3, <3>4 DEF BindsOwned
  <2>4. CASE app[c].port = None /\ r.port \in AppPorts \ binds /\ binds' = binds \cup {r.port}
    <3>1. Ports(app') = Ports(app) \cup {r.port}
      BY <1>2, <2>1, <2>4, Constants
    <3>2. binds' = Ports(app') \cup Dhcp
      BY <2>1, <2>4, <3>1
    <3>3. \A d, e \in Cores : d # e /\ app'[d].port # None => app'[d].port # app'[e].port
      BY <1>2, <2>1, <2>4
    <3> QED BY <3>2, <3>3 DEF BindsOwned
  <2> QED BY <2>2, <2>3, <2>4
<1>6. TypeOK'
  <2>1. binds' \subseteq AppPorts \cup {CLIENT_PORT}
    BY DEF Inv, TypeOK, AppPorts
  <2>2. \A d \in Cores : app'[d].retry \in 0 .. N_RETRIES
    BY <1>2 DEF Calls
  <2> QED BY <2>1, <2>2 DEF Inv, TypeOK, AppPorts
<1> QED BY <1>3, <1>4, <1>5, <1>6 DEF Inv

(* The calls of the cores, one step each. *)
LEMMA AppsInv == ASSUME Inv, Apps PROVE Inv'
<1>1. PICK c \in Cores : AppStep(c) /\ UNCHANGED <<boot, phase, dhcp, wire>>
  BY DEF Apps
<1>2. /\ GoodCall(app[c]) /\ app[c] \in Calls
      /\ rx \in Seq(Frames) /\ Len(rx) <= RingSize /\ next_port \in Ephemeral
      /\ UNCHANGED <<boot, phase, step, offered_ip, server_ip, wire>>
  BY <1>1, CallsAreGood DEF Inv, CallInv, TypeOK, GoodCall, dhcp
<1>3. ASSUME NEW f, rx # <<>>, f = Head(rx), rx' = Tail(rx)
      PROVE  f \in Frames /\ rx' \in Seq(Frames) /\ Len(rx') <= RingSize
  BY <1>2, <1>3, Constants
<1>0. 0 \in 0 .. N_RETRIES /\ Peers \subseteq Hosts
  BY NetworkAssumption
<1>4. CASE BindUdpStart(c)
  <2> DEFINE r == [app[c] EXCEPT !.pc = "draw"]
  <2>1. GoodCall(r) /\ r.port = app[c].port
    BY <1>2, <1>4 DEF BindUdpStart, At, GoodCall, Calls
  <2> QED BY <1>2, <1>4, <2>1, CallStep DEF BindUdpStart, device
<1>5. CASE BindUdpDraw(c)
  <2> DEFINE r == [app[c] EXCEPT !.pc = "bind", !.draw = next_port]
  <2>1. GoodCall(r) /\ r.port = app[c].port
    BY <1>2, <1>5 DEF BindUdpDraw, At, GoodCall, Calls
  <2>2. NextFree \in Ephemeral
    BY <1>2, Constants, NetworkAssumption DEF NextFree, Ephemeral
  <2> QED BY <1>2, <1>5, <2>1, <2>2, CallStep DEF BindUdpDraw
<1>6. CASE BindUdpTry(c)
  <2>1. CASE app[c].draw \notin binds
    <3> DEFINE r == [app[c] EXCEPT !.pc = "idle", !.port = app[c].draw, !.draw = None]
    <3>1. GoodCall(r) /\ r.port = app[c].draw /\ r.port \in AppPorts /\ app[c].port = None
      BY <1>2, <1>6 DEF BindUdpTry, At, GoodCall, Calls, AppPorts
    <3> QED BY <1>2, <1>6, <2>1, <3>1, CallStep DEF BindUdpTry
  <2>2. CASE app[c].draw \in binds
    <3> DEFINE r == [app[c] EXCEPT !.pc = "draw", !.draw = None]
    <3>1. GoodCall(r) /\ r.port = app[c].port
      BY <1>2, <1>6 DEF BindUdpTry, At, GoodCall, Calls
    <3> QED BY <1>2, <1>6, <2>2, <3>1, CallStep DEF BindUdpTry
  <2> QED BY <2>1, <2>2
<1>7. ASSUME NEW p \in UserPorts, BindUdpPort(c, p) PROVE Inv'
  <2> DEFINE r == [app[c] EXCEPT !.port = p]
  <2>1. GoodCall(r) /\ r.port = p /\ p \in AppPorts
    BY <1>2, <1>7 DEF BindUdpPort, At, GoodCall, Calls, AppPorts
  <2> QED BY <1>2, <1>7, <2>1, CallStep DEF BindUdpPort
<1>8. CASE UnbindUdp(c)
  <2> DEFINE r == [app[c] EXCEPT !.port = None]
  <2>1. GoodCall(r) /\ r.port = None
    BY <1>2, <1>8 DEF UnbindUdp, At, GoodCall, Calls
  <2> QED BY <1>2, <1>8, <2>1, CallStep DEF UnbindUdp
<1>9. CASE RecvUdp(c)
  <2> DEFINE f == Head(rx)
             r == [app[c] EXCEPT !.pc = "got"]
             d == [app[c] EXCEPT !.pc = "discard", !.frame = f]
  <2>1. f \in Frames /\ rx' \in Seq(Frames) /\ Len(rx') <= RingSize
    BY <1>3, <1>9 DEF RecvUdp
  <2>2. GoodCall(r) /\ r.port = app[c].port
    BY <1>2, <1>9 DEF RecvUdp, At, GoodCall, Calls
  <2>3. GoodCall(d) /\ d.port = app[c].port
    BY <1>2, <1>9, <2>1 DEF RecvUdp, At, GoodCall, Calls
  <2>4. Go(c, r) \/ Go(c, d)
    BY <1>9 DEF RecvUdp
  <2> HIDE DEF f, r, d
  <2> QED BY <1>2, <1>9, <2>1, <2>2, <2>3, <2>4, CallStep DEF RecvUdp
<1>10. CASE GotUdp(c)
  <2> DEFINE r == [app[c] EXCEPT !.pc = "idle"]
  <2>1. GoodCall(r) /\ r.port = app[c].port
    BY <1>2, <1>10 DEF GotUdp, At, GoodCall, Calls
  <2> QED BY <1>2, <1>10, <2>1, CallStep DEF GotUdp, device
<1>11. CASE Discard(c)
  <2> DEFINE r == [app[c] EXCEPT !.pc = app[c].back, !.frame = None, !.back = "idle"]
  <2>1. GoodCall(r) /\ r.port = app[c].port
    BY <1>2, <1>11 DEF Discard, At, GoodCall, Calls
  <2> QED BY <1>2, <1>11, <2>1, CallStep DEF Discard, device
<1>12. ASSUME NEW ip \in Peers, ArpStart(c, ip) PROVE Inv'
  <2> DEFINE r == [app[c] EXCEPT !.pc = "arp", !.ip = ip, !.mac = None, !.retry = 0]
  <2>1. GoodCall(r) /\ r.port = app[c].port
    BY <1>0, <1>2, <1>12 DEF ArpStart, At, GoodCall, Calls
  <2> QED BY <1>2, <1>12, <2>1, CallStep DEF ArpStart, device
<1>13. CASE ArpSend(c)
  <2> DEFINE r == [app[c] EXCEPT !.pc = "arpwait"]
             g == [app[c] EXCEPT !.pc = "idle", !.ip = None, !.retry = 0]
  <2>1. GoodCall(g) /\ g.port = app[c].port
    BY <1>0, <1>2, <1>13 DEF ArpSend, At, GoodCall, Calls
  <2>2. app[c].retry < N_RETRIES => GoodCall(r) /\ r.port = app[c].port
    BY <1>2, <1>13 DEF ArpSend, At, GoodCall, Calls
  <2>3. (app[c].retry < N_RETRIES /\ Go(c, r)) \/ Go(c, g)
    BY <1>13 DEF ArpSend
  <2> HIDE DEF r, g
  <2> QED BY <1>2, <1>13, <2>1, <2>2, <2>3, CallStep DEF ArpSend, device
<1>14. CASE ArpTimeout(c)
  <2> DEFINE r == [app[c] EXCEPT !.pc = "arp", !.retry = app[c].retry + 1]
  <2>1. app[c].retry + 1 \in 0 .. N_RETRIES
    BY <1>2, <1>14, Constants DEF ArpTimeout, At, GoodCall, Calls
  <2>2. GoodCall(r) /\ r.port = app[c].port
    BY <1>2, <1>14, <2>1 DEF ArpTimeout, At, GoodCall, Calls
  <2> QED BY <1>2, <1>14, <2>2, CallStep DEF ArpTimeout, device
<1>15. CASE ArpRecv(c)
  <2> DEFINE f == Head(rx)
             r == [app[c] EXCEPT !.pc = "resolved", !.mac = f.sender_mac, !.retry = 0]
             d == [app[c] EXCEPT !.pc = "discard", !.back = "arpwait", !.frame = f]
  <2>1. f \in Frames /\ rx' \in Seq(Frames) /\ Len(rx') <= RingSize
    BY <1>3, <1>15 DEF ArpRecv
  <2>2. IsValidReply(f, app[c].ip) =>
           f.sender_mac = Mac(app[c].ip) /\ f.sender_mac \in {Mac(h) : h \in Hosts}
    BY <2>1 DEF IsValidReply, Frames, UdpFrame, ArpFrame, Other
  <2>3. IsValidReply(f, app[c].ip) => GoodCall(r) /\ r.port = app[c].port
    BY <1>0, <1>2, <1>15, <2>2 DEF ArpRecv, At, GoodCall, Calls
  <2>4. GoodCall(d) /\ d.port = app[c].port
    BY <1>2, <1>15, <2>1 DEF ArpRecv, At, GoodCall, Calls
  <2>5. (IsValidReply(f, app[c].ip) /\ Go(c, r)) \/ Go(c, d)
    BY <1>15 DEF ArpRecv
  <2> HIDE DEF f, r, d
  <2> QED BY <1>2, <1>15, <2>1, <2>3, <2>4, <2>5, CallStep DEF ArpRecv
<1>16. CASE ArpDone(c)
  <2> DEFINE r == [app[c] EXCEPT !.pc = "idle", !.ip = None, !.mac = None]
  <2>1. GoodCall(r) /\ r.port = app[c].port
    BY <1>2, <1>16 DEF ArpDone, At, GoodCall, Calls
  <2> QED BY <1>2, <1>16, <2>1, CallStep DEF ArpDone, device
<1> QED BY <1>1, <1>4, <1>5, <1>6, <1>7, <1>8, <1>9, <1>10, <1>11, <1>12, <1>13, <1>14, <1>15, <1>16
        DEF AppStep

-----------------------------------------------------------------------------
(* The conjunction is inductive. *)
LEMMA NextInv == Inv /\ [Next]_vars => Inv'
<1> SUFFICES ASSUME Inv, [Next]_vars PROVE Inv'
  OBVIOUS
<1>1. CASE UNCHANGED vars
  BY <1>1 DEF vars, dhcp, Inv, TypeOK, ExchangeInv, CallInv, BindsOwned, ArpResolvesHost
<1> QED BY <1>1, DhcpInv, RebootInv, ReceiveInv, AppsInv DEF Next, Quiet

(* The stack keeps the invariant over all boots of the machine. *)
THEOREM NetworkInv == Spec => []Inv
<1> QED BY InitInv, NextInv, PTL DEF Spec

(* The counters and addresses of the stack stay in their ranges, and a     *)
(* device is up exactly if it has a lease.                                 *)
THEOREM NetworkTypeOK == Spec => []TypeOK
<1>1. Inv => TypeOK
  BY DEF Inv
<1> QED BY <1>1, NetworkInv, PTL

(* get_lease() never makes a lease of anything but the acknowledgement,    *)
(* for this kernel, of the offer it asked for, by the server it asked.     *)
THEOREM LeaseIsAcknowledged == Spec => []LeaseAcknowledged
<1>1. Inv => LeaseAcknowledged
  BY DEF Inv, ExchangeInv, LeaseAcknowledged
<1> QED BY <1>1, NetworkInv, PTL

(* udp_binds and the UdpBinds agree, and no two cores share a port.        *)
THEOREM BindsAreOwned == Spec => []BindsOwned
<1>1. Inv => BindsOwned
  BY DEF Inv
<1> QED BY <1>1, NetworkInv, PTL

(* arp() returns the address of the host it was asked about.               *)
THEOREM ArpIsRight == Spec => []ArpResolvesHost
<1>1. Inv => ArpResolvesHost
  BY DEF Inv
<1> QED BY <1>1, NetworkInv, PTL
=============================================================================
