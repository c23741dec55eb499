------------------------------ MODULE Packets ------------------------------
(***************************************************************************)
(* The frames of net/protocols: what the builders of eth.rs, ip/, udp.rs,  *)
(* arp.rs and dhcp.rs write and what the parsers read back. A frame is the *)
(* sequence of its 16-bit words in network order; a MAC address is three   *)
(* words, an IPv4 address two, an IPv6 address eight. Lengths in headers   *)
(* count bytes. DHCP options are a sequence of bytes.                      *)
(***************************************************************************)
EXTENDS Integers, Sequences
LOCAL INSTANCE SequencesExt

ETH_TYPE_ARP == 2054        \* 0x0806
ETH_TYPE_IPV4 == 2048       \* 0x0800
ETH_TYPE_IPV6 == 34525      \* 0x86DD
HW_TYPE_ETH == 1
IP_PROT_UDP == 17
BROADCAST == <<65535, 65535, 65535>>
ZERO == <<0, 0, 0>>

Err == [ok |-> FALSE]
Slice(s, from, to) == SubSeq(s, from + 1, to)       \* s[from..to]

\* Packet::checksum(), and the complement that goes into a header. The bytes of
\* the complement are written in the order of the machine, little-endian.
Fold16(n) == (n % 65536) + (n \div 65536)
Checksum(words) == Fold16(Fold16(FoldLeft(LAMBDA a, b : a + b, 0, words)))
Complement(w) == 65535 - w
Swapped(w) == (w % 256) * 256 + (w \div 256)        \* to_ne_bytes()

-----------------------------------------------------------------------------
(* Builders *)

\* eth::Builder::new() writes the addresses; the type is up to the next layer.
EthBuilder(src, dst) == dst \o src

\* BuilderV4: new(), set_protocol() and finalize() with the payload's length.
Ipv4HeaderShort(src, dst, prot, len, crc) ==    \* Mutant: the length leaves the header out
    <<4 * 4096 + 5 * 256, len, 0, 0, 64 * 256 + prot, crc>> \o src \o dst
Ipv4Header(src, dst, prot, len, crc) ==
    <<4 * 4096 + 5 * 256, 20 + len, 0, 0, 64 * 256 + prot, crc>> \o src \o dst
BuilderV4(src, dst, prot, len) ==
    Ipv4Header(src, dst, prot, len,
               Swapped(Complement(Checksum(Ipv4Header(src, dst, prot, len, 0)))))

BuilderV6(src, dst, prot, len) == <<6 * 4096, 0, len, prot * 256 + 64>> \o src \o dst

IsV6(ip) == Len(ip) = 8

\* udp::Builder: the length, and for IPv6 the checksum over the pseudo header,
\* the header and the payload, each summed for itself.
UdpCrc(addr, hdr, payload, len) ==
    LET pseudo == addr.src_ip \o addr.dst_ip \o <<0, len, 0, IP_PROT_UDP>>
        acc == Checksum(pseudo) + Checksum(hdr) + Checksum(payload)
        sum == Complement(Fold16(Fold16(acc)))
    IN  IF sum = 0 THEN 65535 ELSE sum

\* The ports, the payload's words and its length in bytes: the last word is
\* padded with a zero byte if that is odd.
Udp(addr, payload, bytes) ==
    LET len == 8 + bytes
        hdr == <<addr.src_port, addr.dst_port, len, 0>>
        crc == IF IsV6(addr.src_ip) THEN UdpCrc(addr, hdr, payload, len) ELSE 0
    IN  <<addr.src_port, addr.dst_port, len, crc>> \o payload

\* create_udp(), finalized. The addresses must be of one kind.
CreateUdp(addr, payload, bytes) ==
    EthBuilder(addr.src_mac, addr.dst_mac)
      \o (IF IsV6(addr.src_ip)
          THEN <<ETH_TYPE_IPV6>> \o BuilderV6(addr.src_ip, addr.dst_ip, IP_PROT_UDP, 8 + bytes)
          ELSE <<ETH_TYPE_IPV4>> \o BuilderV4(addr.src_ip, addr.dst_ip, IP_PROT_UDP, 8 + bytes))
      \o Udp(addr, payload, bytes)

\* build_arp_packet() writes no Ethernet type: its first word after the
\* addresses is the hardware type.
BuildArpPacket(opcode, sender_mac, sender_ip, target_mac, target_ip) ==
    EthBuilder(sender_mac, BROADCAST)
      \o <<HW_TYPE_ETH, ETH_TYPE_ARP, 6 * 256 + 4, opcode>>
      \o sender_mac \o sender_ip \o target_mac \o target_ip

\* What send() makes of a frame that is too short.
PadFrame(f) == f \o [i \in 1 .. (32 - Len(f)) |-> 0]

-----------------------------------------------------------------------------
(* Parsers *)

\* A frame that comes from a receive ring may be cut short anywhere.
ParseEth(f) ==
    IF Len(f) < 7 THEN Err
    ELSE [ok |-> TRUE, dst_mac |-> Slice(f, 0, 3), src_mac |-> Slice(f, 3, 6),
          eth_type |-> f[7], payload |-> Slice(f, 7, Len(f))]

\* A payload is the words of a region and its length in bytes.
ParseIpv4(f) ==
    LET eth == ParseEth(f)
        h == eth.payload
        version == h[1] \div 4096
        ihl == (h[1] \div 256) % 16
        total == h[2]
        flags == h[4] \div 8192
    IN  IF \/ ~eth.ok \/ eth.eth_type # ETH_TYPE_IPV4 \/ Len(h) < 10
           \/ version # 4 \/ ihl # 5
           \/ flags \in {1, 3, 4, 5, 6, 7} \/ h[4] % 8192 # 0
           \/ total < 20 \/ total > 2 * Len(h)
        THEN Err
        ELSE [ok |-> TRUE, eth |-> eth,
              src_ip |-> Slice(h, 6, 8), dst_ip |-> Slice(h, 8, 10),
              protocol |-> h[5] % 256, bytes |-> total - 20,
              payload |-> Slice(h, 10, (total + 1) \div 2)]

ParseIpv6(f) ==
    LET eth == ParseEth(f)  h == eth.payload IN
    IF \/ ~eth.ok \/ eth.eth_type # ETH_TYPE_IPV6 \/ Len(h) < 20
       \/ h[1] \div 4096 # 6 \/ h[3] + 40 > 2 * Len(h)
    THEN Err
    ELSE [ok |-> TRUE, eth |-> eth,
          src_ip |-> Slice(h, 4, 12), dst_ip |-> Slice(h, 12, 20),
          protocol |-> h[4] \div 256, bytes |-> h[3],
          payload |-> Slice(h, 20, 20 + (h[3] + 1) \div 2)]

ParseUdp(f) ==
    LET ip == IF ParseIpv4(f).ok THEN ParseIpv4(f) ELSE ParseIpv6(f)
        h == ip.payload
    IN  IF ~ip.ok \/ ip.protocol # IP_PROT_UDP \/ ip.bytes < 8 \/ h[3] < 8 \/ h[3] > ip.bytes
        THEN Err
        ELSE [ok |-> TRUE, ip |-> ip, src_port |-> h[1], dst_port |-> h[2],
              bytes |-> h[3] - 8, payload |-> Slice(h, 4, (h[3] + 1) \div 2)]

ParseArp(f) ==
    LET eth == ParseEth(f)  h == eth.payload IN
    IF ~eth.ok \/ eth.eth_type # ETH_TYPE_ARP \/ Len(h) < 14 THEN Err
    ELSE [ok |-> TRUE, eth |-> eth, hw_type |-> h[1], proto_type |-> h[2],
          hw_size |-> h[3] \div 256, proto_size |-> h[3] % 256, opcode |-> h[4],
          sender_mac |-> Slice(h, 4, 7), sender_ip |-> Slice(h, 7, 9),
          target_mac |-> Slice(h, 9, 12), target_ip |-> Slice(h, 12, 14)]

-----------------------------------------------------------------------------
(* DHCP options *)

Single == {0, 255}                      \* Pad and End
FourBytes == {1, 28, 50, 51, 54, 58}    \* addresses and times
MESSAGE_TYPE == 53
MessageTypes == {1, 2, 3, 5}            \* others parse as Unsupported
Unsupported == 6

\* An option is its code and its data.
Serialize(opt) == IF opt.code \in Single THEN <<opt.code>> ELSE <<opt.code, Len(opt.data)>> \o opt.data
End(opts) == FlattenSeq([i \in DOMAIN opts |-> Serialize(opts[i])]) \o <<255>>

\* parse() on what is left of the message: the option and the rest, or None for
\* an option that is cut short or of the wrong length.
ParseOption(raw) ==
    IF raw[1] \in Single
    THEN [ok |-> TRUE, opt |-> [code |-> raw[1], data |-> <<>>], rest |-> Tail(raw)]
    ELSE LET code == raw[1]
             len == raw[2]
             data == SubSeq(raw, 3, 2 + len)
         IN  IF \/ Len(raw) < 2 \/ Len(raw) < 2 + len
                \/ code \in FourBytes /\ len # 4
                \/ code = MESSAGE_TYPE /\ len = 0
             THEN Err
             ELSE [ok |-> TRUE, rest |-> SubSeq(raw, 3 + len, Len(raw)),
                   opt |-> [code |-> code,
                            data |-> IF code = MESSAGE_TYPE
                                     THEN <<IF data[1] \in MessageTypes THEN data[1] ELSE Unsupported>>
                                     ELSE data]]

\* The loop of parse_dhcp_reply(): until the message is used up or an option
\* does not parse. Every option has at least a byte.
ParseOptions(raw) ==
    FoldLeft(LAMBDA s, i :
               IF s.raw = <<>> \/ ~ParseOption(s.raw).ok THEN s
               ELSE [raw |-> ParseOption(s.raw).rest, opts |-> Append(s.opts, ParseOption(s.raw).opt)],
             [raw |-> raw, opts |-> <<>>], [i \in 1 .. Len(raw) |-> i]).opts

-----------------------------------------------------------------------------
(* Properties, over sample addresses, ports and payloads *)

Macs == {<<1, 515, 1029>>, BROADCAST}
V4s == {<<0, 0>>, <<65535, 65535>>, <<2560, 527>>}
V6s == {[i \in 1 .. 8 |-> 0], [i \in 1 .. 8 |-> 65535], [i \in 1 .. 8 |-> 8193 * i]}
Ports == {68, 65535}
Addresses ==
    {a \in [src_mac : {<<1, 515, 1029>>}, dst_mac : Macs, src_ip : V4s \cup V6s,
            dst_ip : V4s \cup V6s, src_port : {68}, dst_port : Ports] :
        Len(a.src_ip) = Len(a.dst_ip)}
\* Words and bytes; with an odd number of bytes the last byte is zero.
Payloads == {<<<<>>, 0>>, <<<<256>>, 1>>, <<<<65535, 65535>>, 4>>, <<[i \in 1 .. 20 |-> 257 * i - 1], 40>>}

\* What a builder wrote, the parser reads back: the addresses, the ports and
\* the payload, without the padding that send() may append to the frame.
UdpRoundTrip ==
    \A a \in Addresses, p \in Payloads :
        LET udp == ParseUdp(PadFrame(CreateUdp(a, p[1], p[2]))) IN
        /\ udp.ok
        /\ udp.payload = p[1] /\ udp.bytes = p[2]
        /\ udp.src_port = a.src_port /\ udp.dst_port = a.dst_port
        /\ udp.ip.src_ip = a.src_ip /\ udp.ip.dst_ip = a.dst_ip
        /\ udp.ip.eth.src_mac = a.src_mac /\ udp.ip.eth.dst_mac = a.dst_mac

\* The lengths in the headers are checked against what was received: a frame
\* that lost its end does not parse.
CutShortRejected ==
    \A a \in Addresses, p \in Payloads :
        LET f == CreateUdp(a, p[1], p[2]) IN
        \A n \in 0 .. Len(f) - 1 : ~ParseUdp(SubSeq(f, 1, n)).ok

\* The UDP checksum over IPv6 adds up with pseudo header, header and payload,
\* and is never the zero that stands for none.
UdpV6Verifies ==
    \A a \in {x \in Addresses : IsV6(x.src_ip)}, p \in Payloads :
        LET u == Udp(a, p[1], p[2]) IN
        /\ Checksum(a.src_ip \o a.dst_ip \o <<0, 8 + p[2], 0, IP_PROT_UDP>> \o u) = 65535
        /\ u[4] # 0

Options ==
    {[code |-> 0, data |-> <<>>], [code |-> 53, data |-> <<2>>], [code |-> 54, data |-> <<10, 0, 2, 2>>],
     [code |-> 55, data |-> <<53, 54, 28, 1>>], [code |-> 12, data |-> <<0, 255, 53>>],
     [code |-> 61, data |-> <<>>]}
OptionLists == UNION {[1 .. n -> Options] : n \in 0 .. 3}

\* Options are read back as they were written, whatever their data looks like;
\* an option that is cut off, or has a wrong length, ends the list without
\* affecting those before it.
OptionsRoundTrip ==
    \A opts \in OptionLists :
        LET raw == End(opts) IN
        /\ ParseOptions(raw) = Append(opts, [code |-> 255, data |-> <<>>])
        /\ \A bad \in {<<54, 4, 10, 0, 2>>, <<54, 3, 10, 0, 2>>, <<53, 0>>, <<12>>} :
             ParseOptions(SubSeq(raw, 1, Len(raw) - 1) \o bad) = opts

\* Every frame the builders make is one a receiver accepts: the kernel's own
\* parser reads an ARP packet back with the fields it was built from (arp.rs:41
\* and 176), and the checksum of an IPv4 header adds up (v4.rs:184).
ArpAccepted ==
    \A op \in {1, 2}, m \in Macs, i \in V4s :
        LET arp == ParseArp(PadFrame(BuildArpPacket(op, m, i, ZERO, <<2560, 527>>))) IN
        arp.ok /\ arp.opcode = op /\ arp.sender_mac = m /\ arp.sender_ip = i
HeaderVerifies ==
    \A i, j \in V4s, len \in {8, 300} :
        Checksum(BuilderV4(i, j, IP_PROT_UDP, len)) = 65535
BuiltFramesAccepted == ArpAccepted /\ HeaderVerifies
=============================================================================
