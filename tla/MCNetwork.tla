----------------------------- MODULE MCNetwork ------------------------------
(* Two cores, two ephemeral ports, one that the applications ask for, two  *)
(* hosts; two kernels after each other and two DHCP servers.               *)
EXTENDS Network

CONSTANTS c1, c2, s1, s2, i1, i2, h1, h2

CursorLib == INSTANCE Cursor
Formats == INSTANCE Packets

\* The checks of functions are made once, in the first state of a machine.
Starting == boot = 1 /\ wire = {}

\* A cursor never writes outside of its buffer or past its limit, and counts
\* every byte it hands out, over every sequence of calls (shared/cursor). One
\* whose limit is the length of its buffer, as every packet's is, returns None
\* when it is full and never panics. send() pads a packet to the least length
\* of a frame and keeps its bytes (packet.rs).
CursorIsSound ==
    Starting => CursorLib!CursorSound /\ CursorLib!LimitedNeverPanics /\ CursorLib!Padded

\* A datagram that the UDP builder makes is parsed as what was put into it,
\* over IPv4 and IPv6, padding left out, and one that was cut short by any
\* number of words does not parse (udp.rs, ip.rs, v4.rs, v6.rs, eth.rs). The
\* UDP checksum over IPv6 verifies at the receiver (write_crc()). DHCP options
\* parse as what was serialized (DhcpOption::serialize, parse).
ParsedAsBuilt ==
    Starting => /\ Formats!UdpRoundTrip /\ Formats!CutShortRejected
                /\ Formats!UdpV6Verifies /\ Formats!OptionsRoundTrip

\* What the sources name the packets they build: an ARP packet is parsed as
\* ARP (arp.rs:41, 176), the checksum of an IPv4 header verifies (v4.rs:184).
BuiltFramesAreAccepted == Starting => Formats!BuiltFramesAccepted
=============================================================================
