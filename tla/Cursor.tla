------------------------------- MODULE Cursor -------------------------------
(***************************************************************************)
(* shared/cursor: the position arithmetic of Cursor, and PacketCursor of   *)
(* net/packet.rs, which keeps a packet's length equal to it. A cursor is a *)
(* record of the length of the buffer it is left with, its position there, *)
(* the position over all splits and the limit. What is written is in       *)
(* Packets.tla.                                                            *)
(*                                                                         *)
(* An operation returns the cursor after it, `left` for the slice that was *)
(* split off, and `res`: "ok", "none" where the code returns None with the *)
(* cursor as it was, or "panic".                                           *)
(***************************************************************************)
EXTENDS Integers, Sequences
LOCAL INSTANCE SequencesExt

NewWithLimit(len, limit) == [len |-> len, pos |-> 0, total |-> 0, limit |-> limit]

Did(c) == [res |-> "ok", cur |-> c, left |-> 0]
Failed(c) == [res |-> "none", cur |-> c, left |-> 0]
Panicked(c) == [res |-> "panic", cur |-> c, left |-> 0]

\* Only a move forward is checked against the limit, and none against the
\* length of the buffer.
TrySetPosition(c, pos) ==
    IF pos > c.pos /\ c.total + (pos - c.pos) > c.limit
    THEN Failed(c)
    ELSE Did([c EXCEPT !.pos = pos, !.total = c.total + (pos - c.pos)])

SetPosition(c, pos) ==
    IF TrySetPosition(c, pos).res = "ok" THEN TrySetPosition(c, pos) ELSE Panicked(c)

\* The copy panics beyond the end of the buffer.
Write(c, n) ==
    LET moved == TrySetPosition(c, c.pos + n) IN
    CASE moved.res # "ok" -> moved
      [] moved.cur.pos > c.len -> Panicked(c)
      [] OTHER -> moved

\* What lies between the position and a split behind it counts as written.
SplitAtUncounted(c, idx) ==     \* Mutant: it does not count
    IF idx > c.len THEN Failed(c)
    ELSE [res |-> "ok", left |-> idx,
          cur |-> [c EXCEPT !.len = c.len - idx,
                            !.pos = IF idx > c.pos THEN 0 ELSE c.pos - idx]]
SplitAtChecked(c, idx) ==
    LET total == IF idx > c.pos THEN c.total + (idx - c.pos) ELSE c.total IN
    IF idx > c.len \/ total > c.limit THEN Failed(c)
    ELSE [res |-> "ok", left |-> idx,
          cur |-> [len |-> c.len - idx, total |-> total, limit |-> c.limit,
                   pos |-> IF idx > c.pos THEN 0 ELSE c.pos - idx]]

SplitAt(c, idx) ==
    IF SplitAtChecked(c, idx).res = "ok" THEN SplitAtChecked(c, idx) ELSE Panicked(c)
SplitAtCurrent(c) == SplitAt(c, c.pos)

-----------------------------------------------------------------------------
(* PacketCursor: a cursor and the packet's length *)

MAX_PACKET_LEN == 1514
PACKET_SIZE == 4096
PACKET_MIN_SIZE == 64

\* new(): from the packet's current length on.
PacketCursor(length) ==
    SetPosition(NewWithLimit(PACKET_SIZE, MAX_PACKET_LEN), length).cur

\* send() pads a short packet: split at its end, and again where the padding
\* ends, which updates the length.
Pad(length) ==
    IF length >= PACKET_MIN_SIZE THEN length
    ELSE SplitAt(SplitAtCurrent(PacketCursor(length)).cur,
                 PACKET_MIN_SIZE - length).cur.total

-----------------------------------------------------------------------------
(* Properties: all sequences of operations on small buffers *)

Apply(c, op) ==
    CASE op[1] = "write" -> Write(c, op[2])
      [] op[1] = "split" -> SplitAtChecked(c, op[2])
      [] op[1] = "set" -> TrySetPosition(c, op[2])

\* A run of operations, with the length of all that was split off. It ends
\* with a panic.
Run(c0, ops) ==
    FoldLeft(LAMBDA s, op :
               IF s.res = "panic" THEN s
               ELSE LET r == Apply(s.cur, op) IN
                    [res |-> r.res, cur |-> r.cur, off |-> s.off + r.left],
             [res |-> "ok", cur |-> c0, off |-> 0], ops)

SmallOps == ({"write"} \X (0 .. 2)) \cup ({"split"} \X (0 .. 3)) \cup ({"set"} \X {0, 2})
SmallRuns == UNION {[1 .. n -> SmallOps] : n \in 1 .. 3}

\* However often a cursor is split, its overall position is the place in the
\* original buffer it stands for, never beyond the limit, and what was split
\* off and what is left make up the buffer. total_pos of lib.rs:30.
CursorSound ==
    \A len \in 0 .. 4, limit \in 0 .. 4, ops \in SmallRuns :
        LET s == Run(NewWithLimit(len, limit), ops) IN
        /\ s.cur.total = s.off + s.cur.pos
        /\ s.cur.total <= limit
        /\ s.off + s.cur.len = len

\* A write past the limit fails and a write past the buffer panics, so with a
\* limit within the buffer, as Packet has it, no write panics; moving the
\* position is not checked against the buffer and needs that limit, too.
LimitedNeverPanics ==
    \A len \in 0 .. 4, ops \in SmallRuns : \A limit \in 0 .. len :
        LET s == Run(NewWithLimit(len, limit), ops) IN
        s.res # "panic" /\ s.cur.pos <= s.cur.len

\* A packet that send() puts into the ring has at least the minimum size, and
\* keeps its size if it has more.
Padded ==
    \A length \in 0 .. MAX_PACKET_LEN :
        Pad(length) = IF length < PACKET_MIN_SIZE THEN PACKET_MIN_SIZE ELSE length
=============================================================================
