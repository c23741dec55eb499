------------------------------ MODULE IntelNic ------------------------------
(***************************************************************************)
(* The driver of the Intel e1000 (net/drivers/intel.rs) and the packet     *)
(* buffers of net/packet.rs that pass between it, the card and the cores.  *)
(* A buffer is an element of Packet and what it holds an element of Frame. *)
(* The card is external: it fetches descriptors between its head and the   *)
(* tail the driver wrote, reads or writes the buffer at the address it     *)
(* fetched, then sets the descriptor's status bit and moves its head.      *)
(*                                                                         *)
(* recv() and send() are split where the card or another core can get in   *)
(* between. rx_state and tx_state are locked for the whole call, the lock  *)
(* of the free list `packets` is held within one step.                     *)
(***************************************************************************)
EXTENDS Naturals, Sequences, FiniteSets, Functions

CONSTANTS Cores,            \* the cores that call the driver
          Packet,           \* packet buffers the heap can provide
          RX_DESCS_N, TX_DESCS_N,
          PoolCapacity,     \* Vec::with_capacity(TX_DESCS_N + RX_DESCS_N)
          MaxRx, MaxTx,     \* bounds: frames that arrive, frames that are sent
          None

RxSlots == 0 .. RX_DESCS_N - 1
TxSlots == 0 .. TX_DESCS_N - 1

\* In the last conjunct, new() finds the buffers of the receive ring.
ASSUME NicAssumption ==
    /\ RX_DESCS_N \in Nat \ {0, 1} /\ TX_DESCS_N \in Nat \ {0, 1}
    /\ PoolCapacity \in Nat /\ MaxRx \in Nat /\ MaxTx \in Nat
    /\ None \notin Packet \cup Cores
    /\ \E bufs \in [RxSlots -> Packet] : IsInjective(bufs)

Frame == (0 .. MaxRx) \cup {MaxRx + i : i \in 1 .. MaxTx}

VARIABLES
    pc,         \* [Cores -> where the core is in recv() or send()]
    held,       \* [Cores -> the packet it holds]
    lease,      \* [Cores -> whether that is a PacketLease]
    fresh,      \* [Cores -> new_packet of recv()]
    flush,      \* [Cores -> the argument of send()]
    end,        \* [Cores -> `end` of the scan in send()]
    rx, tx,     \* RxState and TxState with the core that has them locked
    pool,       \* the free list `packets`
    nic,        \* the registers of the card, and the buffers it works on
    content,    \* [Packet -> what is in the buffer]
    arrived, written,       \* frames that arrived, and that callers wrote
    wire, got               \* the last frame sent, the last one received

driver == <<pc, held, lease, fresh, flush, end>>
env == <<arrived, written, wire, got>>
vars == <<driver, rx, tx, pool, nic, content, env>>

\* Where packets are; all others are free memory.
InUse ==
    Range(rx.packets) \cup Range(tx.packets) \cup Range(pool)
        \cup Range(held) \cup Range(fresh)

\* allocate_packet(): the last packet of the free list, or a new one. Which of
\* the unused buffers the heap hands out makes no difference.
Available == pool # <<>> \/ \E p \in Packet : p \notin InUse
Allocated ==
    IF pool # <<>> THEN pool[Len(pool)] ELSE CHOOSE p \in Packet : p \notin InUse
PoolLeft == IF pool # <<>> THEN SubSeq(pool, 1, Len(pool) - 1) ELSE pool

\* release_packet(): onto the free list if it has space, else to the heap; the
\* packet is cleared then, as a new one is. An empty packet has content 0.
Cleared(p) == [content EXCEPT ![p] = 0]
Release(p) == IF Len(pool) < PoolCapacity THEN Append(pool, p) ELSE pool

\* new(): descriptors that point to fresh buffers, then reset(),
\* init_receive() and init_transmit().
InitReceive == [rdh |-> 0, rdt |-> RX_DESCS_N - 1]
InitTransmit == [tdh |-> 0, tdt |-> 0]
Init ==
    /\ pc = [c \in Cores |-> "idle"] /\ held = [c \in Cores |-> None]
    /\ lease = [c \in Cores |-> FALSE] /\ fresh = [c \in Cores |-> None]
    /\ flush = [c \in Cores |-> FALSE] /\ end = [c \in Cores |-> 0]
    /\ LET bufs == CHOOSE b \in [RxSlots -> Packet] : IsInjective(b) IN
         rx = [descs |-> [i \in RxSlots |-> [addr |-> bufs[i], status |-> 0]],
               packets |-> bufs, head |-> 0, lock |-> None]
    /\ tx = [descs |-> [i \in TxSlots |-> [addr |-> None, status |-> 0]],
             packets |-> [i \in TxSlots |-> None], head |-> 0, tail |-> 0,
             lock |-> None]
    /\ pool = <<>>
    /\ nic = [on |-> TRUE, rxdma |-> None, txdma |-> None,
              rdh |-> InitReceive.rdh, rdt |-> InitReceive.rdt,
              tdh |-> InitTransmit.tdh, tdt |-> InitTransmit.tdt]
    /\ content = [p \in Packet |-> 0]
    /\ arrived = 0 /\ written = 0 /\ wire = 0 /\ got = 0

-----------------------------------------------------------------------------
(* recv() *)

RecvLock(c) ==
    /\ pc[c] = "idle" /\ held[c] = None /\ rx.lock = None
    /\ rx' = [rx EXCEPT !.lock = c]
    /\ pc' = [pc EXCEPT ![c] = "recv"]
    /\ UNCHANGED <<held, lease, fresh, flush, end, tx, pool, nic, content, env>>

\* The status bit of the descriptor at the head is clear: there is no packet.
RecvNone(c) ==
    /\ pc[c] = "recv" /\ rx.descs[rx.head].status = 0
    /\ rx' = [rx EXCEPT !.lock = None]
    /\ pc' = [pc EXCEPT ![c] = "idle"]
    /\ UNCHANGED <<held, lease, fresh, flush, end, tx, pool, nic, content, env>>

\* There is one: allocate the packet that takes its place in the ring.
RecvAllocate(c) ==
    /\ pc[c] = "recv" /\ rx.descs[rx.head].status = 1 /\ Available
    /\ fresh' = [fresh EXCEPT ![c] = Allocated]
    /\ pool' = PoolLeft
    /\ pc' = [pc EXCEPT ![c] = "swap"]
    /\ UNCHANGED <<held, lease, flush, end, rx, tx, nic, content, env>>

\* Swap it in and rewrite the descriptor.
RecvSwapOldAddr(c) ==   \* Mutant: the descriptor keeps the address it had
    LET h == rx.head IN
    /\ pc[c] = "swap"
    /\ held' = [held EXCEPT ![c] = rx.packets[h]]
    /\ rx' = [rx EXCEPT !.packets[h] = fresh[c], !.descs[h].status = 0]
    /\ fresh' = [fresh EXCEPT ![c] = None]
    /\ pc' = [pc EXCEPT ![c] = "rdt"]
    /\ UNCHANGED <<lease, flush, end, tx, pool, nic, content, env>>
RecvSwapStale(c) ==     \* Mutant: the status bit is not cleared
    LET h == rx.head IN
    /\ pc[c] = "swap"
    /\ held' = [held EXCEPT ![c] = rx.packets[h]]
    /\ rx' = [rx EXCEPT !.packets[h] = fresh[c], !.descs[h].addr = fresh[c]]
    /\ fresh' = [fresh EXCEPT ![c] = None]
    /\ pc' = [pc EXCEPT ![c] = "rdt"]
    /\ UNCHANGED <<lease, flush, end, tx, pool, nic, content, env>>
RecvSwap(c) ==
    LET h == rx.head IN
    /\ pc[c] = "swap"
    /\ held' = [held EXCEPT ![c] = rx.packets[h]]
    /\ rx' = [rx EXCEPT !.packets[h] = fresh[c],
                        !.descs[h] = [addr |-> fresh[c], status |-> 0]]
    /\ fresh' = [fresh EXCEPT ![c] = None]
    /\ pc' = [pc EXCEPT ![c] = "rdt"]
    /\ UNCHANGED <<lease, flush, end, tx, pool, nic, content, env>>

\* Give the descriptor to the card, move on, and return the lease. `got` is
\* the frame the caller finds in it.
RecvTail(c) ==
    /\ pc[c] = "rdt"
    /\ nic' = [nic EXCEPT !.rdt = rx.head]
    /\ rx' = [rx EXCEPT !.head = (rx.head + 1) % RX_DESCS_N, !.lock = None]
    /\ lease' = [lease EXCEPT ![c] = TRUE]
    /\ got' = content[held[c]]
    /\ pc' = [pc EXCEPT ![c] = "idle"]
    /\ UNCHANGED <<held, fresh, flush, end, tx, pool, content, arrived, written, wire>>

-----------------------------------------------------------------------------
(* What the callers do with packets *)

\* Drop of a PacketLease: release_packet().
DropLease(c) ==
    /\ pc[c] = "idle" /\ lease[c]
    /\ pool' = Release(held[c])
    /\ content' = Cleared(held[c])
    /\ held' = [held EXCEPT ![c] = None]
    /\ lease' = [lease EXCEPT ![c] = FALSE]
    /\ UNCHANGED <<pc, fresh, flush, end, rx, tx, nic, env>>

\* PacketLease::take(): the packet is the caller's, to send it again.
TakeLeaseReleases(c) ==     \* Mutant: the lease releases the packet nevertheless
    /\ pc[c] = "idle" /\ lease[c]
    /\ lease' = [lease EXCEPT ![c] = FALSE]
    /\ pool' = Release(held[c])
    /\ UNCHANGED <<pc, held, fresh, flush, end, rx, tx, nic, content, env>>
TakeLease(c) ==
    /\ pc[c] = "idle" /\ lease[c]
    /\ lease' = [lease EXCEPT ![c] = FALSE]
    /\ UNCHANGED <<pc, held, fresh, flush, end, rx, tx, pool, nic, content, env>>

\* A packet that is dropped without a lease goes back to the heap.
DropPacket(c) ==
    /\ pc[c] = "idle" /\ held[c] # None /\ ~lease[c]
    /\ content' = Cleared(held[c])
    /\ held' = [held EXCEPT ![c] = None]
    /\ UNCHANGED <<pc, lease, fresh, flush, end, rx, tx, pool, nic, env>>

\* allocate_packet() by a caller, which then writes its frame into it.
AllocatePacket(c) ==
    /\ pc[c] = "idle" /\ held[c] = None /\ written < MaxTx
    /\ Available
    /\ held' = [held EXCEPT ![c] = Allocated]
    /\ pool' = PoolLeft
    /\ content' = [content EXCEPT ![Allocated] = MaxRx + written + 1]
    /\ written' = written + 1
    /\ UNCHANGED <<pc, lease, fresh, flush, end, rx, tx, nic, arrived, wire, got>>

-----------------------------------------------------------------------------
(* send() *)

SendLock(c) ==
    /\ pc[c] = "idle" /\ held[c] # None /\ ~lease[c] /\ tx.lock = None
    /\ tx' = [tx EXCEPT !.lock = c]
    /\ \E f \in BOOLEAN : flush' = [flush EXCEPT ![c] = f]
    /\ pc' = [pc EXCEPT ![c] = "send"]
    /\ UNCHANGED <<held, lease, fresh, end, rx, pool, nic, content, env>>

FullLate == tx.tail - tx.head >= TX_DESCS_N         \* Mutant: one more fits
Full == tx.tail - tx.head >= TX_DESCS_N - 1

\* No room: look for the last descriptor that was sent, from the tail back.
SendFull(c) ==
    /\ pc[c] = "send" /\ Full
    /\ end' = [end EXCEPT ![c] = tx.tail - 1]
    /\ pc' = [pc EXCEPT ![c] = "scan"]
    /\ UNCHANGED <<held, lease, fresh, flush, rx, tx, pool, nic, content, env>>

ScanStep(c, sent) ==
    /\ pc[c] = "scan"
    /\ \/ /\ sent
          /\ tx' = [tx EXCEPT !.head = end[c] + 1]
          /\ pc' = [pc EXCEPT ![c] = "send"]
          /\ end' = [end EXCEPT ![c] = 0]
       \/ /\ ~sent /\ end[c] > tx.head
          /\ end' = [end EXCEPT ![c] = end[c] - 1]
          /\ UNCHANGED <<pc, tx>>
       \/ /\ ~sent /\ end[c] = tx.head
          /\ pc' = [pc EXCEPT ![c] = "send"]
          /\ end' = [end EXCEPT ![c] = 0] /\ tx' = tx
    /\ UNCHANGED <<held, lease, fresh, flush, rx, pool, nic, content, env>>
SendScanHead(c) == ScanStep(c, tx.descs[tx.head % TX_DESCS_N].status = 1)  \* Mutant: always the head's status
SendScan(c) == ScanStep(c, tx.descs[end[c] % TX_DESCS_N].status = 1)

\* Fill in the descriptor, put the packet in its place and release the one
\* that was there.
SendFill(c) ==
    LET idx == tx.tail % TX_DESCS_N  old == tx.packets[idx] IN
    /\ pc[c] = "send" /\ ~Full
    /\ tx' = [tx EXCEPT !.descs[idx] = [addr |-> held[c], status |-> 0],
                        !.packets[idx] = held[c]]
    /\ pool' = IF old = None THEN pool ELSE Release(old)
    /\ content' = IF old = None THEN content ELSE Cleared(old)
    /\ held' = [held EXCEPT ![c] = None]
    /\ pc' = [pc EXCEPT ![c] = "tdt"]
    /\ UNCHANGED <<lease, fresh, flush, end, rx, nic, env>>

\* Move the tail; tell the card if asked to, or if the ring is full now.
FlushAsked(c) == flush[c]           \* Mutant: a full ring is no reason to flush
FlushNow(c) == flush[c] \/ tx.tail + 1 - tx.head = TX_DESCS_N - 1
SendTail(c) ==
    /\ pc[c] = "tdt"
    /\ tx' = [tx EXCEPT !.tail = tx.tail + 1, !.lock = None]
    /\ nic' = IF FlushNow(c) THEN [nic EXCEPT !.tdt = (tx.tail + 1) % TX_DESCS_N]
                             ELSE nic
    /\ flush' = [flush EXCEPT ![c] = FALSE]
    /\ pc' = [pc EXCEPT ![c] = "idle"]
    /\ UNCHANGED <<held, lease, fresh, end, rx, pool, content, env>>

\* purge() in the soft reboot, without a lock: reset() stops the card.
Purge ==
    /\ nic.on
    /\ nic' = [nic EXCEPT !.on = FALSE, !.rxdma = None, !.txdma = None]
    /\ UNCHANGED <<driver, rx, tx, pool, content, env>>

-----------------------------------------------------------------------------
(* The card (external) *)

RxFetch ==
    /\ nic.on /\ nic.rxdma = None /\ nic.rdh # nic.rdt /\ arrived < MaxRx
    /\ nic' = [nic EXCEPT !.rxdma = rx.descs[nic.rdh].addr]
    /\ arrived' = arrived + 1
    /\ UNCHANGED <<driver, rx, tx, pool, content, written, wire, got>>

RxWriteBack ==
    /\ nic.on /\ nic.rxdma # None
    /\ content' = [content EXCEPT ![nic.rxdma] = arrived]
    /\ rx' = [rx EXCEPT !.descs[nic.rdh].status = 1]
    /\ nic' = [nic EXCEPT !.rxdma = None, !.rdh = (nic.rdh + 1) % RX_DESCS_N]
    /\ UNCHANGED <<driver, tx, pool, env>>

\* All descriptors are in use: the frame is lost.
RxOverrun ==
    /\ nic.on /\ nic.rxdma = None /\ nic.rdh = nic.rdt /\ arrived < MaxRx
    /\ arrived' = arrived + 1
    /\ UNCHANGED <<driver, rx, tx, pool, nic, content, written, wire, got>>

TxFetch ==
    /\ nic.on /\ nic.txdma = None /\ nic.tdh # nic.tdt
    /\ nic' = [nic EXCEPT !.txdma = tx.descs[nic.tdh].addr]
    /\ UNCHANGED <<driver, rx, tx, pool, content, env>>

TxWriteBack ==
    /\ nic.on /\ nic.txdma # None
    /\ wire' = content[nic.txdma]
    /\ tx' = [tx EXCEPT !.descs[nic.tdh].status = 1]
    /\ nic' = [nic EXCEPT !.txdma = None, !.tdh = (nic.tdh + 1) % TX_DESCS_N]
    /\ UNCHANGED <<driver, rx, pool, content, arrived, written, got>>

Recv(c) == RecvLock(c) \/ RecvNone(c) \/ RecvAllocate(c) \/ RecvSwap(c) \/ RecvTail(c)
Send(c) == SendLock(c) \/ SendFull(c) \/ SendScan(c) \/ SendFill(c) \/ SendTail(c)
Caller(c) == DropLease(c) \/ TakeLease(c) \/ DropPacket(c) \/ AllocatePacket(c)
Card == RxFetch \/ RxWriteBack \/ RxOverrun \/ TxFetch \/ TxWriteBack

Next == (\E c \in Cores : Recv(c) \/ Send(c) \/ Caller(c)) \/ Purge \/ Card

\* The locks are FIFO (TicketLock.tla), so whoever waits for one gets it; a
\* core goes on with a call it is in, and the card with its work.
Fairness ==
    /\ \A c \in Cores :
         /\ WF_vars(RecvNone(c) \/ RecvAllocate(c) \/ RecvSwap(c) \/ RecvTail(c))
         /\ WF_vars(SendFull(c) \/ SendScan(c) \/ SendFill(c) \/ SendTail(c))
    /\ WF_vars(RxWriteBack) /\ WF_vars(TxFetch \/ TxWriteBack)

Spec == Init /\ [][Next]_vars
FairSpec == Spec /\ Fairness

-----------------------------------------------------------------------------
(* Properties *)

TypeOK ==
    /\ pc \in [Cores -> {"idle", "recv", "swap", "rdt", "send", "scan", "tdt"}]
    /\ held \in [Cores -> Packet \cup {None}] /\ fresh \in [Cores -> Packet \cup {None}]
    /\ lease \in [Cores -> BOOLEAN] /\ flush \in [Cores -> BOOLEAN]
    /\ end \in [Cores -> Nat]
    /\ rx \in [descs : [RxSlots -> [addr : Packet, status : {0, 1}]],
               packets : [RxSlots -> Packet], head : RxSlots, lock : Cores \cup {None}]
    /\ tx \in [descs : [TxSlots -> [addr : Packet \cup {None}, status : {0, 1}]],
               packets : [TxSlots -> Packet \cup {None}], head : Nat, tail : Nat,
               lock : Cores \cup {None}]
    /\ pool \in Seq(Packet) /\ Len(pool) <= PoolCapacity
    /\ nic \in [on : BOOLEAN, rxdma : Packet \cup {None}, txdma : Packet \cup {None},
                rdh : RxSlots, rdt : RxSlots, tdh : TxSlots, tdt : TxSlots]
    /\ content \in [Packet -> Frame]
    /\ arrived \in 0 .. MaxRx /\ written \in 0 .. MaxTx
    /\ wire \in Frame /\ got \in Frame

\* The places a packet can be at, and the packet there.
Places ==
    ({"rx"} \X RxSlots) \cup ({"tx"} \X TxSlots) \cup ({"pool"} \X DOMAIN pool)
        \cup ({"held", "fresh"} \X Cores)
At(pl) ==
    CASE pl[1] = "rx" -> rx.packets[pl[2]]
      [] pl[1] = "tx" -> tx.packets[pl[2]]
      [] pl[1] = "pool" -> pool[pl[2]]
      [] pl[1] = "held" -> held[pl[2]]
      [] pl[1] = "fresh" -> fresh[pl[2]]

\* A packet is in one place only: in one slot of one ring, on the free list
\* once, or with one caller. recv(), send(), release_packet() and the drop of a
\* lease move packets, they never copy or share them.
OnePlace == \A a, b \in Places : At(a) = At(b) /\ At(a) # None => a = b

\* While the card reads or writes a buffer, that buffer is the packet of the
\* descriptor at the card's head, so recv() and send() have not taken it out.
DmaInRing ==
    /\ nic.rxdma # None => nic.rxdma = rx.packets[nic.rdh]
    /\ nic.txdma # None => nic.txdma = tx.packets[nic.tdh]

\* A packet that a caller holds does not change under it.
HeldStable ==
    [][\A c \in Cores : held[c] # None /\ held'[c] = held[c]
                            => content'[held[c]] = content[held[c]]]_vars

\* send() counts a slot as free only after the card has sent what was in it:
\* what the card has yet to send lies between head and tail.
Unsent == (tx.tail + TX_DESCS_N - nic.tdh) % TX_DESCS_N
ReclaimSent == nic.on => Unsent <= tx.tail - tx.head

\* recv() and the card agree on where the next frame is: when recv() finds the
\* status bit of its head clear, there is no frame in the whole ring.
RecvNoneIsEmpty ==
    \A c \in Cores : pc[c] = "recv" /\ rx.descs[rx.head].status = 0
                        => \A i \in RxSlots : rx.descs[i].status = 0

\* The driver and the card have the same view of both rings: what the card works
\* on, what it has yet to send, and where the next frame will be.
RingsAgree == TypeOK /\ DmaInRing /\ ReclaimSent /\ RecvNoneIsEmpty

\* The frames in the receive ring, from the driver's head to the card's, the
\* one that recv() is taking out included.
InRxRing ==
    LET n == IF \E c \in Cores : pc[c] = "rdt"
             THEN Cardinality({i \in RxSlots : rx.descs[i].status = 1}) + 1
             ELSE Cardinality({i \in RxSlots : rx.descs[i].status = 1})
    IN  [i \in 1 .. n |->
            IF i = 1 /\ \E c \in Cores : pc[c] = "rdt"
            THEN content[held[CHOOSE c \in Cores : pc[c] = "rdt"]]
            ELSE content[rx.packets[(rx.head + i - 1) % RX_DESCS_N]]]

\* The receive ring is a queue: recv() returns what the card wrote, each frame
\* once and in order.
RxQueue == INSTANCE FrameQueue WITH
    Capacity <- RX_DESCS_N - 1, out <- got,
    queue <- InRxRing
RxInOrder == RxQueue!Spec

\* The frames in the transmit ring, from the card's head to the driver's tail,
\* until the card is reset.
InTxRing ==
    IF nic.on
    THEN [i \in 1 .. Unsent |-> content[tx.descs[(nic.tdh + i - 1) % TX_DESCS_N].addr]]
    ELSE <<>>

\* The transmit ring is a queue: what send() was given goes out once, unchanged
\* and in order.
TxQueue == INSTANCE FrameQueue WITH
    Capacity <- TX_DESCS_N - 1, out <- wire,
    queue <- InTxRing
TxInOrder == TxQueue!Spec

\* A send() that finds the ring full gets its slot, whatever was flushed before:
\* the packet that filled the ring was flushed with all before it.
SendReturns ==
    \A c \in Cores : pc[c] \in {"send", "scan"} ~> (pc[c] = "tdt" \/ ~nic.on)
=============================================================================
