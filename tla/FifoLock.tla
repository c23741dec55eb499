------------------------------ MODULE FifoLock ------------------------------
(***************************************************************************)
(* What a SpinLock promises its users: one queue of requesters.  A request *)
(* joins the tail, only the head may enter, and the head leaves when its   *)
(* guard is dropped.  Mutual exclusion and first-come first-served order   *)
(* are both immediate from this shape, which is why the ticket lock of     *)
(* shared/spinlock is shown to implement it (TicketLock, TicketLockProof), *)
(* and why KernelLocks builds on the queue instead of on the tickets.      *)
(***************************************************************************)
EXTENDS Integers, Sequences

CONSTANT Agents

VARIABLES
    queue,  \* the requesters, in the order in which they asked
    inside  \* the requesters holding a guard

vars == <<queue, inside>>

Init ==
    /\ queue = << >>
    /\ inside = {}

(* A requester that is not in line joins its tail. *)
Request(a) ==
    /\ \A i \in 1 .. Len(queue) : queue[i] # a
    /\ queue' = Append(queue, a)
    /\ UNCHANGED inside

(* The head of the line enters. *)
Enter(a) ==
    /\ queue # << >>
    /\ a = Head(queue)
    /\ a \notin inside
    /\ inside' = inside \cup {a}
    /\ UNCHANGED queue

(* The requester inside leaves, which moves the line forward. *)
Leave(a) ==
    /\ queue # << >>
    /\ a = Head(queue)
    /\ a \in inside
    /\ inside' = inside \ {a}
    /\ queue' = Tail(queue)

Next == \E a \in Agents : Request(a) \/ Enter(a) \/ Leave(a)

Spec == Init /\ [][Next]_vars

=============================================================================
