----------------------------- MODULE TicketLock -----------------------------
(***************************************************************************)
(* The ticket lock of shared/spinlock/src/lib.rs, one lock and the agents  *)
(* that use it.  An agent is one thread of control: a core, or a handler   *)
(* running on top of one.  The two counters are `AtomicUsize`s, so they    *)
(* wrap; TicketMod is the number of values they have (2^64 on the target). *)
(*                                                                         *)
(* This module is the lock alone: what `lock()` and the guard's `drop()`   *)
(* do to the interrupt state of a core is in KernelLocks.                  *)
(***************************************************************************)
EXTENDS Integers, FiniteSets, Sequences

CONSTANTS Agents, TicketMod

(* There are fewer agents than ticket values: nobody is lapped. *)
ASSUME AgentsAssumption ==
    /\ IsFiniteSet(Agents)
    /\ TicketMod \in Nat
    /\ Cardinality(Agents) < TicketMod

VARIABLES
    ticket,     \* the next ticket to hand out
    release,    \* the ticket that may hold the lock
    my_ticket,  \* the ticket each agent drew last
    pc          \* "idle", "spin" in lock(), or "guard" while the guard lives

vars == <<ticket, release, my_ticket, pc>>

Tickets == 0 .. TicketMod - 1

(* `fetch_add(1)` on an AtomicUsize. *)
WrappingInc(x) == IF x = TicketMod - 1 THEN 0 ELSE x + 1

Init ==
    /\ ticket = 0
    /\ release = 0
    /\ my_ticket = [a \in Agents |-> 0]
    /\ pc = [a \in Agents |-> "idle"]

-----------------------------------------------------------------------------
(* Mutant: the ticket is read but not incremented. *)
DrawTicketLoad(a) ==
    /\ pc[a] = "idle"
    /\ my_ticket' = [my_ticket EXCEPT ![a] = ticket]
    /\ pc' = [pc EXCEPT ![a] = "spin"]
    /\ UNCHANGED <<ticket, release>>

(* lock(): `let ticket = self.ticket.fetch_add(1)`. *)
DrawTicket(a) ==
    /\ pc[a] = "idle"
    /\ my_ticket' = [my_ticket EXCEPT ![a] = ticket]
    /\ ticket' = WrappingInc(ticket)
    /\ pc' = [pc EXCEPT ![a] = "spin"]
    /\ UNCHANGED release

(* Mutant: any ticket that was served already may enter. *)
AcquireLate(a) ==
    /\ pc[a] = "spin"
    /\ my_ticket[a] <= release
    /\ pc' = [pc EXCEPT ![a] = "guard"]
    /\ UNCHANGED <<ticket, release, my_ticket>>

(* lock(): the spin loop reads `release` equal to the ticket and ends. *)
Acquire(a) ==
    /\ pc[a] = "spin"
    /\ my_ticket[a] = release
    /\ pc' = [pc EXCEPT ![a] = "guard"]
    /\ UNCHANGED <<ticket, release, my_ticket>>

(* Mutant: the next ticket is served twice. *)
DropTwice(a) ==
    /\ pc[a] = "guard"
    /\ release' = WrappingInc(WrappingInc(release))
    /\ pc' = [pc EXCEPT ![a] = "idle"]
    /\ UNCHANGED <<ticket, my_ticket>>

(* Mutant: the lock is never released. *)
DropNothing(a) ==
    /\ pc[a] = "guard"
    /\ pc' = [pc EXCEPT ![a] = "idle"]
    /\ UNCHANGED <<ticket, release, my_ticket>>

(* SpinLockGuard::drop(): `release.fetch_add(1)`. *)
Drop(a) ==
    /\ pc[a] = "guard"
    /\ release' = WrappingInc(release)
    /\ pc' = [pc EXCEPT ![a] = "idle"]
    /\ UNCHANGED <<ticket, my_ticket>>

Next == \E a \in Agents : DrawTicket(a) \/ Acquire(a) \/ Drop(a)

Spec == Init /\ [][Next]_vars

(* A core that spins keeps spinning, and every guard is dropped at the end *)
(* of its scope.  No fairness on DrawTicket: nobody has to ask.            *)
Fairness == \A a \in Agents : WF_vars(Acquire(a)) /\ WF_vars(Drop(a))

FairSpec == Spec /\ Fairness

-----------------------------------------------------------------------------
(* Distance travelled from x to reach y, counting upwards with wrap-around. *)
Ahead(x, y) == IF y >= x THEN y - x ELSE y - x + TicketMod

(* The agents with a ticket that has not been released, the place of such  *)
(* an agent in the line, and the length of the line.                       *)
Outstanding == {a \in Agents : pc[a] # "idle"}
Place(a) == Ahead(release, my_ticket[a])
LineLength == Ahead(release, ticket)

(* The line, front first: the queue FifoLock speaks of. *)
Line == [i \in 1 .. LineLength |->
            CHOOSE a \in Outstanding : Place(a) = i - 1]

Holders == {a \in Agents : pc[a] = "guard"}

TypeOK ==
    /\ ticket \in Tickets
    /\ release \in Tickets
    /\ my_ticket \in [Agents -> Tickets]
    /\ pc \in [Agents -> {"idle", "spin", "guard"}]

(* Two guards of one lock never live at the same time, however often the   *)
(* counters have wrapped: SpinLockGuard's DerefMut is exclusive.           *)
MutualExclusion == \A a, b \in Holders : a = b

(* Every agent in line stands at its own place, every place is taken, and  *)
(* only the front holds a guard: the counters of lock() and drop() never   *)
(* disagree with the set of live requests.                                 *)
LineInv ==
    /\ \A a \in Outstanding : Place(a) < LineLength
    /\ \A a, b \in Outstanding : my_ticket[a] = my_ticket[b] => a = b
    /\ \A p \in 0 .. LineLength - 1 : \E a \in Outstanding : Place(a) = p
    /\ \A a \in Holders : my_ticket[a] = release

(* The inductive invariant: the counters and tickets are in range, and the *)
(* line they describe is the line of the live requests of lock().          *)
Inv == TypeOK /\ LineInv

(* The ticket lock implements the first-come first-served lock. *)
Fifo == INSTANCE FifoLock WITH queue <- Line, inside <- Holders
FifoSpec == Fifo!Spec

(* Whoever calls lock() gets its guard. *)
LockReturns == \A a \in Agents : pc[a] = "spin" ~> pc[a] = "guard"

=============================================================================
