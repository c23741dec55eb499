---------------------------- MODULE KernelLocks -----------------------------
(***************************************************************************)
(* SpinLocks as the kernel uses them: several cores, several locks, and    *)
(* the timer interrupt that runs a handler on top of a core's thread.      *)
(*                                                                         *)
(* lock() and the guard's drop() do two things.  They work a ticket lock,  *)
(* which is replaced here by the queue it implements (FifoLock; the        *)
(* replacement is justified by TicketLockProof!RefinesFifo).  And, for a   *)
(* lock made by new_no_preempt(), they mask interrupts through the core's  *)
(* nesting counter.  The masking is not atomic: counting and cli/sti are   *)
(* separate instructions, and an interrupt may arrive between them.        *)
(*                                                                         *)
(* A context is a thread of control of a core: level 0 is the core's own   *)
(* thread, level n + 1 the handler that interrupted level n.  Only the top *)
(* context of a core runs.  Exceptions never return to what they           *)
(* interrupted (they panic or halt) and are the subject of SoftReboot.     *)
(***************************************************************************)
EXTENDS Integers, Sequences, FiniteSets

CONSTANTS
    Cores,      \* the cores that are up
    Bsp,        \* the core that runs the reboot timer
    MaxNest     \* bound on the handlers stacked on one core

ASSUME CoresAssumption == Bsp \in Cores
ASSUME MaxNestAssumption == MaxNest \in Nat \ {0}

VARIABLES
    boot,       \* core -> the calls of entry() it has not made yet
    queue,      \* lock -> the contexts holding a ticket, front first
    level,      \* core -> its running context
    pc,         \* context -> where it is
    path,       \* context -> the locks its current call takes, outermost first
    taken,      \* context -> how many of them it has taken
    was,        \* context -> `x`, the count enable_interrupts() found
    requests,   \* core -> interrupt_disable_requests
    depth,      \* core -> interrupt_depth
    if_flag     \* core -> RFLAGS.IF

vars == <<boot, queue, level, pc, path, taken, was, requests, depth, if_flag>>
program == <<boot, level, path>>

-----------------------------------------------------------------------------
(* The locks, by field name: those of SHARED, and those of the CoreLocals  *)
(* of each core.  The free lists stand for three classes of block size:    *)
(* below a page, a page, above a page.                                     *)
SharedLocks == {"serial", "print_lock", "free_memory", "kernel_pt"}
LocalLocks == {"apic", "interrupts", "list_small", "list_page", "list_large"}
Locks == {<<l, "shared">> : l \in SharedLocks} \cup (LocalLocks \X Cores)

(* Not a lock: the disable_interrupts() ... enable_interrupts() of entry(). *)
Section == <<"section", "shared">>

(* The locks made by new_no_preempt(); a section masks like one of them. *)
Masks(l) == l[1] \in {"section", "serial", "print_lock", "free_memory",
                      "kernel_pt", "apic", "interrupts"}

Serial == <<"serial", "shared">>
FreeMemory == <<"free_memory", "shared">>

(* FreeList::pop() on a list whose blocks fit a page. *)
AllocPage(c) == << <<"list_page", c>>, FreeMemory >>
AllocSmall(c) == << <<"list_small", c>>, FreeMemory >>

(* PageTable::map() with kernel_pt locked: page table pages come from the  *)
(* page-sized free list of the core.                                       *)
MapPages(c) == << <<"kernel_pt", "shared">> >> \o AllocPage(c)

(* FreeList::pop() on a list whose blocks do not fit a page. *)
AllocLarge(c) == << <<"list_large", c>> >> \o MapPages(c)

PrintLine == << <<"print_lock", "shared">>, Serial >>

(* interrupts::init(), local::init() and enable_reboot_timer(). *)
InitInterrupts(c) == << <<"interrupts", c>> >> \o AllocLarge(c)
InitApic(c) == << <<"apic", c>> >> \o MapPages(c)
EnableTimer(c) == << <<"apic", c>>, <<"interrupts", c>> >>

(* entry(), after its disable_interrupts(): what every core does, what the *)
(* BSP does on its own before it brings up the other cores and after they  *)
(* are up, and the enable_interrupts() at the end.                         *)
EndOfBoot == <<Section>>
AfterLaunch(c) == <<EnableTimer(c), EndOfBoot>>
Entry(c) ==
    <<InitInterrupts(c), InitApic(c)>>
        \o IF c = Bsp THEN <<AllocSmall(c), PrintLine>> \o AfterLaunch(c)
                      ELSE <<EndOfBoot>>

(* The locking calls of the kernel that any thread may make at any time. *)
ThreadPaths(c) == {AllocSmall(c), AllocLarge(c), PrintLine}

(* Mutant: the handler prints with the serial port locked. *)
TimerPathPrints(c) == << <<"interrupts", c>>, Serial, <<"print_lock", "shared">> >>

(* interrupt_entry() holds the interrupt table while soft_reboot_timer()   *)
(* polls the serial port.                                                  *)
TimerPath(c) == << <<"interrupts", c>>, Serial >>

-----------------------------------------------------------------------------
Contexts == Cores \X (0 .. MaxNest)
Top(c) == <<c, level[c]>>
NextLock(x) == path[x][taken[x] + 1]
LastLock(x) == path[x][taken[x]]

(* The core starts between the disable_interrupts() of entry() and the     *)
(* first of its calls.                                                     *)
Init ==
    /\ boot = [c \in Cores |-> Entry(c)]
    /\ queue = [l \in Locks |-> << >>]
    /\ level = [c \in Cores |-> 0]
    /\ pc = [x \in Contexts |-> "idle"]
    /\ path = [x \in Contexts |-> << >>]
    /\ taken = [x \in Contexts |-> 0]
    /\ was = [x \in Contexts |-> 0]
    /\ requests = [c \in Cores |-> 1]
    /\ depth = [c \in Cores |-> 0]
    /\ if_flag = [c \in Cores |-> FALSE]

At(x, label) == pc[x] = label
Goto(x, label) == pc' = [pc EXCEPT ![x] = label]

(* After a step down its path a context takes the next lock, or has them   *)
(* all and starts to drop its guards.                                      *)
GoDown(x) ==
    /\ taken' = [taken EXCEPT ![x] = @ + 1]
    /\ Goto(x, IF taken[x] + 1 = Len(path[x]) THEN "drop" ELSE "lock")

(* init_system() launches the other cores and waits for them, so they boot *)
(* between two calls of the BSP's entry().                                 *)
MayBoot(c) ==
    IF c # Bsp THEN boot[Bsp] = AfterLaunch(Bsp)
    ELSE boot[c] = AfterLaunch(c) => \A d \in Cores \ {c} : boot[d] = << >>

(* entry() makes its next call. *)
BootCall(c) ==
    LET x == Top(c) IN
    /\ level[c] = 0
    /\ At(x, "idle")
    /\ boot[c] # << >>
    /\ MayBoot(c)
    /\ boot' = [boot EXCEPT ![c] = Tail(@)]
    /\ path' = [path EXCEPT ![x] = Head(boot[c])]
    /\ IF Head(boot[c]) = EndOfBoot
       THEN taken' = [taken EXCEPT ![x] = 1] /\ Goto(x, "drop")
       ELSE Goto(x, "lock") /\ UNCHANGED taken
    /\ UNCHANGED <<queue, level, was, requests, depth, if_flag>>

(* The thread of a core makes one of the kernel's locking calls. *)
Call(c) ==
    LET x == Top(c) IN
    /\ level[c] = 0
    /\ At(x, "idle")
    /\ boot[c] = << >>
    /\ \E p \in ThreadPaths(c) : path' = [path EXCEPT ![x] = p]
    /\ Goto(x, "lock")
    /\ UNCHANGED <<boot, queue, level, taken, was, requests, depth, if_flag>>

(* lock(), up to its enter_lock(): the assertion, then the fetch_add of    *)
(* disable_interrupts().  A failed assertion panics; no path here fails it. *)
EnterLock(c) ==
    LET x == Top(c) IN
    /\ At(x, "lock")
    /\ Masks(NextLock(x)) \/ depth[c] = 0
    /\ IF Masks(NextLock(x))
       THEN /\ requests' = [requests EXCEPT ![c] = @ + 1]
            /\ Goto(x, "cli")
       ELSE /\ Goto(x, "draw")
            /\ UNCHANGED requests
    /\ UNCHANGED <<queue, program, taken, was, depth, if_flag>>

(* Mutant: the request is counted, and that is all. *)
CliForgotten(c) ==
    LET x == Top(c) IN
    /\ At(x, "cli")
    /\ Goto(x, "draw")
    /\ UNCHANGED <<queue, program, taken, was, requests, depth, if_flag>>

(* disable_interrupts(): cli. *)
Cli(c) ==
    LET x == Top(c) IN
    /\ At(x, "cli")
    /\ if_flag' = [if_flag EXCEPT ![c] = FALSE]
    /\ Goto(x, "draw")
    /\ UNCHANGED <<queue, program, taken, was, requests, depth>>

(* lock(): the ticket is drawn ... *)
DrawTicket(c) ==
    LET x == Top(c) IN
    /\ At(x, "draw")
    /\ queue' = [queue EXCEPT ![NextLock(x)] = Append(@, x)]
    /\ Goto(x, "spin")
    /\ UNCHANGED <<program, taken, was, requests, depth, if_flag>>

(* ... and the spin loop ends when it comes up. *)
Acquire(c) ==
    LET x == Top(c) IN
    /\ At(x, "spin")
    /\ Head(queue[NextLock(x)]) = x
    /\ GoDown(x)
    /\ UNCHANGED <<queue, program, was, requests, depth, if_flag>>

(* SpinLockGuard::drop(): the lock is released, then exit_lock() is called *)
(* if taking it masked interrupts.                                         *)
DropGuard(c) ==
    LET x == Top(c)
        l == LastLock(x) IN
    /\ At(x, "drop")
    /\ taken[x] > 0
    /\ queue' = IF l = Section THEN queue ELSE [queue EXCEPT ![l] = Tail(@)]
    /\ IF Masks(l)
       THEN Goto(x, "exit") /\ UNCHANGED taken
       ELSE taken' = [taken EXCEPT ![x] = @ - 1] /\ UNCHANGED pc
    /\ UNCHANGED <<program, was, requests, depth, if_flag>>

(* enable_interrupts(): the fetch_sub ... *)
ExitLock(c) ==
    LET x == Top(c) IN
    /\ At(x, "exit")
    /\ was' = [was EXCEPT ![x] = requests[c]]
    /\ requests' = [requests EXCEPT ![c] = @ - 1]
    /\ Goto(x, "sti")
    /\ UNCHANGED <<queue, program, taken, depth, if_flag>>

(* Mutant: every withdrawn request enables interrupts. *)
StiInner(c) ==
    LET x == Top(c) IN
    /\ At(x, "sti")
    /\ if_flag' = [if_flag EXCEPT ![c] = @ \/ (depth[c] = 0)]
    /\ taken' = [taken EXCEPT ![x] = @ - 1]
    /\ was' = [was EXCEPT ![x] = 0]
    /\ Goto(x, "drop")
    /\ UNCHANGED <<queue, program, requests, depth>>

(* Mutant: the count is compared as if it had been read after. *)
StiOffByOne(c) ==
    LET x == Top(c) IN
    /\ At(x, "sti")
    /\ if_flag' = [if_flag EXCEPT ![c] = @ \/ (depth[c] = 0 /\ was[x] = 0)]
    /\ taken' = [taken EXCEPT ![x] = @ - 1]
    /\ was' = [was EXCEPT ![x] = 0]
    /\ Goto(x, "drop")
    /\ UNCHANGED <<queue, program, requests, depth>>

(* ... and sti, for the outermost request and outside of interrupts only. *)
Sti(c) ==
    LET x == Top(c) IN
    /\ At(x, "sti")
    /\ if_flag' = [if_flag EXCEPT ![c] = @ \/ (depth[c] = 0 /\ was[x] = 1)]
    /\ taken' = [taken EXCEPT ![x] = @ - 1]
    /\ was' = [was EXCEPT ![x] = 0]
    /\ Goto(x, "drop")
    /\ UNCHANGED <<queue, program, requests, depth>>

(* The call of a thread returns. *)
Return(c) ==
    LET x == Top(c) IN
    /\ level[c] = 0
    /\ At(x, "drop")
    /\ taken[x] = 0
    /\ Goto(x, "idle")
    /\ path' = [path EXCEPT ![x] = << >>]
    /\ UNCHANGED <<boot, queue, level, taken, was, requests, depth, if_flag>>

(* The reboot timer fires.  The interrupt gate clears IF, and              *)
(* interrupt_entry() enters the interrupt before it takes any lock.        *)
Timer(c) ==
    LET x == <<c, level[c] + 1>> IN
    /\ c = Bsp
    /\ if_flag[c]
    /\ level[c] < MaxNest
    /\ level' = [level EXCEPT ![c] = @ + 1]
    /\ path' = [path EXCEPT ![x] = TimerPath(c)]
    /\ Goto(x, "lock")
    /\ depth' = [depth EXCEPT ![c] = @ + 1]
    /\ if_flag' = [if_flag EXCEPT ![c] = FALSE]
    /\ UNCHANGED <<boot, queue, taken, was, requests>>

(* The handler is done: EOI, the depth guard is dropped, and IRET restores *)
(* the flag, which was set or the interrupt would not have been taken.     *)
Iret(c) ==
    LET x == Top(c) IN
    /\ level[c] > 0
    /\ At(x, "drop")
    /\ taken[x] = 0
    /\ Goto(x, "idle")
    /\ path' = [path EXCEPT ![x] = << >>]
    /\ level' = [level EXCEPT ![c] = @ - 1]
    /\ depth' = [depth EXCEPT ![c] = @ - 1]
    /\ if_flag' = [if_flag EXCEPT ![c] = TRUE]
    /\ UNCHANGED <<boot, queue, taken, was, requests>>

(* What a core does on its own accord once a call is under way. *)
Step(c) ==
    \/ EnterLock(c) \/ Cli(c) \/ DrawTicket(c) \/ Acquire(c)
    \/ DropGuard(c) \/ ExitLock(c) \/ Sti(c) \/ Return(c) \/ Iret(c)

Next == \E c \in Cores : BootCall(c) \/ Call(c) \/ Timer(c) \/ Step(c)

Spec == Init /\ [][Next]_vars

(* A core keeps executing.  Strong fairness, because the steps of a thread *)
(* are not enabled while the timer handler runs on top of it: the timer    *)
(* counts 100 000 ticks between two interrupts, so the thread does get to  *)
(* run in between.                                                         *)
Fairness ==
    \A c \in Cores :
        /\ WF_vars(BootCall(c))
        /\ SF_vars(level[c] = 0 /\ Step(c))
        /\ WF_vars(level[c] > 0 /\ Step(c))

FairSpec == Spec /\ Fairness

-----------------------------------------------------------------------------
Labels == {"idle", "lock", "cli", "draw", "spin", "drop", "exit", "sti"}

TypeOK ==
    /\ boot \in [Cores -> Seq(Seq(Locks \cup {Section}))]
    /\ queue \in [Locks -> Seq(Contexts)]
    /\ level \in [Cores -> 0 .. MaxNest]
    /\ pc \in [Contexts -> Labels]
    /\ path \in [Contexts -> Seq(Locks \cup {Section})]
    /\ taken \in [Contexts -> Nat]
    /\ was \in [Contexts -> Nat]
    /\ requests \in [Cores -> Nat]
    /\ depth \in [Cores -> Nat]
    /\ if_flag \in [Cores -> BOOLEAN]

(* A core never waits for a lock that its own interrupted context holds or *)
(* waits for: such a wait would never end.  This is what disabling         *)
(* interrupts in lock(), and enabling them only after the release in       *)
(* drop(), is for.                                                         *)
NoSelfWait ==
    \A l \in Locks : \A i, j \in 1 .. Len(queue[l]) :
        queue[l][i][1] = queue[l][j][1] => i = j

(* "While this value is non-zero, interrupts will be disabled", but for    *)
(* the instruction between counting a request and cli; and between two     *)
(* calls every request of theirs has been withdrawn, so that interrupts    *)
(* are on exactly when entry() is over.  Interrupts never nest on a core:  *)
(* enable_interrupts() leaves the flag alone inside a handler, whatever    *)
(* locks the handler takes and drops.                                      *)
MaskMatchesRequests ==
    \A c \in Cores :
        /\ level[c] <= 1
        /\ requests[c] > 0 /\ ~At(<<c, 0>>, "cli") => ~if_flag[c]
        /\ At(Top(c), "idle") =>
              /\ requests[c] = IF boot[c] = << >> THEN 0 ELSE 1
              /\ if_flag[c] <=> boot[c] = << >>

(* Every lock() returns, on every core and in the timer handler: no order  *)
(* in which the kernel's call paths nest their locks can deadlock.         *)
LockReturns == \A x \in Contexts : At(x, "spin") ~> ~At(x, "spin")

(* entry() comes to its end on every core, interrupts enabled. *)
BootEnds == \A c \in Cores : <>(boot[c] = << >> /\ if_flag[c])

=============================================================================
