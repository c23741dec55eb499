----------------------------- MODULE SoftReboot -----------------------------
(***************************************************************************)
(* The life cycle of the system: boot, bring-up of all cores, panics on    *)
(* any of them, and the soft reboot back into the bootloader.              *)
(***************************************************************************)
EXTENDS Bootloader, CoreBringUp, PanicReboot

Step(x) == BootloaderStep(x) \/ BringUpStep(x) \/ PanicStep(x)

(* What the user, the hardware and the allocator's callers may do. *)
Environment(x) ==
    \/ Fault(x) \/ TimerInterrupt(x) \/ HaltRequested(x) \/ RebootRequested(x)
    \/ PromptKey(x) \/ DrainTimer(x) \/ Alloc(x)

Next == \E x \in Apics : Step(x) \/ Environment(x)

Spec == Init /\ [][Next]_vars

(* Every core keeps executing, every pending NMI is delivered, and the     *)
(* periodic timer, once enabled, fires.  The timer and the callers of the  *)
(* allocator may interrupt a core again and again, so its own steps need   *)
(* strong fairness: between two timer ticks, and between two allocations,  *)
(* it gets on with its work.  Nothing forces a fault or a key.             *)
Fairness ==
    \A x \in Apics :
        /\ SF_vars(BringUpStep(x) /\ ~AllocDone(x))
        /\ WF_vars(AllocDone(x))
        /\ WF_vars(BootloaderStep(x))
        /\ WF_vars(Nmi(x))
        /\ WF_vars(TimerInterrupt(x))
        /\ WF_vars(PanicStep(x))

FairSpec == Spec /\ Fairness

-----------------------------------------------------------------------------
Panicked(x) == InKernel(x) /\ At(x, "panic")
InBootloader(x) == cpu[x].pc \in BootloaderPlaces
LoadingPlaces == {"restore", "load", "loaded"}

TypeOK ==
    /\ cpu \in [Apics ->
                  [pc : BootloaderPlaces \cup KernelPlaces \cup {"off"},
                   boot : 0 .. MaxBoots,
                   id : {NoCore} \cup 0 .. Cardinality(Apics) - 1,
                   stack : {NoStack} \cup 0 .. Cardinality(Apics) - 1,
                   apic : BOOLEAN, interrupts : BOOLEAN, timer : BOOLEAN,
                   resume : RunPlaces, nmi : BOOLEAN, masked : BOOLEAN]]
    /\ shared \in [initialized : BOOLEAN, rebooting : BOOLEAN,
                   next_stack : 0 .. Cardinality(Apics),
                   holder : [SharedLocks -> Apics \cup {NoCore}]]
    /\ kernel \in [boots : 0 .. MaxBoots,
                   next_core_id : 0 .. Cardinality(Apics),
                   max_apic_known : BOOLEAN, states_known : BOOLEAN,
                   states : [Apics -> ApicStates],
                   checked_in : 0 .. Cardinality(Apics),
                   bsp_in_panic : BOOLEAN,
                   panic_pending : Apics \cup {NoCore}]
    /\ work \in [todo : SUBSET Apics, target : Apics \cup {NoCore},
                 id : 0 .. MAX_APIC_ID, after : {"prompt", "reset"}]

(* At most one core runs in the bootloader: there is one stack for all of  *)
(* them.  It is init_system()'s wait for each AP, and the halting of all   *)
(* cores before a reboot, that see to it.  And no NMI is ever pending      *)
(* there, where nothing handles it.                                        *)
OneCoreInBootloader ==
    /\ \A x, y \in Apics : InBootloader(x) /\ InBootloader(y) => x = y
    /\ \A x \in Apics : cpu[x].nmi => InKernel(x)

(* Memory is restored and the kernel loaded by the BSP alone, and never    *)
(* under the feet of another core that runs the kernel (but for the one    *)
(* that disable_cores() forgets, see AllCoresStopped).                     *)
LoadedInPeace ==
    \A x \in Apics : cpu[x].pc \in LoadingPlaces =>
        /\ x = BspApic
        /\ \A y \in Apics \ {x, MAX_APIC_ID} : cpu[y].pc \in StoppedPlaces

(* No two cores of the running kernel share a stack: reset_stack() happens *)
(* only when no core is left that uses one.  And core 0 of every kernel is *)
(* the processor with APIC ID 0, the one that panic() on an AP notifies.   *)
OwnStackAndId ==
    /\ \A x, y \in Apics :
         InKernel(x) /\ InKernel(y) /\ cpu[x].stack = cpu[y].stack => x = y
    /\ \A x \in Apics : InKernel(x) => (cpu[x].id = 0 <=> x = BspApic)

(* APIC_STATES tells the truth about every core of the running kernel:     *)
(* whoever is Online has checked in, whoever is Halted does not run, and a *)
(* Launched core is still on its way.                                      *)
StatesTruthful ==
    \A x \in Apics \ {BspApic} : kernel.states_known =>
        CASE kernel.states[x] = "Online" ->
                InKernel(x) /\ cpu[x].pc \notin {"init", "check_in", "halted", "off"}
          [] kernel.states[x] = "Halted" -> cpu[x].pc \in {"halted", "off"}
          [] kernel.states[x] = "Launched" ->
                InBootloader(x) \/ InKernel(x)
          [] OTHER -> ~InKernel(x) /\ ~InBootloader(x)

(* No core leaves check_in() before all cores of this boot have come       *)
(* online.                                                                 *)
BarrierHolds ==
    (\E x \in Apics : InKernel(x) /\ At(x, "idle"))
        => \A y \in Apics : kernel.states[y] \in {"Online", "Halted"}

(* The statics that the cores coordinate their bring-up with are right, on *)
(* every boot and while cores are stopped.                                 *)
BringUpConsistent == TypeOK /\ StatesTruthful /\ BarrierHolds

(* The BSP starts to panic once per boot: an NMI that arrives while it     *)
(* panics does not panic it again.                                         *)
PanicsOnce ==
    [][\A x \in Apics :
          kernel.bsp_in_panic /\ IsBsp(x) /\ ~At(x, "panic")
            => cpu'[x].pc # "panic" \/ kernel'.boots # kernel.boots]_vars

(* A soft reboot leaves no other core running: "Halt and INIT all          *)
(* processors, put everything into a predictable state".                   *)
AllCoresStopped ==
    \A x \in Apics : shared.rebooting /\ InBootloader(x) =>
        \A y \in Apics \ {x} : cpu[y].pc \in StoppedPlaces

-----------------------------------------------------------------------------
Prompt == At(BspApic, "prompt")

(* The BSP waits for a lock that it holds itself. *)
SelfLocked == At(BspApic, "stuck")

(* Once any core has panicked, the BSP gets to the point where it waits    *)
(* for the reboot key, the other cores disabled.                           *)
PanicReachesPrompt == \A x \in Apics : Panicked(x) ~> Prompt

(* The same, unless the NMI found the BSP inside its own timer handler. *)
PanicReachesPromptOrLocks ==
    \A x \in Apics : Panicked(x) ~> Prompt \/ SelfLocked

(* Kernel n runs and has been asked to reboot; its successor is loaded. *)
RebootAsked(n) == cpu[BspApic].boot = n /\ shared.rebooting
Rebooted(n) == kernel.boots = n + 1 /\ ~shared.rebooting

(* "When the kernel exits", the bootloader loads the next one: a reboot    *)
(* that was asked for is carried out.                                      *)
RebootCompletes ==
    \A n \in 1 .. MaxBoots - 1 : RebootAsked(n) ~> Rebooted(n)

(* The same, unless the BSP was locked up. *)
RebootCompletesOrLocks ==
    \A n \in 1 .. MaxBoots - 1 :
        RebootAsked(n) ~> Rebooted(n) \/ SelfLocked

(* A kernel that is entered brings all of its cores up to the hlt loop,    *)
(* through the barrier, if nothing panics.                                 *)
AllCoresUp ==
    At(BspApic, "init") ~>
        \/ \A x \in Apics : cpu[x].pc \in {"idle", "timer"}
        \/ \E x \in Apics : Panicked(x)

=============================================================================
