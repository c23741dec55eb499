------------------------------ MODULE Machine -------------------------------
(***************************************************************************)
(* The state the bootloader and the kernel share: the cores, what survives *)
(* a soft reboot, and what does not.  Bootloader, CoreBringUp and          *)
(* PanicReboot each model the code of one part on this state; SoftReboot   *)
(* puts them together.                                                     *)
(*                                                                         *)
(* A core is named by its APIC ID.  The bootstrap processor has APIC ID 0, *)
(* which is where an AP's panic sends its NMI.                             *)
(***************************************************************************)
EXTENDS Integers, FiniteSets, FiniteSetsExt

CONSTANTS
    Apics,          \* the APIC IDs the MADT lists as usable
    FaultyApics,    \* the cores on which something may panic ...
    FaultPlaces,    \* ... and the places at which it may
    MaxBoots        \* bound on the kernels loaded in one behaviour

BspApic == 0
NoCore == -1
NoStack == -1

ASSUME ApicsAssumption == Apics \subseteq Nat /\ BspApic \in Apics /\ IsFiniteSet(Apics)
ASSUME FaultsAssumption == FaultyApics \subseteq Apics
ASSUME MaxBootsAssumption == MaxBoots \in Nat \ {0}

VARIABLES
    cpu,        \* APIC ID -> registers and CoreLocals of that core
    shared,     \* SHARED, which lives in the bootloader and survives reboots
    kernel,     \* the statics of the kernel image that was loaded last
    work        \* locals of the loops only the BSP runs

vars == <<cpu, shared, kernel, work>>

-----------------------------------------------------------------------------
(* ApicState. *)
ApicStates == {"Online", "Launched", "Offline", "None", "Halted"}

(* The locks of SHARED that somebody may still hold when it stops.  The    *)
(* serial port and print_lock are left out: the kernel prints on the BSP   *)
(* before it launches other cores, an NMI while the timer handler polls    *)
(* the port is stuck at the interrupt table already, and the prompt lets   *)
(* go of the port before it reboots.                                       *)
SharedLocks == {"free_memory", "kernel_pt", "kernel_image"}

(* Places in the bootloader, places in the kernel before a panic, and what *)
(* follows a panic.                                                        *)
BootloaderPlaces == {"efi_main", "restore", "load", "loaded", "map_stack", "jump"}
RunPlaces == {"init", "up", "numa", "launch", "await", "enable_timer",
              "check_in", "count", "barrier", "idle", "timer"}
ApPanicPlaces == {"panic", "check", "ipi"}
BspPanicPlaces == {"panic", "scan", "scan_wait", "prompt", "reboot", "reset"}
StoppedPlaces == {"off", "halted", "dead", "stuck"}
KernelPlaces ==
    RunPlaces \cup ApPanicPlaces \cup BspPanicPlaces \cup {"halted", "dead", "stuck"}

(* The statics a freshly loaded image starts with. *)
FreshKernel(n) ==
    [boots           |-> n,
     next_core_id    |-> 0,
     max_apic_known  |-> FALSE,                     \* MAX_APIC_ID.initialized()
     states_known    |-> FALSE,                     \* APIC_STATES.initialized()
     states          |-> [x \in Apics |-> "None"],  \* APIC_STATES
     checked_in      |-> 0,                         \* CORES_CHECKED_IN
     bsp_in_panic    |-> FALSE,                     \* BSP_IN_PANIC
     panic_pending   |-> NoCore]                    \* PANIC_PENDING: whose

(* A core after INIT. *)
ResetCpu(place) ==
    [pc         |-> place,
     boot       |-> 0,          \* the load of the kernel it entered
     id         |-> NoCore,     \* CoreLocals::id
     stack      |-> NoStack,    \* the kernel stack mapped for it
     apic       |-> FALSE,      \* CoreLocals::apic is Some
     interrupts |-> FALSE,      \* CoreLocals::interrupts is locked
     timer      |-> FALSE,      \* the reboot timer runs
     resume     |-> "idle",     \* what the timer interrupted
     nmi        |-> FALSE,      \* an NMI is pending
     masked     |-> FALSE]      \* NMIs are blocked until the next IRET

Init ==
    /\ cpu = [x \in Apics |-> ResetCpu(IF x = BspApic THEN "efi_main" ELSE "off")]
    /\ shared = [initialized |-> FALSE,         \* INITIALIZED of the bootloader
                 rebooting   |-> TRUE,
                 next_stack  |-> 0,             \* in stacks below KERNEL_STACK_BASE
                 holder      |-> [l \in SharedLocks |-> NoCore]]
    /\ kernel = FreshKernel(0)
    /\ work = [todo |-> {}, target |-> NoCore, id |-> 0, after |-> "prompt"]

-----------------------------------------------------------------------------
At(x, place) == cpu[x].pc = place
Goto(x, place) == cpu' = [cpu EXCEPT ![x].pc = place]

(* Runs the kernel that is loaded, and not one that has been overwritten. *)
InKernel(x) == cpu[x].boot = kernel.boots /\ cpu[x].pc \in KernelPlaces

(* is_bsp(). *)
IsBsp(x) == cpu[x].id = 0

Free(locks) == \A l \in locks : shared.holder[l] = NoCore
Holds(x) == {l \in SharedLocks : shared.holder[l] = x}

MAX_APIC_ID == Max(Apics)

=============================================================================
