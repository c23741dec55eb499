---------------------------- MODULE CoreBringUp -----------------------------
(***************************************************************************)
(* The kernel from entry() to the hlt loop: per-core initialization, the   *)
(* launch of the other cores by the BSP, and the check-in barrier.         *)
(***************************************************************************)
EXTENDS Machine

(* The allocator takes a lock of SHARED at the places that allocate:       *)
(* free_memory alone for blocks up to a page, under kernel_pt for larger.  *)
AllocPlaces == {"init", "up", "numa"}

Alloc(x) ==
    /\ InKernel(x)
    /\ cpu[x].pc \in AllocPlaces
    /\ Holds(x) = {}
    /\ \E locks \in {{"free_memory"}, {"free_memory", "kernel_pt"}} :
        /\ Free(locks)
        /\ shared' = [shared EXCEPT !.holder =
                         [l \in SharedLocks |-> IF l \in locks THEN x ELSE @[l]]]
    /\ UNCHANGED <<cpu, kernel, work>>

AllocDone(x) ==
    /\ InKernel(x)
    /\ cpu[x].pc \in AllocPlaces
    /\ Holds(x) # {}
    /\ shared' = [shared EXCEPT !.holder =
                     [l \in SharedLocks |-> IF @[l] = x THEN NoCore ELSE @[l]]]
    /\ UNCHANGED <<cpu, kernel, work>>

Running(x, place) == InKernel(x) /\ At(x, place) /\ Holds(x) = {}

(* interrupts::init() and apic::local::init(). *)
InitCore(x) ==
    /\ Running(x, "init")
    /\ cpu' = [cpu EXCEPT ![x].pc = IF IsBsp(x) THEN "up" ELSE "check_in",
                          ![x].apic = TRUE]
    /\ UNCHANGED <<shared, kernel, work>>

(* acpi::init(), after calibrate() and pci::init(), up to MAX_APIC_ID. *)
AcpiInit(x) ==
    /\ Running(x, "up")
    /\ kernel' = [kernel EXCEPT !.max_apic_known = TRUE]
    /\ Goto(x, "numa")
    /\ UNCHANGED <<shared, work>>

(* register_numa(), and init_system() up to its launch loop. *)
InitSystem(x) ==
    /\ Running(x, "numa")
    /\ kernel' = [kernel EXCEPT
                     !.states_known = TRUE,
                     !.states = [y \in Apics |-> IF y = x THEN "Online" ELSE "Offline"]]
    /\ work' = [work EXCEPT !.todo = Apics \ {x}]
    /\ Goto(x, "launch")
    /\ UNCHANGED shared

(* init_system(): the next AP, in the order of the MADT, is marked and     *)
(* sent INIT-SIPI-SIPI.  It starts over in the bootloader.                 *)
Launch(x) ==
    /\ Running(x, "launch")
    /\ \E y \in work.todo :
        /\ kernel' = [kernel EXCEPT !.states[y] = "Launched"]
        /\ cpu' = [cpu EXCEPT ![x].pc = "await", ![y] = ResetCpu("efi_main")]
        /\ work' = [work EXCEPT !.todo = @ \ {y}, !.target = y]
    /\ UNCHANGED shared

(* Mutant: the next core is launched at once. *)
AwaitNothing(x) ==
    /\ Running(x, "await")
    /\ Goto(x, "launch")
    /\ UNCHANGED <<shared, kernel, work>>

(* init_system(): wait for the core to come online. *)
AwaitOnline(x) ==
    /\ Running(x, "await")
    /\ kernel.states[work.target] = "Online"
    /\ Goto(x, "launch")
    /\ UNCHANGED <<shared, kernel, work>>

(* enable_reboot_timer() locks the interrupt table to add its handler. *)
LockInterrupts(x) ==
    /\ Running(x, "launch")
    /\ work.todo = {}
    /\ cpu' = [cpu EXCEPT ![x].pc = "enable_timer", ![x].interrupts = TRUE]
    /\ UNCHANGED <<shared, kernel, work>>

EnableRebootTimer(x) ==
    /\ Running(x, "enable_timer")
    /\ cpu' = [cpu EXCEPT ![x].pc = "check_in", ![x].interrupts = FALSE,
                          ![x].timer = TRUE]
    /\ UNCHANGED <<shared, kernel, work>>

(* check_in(): an AP goes from Launched to Online, the BSP was Online; any *)
(* other state fails an assertion.                                         *)
CheckIn(x) ==
    LET expected == IF IsBsp(x) THEN "Online" ELSE "Launched" IN
    /\ Running(x, "check_in")
    /\ kernel' = [kernel EXCEPT !.states[x] = IF @ = "Launched" THEN "Online" ELSE @]
    /\ Goto(x, IF kernel.states[x] = expected THEN "count" ELSE "panic")
    /\ UNCHANGED <<shared, work>>

(* Mutant: the BSP does not count itself. *)
CountOthers(x) ==
    /\ Running(x, "count")
    /\ kernel' = [kernel EXCEPT !.checked_in = IF IsBsp(x) THEN @ ELSE @ + 1]
    /\ Goto(x, "barrier")
    /\ UNCHANGED <<shared, work>>

(* check_in(): the core is counted. *)
Count(x) ==
    /\ Running(x, "count")
    /\ kernel' = [kernel EXCEPT !.checked_in = @ + 1]
    /\ Goto(x, "barrier")
    /\ UNCHANGED <<shared, work>>

(* Mutant: nobody waits. *)
LeaveBarrierEarly(x) ==
    /\ Running(x, "barrier")
    /\ Goto(x, "idle")
    /\ UNCHANGED <<shared, kernel, work>>

(* check_in(): wait for TOTAL_CORES cores; then hlt, forever. *)
LeaveBarrier(x) ==
    /\ Running(x, "barrier")
    /\ kernel.checked_in = Cardinality(Apics)
    /\ Goto(x, "idle")
    /\ UNCHANGED <<shared, kernel, work>>

BringUpStep(x) ==
    \/ AllocDone(x) \/ InitCore(x) \/ AcpiInit(x) \/ InitSystem(x) \/ Launch(x)
    \/ AwaitOnline(x) \/ LockInterrupts(x) \/ EnableRebootTimer(x)
    \/ CheckIn(x) \/ Count(x) \/ LeaveBarrier(x)

=============================================================================
