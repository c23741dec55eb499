---------------------------- MODULE PanicReboot -----------------------------
(***************************************************************************)
(* panic.rs, and the two interrupts that lead there: the reboot timer of   *)
(* the BSP and the NMI with which cores tell each other of a panic.        *)
(***************************************************************************)
EXTENDS Machine

(* Something panics: an assertion, an allocation that fails, an exception  *)
(* without a handler.  The locks the core holds stay locked.               *)
Fault(x) ==
    /\ InKernel(x)
    /\ x \in FaultyApics
    /\ cpu[x].pc \in FaultPlaces
    /\ Goto(x, "panic")
    /\ UNCHANGED <<shared, kernel, work>>

-----------------------------------------------------------------------------
(* The timer interrupt: interrupt_entry() locks the interrupt table and    *)
(* keeps it locked while soft_reboot_timer() runs.                         *)
TimerInterrupt(x) ==
    /\ InKernel(x)
    /\ cpu[x].timer
    /\ cpu[x].pc \in {"check_in", "count", "barrier", "idle"}
    /\ cpu' = [cpu EXCEPT ![x].pc = "timer", ![x].interrupts = TRUE,
                          ![x].resume = cpu[x].pc]
    /\ UNCHANGED <<shared, kernel, work>>

(* soft_reboot_timer(): no key, and the interrupt is over.  Its IRET also  *)
(* lets NMIs in again, should they still have been blocked ...             *)
TimerReturns(x) ==
    /\ InKernel(x)
    /\ At(x, "timer")
    /\ cpu' = [cpu EXCEPT ![x].pc = cpu[x].resume, ![x].interrupts = FALSE,
                          ![x].masked = FALSE]
    /\ UNCHANGED <<shared, kernel, work>>

(* ... or 'H' asks to halt, or 'S' to reboot: both panic in the handler. *)
HaltRequested(x) ==
    /\ InKernel(x)
    /\ At(x, "timer")
    /\ Goto(x, "panic")
    /\ UNCHANGED <<shared, kernel, work>>

RebootRequested(x) ==
    /\ InKernel(x)
    /\ At(x, "timer")
    /\ kernel.boots < MaxBoots
    /\ shared' = [shared EXCEPT !.rebooting = TRUE]
    /\ Goto(x, "panic")
    /\ UNCHANGED <<kernel, work>>

-----------------------------------------------------------------------------

(* panic() on an AP: only the first one gets to be the pending panic ... *)
ApPanic(x) ==
    /\ InKernel(x)
    /\ At(x, "panic")
    /\ ~IsBsp(x)
    /\ IF kernel.panic_pending = NoCore
       THEN /\ kernel' = [kernel EXCEPT !.panic_pending = x]
            /\ Goto(x, "check")
       ELSE /\ Goto(x, "dead")
            /\ UNCHANGED kernel
    /\ UNCHANGED <<shared, work>>

(* ... and tells the BSP, unless that is panicking already ... *)
ApCheckBsp(x) ==
    /\ InKernel(x)
    /\ At(x, "check")
    /\ Goto(x, IF kernel.bsp_in_panic THEN "dead" ELSE "ipi")
    /\ UNCHANGED <<shared, kernel, work>>

(* Mutant: the core halts without a word. *)
ApNotifyNobody(x) ==
    /\ InKernel(x)
    /\ At(x, "ipi")
    /\ Goto(x, "dead")
    /\ UNCHANGED <<shared, kernel, work>>

(* ... with an NMI to APIC 0, and halts.  Without an APIC, unwrap() panics *)
(* once more.                                                              *)
ApNotify(x) ==
    /\ InKernel(x)
    /\ At(x, "ipi")
    /\ cpu' = IF cpu[x].apic
              THEN [cpu EXCEPT ![x].pc = "dead", ![BspApic].nmi = TRUE]
              ELSE [cpu EXCEPT ![x].pc = "panic"]
    /\ UNCHANGED <<shared, kernel, work>>

(* panic() on the BSP, up to disable_cores(); again, unwrap() panics when  *)
(* there is no APIC yet.                                                   *)
BspPanic(x) ==
    /\ InKernel(x)
    /\ At(x, "panic")
    /\ IsBsp(x)
    /\ kernel' = [kernel EXCEPT !.bsp_in_panic = TRUE]
    /\ IF cpu[x].apic
       THEN Goto(x, "scan") /\ work' = [work EXCEPT !.id = 0, !.after = "prompt"]
       ELSE UNCHANGED <<cpu, work>>
    /\ UNCHANGED shared

(* disable_cores(), `for id in 0..MAX_APIC_ID`: the APIC at `id` is looked *)
(* at; core_state() panics when the states are not there yet.              *)
ScanRange == 0 .. MAX_APIC_ID - 1

Scan(x) ==
    LET id == work.id
        skip == id = x \/ id \notin Apics
    IN
    /\ InKernel(x)
    /\ At(x, "scan")
    /\ IF ~kernel.max_apic_known \/ id \notin ScanRange
       THEN Goto(x, work.after) /\ UNCHANGED work
       ELSE IF id # x /\ ~kernel.states_known
       THEN Goto(x, "panic") /\ UNCHANGED work
       ELSE IF skip \/ kernel.states[id] # "Online"
       THEN work' = [work EXCEPT !.id = @ + 1] /\ UNCHANGED cpu
       ELSE Goto(x, "scan_wait") /\ UNCHANGED work
    /\ UNCHANGED <<shared, kernel>>

(* disable_cores(): an NMI, again and again until the core is Halted ... *)
ScanNmi(x) ==
    LET id == work.id IN
    /\ InKernel(x)
    /\ At(x, "scan_wait")
    /\ kernel.states[id] # "Halted"
    /\ ~cpu[id].nmi
    /\ cpu' = [cpu EXCEPT ![id].nmi = TRUE]
    /\ UNCHANGED <<shared, kernel, work>>

(* A pending NMI reaches a core before a sleep() of its ends. *)
NmiDeliverable(x) == cpu[x].nmi /\ ~cpu[x].masked

(* ... and INIT, which stops it for good. *)
ScanInit(x) ==
    LET id == work.id IN
    /\ InKernel(x)
    /\ At(x, "scan_wait")
    /\ kernel.states[id] = "Halted"
    /\ ~NmiDeliverable(x)
    /\ cpu' = [cpu EXCEPT ![id] = ResetCpu("off"), ![x].pc = "scan"]
    /\ work' = [work EXCEPT !.id = @ + 1]
    /\ UNCHANGED <<shared, kernel>>

(* panic(): wait for a soft reboot request. *)
PromptKey(x) ==
    /\ InKernel(x)
    /\ At(x, "prompt")
    /\ ~shared.rebooting
    /\ kernel.boots < MaxBoots
    /\ shared' = [shared EXCEPT !.rebooting = TRUE]
    /\ UNCHANGED <<cpu, kernel, work>>

PromptDone(x) ==
    /\ InKernel(x)
    /\ At(x, "prompt")
    /\ shared.rebooting
    /\ Goto(x, "reboot")
    /\ UNCHANGED <<shared, kernel, work>>

(* soft_reboot(): the cores are disabled once more ... *)
SoftRebootBegin(x) ==
    /\ InKernel(x)
    /\ At(x, "reboot")
    /\ shared' = [shared EXCEPT !.rebooting = TRUE]
    /\ work' = [work EXCEPT !.id = 0, !.after = "reset"]
    /\ Goto(x, "scan")
    /\ UNCHANGED kernel

(* ... the APIC is reset, in which a timer interrupt that was still        *)
(* pending is drained, and its IRET lets NMIs in again ...                 *)
DrainTimer(x) ==
    /\ InKernel(x)
    /\ At(x, "reset")
    /\ cpu[x].timer
    /\ cpu[x].masked
    /\ cpu' = [cpu EXCEPT ![x].masked = FALSE]
    /\ UNCHANGED <<shared, kernel, work>>

(* ... and the BSP returns to the bootloader. *)
LeaveKernel(x) ==
    /\ InKernel(x)
    /\ At(x, "reset")
    /\ ~NmiDeliverable(x)
    /\ cpu' = [cpu EXCEPT ![x] = [ResetCpu("efi_main") EXCEPT !.nmi = cpu[x].nmi,
                                                              !.masked = cpu[x].masked]]
    /\ UNCHANGED <<shared, kernel, work>>

-----------------------------------------------------------------------------
(* An NMI is delivered.  Further ones are blocked until an IRET, and there *)
(* is none on the way to `place`.                                          *)
EnterNmi(x, place) ==
    /\ InKernel(x)
    /\ ~At(x, "stuck")
    /\ NmiDeliverable(x)
    /\ cpu' = [cpu EXCEPT ![x].nmi = FALSE, ![x].masked = TRUE,
                          ![x].pc = place, ![x].interrupts = TRUE]

(* interrupt_entry() locks the interrupt table of its core, which never    *)
(* succeeds if that core has it locked.                                    *)
NmiSelfLocks(x) ==
    /\ cpu[x].interrupts
    /\ EnterNmi(x, "stuck")
    /\ UNCHANGED <<shared, kernel, work>>

(* Mutant: the core halts without telling. *)
NmiHaltsSilently(x) ==
    /\ ~cpu[x].interrupts
    /\ ~IsBsp(x)
    /\ EnterNmi(x, "halted")
    /\ UNCHANGED <<shared, kernel, work>>

(* nmi() on an AP, which halts for good, still inside of the handler. *)
NmiHalts(x) ==
    /\ ~cpu[x].interrupts
    /\ ~IsBsp(x)
    /\ EnterNmi(x, "halted")
    /\ kernel' = [kernel EXCEPT !.states[x] = "Halted"]
    /\ UNCHANGED <<shared, work>>

(* Mutant: the BSP panics again. *)
NmiRepanics(x) ==
    /\ ~cpu[x].interrupts
    /\ IsBsp(x)
    /\ EnterNmi(x, "panic")
    /\ UNCHANGED <<shared, kernel, work>>

(* nmi() on the BSP, which panics ... *)
NmiPanics(x) ==
    /\ ~cpu[x].interrupts
    /\ IsBsp(x)
    /\ ~kernel.bsp_in_panic
    /\ EnterNmi(x, "panic")
    /\ UNCHANGED <<shared, kernel, work>>

(* ... and returns from the interrupt if it did already. *)
NmiIgnored(x) ==
    /\ InKernel(x)
    /\ ~At(x, "stuck")
    /\ NmiDeliverable(x)
    /\ ~cpu[x].interrupts
    /\ IsBsp(x)
    /\ kernel.bsp_in_panic
    /\ cpu' = [cpu EXCEPT ![x].nmi = FALSE]
    /\ UNCHANGED <<shared, kernel, work>>

Nmi(x) == NmiSelfLocks(x) \/ NmiHalts(x) \/ NmiPanics(x) \/ NmiIgnored(x)

PanicStep(x) ==
    \/ TimerReturns(x) \/ ApPanic(x) \/ ApCheckBsp(x) \/ ApNotify(x) \/ BspPanic(x)
    \/ Scan(x) \/ ScanNmi(x) \/ ScanInit(x) \/ PromptDone(x)
    \/ SoftRebootBegin(x) \/ LeaveKernel(x) \/ Nmi(x)

=============================================================================
