---------------------------- MODULE MCSoftReboot ----------------------------
(* Two to four cores and two boots.  The configurations differ in where,   *)
(* and on which cores, something may panic.                                *)
EXTENDS SoftReboot

NoFaults == {}

(* The kernel is up: its cores are in the hlt loop or in a timer handler. *)
WhenUp == {"idle", "timer"}

(* The BSP, its APIC ready, allocates for calibration, PCI and ACPI. *)
WhileAllocating == {"up"}

(* An AP sets up its interrupts and has no APIC yet. *)
WhileInit == {"init"}

(* An AP is about to check in, with its interrupts enabled. *)
AtCheckIn == {"check_in"}

(* An AP waits for the others, some of which may still be launched. *)
AtBarrier == {"barrier"}
=============================================================================
