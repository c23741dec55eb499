----------------------------- MODULE Bootloader -----------------------------
(***************************************************************************)
(* efi_main() of the bootloader.  The BSP runs it at power-on and after    *)
(* every soft reboot, every AP when the kernel launches it.  All of them   *)
(* run it on the one stack that BootloaderState recorded.                  *)
(***************************************************************************)
EXTENDS Machine

(* init_setup(), on the very first boot: memory, the trampoline, and the   *)
(* snapshot every reboot returns to.                                       *)
InitSetup(x) ==
    /\ At(x, "efi_main")
    /\ ~shared.initialized
    /\ Free({"free_memory"})
    /\ shared' = [shared EXCEPT !.initialized = TRUE]
    /\ UNCHANGED <<cpu, kernel, work>>

(* efi_main(): a reboot, or a first boot, loads the kernel first. *)
EfiMain(x) ==
    /\ At(x, "efi_main")
    /\ shared.initialized
    /\ Goto(x, IF shared.rebooting THEN "restore" ELSE "map_stack")
    /\ UNCHANGED <<shared, kernel, work>>

(* restore_physical_memory(). *)
RestorePhysicalMemory(x) ==
    /\ At(x, "restore")
    /\ Free({"free_memory"})
    /\ Goto(x, "load")
    /\ UNCHANGED <<shared, kernel, work>>

(* Mutant: NEXT_CORE_ID is not part of the image and keeps its value. *)
LoadKernelKeepsIds(x) ==
    /\ At(x, "load")
    /\ Free({"kernel_image", "free_memory", "kernel_pt"})
    /\ kernel' = [FreshKernel(kernel.boots + 1) EXCEPT
                     !.next_core_id = kernel.next_core_id]
    /\ shared' = [shared EXCEPT !.next_stack = 0]
    /\ Goto(x, "loaded")
    /\ UNCHANGED work

(* load_kernel(): a new image, hence new statics, and reset_stack(). *)
LoadKernel(x) ==
    /\ At(x, "load")
    /\ Free({"kernel_image", "free_memory", "kernel_pt"})
    /\ kernel' = FreshKernel(kernel.boots + 1)
    /\ shared' = [shared EXCEPT !.next_stack = 0]
    /\ Goto(x, "loaded")
    /\ UNCHANGED work

(* Mutant: `rebooting` stays set. *)
RebootNeverDone(x) ==
    /\ At(x, "loaded")
    /\ Goto(x, "map_stack")
    /\ UNCHANGED <<shared, kernel, work>>

(* efi_main(): `rebooting.store(false)`. *)
RebootDone(x) ==
    /\ At(x, "loaded")
    /\ shared' = [shared EXCEPT !.rebooting = FALSE]
    /\ Goto(x, "map_stack")
    /\ UNCHANGED <<kernel, work>>

(* map_kernel_stack(): get_next_stack(), and its mapping. *)
MapKernelStack(x) ==
    /\ At(x, "map_stack")
    /\ Free({"kernel_pt", "free_memory"})
    /\ cpu' = [cpu EXCEPT ![x].pc = "jump", ![x].stack = shared.next_stack]
    /\ shared' = [shared EXCEPT !.next_stack = @ + 1]
    /\ UNCHANGED <<kernel, work>>

(* jump_to_kernel(), entry() and core_locals::init(): the core gets its    *)
(* number and its CoreLocals.                                              *)
JumpToKernel(x) ==
    /\ At(x, "jump")
    /\ Free({"kernel_image", "kernel_pt", "free_memory"})
    /\ cpu' = [cpu EXCEPT ![x] =
                  [ResetCpu("init") EXCEPT !.boot = kernel.boots,
                                           !.id = kernel.next_core_id,
                                           !.stack = cpu[x].stack,
                                           !.nmi = cpu[x].nmi,
                                           !.masked = cpu[x].masked]]
    /\ kernel' = [kernel EXCEPT !.next_core_id = @ + 1]
    /\ UNCHANGED <<shared, work>>

BootloaderStep(x) ==
    \/ InitSetup(x) \/ EfiMain(x) \/ RestorePhysicalMemory(x) \/ LoadKernel(x)
    \/ RebootDone(x) \/ MapKernelStack(x) \/ JumpToKernel(x)

=============================================================================
