--------------------------- MODULE MCKernelMemory ---------------------------
(* Two cores and 15 frames; tables have two entries, so that a few pages   *)
(* need tables on all levels. Stacks hold one more block. The first image  *)
(* has a page twice, the second is in the way of the window.               *)
EXTENDS KernelMemory

CONSTANTS c1, c2

MCClasses == {"link", "page", "large"}
MCSlots == [class \in MCClasses |-> IF class = "link" THEN 0 ELSE 1]
MCSegments == {<<15, 15, 14>>, <<1>>}
=============================================================================
