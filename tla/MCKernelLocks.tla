--------------------------- MODULE MCKernelLocks ----------------------------
(* The bootstrap processor, whose timer runs, and one other core. The      *)
(* assembly that every interrupt goes through is checked once, in the      *)
(* first state.                                                            *)
EXTENDS KernelLocks

Stub == INSTANCE InterruptStub

\* interrupt_entry() gets the vector, the frame, the error code and all of the
\* registers of the interrupted code from the assembly, which gives the
\* interrupted code all of its registers and its stack back, whatever
\* interrupt_entry() did with them (definitions.rs).
StubTransparent == Init => Stub!ArgumentsRight /\ Stub!RegistersKept
=============================================================================
