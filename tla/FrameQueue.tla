----------------------------- MODULE FrameQueue -----------------------------
(***************************************************************************)
(* What one direction of a network card promises: a bounded queue of       *)
(* frames. A frame that was put into it comes out once, unchanged and in   *)
(* order, unless the card is reset first. IntelNic.tla implements it       *)
(* twice, with its receive ring and with its transmit ring.                *)
(***************************************************************************)
EXTENDS Naturals, Sequences

CONSTANTS Frame,        \* the contents a packet can have
          Capacity      \* how many frames fit

VARIABLES queue,        \* the frames on their way
          out           \* the last frame that came out

vars == <<queue, out>>

Init == queue = <<>> /\ out \in Frame

Put(f) ==
    /\ Len(queue) < Capacity
    /\ queue' = Append(queue, f)
    /\ UNCHANGED out

Get ==
    /\ queue # <<>>
    /\ out' = Head(queue)
    /\ queue' = Tail(queue)

Reset == queue' = <<>> /\ UNCHANGED out

Next == (\E f \in Frame : Put(f)) \/ Get \/ Reset

Spec == Init /\ [][Next]_vars
=============================================================================
