------------------------------ MODULE FreeList ------------------------------
(***************************************************************************)
(* FreeList of kernel/src/mm.rs: the free blocks of one size on one core.  *)
(* A list lives in the free blocks themselves. Blocks that are too small   *)
(* for a FreeListNode form a linked list; a larger one is a node with a    *)
(* stack of further free blocks, filled from its end. `node' is what the   *)
(* free blocks hold; what a block in use holds is its owner's.             *)
(***************************************************************************)
EXTENDS Naturals, FiniteSets

CONSTANTS
    Classes,            \* the sizes that the lists are for
    Slots,              \* [Classes -> available_slots], 0: the linked list
    Null                \* the address 0

\* free_addrs of a class, without what earlier users left in it.
NoAddrs(class) == [i \in 0 .. Slots[class] - 1 |-> Null]
Owned == [next |-> Null, free_slots |-> 0, addrs |-> << >>]

\* push() of block b onto the list with this head.
Push(class, head, node, b) ==
    IF Slots[class] = 0
    THEN [head |-> b, node |-> [node EXCEPT ![b].next = head]]
    ELSE IF head = Null \/ node[head].free_slots = 0
    THEN [head |-> b,
          node |-> [node EXCEPT ![b] = [next |-> head, free_slots |-> Slots[class], addrs |-> NoAddrs(class)]]]
    ELSE LET top == node[head].free_slots - 1 IN
         [head |-> head, node |-> [node EXCEPT ![head].addrs[top] = b, ![head].free_slots = top]]

\* pop() of a list that is not empty.
PopStays(class, head, node) ==      \* Mutant: the slot is not given up
    LET list == node[head] IN
    IF Slots[class] > 0 /\ list.free_slots < Slots[class]
    THEN [block |-> list.addrs[list.free_slots], head |-> head, node |-> node]
    ELSE [block |-> head, head |-> list.next, node |-> [node EXCEPT ![head] = Owned]]
Pop(class, head, node) ==
    LET list == node[head] IN
    IF Slots[class] > 0 /\ list.free_slots < Slots[class]
    THEN [block |-> list.addrs[list.free_slots], head |-> head,
          node |-> [node EXCEPT ![head].addrs[list.free_slots] = Null,
                                ![head].free_slots = list.free_slots + 1]]
    ELSE [block |-> head, head |-> list.next, node |-> [node EXCEPT ![head] = Owned]]

-----------------------------------------------------------------------------
(* What a list says is free, to state properties with *)

\* The free blocks with their places in the list, up to `depth' nodes of it.
FreePlaces(class, head, node, depth) ==
    LET At(k, b) == {<<k, 0, b>>} \cup {<<k, i + 1, node[b].addrs[i]>> : i \in node[b].free_slots .. Slots[class] - 1}
        seen[k \in 0 .. depth] ==
            IF k = 0 THEN [at |-> {}, next |-> head]
            ELSE LET s == seen[k - 1] IN
                 IF s.next = Null THEN s
                 ELSE [at |-> s.at \cup At(k, s.next), next |-> node[s.next].next]
    IN  seen[depth].at
=============================================================================
