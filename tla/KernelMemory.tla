---------------------------- MODULE KernelMemory ----------------------------
(***************************************************************************)
(* Memory of the kernel (kernel/src/mm.rs): the bootloader builds the page *)
(* table, and then the cores allocate and free blocks. Every core has free *)
(* lists of its own, and a block may be freed on another core than the one *)
(* it is from. Three sizes stand for all: "link" blocks share a page,      *)
(* "page" blocks are one, "large" ones are mapped into virtual memory.     *)
(*                                                                         *)
(* A list is only used by its core, under its lock, with interrupts off:   *)
(* what a core does to its lists and to free_memory is one step. What      *)
(* takes the lock of the page table is not.                                *)
(***************************************************************************)
EXTENDS FreeList, PageTable

CONSTANTS
    Cores,
    Frames,             \* of physical memory, a set of numbers
    PerPage,            \* link blocks in a page
    LargePages,         \* pages of a large block
    GUARD_PAGE,         \* pages between virtual allocations
    KERNEL_VMEM_BASE, VmemEnd,      \* pages for virtual allocations
    Segments,           \* the pages of a kernel image: a set of sequences
    WindowPages,        \* pages of the physical window
    RunWith,            \* bound: the window's page types with which the cores run
    MaxSmall, MaxHeld   \* bounds: allocations of small blocks, blocks in use

VARIABLES
    phase,      \* "boot", "run" or "panic"
    boot,       \* what the bootloader has yet to map
    phys,       \* free_memory: the free frames
    next_vaddr, \* NEXT_VADDR
    heads,      \* [Cores -> [Classes -> head of the list]]
    node,       \* what the free blocks hold
    kernel_pt,  \* the core that has the lock of the page table
    large,      \* [Cores -> the allocate_virt_block() it is in]
    held,       \* the blocks in use
    small       \* how many small blocks have been allocated

lists == <<heads, node>>
pt == <<tables, root, map, view>>
vars == <<phase, boot, phys, next_vaddr, lists, kernel_pt, large, held, small, pt>>

Block(class, base, k) == <<class, base, k>>
Blocks == {Block("link", f, k) : f \in Frames, k \in 1 .. PerPage}
          \cup {Block("page", f, 0) : f \in Frames}
          \cup {Block("large", v, 0) : v \in KERNEL_VMEM_BASE .. VmemEnd}

NotMapping == [pc |-> "idle", v |-> 0, k |-> 0]
FirstFrame(fs) == CHOOSE f \in fs : \A g \in fs : f <= g

ASSUME MemoryAssumption ==
    /\ Classes = {"link", "page", "large"} /\ Slots \in [Classes -> Nat] /\ Slots["link"] = 0
    /\ Frames \subseteq Nat \ {0} /\ Radix \in Nat \ {0, 1}
    /\ PerPage \in Nat \ {0} /\ LargePages \in Nat \ {0} /\ GUARD_PAGE \in Nat \ {0}
    /\ VmemEnd < Radix^4

Init ==
    /\ phase = "boot"
    /\ \E seg \in Segments, t \in {Page4K, Page2M, Page1G} : boot = [segment |-> seg, type |-> t, window |-> 0]
    /\ root = FirstFrame(Frames) /\ tables = [f \in {root} |-> EmptyTable] /\ map = None
    /\ phys = Frames \ {root}
    /\ next_vaddr = KERNEL_VMEM_BASE
    /\ heads = [c \in Cores |-> [class \in Classes |-> Null]]
    /\ node = [b \in Blocks |-> Owned]
    /\ kernel_pt = None /\ large = [c \in Cores |-> NotMapping] /\ held = {} /\ small = 0
    /\ view = [v \in Pages |-> None]

Panic ==
    /\ phase' = "panic"
    /\ UNCHANGED <<boot, phys, next_vaddr, lists, kernel_pt, large, held, small, pt>>

-----------------------------------------------------------------------------
(* The bootloader, on one core, with frames right from free_memory *)

kernel == <<next_vaddr, lists, kernel_pt, large, held, small>>

\* map_init() of a page of a segment. Its failure is ignored: the pages of the
\* segment that are left are not mapped, and the frame is lost.
MapSegment ==
    /\ phase = "boot" /\ map = None /\ boot.segment # << >> /\ phys # {}
    /\ phys' = phys \ {FirstFrame(phys)}
    /\ \/ /\ MapBegin(Head(boot.segment), Page4K, FirstFrame(phys))
          /\ boot' = [boot EXCEPT !.segment = Tail(@)]
       \/ /\ MapError(Head(boot.segment), Page4K) # "Ok"
          /\ boot' = [boot EXCEPT !.segment = << >>]
          /\ UNCHANGED pt
    /\ UNCHANGED <<phase, kernel>>

\* The physical window, in pages of the largest type that the CPU has.
MapWindow ==
    /\ phase = "boot" /\ map = None /\ boot.segment = << >> /\ boot.window < WindowPages
    /\ LET v == boot.window * PagesOf(boot.type) IN
       \/ /\ MapBegin(v, boot.type, 1000 + v)
          /\ boot' = [boot EXCEPT !.window = @ + 1]
          /\ UNCHANGED <<phase, phys, kernel>>
       \/ MapError(v, boot.type) # "Ok" /\ Panic

BootTable ==
    /\ phase = "boot" /\ map # None
    /\ MapTable(FirstFrame(phys))
    /\ phys' = phys \ {FirstFrame(phys)}
    /\ UNCHANGED <<phase, boot, kernel>>

EnterKernel ==
    /\ phase = "boot" /\ map = None /\ boot.segment = << >> /\ boot.window = WindowPages
    /\ phase' = "run"
    /\ UNCHANGED <<boot, phys, kernel, pt>>

-----------------------------------------------------------------------------
(* The allocator *)

\* allocate_page_for_blocks(): a page, split into blocks that are pushed.
Refill(c, class) ==
    LET f == FirstFrame(phys)
        done[k \in 0 .. PerPage] ==
            IF k = 0 THEN [head |-> Null, node |-> node]
            ELSE Push("link", done[k - 1].head, done[k - 1].node, Block("link", f, k))
    IN  IF class = "page" THEN Push("page", Null, node, Block("page", f, 0)) ELSE done[PerPage]

\* Core c runs, outside allocate_virt_block().
MayCall(c) == phase = "run" /\ boot.type \in RunWith /\ large[c].pc = "idle"

\* pop() of a list of blocks that fit into a page, when there is memory.
CanTake(c, class) == heads[c][class] # Null \/ phys # {}
Taken(c, class) ==
    IF heads[c][class] # Null THEN Pop(class, heads[c][class], node)
    ELSE Pop(class, Refill(c, class).head, Refill(c, class).node)
TakeShared(c, class) ==     \* Mutant: the page stays in free_memory
    /\ heads' = [heads EXCEPT ![c][class] = Taken(c, class).head]
    /\ node' = Taken(c, class).node
    /\ phys' = phys
Take(c, class) ==
    /\ heads' = [heads EXCEPT ![c][class] = Taken(c, class).head]
    /\ node' = Taken(c, class).node
    /\ phys' = IF heads[c][class] = Null THEN phys \ {FirstFrame(phys)} ELSE phys

\* GlobalAllocator::alloc() of a small block; without memory the core panics.
Alloc(c, class) ==
    /\ MayCall(c) /\ Cardinality(held) < MaxHeld /\ small < MaxSmall
    /\ \/ /\ CanTake(c, class) /\ Take(c, class)
          /\ held' = held \cup {Taken(c, class).block} /\ small' = small + 1
          /\ UNCHANGED <<phase, boot, next_vaddr, kernel_pt, large, pt>>
       \/ ~CanTake(c, class) /\ Panic

\* GlobalAllocator::dealloc(): into the list of the core that frees.
Dealloc(c, b) ==
    /\ MayCall(c) /\ b \in held
    /\ LET pushed == Push(b[1], heads[c][b[1]], node, b) IN
       /\ heads' = [heads EXCEPT ![c][b[1]] = pushed.head]
       /\ node' = pushed.node
    /\ held' = held \ {b}
    /\ UNCHANGED <<phase, boot, phys, next_vaddr, kernel_pt, large, small, pt>>

\* alloc() of a large block: from the list, or at a new virtual address, which
\* receive_vaddr_4k() reserves together with the gap behind it.
ReservedNoGap(v) == v + LargePages      \* Mutant: no gap
Reserved(v) == v + LargePages + GUARD_PAGE
AllocLarge(c) ==
    /\ MayCall(c) /\ Cardinality(held) < MaxHeld
    /\ \/ /\ heads[c]["large"] # Null
          /\ LET r == Pop("large", heads[c]["large"], node) IN
             /\ heads' = [heads EXCEPT ![c]["large"] = r.head]
             /\ node' = r.node
             /\ held' = held \cup {r.block}
          /\ UNCHANGED <<next_vaddr, large>>
       \/ /\ heads[c]["large"] = Null /\ Reserved(next_vaddr) <= VmemEnd + 1
          /\ next_vaddr' = Reserved(next_vaddr)
          /\ large' = [large EXCEPT ![c] = [pc |-> "lock", v |-> next_vaddr, k |-> 0]]
          /\ UNCHANGED <<lists, held>>
    /\ UNCHANGED <<phase, boot, phys, kernel_pt, small, pt>>

LockTable(c) ==
    /\ phase = "run" /\ large[c].pc = "lock" /\ kernel_pt = None
    /\ kernel_pt' = c
    /\ large' = [large EXCEPT ![c].pc = "map"]
    /\ UNCHANGED <<phase, boot, phys, next_vaddr, lists, held, small, pt>>

\* map(): the next page of the block, from the core's list of pages.
MapLarge(c) ==
    /\ phase = "run" /\ large[c].pc = "map" /\ map = None /\ large[c].k < LargePages
    /\ \/ /\ CanTake(c, "page") /\ Take(c, "page")
          /\ MapBegin(large[c].v + large[c].k, Page4K, Taken(c, "page").block[2])
          /\ large' = [large EXCEPT ![c].k = @ + 1]
          /\ UNCHANGED <<phase, boot, next_vaddr, kernel_pt, held, small>>
       \/ ~CanTake(c, "page") /\ Panic
TableLarge(c) ==
    /\ phase = "run" /\ kernel_pt = c /\ MissesTable
    /\ \/ /\ CanTake(c, "page") /\ Take(c, "page")
          /\ MapTable(Taken(c, "page").block[2])
          /\ UNCHANGED <<phase, boot, next_vaddr, kernel_pt, large, held, small>>
       \/ ~CanTake(c, "page") /\ Panic
EndLarge(c) ==
    /\ phase = "run" /\ large[c].pc = "map" /\ map = None /\ large[c].k = LargePages
    /\ kernel_pt' = None
    /\ large' = [large EXCEPT ![c] = NotMapping]
    /\ held' = held \cup {Block("large", large[c].v, 0)}
    /\ UNCHANGED <<phase, boot, phys, next_vaddr, lists, small, pt>>

MapStep ==
    /\ phase # "panic"
    /\ MapCount \/ MapWrite
    /\ UNCHANGED <<phase, boot, phys, kernel>>

\* A panic, or an instance that is not run (see RunWith).
Stopped ==
    /\ phase = "panic" \/ (phase = "run" /\ boot.type \notin RunWith)
    /\ UNCHANGED vars

LargeStep(c) == LockTable(c) \/ MapLarge(c) \/ TableLarge(c) \/ EndLarge(c)
Next ==
    \/ MapSegment \/ MapWindow \/ BootTable \/ EnterKernel \/ MapStep \/ Stopped
    \/ \E c \in Cores :
        \/ \E class \in {"link", "page"} : Alloc(c, class)
        \/ \E b \in held : Dealloc(c, b)
        \/ AllocLarge(c) \/ LargeStep(c)
Spec == Init /\ [][Next]_vars

-----------------------------------------------------------------------------
(* Properties *)

TypeOK ==
    /\ phase \in {"boot", "run", "panic"} /\ phys \subseteq Frames
    /\ held \subseteq Blocks /\ Cardinality(held) <= MaxHeld + Cardinality(Cores)
    /\ DOMAIN tables \subseteq Frames /\ root \in DOMAIN tables
    /\ kernel_pt \in Cores \cup {None}
    /\ next_vaddr \in KERNEL_VMEM_BASE .. VmemEnd + 1
    /\ \A c \in Cores, class \in Classes : heads[c][class] \in Blocks \cup {Null}

\* The free blocks with the places they are at, on all cores.
Depth == Cardinality(Frames)
FreeAt ==
    UNION {{<<c, class, p[1], p[2], p[3]>> : p \in FreePlaces(class, heads[c][class], node, Depth)} :
           c \in Cores, class \in Classes}
FreeBlocks == {p[5] : p \in FreeAt}

\* A free block is in one place of one list, and is not in use: pop() never
\* hands a block out twice, whatever cores allocate and free it, and neither
\* the stacks in the nodes nor the links between them lose track.
FreeOnce ==
    LET at == FreeAt
        blocks == {p[5] : p \in at}
    IN  /\ TypeOK
        /\ Cardinality(at) = Cardinality(blocks)
        /\ blocks \subseteq Blocks \ held
        /\ \A p \in at : p[5][1] = p[2]

\* The frames by what they are used for.
MappedFrames == {m.addr : m \in {Translate(v) : v \in Pages} \ {None}}
SplitFrames(blocks, class) == {b[2] : b \in {x \in blocks : x[1] = class}}
Uses == <<phys, DOMAIN tables, MappedFrames \cup (IF map = None THEN {} ELSE {map.raw}),
          SplitFrames(FreeBlocks, "page"), SplitFrames(held, "page"),
          SplitFrames(FreeBlocks \cup held, "link")>>

\* A frame has one use. No page table is ever handed out as memory or mapped,
\* and no page backs two blocks.
OneUse == LET uses == Uses IN \A i, j \in DOMAIN uses : i < j => uses[i] \cap uses[j] = {}

\* A large block that is in use or free has all of its pages mapped, each to a
\* frame of its own, and the pages next to it are not mapped.
LargeBlocks == {b[2] : b \in {x \in held \cup FreeBlocks : x[1] = "large"}}
PagesIn(v) == v .. v + LargePages - 1
LargeBacked ==
    /\ \A v \in LargeBlocks :
        /\ \A w \in PagesIn(v) : Translate(w) # None
        /\ \A w \in (v + LargePages .. v + LargePages + GUARD_PAGE - 1) \cup {v - 1} :
            w >= KERNEL_VMEM_BASE => Translate(w) = None
    /\ \A w, x \in UNION {PagesIn(v) : v \in LargeBlocks} :
        w # x => Translate(w).addr # Translate(x).addr
=============================================================================
