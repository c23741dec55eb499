----------------------------- MODULE PhysMemory -----------------------------
(***************************************************************************)
(* Physical memory over the life of the bootloader and one kernel: the     *)
(* range set is filled from the memory map of the firmware, parts of it    *)
(* are reserved, and then blocks are allocated and freed.                  *)
(*                                                                         *)
(* The bootloader's GlobalAllocator frees into the range set; the kernel   *)
(* only takes from it, with a preference for the memory of its core's NUMA *)
(* domain.  All of this happens under the free_memory lock, so each        *)
(* operation is one step.                                                  *)
(***************************************************************************)
EXTENDS RangeSet

CONSTANTS
    Memory,         \* addresses the firmware may list as available
    Reserved,       \* the ranges that are removed again, in order
    Sizes, Aligns,  \* the layouts that are asked for
    Preferences,    \* the values of mem_range(): sequences of ranges
    MaxBlocks       \* bound on the blocks alive at a time

ASSUME MemoryAssumption ==
    /\ Memory \subseteq Addresses
    /\ Reserved \in Seq(Ranges)
    /\ 0 \notin Sizes

VARIABLES
    phase,      \* "map", "run", or "panic"
    free,       \* free_memory
    live        \* the blocks handed out, as ranges

vars == <<phase, free, live>>

Init ==
    /\ phase = "map"
    /\ free = << >>
    /\ live = {}

(* memory_map_exit(): a descriptor of available memory is inserted. *)
InsertDescriptor ==
    /\ phase = "map"
    /\ \E r \in Ranges :
        LET inserted == Insert(free, r) IN
        /\ r.start .. r.end \subseteq Memory \ Covered(free)
        /\ free' = inserted.ranges
        /\ phase' = IF inserted.ok THEN phase ELSE "panic"
    /\ UNCHANGED live

(* memory_map_exit(): the reserved ranges are removed, one by one. *)
RemoveReserved(ranges) ==
    LET Step(acc, r) ==
            LET removed == Remove(acc.ranges, r) IN
            [ok |-> acc.ok /\ removed.ok, ranges |-> removed.ranges]
    IN  Seqs!FoldLeft(Step, [ok |-> TRUE, ranges |-> ranges], Reserved)

Reserve ==
    /\ phase = "map"
    /\ free' = RemoveReserved(free).ranges
    /\ phase' = IF RemoveReserved(free).ok THEN "run" ELSE "panic"
    /\ UNCHANGED live

(* An allocation under the free_memory lock.  What becomes of the caller   *)
(* when there is no memory is its own affair.                              *)
Allocate(regions) ==
    /\ phase = "run"
    /\ Cardinality(live) < MaxBlocks
    /\ \E size \in Sizes, align \in Aligns :
        LET result == AllocatePrefer(free, size, align, regions) IN
        /\ free' = result.ranges
        /\ phase' = IF result.res = "panic" THEN "panic" ELSE phase
        /\ live' = IF result.res = "Some"
                   THEN live \cup {MkRange(result.ptr, result.ptr + size - 1)}
                   ELSE live

(* alloc() of the bootloader has no preference ... *)
Alloc == Allocate(<< >>)

(* ... alloc_phys() of the kernel prefers the domain of its core. *)
AllocPhys == \E regions \in Preferences : Allocate(regions)

(* dealloc() of the bootloader; expect() panics when the array is full. *)
Dealloc ==
    /\ phase = "run"
    /\ \E block \in live :
        LET inserted == Insert(free, block) IN
        /\ free' = inserted.ranges
        /\ live' = live \ {block}
        /\ phase' = IF inserted.ok THEN phase ELSE "panic"

Next == InsertDescriptor \/ Reserve \/ Alloc \/ AllocPhys \/ Dealloc

Spec == Init /\ [][Next]_vars

-----------------------------------------------------------------------------
AddressesOf(r) == r.start .. r.end

TypeOK ==
    /\ phase \in {"map", "run", "panic"}
    /\ free \in Seq(Ranges)
    /\ live \subseteq Ranges

(* free_memory stays a sorted sequence of disjoint ranges that fits the    *)
(* array, whatever is inserted, split, trimmed and merged.                 *)
WellFormed == WellFormedRanges(free)

(* No address is handed out twice: blocks that are alive share no address  *)
(* with each other nor with the memory that is still free, and none of it  *)
(* is reserved.                                                            *)
NoDoubleAllocation ==
    /\ \A a, b \in live : a # b => ~Overlaps(a, b)
    /\ \A a \in live : AddressesOf(a) \cap Covered(free) = {}
    /\ phase = "run" =>
        \A i \in DOMAIN Reserved :
            AddressesOf(Reserved[i]) \cap (Covered(free) \cup UNION {AddressesOf(a) : a \in live}) = {}

(* insert() adds exactly its range, wherever in memory the range lies; it  *)
(* fails only when the array is full, and then changes nothing.            *)
InsertExact ==
    \A r \in {r \in Ranges : AddressesOf(r) \subseteq Memory} :
        LET inserted == Insert(free, r) IN
        IF inserted.ok
        THEN /\ Covered(inserted.ranges) = Covered(free) \cup AddressesOf(r)
             /\ WellFormedRanges(inserted.ranges)
        ELSE Len(free) = Capacity /\ inserted.ranges = free

(* remove() takes away exactly its range and tells whether there was any   *)
(* of it to take; it fails only when the array is full, and then changes   *)
(* nothing.                                                                *)
RemoveExact ==
    \A r \in Ranges :
        LET removed == Remove(free, r) IN
        IF removed.ok
        THEN /\ Covered(removed.ranges) = Covered(free) \ AddressesOf(r)
             /\ removed.any_removed <=> Covered(free) \cap AddressesOf(r) # {}
             /\ WellFormedRanges(removed.ranges)
        ELSE Len(free) = Capacity /\ removed.ranges = free

(* The range set is the set of addresses it stands for, before and after   *)
(* any insert() and remove().                                              *)
UpdatesExact == TypeOK /\ WellFormed /\ InsertExact /\ RemoveExact

(* The aligned blocks that fit into a single entry of `ranges`. *)
Fits(ranges, size, align) ==
    {a \in Addresses : /\ a % align = 0
                       /\ \E i \in DOMAIN ranges :
                            a .. a + size - 1 \subseteq AddressesOf(ranges[i])}

(* allocate_prefer() returns an aligned block that was free and no longer  *)
(* is, frees nothing, and loses no more than the padding with it.          *)
AllocSound ==
    \A size \in Sizes, align \in Aligns, regions \in Preferences :
        LET result == AllocatePrefer(free, size, align, regions) IN
        result.res = "Some" =>
            /\ result.ptr \in Fits(free, size, align)
            /\ (result.ptr .. result.ptr + size - 1) \cap Covered(result.ranges) = {}
            /\ Covered(result.ranges) \subseteq Covered(free)
            /\ Cardinality(Covered(free) \ Covered(result.ranges)) < size + align

(* allocate_prefer() finds memory whenever an entry has room, "Ok(None)"   *)
(* is for when "there's not enough free memory".                           *)
AllocComplete ==
    \A size \in Sizes, align \in Aligns, regions \in Preferences :
        AllocatePrefer(free, size, align, regions).res = "None"
            => Fits(free, size, align) = {}

(* A block in one of the preferred regions is returned whenever there is   *)
(* one.                                                                    *)
PreferenceHonoured ==
    \A size \in Sizes, align \in Aligns, regions \in Preferences :
        LET result == AllocatePrefer(free, size, align, regions)
            preferred == Fits(free, size, align) \cap Fits(regions, size, align)
        IN  result.res = "Some" /\ preferred # {} => result.ptr \in preferred

(* allocate_prefer() returns a block exactly if there is one, a preferred  *)
(* one if possible, and takes it out of the free memory.                   *)
AllocExact == AllocSound /\ AllocComplete /\ PreferenceHonoured

-----------------------------------------------------------------------------
(* Ranges that touch are merged: "At this point, there is some             *)
(* overlap/touch: merge the ranges".                                       *)
TouchingMerged ==
    \A i \in 1 .. Len(free) - 1 : free[i].end + 1 < free[i + 1].start

=============================================================================
