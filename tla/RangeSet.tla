------------------------------ MODULE RangeSet ------------------------------
(***************************************************************************)
(* shared/rangeset/src/lib.rs: the sorted array of inclusive ranges that   *)
(* holds the free physical memory and the memory of NUMA domains.          *)
(*                                                                         *)
(* A range set is the sequence of its entries in use.  An operation is an  *)
(* operator from the entries before it to its result and the entries after *)
(* it; the loops over the array are folds over the entries, in order.  An  *)
(* error leaves behind what the loop has done so far, as `?` does.         *)
(***************************************************************************)
EXTENDS Integers, Sequences, FiniteSets, FiniteSetsExt

Seqs == INSTANCE SequencesExt

CONSTANTS
    MaxAddr,    \* u64::MAX
    Capacity    \* the length of the array, 256

ASSUME MaxAddrAssumption == MaxAddr \in Nat /\ Capacity \in Nat \ {0}

Addresses == 0 .. MaxAddr
MkRange(start, end) == [start |-> start, end |-> end]

(* Range::new() refuses the others. *)
Ranges == {r \in [start : Addresses, end : Addresses] : r.start <= r.end}

Contains(r, other) == r.start <= other.start /\ r.end >= other.end
Overlaps(r, other) == r.start <= other.end /\ other.start <= r.end
Overlap(r, other) ==
    MkRange(Max({r.start, other.start}), Min({r.end, other.end}))

-----------------------------------------------------------------------------

(* insert() has come to `entry`: it lies before the range and is kept, it  *)
(* lies behind and ends the loop, or it is merged into the range and       *)
(* deleted.                                                                *)
InsertStep(acc, entry) ==
    CASE acc.loop # "run" -> [acc EXCEPT !.after = Append(@, entry)]
      [] entry.end = MaxAddr ->
            [acc EXCEPT !.loop = "error", !.after = Append(@, entry)]
      [] acc.range.start > entry.end + 1 -> [acc EXCEPT !.before = Append(@, entry)]
      [] acc.range.end < entry.start ->
            [acc EXCEPT !.loop = "break", !.after = Append(@, entry)]
      [] OTHER ->
            [acc EXCEPT !.range =
                MkRange(Min({entry.start, @.start}), Max({entry.end, @.end}))]

(* The loop of insert(), the check for room, and the shift. *)
Insert(ranges, range) ==
    LET acc == Seqs!FoldLeft(InsertStep,
                        [range |-> range, before |-> << >>, after |-> << >>,
                         loop |-> "run"],
                        ranges)
        kept == acc.before \o acc.after
    IN  IF acc.loop = "error" \/ Len(kept) >= Capacity
        THEN [ok |-> FALSE, ranges |-> kept]
        ELSE [ok |-> TRUE, ranges |-> acc.before \o <<acc.range>> \o acc.after]

-----------------------------------------------------------------------------
SaturatingInc(a) == IF a = MaxAddr THEN a ELSE a + 1

(* split_entry(), as remove() calls it: the range lies inside of the entry *)
(* and touches neither end.                                                *)
SplitEntry(entry, range) ==
    <<MkRange(entry.start, range.start - 1),
      MkRange(SaturatingInc(range.end), entry.end)>>

(* Mutant: the last address of the range stays in the entry. *)
TrimShort(entry, range) ==
    CASE ~Overlaps(entry, range) -> <<entry>>
      [] Contains(range, entry) -> << >>
      [] range.start <= entry.start /\ ~Contains(range, entry) ->
            <<MkRange(range.end, entry.end)>>
      [] range.start > entry.start /\ range.end >= entry.end ->
            <<MkRange(entry.start, range.start - 1)>>
      [] OTHER -> SplitEntry(entry, range)

(* What remove() leaves of an entry. *)
Trim(entry, range) ==
    CASE ~Overlaps(entry, range) -> <<entry>>
      [] Contains(range, entry) -> << >>
      [] range.start <= entry.start /\ ~Contains(range, entry) ->
            <<MkRange(SaturatingInc(range.end), entry.end)>>
      [] range.start > entry.start /\ range.end >= entry.end ->
            <<MkRange(entry.start, range.start - 1)>>
      [] OTHER -> SplitEntry(entry, range)

(* Mutant: a split does not look for room. *)
RemoveStepUnbounded(acc, entry) ==
    [acc EXCEPT !.ranges = @ \o Trim(entry, acc.range),
                !.any_removed = @ \/ Overlaps(entry, acc.range)]

(* remove() has come to `entry`; a split needs room in the array. *)
RemoveStep(acc, entry) ==
    LET pieces == Trim(entry, acc.range)
        in_use == acc.in_use + Len(pieces) - 1
    IN  IF ~acc.ok \/ in_use > Capacity
        THEN [acc EXCEPT !.ok = FALSE, !.ranges = Append(@, entry)]
        ELSE [acc EXCEPT !.ranges = @ \o pieces,
                         !.in_use = in_use,
                         !.any_removed = @ \/ Overlaps(entry, acc.range)]

Remove(ranges, range) ==
    Seqs!FoldLeft(RemoveStep,
             [range |-> range, ok |-> TRUE, any_removed |-> FALSE,
              in_use |-> Len(ranges), ranges |-> << >>],
             ranges)

-----------------------------------------------------------------------------
(* Mutant: the last mask is missing. *)
PaddingUnmasked(start, align) == align - (start % align)

(* `(align - (start & mask)) & mask`. *)
Padding(start, align) == (align - (start % align)) % align

(* `start.wrapping_add(mask) & !mask`. *)
AlignUp(start, align) ==
    LET sum == (start + align - 1) % (MaxAddr + 1) IN sum - (sum % align)

(* The regions that have room for the allocation inside of `entry`, by     *)
(* index, and the start of it in one of them.                              *)
Aligned(entry, region, align) == AlignUp(Overlap(entry, region).start, align)
Roomy(entry, size, align, regions) ==
    {i \in DOMAIN regions :
        LET aligned == Aligned(entry, regions[i], align)
            overlap == Overlap(entry, regions[i])
        IN  /\ Overlaps(entry, regions[i])
            /\ aligned \in overlap.start .. overlap.end
            /\ overlap.end - aligned >= size - 1}

(* allocate_prefer() has come to `entry`: the search ends with nothing     *)
(* when the end of the allocation overflows, ends with the first preferred *)
(* region in a large enough entry, and remembers the smallest fit else.    *)
SearchStep(acc, entry, size, align, regions) ==
    LET padding == Padding(entry.start, align)
        end == entry.start + (size - 1) + padding
        roomy == Roomy(entry, size, align, regions)
        aligned == Aligned(entry, regions[Min(roomy)], align)
    IN
    CASE acc.loop # "run" -> acc
      [] end > MaxAddr -> [loop |-> "return", found |-> << >>]
      [] end > entry.end -> acc
      [] roomy # {} ->
            [loop |-> "break",
             found |-> <<[range |-> MkRange(aligned, aligned + (size - 1)),
                          ptr |-> aligned]>>]
      [] acc.found = << >>
            \/ acc.found[1].range.end - acc.found[1].range.start > end - entry.start ->
            [acc EXCEPT !.found = <<[range |-> MkRange(entry.start, end),
                                     ptr |-> entry.start + padding]>>]
      [] OTHER -> acc

(* The set of regions is empty when there is no preference.  The size is   *)
(* not zero and the alignment is a power of two: the others are refused.   *)
(* remove().unwrap() panics if the array has no room for a split.          *)
AllocatePrefer(ranges, size, align, regions) ==
    LET Step(acc, entry) == SearchStep(acc, entry, size, align, regions)
        found == Seqs!FoldLeft(Step, [loop |-> "run", found |-> << >>], ranges).found
        removed == Remove(ranges, found[1].range)
    IN  CASE found = << >> -> [res |-> "None", ptr |-> 0, ranges |-> ranges]
          [] ~removed.ok -> [res |-> "panic", ptr |-> 0, ranges |-> removed.ranges]
          [] OTHER -> [res |-> "Some", ptr |-> found[1].ptr, ranges |-> removed.ranges]

-----------------------------------------------------------------------------
(* What a range set stands for: the addresses in it. *)
Covered(ranges) == UNION {ranges[i].start .. ranges[i].end : i \in DOMAIN ranges}

(* "Non-overlapping sets of inclusive ranges", sorted and within bounds. *)
WellFormedRanges(ranges) ==
    /\ Len(ranges) <= Capacity
    /\ \A i \in DOMAIN ranges : ranges[i].start <= ranges[i].end
    /\ \A i \in 1 .. Len(ranges) - 1 : ranges[i].end < ranges[i + 1].start

=============================================================================
