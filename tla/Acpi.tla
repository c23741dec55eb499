-------------------------------- MODULE Acpi --------------------------------
(***************************************************************************)
(* kernel/src/acpi: the tables of the firmware, read once by the first     *)
(* core, and what becomes of them: the preferred memory of each core       *)
(* (register_numa() and mem_range() of mm.rs) and the cores to launch      *)
(* (init_system() of apic/system.rs).                                      *)
(*                                                                         *)
(* A table is its signature and the sequence of its entries.  An entry has *)
(* the fields that are read of any type; `len` is the length it claims.    *)
(* An error is a result "Err", an assertion or a bad index "panic".        *)
(***************************************************************************)
EXTENDS RangeSet, TLC

ENABLED_ == "ENABLED"     \* the name is a keyword of TLA+
ONLINE_CAPABLE == "ONLINE_CAPABLE"

\* parse_table_entries() can step from each entry to the next.
ParseTableEntries(entries) == \A i \in DOMAIN entries : entries[i].len >= 2

-----------------------------------------------------------------------------
(* The processors: MADT *)

\* The types that are read, with the length they must have.
MadtTypes == (0 :> 8) @@ (9 :> 16)

MadtParse(entries) ==
    LET Bad(entry) == entry.typ \in DOMAIN MadtTypes /\ entry.len # MadtTypes[entry.typ]
        Usable(entry) == /\ entry.typ \in DOMAIN MadtTypes
                         /\ entry.flags \cap {ENABLED_, ONLINE_CAPABLE} # {}
        usable == Seqs!FoldLeft(LAMBDA apics, entry :
                        IF Usable(entry) THEN Append(apics, entry.id) ELSE apics,
                        << >>, entries)
    IN  IF ~ParseTableEntries(entries) \/ \E i \in DOMAIN entries : Bad(entries[i])
        THEN [res |-> "Err", apics |-> << >>]
        ELSE [res |-> "Ok", apics |-> usable]

-----------------------------------------------------------------------------
(* The memory domains: SRAT *)

SratTypes == (0 :> 16) @@ (1 :> 40) @@ (2 :> 24)

\* An enabled entry of type 1: its range goes into the ranges of the domain.
AddMemory(srat, entry) ==
    LET md == srat.domain_to_ranges
        end == entry.start + (entry.length - 1)
        old == IF entry.domain \in DOMAIN md THEN md[entry.domain] ELSE << >>
        inserted == Insert(old, MkRange(entry.start, end))
    IN  IF end > MaxAddr \/ ~inserted.ok THEN [srat EXCEPT !.res = "Err"]
        ELSE [srat EXCEPT !.domain_to_ranges = (entry.domain :> inserted.ranges) @@ @]

SratStep(srat, entry) ==
    CASE srat.res # "Ok" -> srat
      [] entry.typ \notin DOMAIN SratTypes -> [srat EXCEPT !.res = "panic"]
      [] entry.typ \in DOMAIN SratTypes /\ entry.len # SratTypes[entry.typ] ->
            [srat EXCEPT !.res = "Err"]
      [] ENABLED_ \notin entry.flags \/ (entry.typ = 1 /\ entry.length = 0) -> srat
      [] entry.typ = 1 -> AddMemory(srat, entry)
      [] OTHER -> [srat EXCEPT !.apic_to_domain = (entry.id :> entry.domain) @@ @]

NoSrat == [res |-> "Ok", apic_to_domain |-> << >>, domain_to_ranges |-> << >>]
SratParse(entries) ==
    IF ~ParseTableEntries(entries) THEN [NoSrat EXCEPT !.res = "Err"]
    ELSE Seqs!FoldLeft(SratStep, NoSrat, entries)

-----------------------------------------------------------------------------
(* What the kernel makes of them *)

\* md.remove(key): the ranges, and the map without them. << >> is None.
TakeRanges(md, key) ==
    [ranges |-> IF key \in DOMAIN md THEN md[key] ELSE << >>,
     md |-> [d \in DOMAIN md \ {key} |-> md[d]]]

\* register_numa(): a core of a domain gets the memory of the domain, in the
\* order of the APIC IDs.
RegisterNumaById(ad, md, max_id) ==     \* Mutant: the ID is taken for the domain
    LET Step(acc, apic) ==
            LET taken == TakeRanges(acc.md, apic) IN
            [mappings |-> (apic :> taken.ranges) @@ acc.mappings, md |-> taken.md]
        none == [apic \in 0 .. max_id |-> << >>]
    IN  IF max_id = 0 \/ \E apic \in DOMAIN ad : apic > max_id
        THEN [res |-> "panic", mappings |-> none]
        ELSE [res |-> "Ok",
              mappings |-> Seqs!FoldLeft(Step, [mappings |-> none, md |-> md],
                               Seqs!SetToSortSeq(DOMAIN ad, LAMBDA a, b : a < b)).mappings]
RegisterNuma(ad, md, max_id) ==
    LET Step(acc, apic) ==
            LET taken == TakeRanges(acc.md, ad[apic]) IN
            [mappings |-> (apic :> taken.ranges) @@ acc.mappings, md |-> taken.md]
        none == [apic \in 0 .. max_id |-> << >>]
    IN  IF max_id = 0 \/ \E apic \in DOMAIN ad : apic > max_id
        THEN [res |-> "panic", mappings |-> none]
        ELSE [res |-> "Ok",
              mappings |-> Seqs!FoldLeft(Step, [mappings |-> none, md |-> md],
                               Seqs!SetToSortSeq(DOMAIN ad, LAMBDA a, b : a < b)).mappings]

\* init_system(), with the launches in order; each ends with the core online.
InitSystem(apics, cur_id, max_id) ==
    [res |-> IF cur_id > max_id THEN "panic" ELSE "Ok",
     total_cores |-> Len(apics),
     launched |-> SelectSeq(apics, LAMBDA id : id # cur_id)]

\* One table of the loop of init(): a table of the same kind is replaced, an
\* error returns.
TableStep(acc, table) ==
    LET madt == MadtParse(table.entries)
        srat == SratParse(table.entries)
    IN  CASE acc.res # "Ok" -> acc
          [] table.sig = "APIC" -> [acc EXCEPT !.res = madt.res, !.madt = <<madt>>]
          [] table.sig = "SRAT" -> [acc EXCEPT !.res = srat.res, !.srat = <<srat>>]
          [] OTHER -> acc

ReadTables(tables) ==
    Seqs!FoldLeft(TableStep, [res |-> "Ok", madt |-> << >>, srat |-> << >>], tables)

\* The rest of init(), with what the tables gave.
AcpiInit(read, cur_id) ==
    LET apics == IF read.madt = << >> THEN << >> ELSE read.madt[1].apics
        max_id == Max({0} \cup {apics[i] : i \in DOMAIN apics})
        srat == IF read.srat = << >> THEN NoSrat ELSE read.srat[1]
        numa == IF read.srat = << >> THEN [res |-> "Ok", mappings |-> << >>]
                ELSE RegisterNuma(srat.apic_to_domain, srat.domain_to_ranges, max_id)
        system == IF read.madt = << >> THEN [res |-> "Ok", total_cores |-> 0, launched |-> << >>]
                  ELSE InitSystem(apics, cur_id, max_id)
    IN  [res |-> IF read.res # "Ok" THEN read.res
                 ELSE IF numa.res # "Ok" THEN numa.res ELSE system.res,
         max_id |-> max_id, srat |-> srat, numa |-> numa, system |-> system]

\* mem_range(), on a core that has an APIC ID; << >> before register_numa().
MemRange(mappings, apic_id) == IF mappings = << >> THEN << >> ELSE mappings[apic_id]

-----------------------------------------------------------------------------
(* Properties of one boot, the result of AcpiInit, against what the        *)
(* entries of the tables say                                               *)

Listed(entries, types) ==
    {entries[i] : i \in {j \in DOMAIN entries : entries[j].typ \in types}}
MemoryOf(entries, domain) ==
    UNION {e.start .. (e.start + e.length - 1) :
              e \in {f \in Listed(entries, {1}) : f.domain = domain /\ ENABLED_ \in f.flags}}

\* The domain that a core is in: the last enabled entry counts.
Cores(entries) == {e.id : e \in {f \in Listed(entries, {0, 2}) : ENABLED_ \in f.flags}}
DomainOf(entries, apic) ==
    entries[Max({i \in DOMAIN entries : /\ entries[i].typ # 1 /\ entries[i].id = apic
                                        /\ ENABLED_ \in entries[i].flags})].domain

\* mem_range() of a core is exactly the memory of its own domain or nothing,
\* and the memory of a domain with cores is preferred by one core of it, so
\* that register_numa() neither loses a domain nor gives it out twice.
PrefersOwnDomain(tables, boot) ==
    LET entries == tables[CHOOSE i \in DOMAIN tables : tables[i].sig = "SRAT"].entries
        Prefers(apic) == Covered(MemRange(boot.numa.mappings, apic))
    IN  boot.res = "Ok" =>
            /\ \A apic \in 0 .. boot.max_id :
                  Prefers(apic) # {} =>
                      apic \in Cores(entries) /\ Prefers(apic) = MemoryOf(entries, DomainOf(entries, apic))
            /\ \A apic \in Cores(entries) :
                  MemoryOf(entries, DomainOf(entries, apic)) # {} =>
                      Cardinality({c \in Cores(entries) :
                          DomainOf(entries, c) = DomainOf(entries, apic) /\ Prefers(c) # {}}) = 1

\* If the first core is listed once then the cores to launch are the other
\* usable ones, all within the tables that are indexed by APIC ID, and the
\* number that check_in() waits for is the number of calls to it.
CountsCores(tables, cur_id, boot) ==
    LET entries == tables[CHOOSE i \in DOMAIN tables : tables[i].sig = "APIC"].entries
        usable == {i \in DOMAIN entries : entries[i].typ \in {0, 9} /\ entries[i].flags # {}}
        launched == boot.system.launched
    IN  boot.res = "Ok" /\ Cardinality({i \in usable : entries[i].id = cur_id}) = 1 =>
            /\ {launched[i] : i \in DOMAIN launched} = {entries[i].id : i \in usable} \ {cur_id}
            /\ \A i \in usable : entries[i].id <= boot.max_id
            /\ boot.system.total_cores = Len(launched) + 1
=============================================================================
