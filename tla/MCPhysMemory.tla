---------------------------- MODULE MCPhysMemory ----------------------------
(* Eight addresses of memory; the start of it and a hole in it are         *)
(* reserved, and a NUMA domain has two regions of it. For the tables of    *)
(* the firmware: processors 0, 1 and 3 in two domains, listed in all ways. *)
EXTENDS PhysMemory, Acpi

MCMemory == 0 .. 7
MCReserved == <<MkRange(0, 0), MkRange(4, 4)>>
MCPreferences == {<<MkRange(2, 3), MkRange(6, 7)>>, <<MkRange(1, 5)>>}

Entry(typ, len, id, flags, domain, start, length) ==
    [typ |-> typ, len |-> len, id |-> id, flags |-> flags, domain |-> domain,
     start |-> start, length |-> length]
Processor(typ, len, id, flags) == Entry(typ, len, id, flags, 0, 0, 0)
MadtEntries ==
    {Processor(0, 8, 0, {ENABLED_}), Processor(0, 8, 1, {ENABLED_}), Processor(0, 8, 1, {}),
     Processor(9, 16, 3, {ONLINE_CAPABLE}), Processor(1, 12, 3, {}), Processor(9, 8, 1, {ENABLED_}),
     Processor(5, 0, 0, {})}
Affinity(typ, len, id, domain) == Entry(typ, len, id, {ENABLED_}, domain, 0, 0)
MemoryAt(flags, domain, start, length) == Entry(1, 40, 0, flags, domain, start, length)
SratEntries ==
    {Affinity(0, 16, 0, 0), Affinity(0, 16, 1, 0), Affinity(0, 16, 1, 1), Affinity(2, 24, 3, 0),
     MemoryAt({ENABLED_}, 0, 0, 4), MemoryAt({ENABLED_}, 0, 2, 4), MemoryAt({ENABLED_}, 1, 8, 2),
     MemoryAt({}, 1, 12, 2), MemoryAt({ENABLED_}, 0, 12, 8), Processor(7, 16, 0, {})}
Tables(sig, entries, n) ==
    {[sig |-> sig, entries |-> e] : e \in UNION {[1 .. k -> entries] : k \in 0 .. n}}
Firmware ==
    LET madts == Tables("APIC", MadtEntries, 3)
        srats == Tables("SRAT", SratEntries, 3)
        plain == [sig |-> "APIC", entries |-> <<Processor(0, 8, 0, {ENABLED_}),
                                                Processor(9, 16, 3, {ENABLED_})>>]
        fixed == [sig |-> "SRAT", entries |-> <<Affinity(0, 16, 1, 1), MemoryAt({ENABLED_}, 1, 8, 2)>>]
    IN  {<<plain, srat>> : srat \in srats} \cup {<<fixed, madt>> : madt \in madts}

\* Whatever the tables of the firmware list, a core prefers memory of its own
\* domain only (register_numa()), each domain has one core that prefers it, and
\* check_in() waits for as many cores as there are to check in (init_system()).
TablesUnderstood ==
    Init => \A tables \in Firmware :
            \A read \in {ReadTables(tables)} : \A boot \in {AcpiInit(read, 0)} :
                PrefersOwnDomain(tables, boot) /\ CountsCores(tables, 0, boot)
=============================================================================
