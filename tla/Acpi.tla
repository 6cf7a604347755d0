-------------------------------- MODULE Acpi --------------------------------
(***************************************************************************)
(* The ACPI tables (drivers/acpi.rs).  A table's variable part is memory:  *)
(* a sequence of cells in which an entry stands in the cell it starts at   *)
(* and "data" in the other cells of its length, so that a walk by lengths  *)
(* can go astray.                                                          *)
(***************************************************************************)
EXTENDS Lists

(* The XSDT's pointers: _parse_xsdt takes their number from its length.    *)
XsdtLen(xsdt) == (xsdt.length - 36) \div 8

(* What the firmware writes: an XSDT of tables, and entries in memory.     *)
XsdtOf(tables) == [length |-> 36 + 8 * Len(tables), entry |-> tables]
Cells(e) == <<e>> \o [i \in 1 .. e.length - 1 |-> "data"]
MemoryOf(entries) == Flatten([i \in DOMAIN entries |-> Cells(entries[i])])

-----------------------------------------------------------------------------
NoMadt == [lapic |-> 0, ioapic |-> 0, mappings |-> <<>>]

(* One round of _parse_madt's loop for the entry e: type 1 is an I/O APIC, *)
(* 2 an interrupt source override, 5 a local APIC address override.        *)
MadtEntry(info, e) ==
  CASE e.type = 1 -> [info EXCEPT !.ioapic = e.addr]
    [] e.type = 2 -> [info EXCEPT !.mappings = Append(@, [irq |-> e.source, gsi |-> e.gsi])]
    [] e.type = 5 -> [info EXCEPT !.lapic = e.addr]
    [] OTHER      -> info

(* Faulty variant: the walk stops one entry early.                         *)
WalkShort(memory, head, info) ==
  LET done[k \in Nat] ==
        IF k = 0 THEN [head |-> head, info |-> info]
        ELSE LET s == done[k - 1] IN
             IF s.head > Len(memory) \/ s.head + memory[s.head].length > Len(memory) THEN s
             ELSE [head |-> s.head + memory[s.head].length, info |-> MadtEntry(s.info, memory[s.head])]
  IN  done[Len(memory)].info

(* The loop of _parse_madt over [head, tail), by its rounds.  No entry is  *)
(* shorter than a cell, so there are no more rounds than cells.            *)
Walk(memory, head, info) ==
  LET done[k \in Nat] ==
        IF k = 0 THEN [head |-> head, info |-> info]
        ELSE LET s == done[k - 1] IN
             IF s.head > Len(memory) THEN s
             ELSE [head |-> s.head + memory[s.head].length, info |-> MadtEntry(s.info, memory[s.head])]
  IN  done[Len(memory)].info

ParseMadtTable(table) == Walk(table.memory, 1, [NoMadt EXCEPT !.lapic = table.lapic])

(* parse_madt: the last table with the signature "APIC" counts.            *)
parse_madt(xsdt) ==
  LET done[k \in 0 .. XsdtLen(xsdt)] ==
        IF k = 0 THEN NoMadt
        ELSE IF xsdt.entry[k].signature = "APIC" THEN ParseMadtTable(xsdt.entry[k]) ELSE done[k - 1]
  IN  done[XsdtLen(xsdt)]

Err == [signature |-> ""]

(* parse_hpet and parse_mcfg: the first table with the signature, or Err.  *)
FirstTable(xsdt, signature) ==
  LET hits == {i \in 1 .. XsdtLen(xsdt) : xsdt.entry[i].signature = signature}
  IN IF hits = {} THEN Err ELSE xsdt.entry[CHOOSE i \in hits : \A j \in hits : i <= j]

(* _parse_hpet keeps four of the five bits of the number of comparators.   *)
ParseHpetTable(table) == [count |-> table.count % 16]

=============================================================================
