----------------------------- MODULE MCDevices ------------------------------
(* A firmware, a bus and frames of small size for the module Devices.      *)
EXTENDS Devices

(* Entries of a MADT, with the lengths that ACPI gives them.               *)
MCEntries ==
  { [type |-> 0, length |-> 8], [type |-> 1, length |-> 12, addr |-> 1],
    [type |-> 1, length |-> 12, addr |-> 2], [type |-> 5, length |-> 12, addr |-> 3],
    [type |-> 2, length |-> 10, source |-> 9, gsi |-> 20],
    [type |-> 2, length |-> 10, source |-> 10, gsi |-> 10] }

MCApic(entries) ==
  [signature |-> "APIC", lapic |-> 4, list |-> entries, memory |-> MemoryOf(entries)]
MCHpet(n) == [signature |-> "HPET", count |-> n]
MCMcfg == [signature |-> "MCFG"]

MCTables == {MCApic(s) : s \in UNION {[1 .. n -> MCEntries] : n \in 0 .. 3}}
MCShort == {MCApic(s) : s \in UNION {[1 .. n -> MCEntries] : n \in 0 .. 1}}

(* One MADT, two or none, among the other tables, which may be missing.    *)
MCFirmware ==
  {XsdtOf(<<MCMcfg, a, MCHpet(2)>>) : a \in MCTables}
    \cup {XsdtOf(<<a, MCHpet(n), MCHpet(2), b, MCMcfg>>) : a \in MCShort, b \in MCShort, n \in {0, 2, 18}}
    \cup {XsdtOf(<<MCHpet(2), MCMcfg>>), XsdtOf(<<MCMcfg>>), XsdtOf(<<MCHpet(2)>>)}

MCTimers ==
  [count : {0, 2, 18}, line2 : BOOLEAN, canRepeat : BOOLEAN, route : {0, 2}, periodic : {FALSE}, enabled : {FALSE}]

(* Functions: a NIC on a line with a mapping or on one without, another    *)
(* device with a capability list, or nothing.                              *)
MCNic(line, multi) == [vendor |-> "rtl8139", multi |-> multi, line |-> line, capPtr |-> 0, caps |-> <<>>]
MCOther(multi) ==
  [vendor |-> "other", multi |-> multi, line |-> 9, capPtr |-> 80,
   caps |-> [p \in {80} |-> [id |-> 5, next |-> 0]]]
MCNone == [vendor |-> "none"]

(* Two devices of two functions each.                                      *)
MCSpaces ==
  {[b \in BDF |-> CASE b = <<0, 0, 0>> -> f[1] [] b = <<0, 0, 1>> -> f[2]
                     [] b = <<0, 1, 0>> -> f[3] [] OTHER -> f[4]] :
     f \in {MCNic(9, TRUE), MCNic(11, FALSE), MCOther(TRUE), MCOther(FALSE), MCNone}
          \X {MCNic(10, FALSE), MCOther(FALSE), MCNone}
          \X {MCNic(9, FALSE), MCOther(TRUE), MCNone}
          \X {MCNic(10, FALSE), MCNone}}

MCMac == <<2, 2>>
MCMe == <<40>>

MCFrame(tags, type, op, sha, tpa, pad) ==
  [dest |-> <<3, 3>>, src |-> <<1, 1>>, tags |-> tags, type |-> type, op |-> <<0, op>>,
   sha |-> sha, spa |-> <<41>>, tha |-> <<0, 0>>, tpa |-> tpa, pad |-> pad]

MCTags == {<<>>, << <<0, 5>>, <<129, 0>> >>}
MCPad == <<0, 0>>

(* ARP packets of two senders, for this address and another, padded to the *)
(* shortest frame or too short, with up to two VLAN tags, replies, and     *)
(* frames that are not ARP.                                                *)
MCFrames ==
  {MCFrame(tags, ArpType, 1, <<1, 1>>, tpa, MCPad) : tags \in MCTags, tpa \in {MCMe, <<42>>}}
    \cup {MCFrame(<<>>, ArpType, 2, <<4, 5>>, MCMe, pad) : pad \in {<<>>, MCPad}}
    \cup {MCFrame(tags, <<8, 0>>, 1, <<1, 1>>, MCMe, MCPad) : tags \in MCTags}

=============================================================================
