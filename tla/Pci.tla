-------------------------------- MODULE Pci ---------------------------------
(***************************************************************************)
(* PCI enumeration (drivers/pci.rs).  The configuration space is a         *)
(* function from bus, device and function numbers to what is there: the    *)
(* vendor ("none" for 0xffff), header type bit 7 (multi), the interrupt    *)
(* line, the byte at 0x34 (capPtr, 0 when the status register shows no     *)
(* list) and the capability list (caps, from offsets to [id, next]).       *)
(***************************************************************************)
EXTENDS Lists

CONSTANTS
  NBus,   \* Buses, 256 in the code.
  NDev,   \* Devices of a bus, 32 in the code.
  NFun    \* Functions of a device, 8 in the code.

ASSUME PciAssumption ==
  NBus \in Nat \ {0} /\ NDev \in Nat \ {0} /\ NFun \in Nat \ {0}

BDF == (0 .. NBus - 1) \X (0 .. NDev - 1) \X (0 .. NFun - 1)

CAP_PTR == 52
MSI == 5

(* Identifier and next pointer, the low bytes of the word at ptr.  At 0x34 *)
(* the low byte is the pointer to the list and the next one is reserved.   *)
ReadCapability(f, ptr) ==
  IF ptr = CAP_PTR THEN [id |-> f.capPtr, next |-> 0] ELSE f.caps[ptr]

(* The loop of visit_configuration_space.                                  *)
FindMsi(f, ptr) ==
  LET find[p \in Nat] ==
        IF p = 0 \/ ReadCapability(f, p).id = MSI THEN p ELSE find[ReadCapability(f, p).next]
  IN  find[ptr]

(* visit_configuration_space: at most one device.                          *)
PciDevice(space, bdf) ==
  [bdf |-> bdf, vendor |-> space[bdf].vendor, line |-> space[bdf].line,
   msi |-> IF space[bdf].capPtr = 0 THEN 0 ELSE FindMsi(space[bdf], CAP_PTR)]
Visit(space, bdf) ==
  IF space[bdf].vendor = "none" THEN <<>> ELSE << PciDevice(space, bdf) >>

(* A device of enumerate_pci_bus: all functions of one that has several,   *)
(* then function 0, for the second time.                                   *)
VisitDevice(space, b, d) ==
  LET first == Visit(space, <<b, d, 0>>)
      functions == Flatten([i \in 1 .. NFun |-> Visit(space, <<b, d, i - 1>>)])
  IN IF first = <<>> THEN <<>>
     ELSE (IF space[<<b, d, 0>>].multi THEN functions ELSE <<>>) \o first

EnumeratePciBus(space) ==
  Flatten([b \in 1 .. NBus |->
                Flatten([d \in 1 .. NDev |-> VisitDevice(space, b - 1, d - 1)])])

(* get_device: the matching devices are taken out, in their order.         *)
ExtractIf(devices, vendor) ==
  LET done[k \in 0 .. Len(devices)] ==
        IF k = 0 THEN [taken |-> <<>>, left |-> <<>>]
        ELSE IF devices[k].vendor = vendor
             THEN [done[k - 1] EXCEPT !.taken = Append(@, devices[k])]
             ELSE [done[k - 1] EXCEPT !.left = Append(@, devices[k])]
  IN  done[Len(devices)]

=============================================================================
