------------------------------ MODULE Devices -------------------------------
(***************************************************************************)
(* From the firmware's tables to a reply on the network: start() (main.rs) *)
(* reads the ACPI tables, sets up the HPET, enumerates the PCI bus and     *)
(* initialises the NICs; then the driver's bottom half, its interrupt      *)
(* handler and the network stack access the NIC's registers, each time     *)
(* looking its address up in PCI configuration space, and the network      *)
(* stack answers ARP requests.                                             *)
(*                                                                         *)
(* The firmware's tables and the devices are chosen when they are first    *)
(* read, and forgotten when no later code looks at them.                   *)
(***************************************************************************)
EXTENDS Acpi, Pci, Arp

CONSTANTS
  Firmware,    \* XSDTs that the firmware may hand over.
  Timers,      \* HPETs there may be.
  Spaces,      \* PCI configuration spaces there may be.
  Frames,      \* Frames that may be received, as records of their fields.
  Mac,         \* The NIC's hardware address.
  Me,          \* The protocol address the network stack answers for.
  TxBufs,      \* Transmit buffers, 4 in the code.
  TxBufSize    \* Length of a transmit buffer, 1530 in the code.

ASSUME DevicesAssumption == Len(Mac) = MacLen /\ TxBufs \in Nat \ {0}

VARIABLES
  stage,      \* What start() does next; "run" after it, "panic" for good.
  xsdt,       \* The firmware's tables.
  madt,       \* What parse_madt returned.
  timer,      \* The HPET's first timer and the number of comparators.
  space,      \* The PCI configuration space.
  devices,    \* PCI.devices.
  todo,       \* Devices that rtl8139::init has still to initialise.
  buffers,    \* For a NIC, the instance whose buffers its registers hold.
  nics,       \* NICS: for a NIC, the instance that drives it.
  interfaces, \* NETWORK_STACK's keys.
  entry,      \* I/O APIC entries that are routed to the NICs' vector.
  config,     \* CONFIG_ADDRESS: a device and a register.
  reader,     \* The bottom half's access to a register.
  txBufs,     \* The transmit buffers.
  nextTx,     \* next_tx_desc.
  answered    \* The frame last handled and the frame sent for it.

bootVars == <<xsdt, madt, timer>>
nicVars == <<devices, todo, buffers, nics, interfaces, entry>>
frameVars == <<txBufs, nextTx, answered>>
vars == <<stage, bootVars, space, nicVars, config, reader, frameVars>>

NoReader == [pc |-> "idle"]

(* CONFIG_ADDRESS after an access to a register of the NIC n: the last     *)
(* thing that ioaddr() reads is BAR 0.                                     *)
LeavesConfig(n) == [bdf |-> n, register |-> "BAR0"]

(* Faulty variant: the handler also reads the status register.             *)
HandlerReadsStatus(n) == [bdf |-> n, register |-> "STATUS"]

HandlerLeavesConfig(n) == LeavesConfig(n)

Init ==
  /\ stage = "madt"
  /\ xsdt = "none" /\ madt = NoMadt /\ timer = "none" /\ space = "none"
  /\ devices = <<>> /\ todo = <<>>
  /\ buffers = <<>> /\ nics = <<>> /\ interfaces = {} /\ entry = {}
  /\ config = "none" /\ reader = NoReader
  /\ txBufs = [i \in 0 .. TxBufs - 1 |-> [j \in 1 .. TxBufSize |-> 255]]
  /\ nextTx = 0 /\ answered = [handled |-> FALSE]

-----------------------------------------------------------------------------
(* start().                                                                *)

ParseMadt ==
  /\ stage = "madt"
  /\ \E x \in Firmware : xsdt' = x /\ madt' = parse_madt(x)
  /\ stage' = "mcfg"
  /\ UNCHANGED <<timer, space, nicVars, config, reader, frameVars>>

ParseMcfg ==
  /\ stage = "mcfg"
  /\ stage' = IF FirstTable(xsdt, "MCFG") = Err THEN "panic" ELSE "hpet"
  /\ UNCHANGED <<bootVars, space, nicVars, config, reader, frameVars>>

(* Bits 9 and 10 of the timer's configuration, the line: 2 is or-ed in.    *)
RouteToLine2(route) == (route % 2) + 2

(* from_acpi: the number of comparators in the ACPI table must be the one  *)
(* of the device, as must two flags that table and device share.           *)
FromAcpi(info, t) == info.count = t.count % 32

(* timer_routing_capability of timer 0.  The number is the index of the    *)
(* last timer, and the driver finds no timer 0 when it is 0.               *)
TimerRoutes(info, t) == info.count > 0 /\ t.line2

(* The assertions of hpet::init.                                           *)
HpetAsserts(info, t) == FromAcpi(info, t) /\ TimerRoutes(info, t) /\ t.canRepeat

(* The configuration that set_timer_config writes.                         *)
HpetConfigure(t) == [t EXCEPT !.route = RouteToLine2(@), !.periodic = TRUE, !.enabled = TRUE]

HpetInit ==
  /\ stage = "hpet"
  /\ LET table == FirstTable(xsdt, "HPET")
     IN \/ table = Err /\ stage' = "panic" /\ UNCHANGED timer
        \/ /\ table # Err
           /\ \E t \in Timers :
                /\ t.count = table.count
                /\ IF HpetAsserts(ParseHpetTable(table), t)
                     THEN stage' = "pci" /\ timer' = HpetConfigure(t)
                     ELSE stage' = "panic" /\ timer' = t
  /\ xsdt' = "none"
  /\ UNCHANGED <<madt, space, nicVars, config, reader, frameVars>>

(* pci::init                                                               *)
PciInit ==
  /\ stage = "pci"
  /\ \E s \in Spaces : space' = s /\ devices' = EnumeratePciBus(s)
  /\ stage' = "nics"
  /\ timer' = "none" /\ madt' = [NoMadt EXCEPT !.mappings = madt.mappings]
  /\ UNCHANGED <<xsdt, todo, buffers, nics, interfaces, entry, config, reader, frameVars>>

(* rtl8139::init: the devices are taken from PCI, then initialised in      *)
(* turn, under the locks PCI and NICS.                                     *)
GetDevices ==
  /\ stage = "nics"
  /\ todo' = ExtractIf(devices, "rtl8139").taken
  /\ devices' = ExtractIf(devices, "rtl8139").left
  /\ stage' = "nic"
  /\ UNCHANGED <<bootVars, space, buffers, nics, interfaces, entry, config, reader, frameVars>>

(* The first mapping of the device's interrupt line; without one the       *)
(* NIC's interrupt is not routed.                                          *)
LineEntry(line) ==
  {madt.mappings[i].gsi : i \in {k \in DOMAIN madt.mappings :
     madt.mappings[k].irq = line /\ \A j \in 1 .. k - 1 : madt.mappings[j].irq # line}}

(* insert of a map: what the key had before is replaced.                   *)
Insert(map, key, value) ==
  [k \in DOMAIN map \cup {key} |-> IF k = key THEN value ELSE map[k]]

(* Faulty variant: an instance that is there is kept in NICS.              *)
InsertNicOnce(bdf, instance) ==
  /\ nics' = IF bdf \in DOMAIN nics THEN nics ELSE Insert(nics, bdf, instance)
  /\ interfaces' = interfaces \cup {bdf}

(* NICS and NETWORK_STACK, maps by bus, device and function.               *)
InsertNic(bdf, instance) ==
  /\ nics' = Insert(nics, bdf, instance)
  /\ interfaces' = interfaces \cup {bdf}

(* RTL8139::init gives the NIC the new instance's buffers; the handler's   *)
(* entry is routed and the instance inserted.                              *)
InitNic ==
  /\ stage = "nic" /\ todo # <<>>
  /\ LET d == Head(todo)
         instance == Len(todo)
     IN /\ buffers' = Insert(buffers, d.bdf, instance)
        /\ entry' = entry \cup LineEntry(d.line)
        /\ InsertNic(d.bdf, instance)
        /\ config' = LeavesConfig(d.bdf)
  /\ todo' = Tail(todo)
  /\ UNCHANGED <<stage, bootVars, space, devices, reader, frameVars>>

(* start() prints the number of NICs and goes on.  From here on it does    *)
(* not matter which instance drives a NIC.                                 *)
NicsDone ==
  /\ stage = "nic" /\ todo = <<>>
  /\ stage' = "run"
  /\ madt' = NoMadt /\ space' = "none" /\ devices' = <<>> /\ entry' = {}
  /\ buffers' = <<>> /\ nics' = [n \in DOMAIN nics |-> 0]
  /\ UNCHANGED <<xsdt, timer, todo, interfaces, config, reader, frameVars>>

-----------------------------------------------------------------------------
(* Register accesses.  ioaddr() reads the header type and then BAR 0, each *)
(* by a write of CONFIG_ADDRESS and a read of CONFIG_DATA.  The bottom     *)
(* half does so with interrupts on: the handler, or a task it is preempted *)
(* by, may use CONFIG_ADDRESS between the two.                             *)

(* CONFIG_DATA, as far as it is the address of a device's ports.           *)
PortBase == IF config.register = "BAR0" THEN config.bdf ELSE <<>>

(* The bottom half's inw or inb: read_header_type, then BAR 0 if the type  *)
(* is 0, then the port that BAR 0 gives.                                   *)
ReaderStart ==
  /\ stage = "run" /\ reader.pc = "idle"
  /\ \E n \in DOMAIN nics :
       /\ config' = [bdf |-> n, register |-> "HEADER_TYPE"]
       /\ reader' = [pc |-> "type", nic |-> n]
  /\ UNCHANGED <<stage, bootVars, space, nicVars, frameVars>>

(* The type is 0 for a NIC.  If CONFIG_ADDRESS is at BAR 0 by now, the     *)
(* same bits are 0 too, for an I/O address has 16 bits.                    *)
ReaderType ==
  /\ reader.pc = "type"
  /\ reader' = [reader EXCEPT !.pc = "bar"]
  /\ UNCHANGED <<stage, bootVars, space, nicVars, config, frameVars>>

ReaderBar ==
  /\ reader.pc = "bar"
  /\ config' = LeavesConfig(reader.nic)
  /\ reader' = [reader EXCEPT !.pc = "port"]
  /\ UNCHANGED <<stage, bootVars, space, nicVars, frameVars>>

ReaderPort ==
  /\ reader.pc = "port"
  /\ reader' = [pc |-> "idle", nic |-> reader.nic, port |-> PortBase]
  /\ UNCHANGED <<stage, bootVars, space, nicVars, config, frameVars>>

(* rtl8139_handler with interrupts off: every NIC's ISR is read and        *)
(* written, so CONFIG_ADDRESS is left at the last NIC of NICS.             *)
Handler ==
  /\ stage = "run"
  /\ \E n \in DOMAIN nics : config' = HandlerLeavesConfig(n)
  /\ UNCHANGED <<stage, bootVars, space, nicVars, reader, frameVars>>

-----------------------------------------------------------------------------
(* handle_frame, with transmit, under a buffer's lock.                     *)

(* What a sender puts on the wire for a frame that holds an ARP packet.    *)
WireFormat(f) ==
  f.dest \o f.src \o TagBytes(f.tags) \o f.type
    \o <<0, 1, 8, 0, Len(f.sha), Len(f.spa)>> \o f.op \o f.sha \o f.spa \o f.tha \o f.tpa \o f.pad
Crc == <<9, 9, 9, 9>>

(* The frame is valid, ARP, and for this protocol address; the opcode is   *)
(* not looked at.                                                          *)
Answers(b) ==
  /\ TryFromBytes(b)
  /\ EtherType(b) = ArpType
  /\ TargetProtocol(Payload(b)) = Me

(* transmit: the next buffer, whatever it holds, gets the header and what  *)
(* the writer puts after it.                                               *)
TransmitIn(buf, dest, request) ==
  LET head == Header(buf, dest, Mac, <<>>, ArpType)
      rest == Slice(head.buf, head.pos, Len(head.buf) - head.pos)
      arp == ReplyWriter(rest, request, Mac)
  IN [buf |-> Put(head.buf, head.pos, arp.buf),
      frame |-> FrameOf([head EXCEPT !.buf = Put(head.buf, head.pos, arp.buf)], arp.pos)]

HandleFrame ==
  /\ stage = "run"
  /\ \E f \in Frames, n \in interfaces :
       LET b == WireFormat(f) \o Crc
           t == TransmitIn(txBufs[nextTx], Dest(b), Payload(b))
       IN IF Answers(b)
            THEN /\ txBufs' = [txBufs EXCEPT ![nextTx] = t.buf]
                 /\ nextTx' = (nextTx + 1) % TxBufs
                 /\ answered' = [handled |-> TRUE, frame |-> f, reply |-> t.frame]
                 /\ config' = LeavesConfig(n)
            ELSE /\ answered' = [handled |-> TRUE, frame |-> f, reply |-> <<>>]
                 /\ UNCHANGED <<txBufs, nextTx, config>>
  /\ UNCHANGED <<stage, bootVars, space, nicVars, reader>>

-----------------------------------------------------------------------------
Next ==
  \/ ParseMadt \/ ParseMcfg \/ HpetInit \/ PciInit \/ GetDevices \/ InitNic \/ NicsDone
  \/ ReaderStart \/ ReaderType \/ ReaderBar \/ ReaderPort \/ Handler
  \/ HandleFrame

Spec == Init /\ [][Next]_vars

-----------------------------------------------------------------------------
(* Properties.                                                             *)

OfType(entries, k) == SelectSeq(entries, LAMBDA e : e.type = k)
LastAddr(entries, default) == IF entries = <<>> THEN default ELSE entries[Len(entries)].addr

(* parse_madt's walk by lengths finds what the firmware's last MADT says:  *)
(* the address of the last I/O APIC, the local APIC's address with its     *)
(* override, and every interrupt source override in the table's order.     *)
MadtExact ==
  LET apics == SelectSeq(xsdt.entry, LAMBDA t : t.signature = "APIC")
      last == apics[Len(apics)]
      list == last.list
      sources == OfType(list, 2)
  IN stage = "mcfg" =>
       madt = IF apics = <<>> THEN NoMadt
              ELSE [lapic |-> LastAddr(OfType(list, 5), last.lapic),
                    ioapic |-> LastAddr(OfType(list, 1), 0),
                    mappings |-> [i \in DOMAIN sources |->
                                    [irq |-> sources[i].source, gsi |-> sources[i].gsi]]]

(* The RTL8139s on the bus: functions of devices whose function 0 exists.  *)
Nics ==
  {b \in BDF : /\ space[b].vendor = "rtl8139"
               /\ space[<<b[1], b[2], 0>>].vendor # "none"
               /\ b[3] = 0 \/ space[<<b[1], b[2], 0>>].multi}

(* rtl8139::init ends with every NIC of the bus in NICS and NETWORK_STACK, *)
(* driven by the instance whose buffers the NIC's registers hold, though   *)
(* enumerate_pci_bus lists function 0 of a device twice; and the I/O APIC  *)
(* entry of each NIC's interrupt line, as the MADT maps it, is routed.     *)
NicsExact ==
  stage = "nic" /\ todo = <<>> =>
    /\ DOMAIN nics = Nics /\ interfaces = Nics
    /\ nics = buffers
    /\ \A n \in Nics, i \in DOMAIN madt.mappings :
         /\ madt.mappings[i].irq = space[n].line
         /\ \A j \in 1 .. i - 1 : madt.mappings[j].irq # space[n].line
         => madt.mappings[i].gsi \in entry
    /\ \A i \in DOMAIN devices : devices[i].vendor # "rtl8139"

(* With one NIC, the bottom half's register accesses reach it although the *)
(* handler and the network stack use CONFIG_ADDRESS between its write and  *)
(* its read: they leave it at the very register that is read last.  A      *)
(* comment in RTL8139::init expects accesses to break; with two NICs they  *)
(* do.                                                                     *)
PortsRight ==
  "port" \in DOMAIN reader /\ (\E n \in DOMAIN nics : DOMAIN nics = {n}) => reader.port = reader.nic

(* The accessors of Frame and ARP read back what the sender of f put in.   *)
ReadsBack(f) ==
  LET b == WireFormat(f) \o Crc
      p == Payload(b)
  IN /\ Dest(b) = f.dest /\ Src(b) = f.src /\ EtherType(b) = f.type
     /\ Opcode(p) = f.op
     /\ SenderHardware(p) = f.sha /\ SenderProtocol(p) = f.spa
     /\ TargetHardware(p) = f.tha /\ TargetProtocol(p) = f.tpa

(* handle_frame answers exactly the valid ARP packets for its address, VLAN *)
(* tags or not, whose fields it reads as they were sent; and what transmit *)
(* sends is the reply, byte for byte: the request's addresses in their new *)
(* places and nothing of what the transmit buffer held before.             *)
ReplyExact ==
  LET f == answered.frame
  IN answered.handled =>
       /\ ReadsBack(f)
       /\ answered.reply =
         IF f.type = ArpType /\ f.tpa = Me /\ Len(WireFormat(f)) + CrcLen \in MinFrame .. MaxFrame
           THEN WireFormat([dest |-> f.dest, src |-> Mac, tags |-> <<>>, type |-> ArpType, op |-> Reply,
                            sha |-> Mac, spa |-> Me, tha |-> f.sha, tpa |-> Me, pad |-> <<>>])
           ELSE <<>>

=============================================================================
