------------------------------ MODULE Network ------------------------------
(***************************************************************************)
(* Reception of frames: the RTL8139 driver (src/src/drivers/net/rtl8139.rs)*)
(* and the network stack of one interface (src/src/net/mod.rs).            *)
(*                                                                         *)
(* Four parties run concurrently: the device, the interrupt handler, the   *)
(* task of rtl8139_bottom_half and the task of net::run.  The device goes  *)
(* on at any time, also between the handler's read and write of ISR.  The  *)
(* handler runs with interrupts off, hence to its end before a task does.  *)
(* A task holds a spin lock, and so keeps interrupts off, from the lock of *)
(* a buffer to the end of the loop body or function: that is one step.     *)
(* Semaphores are counters, as CountingSemaphore says they may be seen.    *)
(***************************************************************************)
EXTENDS Naturals, Sequences, FiniteSets

CONSTANTS
  RingSize,    \* places in the receive ring of the device; one stays empty
  Slots,       \* buffers of an Interface; 4 in the code
  TxDescs,     \* transmit descriptors; 4 in the code
  MaxPending,  \* maximum of pending_irqs; 128 in the code
  MaxFrames,   \* bound: frames that arrive in a behaviour
  Kinds        \* subset of {"ARP", "other"}: "ARP" is a request for our address

ASSUME NetworkAssumption ==
  /\ RingSize \in Nat \ {0, 1} /\ Slots \in Nat \ {0} /\ TxDescs \in Nat \ {0}
  /\ MaxPending \in Nat \ {0} /\ MaxFrames \in Nat
  /\ Kinds \subseteq {"ARP", "other"}

VARIABLES
  ring,          \* device: frames received and not yet passed by CAPR
  cbr,           \* device: register CBR, the place written next
  capr,          \* device: register CAPR
  isr,           \* device: register ISR
  tx,            \* device: descriptors handed over and not yet sent
  arrived,       \* device: number of frames that came by
  irq,           \* I/O APIC: an edge was seen and not yet delivered
  status,        \* handler: {} or {the ISR value it has read}
  pending_irqs,  \* RTL8139.pending_irqs
  bh,            \* bottom half: "wait", "read" or "loop"
  top,           \* bottom half: its local cbr
  pos,           \* bottom half: its local capr
  woken,         \* bottom half: frames that had arrived when it read CBR
  recv_empty, recv_full, recv_head, recv_tail, bufs,   \* Interface
  net,           \* net::run: "wait" or "handle"
  last,          \* the frame net::run handled last
  next_tx_desc,  \* RTL8139.next_tx_desc
  jammed         \* a task blocked in signal() with a buffer locked

device == <<ring, cbr, capr, isr, tx, arrived, irq>>
handler == <<status, pending_irqs>>
bottom == <<bh, top, pos, woken>>
interface == <<recv_empty, recv_full, recv_head, recv_tail, bufs>>
stack == <<net, last, next_tx_desc>>
vars == <<device, handler, bottom, interface, stack, jammed>>

Frames == (1 .. MaxFrames) \X Kinds
None == <<0, "none">>

-----------------------------------------------------------------------------
(* The device, as the driver uses it.  The I/O APIC entry is edge          *)
(* triggered (IOAPIC::remap): only a rise of the interrupt line counts.    *)

SetIsr(bits) ==
  /\ isr' = isr \cup bits
  /\ irq' = (irq \/ isr = {})

(* A frame comes in: into the ring, or it overflows.                       *)
Arrive ==
  /\ arrived < MaxFrames
  /\ arrived' = arrived + 1
  /\ \/ /\ Len(ring) < RingSize - 1
        /\ \E k \in Kinds : ring' = Append(ring, <<arrived + 1, k>>)
        /\ cbr' = (cbr + 1) % RingSize
        /\ SetIsr({"ROK"})
     \/ /\ Len(ring) = RingSize - 1
        /\ SetIsr({"RXOVW"})
        /\ UNCHANGED <<ring, cbr>>
  /\ UNCHANGED <<capr, tx, handler, bottom, interface, stack, jammed>>

(* A frame went out.                                                       *)
Sent ==
  /\ \E d \in tx : tx' = tx \ {d}
  /\ SetIsr({"TOK"})
  /\ UNCHANGED <<ring, cbr, capr, arrived, handler, bottom, interface, stack, jammed>>

(* CAPR reads and writes numbers that are off by -0x10, in 16 bits; the    *)
(* ring is a power of two below that.  Here: off by one, in twice the ring.*)
CaprOffset == 1
CaprWidth == 2 * RingSize
CaprOfRaw(place) == place  \* faulty variant: no offset
CaprOf(place) == (place + CaprWidth - CaprOffset) % CaprWidth
PlaceOf(reg) == (reg + CaprOffset) % RingSize

-----------------------------------------------------------------------------
(* rtl8139_handler: read ISR ...                                           *)
HandlerRead ==
  /\ irq /\ status = {}
  /\ irq' = FALSE
  /\ status' = {isr}
  /\ UNCHANGED <<ring, cbr, capr, isr, tx, arrived, pending_irqs,
                 bottom, interface, stack, jammed>>

(* ... write 0x05 to it, which clears ROK and TOK, and count the interrupt *)
(* if ROK was read (try_signal, which gives up at the maximum).            *)
HandlerAck ==
  /\ status # {}
  /\ isr' = isr \ {"ROK", "TOK"}
  /\ pending_irqs' = IF (\E s \in status : "ROK" \in s) /\ pending_irqs < MaxPending
                     THEN pending_irqs + 1 ELSE pending_irqs
  /\ status' = {}
  /\ UNCHANGED <<ring, cbr, capr, tx, arrived, irq, bottom, interface, stack, jammed>>

(* Tasks run while no handler does.                                        *)
TaskRuns == status = {} /\ ~jammed

-----------------------------------------------------------------------------
(* process_receive.                                                        *)

BhWait ==
  /\ TaskRuns /\ bh = "wait"
  /\ pending_irqs > 0
  /\ pending_irqs' = pending_irqs - 1
  /\ bh' = "read"
  /\ UNCHANGED <<device, status, top, pos, woken, interface, stack, jammed>>

(* Faulty variant: a cbr that is not read again.                           *)
BhReadStale ==
  /\ TaskRuns /\ bh = "read"
  /\ pos' = PlaceOf(capr)
  /\ woken' = arrived
  /\ bh' = "loop"
  /\ UNCHANGED <<device, handler, top, interface, stack, jammed>>

BhRead ==
  /\ TaskRuns /\ bh = "read"
  /\ top' = cbr
  /\ pos' = PlaceOf(capr)
  /\ woken' = arrived
  /\ bh' = "loop"
  /\ UNCHANGED <<device, handler, interface, stack, jammed>>

(* Faulty variant: the loop ends one frame early.                          *)
BhDoneEarly ==
  /\ TaskRuns /\ bh = "loop"
  /\ ring = <<>> \/ top = pos \/ top = (pos + 1) % RingSize
  /\ bh' = "wait"
  /\ UNCHANGED <<device, handler, top, pos, woken, interface, stack, jammed>>

(* The loop ends when the device says the buffer is empty, or at the cbr   *)
(* that was read before the loop.                                          *)
BhDone ==
  /\ TaskRuns /\ bh = "loop"
  /\ ring = <<>> \/ top = pos
  /\ bh' = "wait"
  /\ UNCHANGED <<device, handler, top, pos, woken, interface, stack, jammed>>

(* Faulty variants: no wait for a free buffer; the buffer at the wrong end.*)
recv_frameNoWait(frame) ==
  /\ recv_head' = (recv_head + 1) % Slots
  /\ bufs' = [bufs EXCEPT ![recv_head] = frame]
  /\ recv_full' = IF recv_full < Slots THEN recv_full + 1 ELSE recv_full
  /\ jammed' = (recv_full >= Slots)
  /\ UNCHANGED <<recv_empty, recv_tail>>

recv_frameAtTail(frame) ==
  \/ /\ recv_empty = 0
     /\ UNCHANGED <<interface, jammed>>
  \/ /\ recv_empty > 0
     /\ recv_empty' = recv_empty - 1
     /\ bufs' = [bufs EXCEPT ![recv_tail] = frame]
     /\ recv_full' = IF recv_full < Slots THEN recv_full + 1 ELSE recv_full
     /\ jammed' = (recv_full >= Slots)
     /\ UNCHANGED <<recv_head, recv_tail>>

(* Interface.recv_frame: try_wait for a free buffer, fill it, signal.      *)
recv_frame(frame) ==
  \/ /\ recv_empty = 0
     /\ UNCHANGED <<interface, jammed>>
  \/ /\ recv_empty > 0
     /\ recv_empty' = recv_empty - 1
     /\ recv_head' = (recv_head + 1) % Slots
     /\ bufs' = [bufs EXCEPT ![recv_head] = frame]
     /\ recv_full' = IF recv_full < Slots THEN recv_full + 1 ELSE recv_full
     /\ jammed' = (recv_full >= Slots)
     /\ UNCHANGED recv_tail

(* One frame: copied to the interface, then given back to the device by    *)
(* the write of CAPR.                                                      *)
BhFrame ==
  /\ TaskRuns /\ bh = "loop"
  /\ ring # <<>> /\ top # pos
  /\ recv_frame(Head(ring))
  /\ ring' = Tail(ring)
  /\ pos' = (pos + 1) % RingSize
  /\ capr' = CaprOf((pos + 1) % RingSize)
  /\ UNCHANGED <<cbr, isr, tx, arrived, irq, handler, bh, top, woken, stack>>

-----------------------------------------------------------------------------
(* net::run: handle_frame.                                                 *)

NetWait ==
  /\ TaskRuns /\ net = "wait"
  /\ recv_full > 0
  /\ recv_full' = recv_full - 1
  /\ net' = "handle"
  /\ UNCHANGED <<device, handler, bottom, recv_empty, recv_head, recv_tail, bufs,
                 last, next_tx_desc, jammed>>

(* RTL8139.transmit: the next descriptor is filled and handed over.        *)
transmit ==
  /\ tx' = tx \cup {next_tx_desc}
  /\ next_tx_desc' = (next_tx_desc + 1) % TxDescs

(* A request for our address is answered; other frames are only logged.    *)
(* Either way, and for a frame of a bad length, the buffer is given back.  *)
NetHandle ==
  /\ TaskRuns /\ net = "handle"
  /\ recv_tail' = (recv_tail + 1) % Slots
  /\ last' = bufs[recv_tail]
  /\ \/ bufs[recv_tail][2] = "ARP" /\ transmit
     \/ bufs[recv_tail][2] # "ARP" /\ UNCHANGED <<tx, next_tx_desc>>
  /\ recv_empty' = IF recv_empty < Slots THEN recv_empty + 1 ELSE recv_empty
  /\ jammed' = (recv_empty >= Slots)
  /\ net' = "wait"
  /\ UNCHANGED <<ring, cbr, capr, isr, arrived, irq, handler, bottom,
                 recv_full, recv_head, bufs>>

-----------------------------------------------------------------------------
(* Interface::new.                                                         *)
InterfaceInit ==
  /\ recv_empty = Slots /\ recv_full = 0
  /\ recv_head = 0 /\ recv_tail = 0
  /\ bufs = [i \in 0 .. Slots - 1 |-> None]

(* RTL8139::init: a device reset, its receiver on, its interrupts unmasked.*)
DeviceInit ==
  /\ ring = <<>> /\ cbr = 0 /\ capr = CaprOf(0)
  /\ isr = {} /\ tx = {} /\ arrived = 0 /\ irq = FALSE
  /\ status = {} /\ pending_irqs = 0 /\ next_tx_desc = 0

Init ==
  /\ DeviceInit
  /\ InterfaceInit
  /\ bh = "wait" /\ top = 0 /\ pos = 0 /\ woken = 0
  /\ net = "wait" /\ last = None
  /\ jammed = FALSE

Bottom == BhWait \/ BhRead \/ BhDone \/ BhFrame
Net == NetWait \/ NetHandle
Handler == HandlerRead \/ HandlerAck

Next == Arrive \/ Sent \/ Handler \/ Bottom \/ Net

Spec == Init /\ [][Next]_vars

(* The handler runs when an interrupt is delivered, the scheduler gives    *)
(* every runnable task the processor, and a descriptor handed over is      *)
(* sent.  Nothing says that frames arrive.                                 *)
FairSpec ==
  /\ Spec
  /\ WF_vars(Handler) /\ WF_vars(Bottom) /\ WF_vars(Net) /\ WF_vars(Sent)

-----------------------------------------------------------------------------
(* Properties.                                                             *)

(* Every variable keeps its type; indices and counters stay in range.      *)
TypeOK ==
  /\ ring \in Seq(Frames) /\ Len(ring) < RingSize
  /\ cbr \in 0 .. RingSize - 1 /\ capr \in 0 .. CaprWidth - 1
  /\ isr \subseteq {"ROK", "TOK", "RXOVW"} /\ tx \subseteq 0 .. TxDescs - 1
  /\ arrived \in 0 .. MaxFrames /\ irq \in BOOLEAN
  /\ status \subseteq SUBSET {"ROK", "TOK", "RXOVW"}
  /\ pending_irqs \in 0 .. MaxPending
  /\ bh \in {"wait", "read", "loop"}
  /\ top \in 0 .. RingSize - 1 /\ pos \in 0 .. RingSize - 1 /\ woken \in 0 .. MaxFrames
  /\ recv_empty \in 0 .. Slots /\ recv_full \in 0 .. Slots
  /\ recv_head \in 0 .. Slots - 1 /\ recv_tail \in 0 .. Slots - 1
  /\ bufs \in [0 .. Slots - 1 -> Frames \cup {None}]
  /\ net \in {"wait", "handle"} /\ last \in Frames \cup {None}
  /\ next_tx_desc \in 0 .. TxDescs - 1 /\ jammed \in BOOLEAN

(* No task ever blocks in signal() while it holds a buffer's spin lock     *)
(* (recv_frame, handle_frame): a switch would leave the lock taken and     *)
(* interrupts off.                                                         *)
SignalsHaveRoom == ~jammed

(* The place the driver reads next is where the device's oldest unread     *)
(* frame is: CAPR, the local capr and the ring stay in step through wraps. *)
ReadsOldestFrame ==
  /\ (PlaceOf(capr) + Len(ring)) % RingSize = cbr
  /\ bh = "loop" => pos = PlaceOf(capr)

(* rtl8139.rs:364, "When we have read all the frames received when the     *)
(* thread was woken": the loop ends only then.                             *)
WokenFramesRead ==
  [][bh = "loop" /\ bh' = "wait" => \A i \in 1 .. Len(ring) : ring[i][1] > woken]_vars

(* The frames in use, oldest first.                                        *)
Queue ==
  [i \in 1 .. recv_full + (IF net = "handle" THEN 1 ELSE 0)
     |-> bufs[(recv_tail + i - 1) % Slots]]

FQ == INSTANCE FrameQueue WITH queue <- Queue, last <- last

(* The interface's ring of buffers, two semaphores and two indices         *)
(* implement the bounded queue of FrameQueue.                              *)
ImplementsFrameQueue == FQ!Spec

Unread(n) == \E i \in 1 .. Len(ring) : ring[i][1] = n

(* A frame that is in the ring when an interrupt is counted is read, also  *)
(* when the bottom half is then in a loop with an older cbr, and when      *)
(* pending_irqs is at its maximum.                                         *)
CountedFramesRead ==
  \A n \in 1 .. MaxFrames : (Unread(n) /\ pending_irqs > 0) ~> ~Unread(n)

(* rtl8139.rs:447, "Reset status register so that another frame can be     *)
(* sent / received": every frame the device takes in is read.              *)
FramesReceived ==
  \A n \in 1 .. MaxFrames : Unread(n) ~> ~Unread(n)

=============================================================================
