--------------------------- MODULE NetworkProofs ---------------------------
(***************************************************************************)
(* Proofs about Network, for every size of the rings and the queue.        *)
(*                                                                         *)
(* That no signal() finds its semaphore full is not inductive by itself:   *)
(* what rules it out is that every buffer of the interface is counted in   *)
(* exactly one place, as free, as filled, or as being handled.             *)
(*                                                                         *)
(* Two results need more than this count: the driver's read position stays *)
(* in step with the device, and the buffers, indices and semaphores of an  *)
(* Interface implement the queue of FrameQueue.  Both are about indices    *)
(* that wrap, so both come down to SmallMod: an index plus a distance      *)
(* below the size wraps at most once.                                      *)
(***************************************************************************)
EXTENDS Network, TLAPS

(* Every buffer of the Interface is free (recv_empty), filled (recv_full)  *)
(* or in the hands of handle_frame, between its wait and its signal.       *)
BuffersCounted ==
  recv_empty + recv_full + (IF net = "handle" THEN 1 ELSE 0) = Slots

IInv == TypeOK /\ BuffersCounted /\ SignalsHaveRoom

(* An index that wraps stays an index, as in (n + 1) % 4 of recv_frame.    *)
LEMMA ModRange ==
  ASSUME NEW a \in Nat, NEW n \in Nat \ {0}
  PROVE  a % n \in 0 .. n - 1
  OBVIOUS

(* What the driver writes to CAPR fits the register.                       *)
LEMMA CaprRange ==
  ASSUME NEW place \in 0 .. RingSize - 1
  PROVE  CaprOf(place) \in 0 .. CaprWidth - 1
<1>1. CaprWidth \in Nat \ {0} /\ place + CaprWidth - CaprOffset \in Nat
  BY NetworkAssumption DEF CaprWidth, CaprOffset
<1>2. (place + CaprWidth - CaprOffset) % CaprWidth \in 0 .. CaprWidth - 1
  BY <1>1, ModRange, Zenon
<1> QED
  BY <1>2 DEF CaprOf

(* The states Interface::new and RTL8139::init leave satisfy IInv.         *)
LEMMA InitHolds == Init => IInv
<1> SUFFICES ASSUME Init PROVE IInv
  OBVIOUS
<1> USE NetworkAssumption DEF Init, DeviceInit, InterfaceInit
<1>1. CaprOf(0) \in 0 .. CaprWidth - 1
  BY CaprRange
<1>2. TypeOK
  <2>1. ring \in Seq(Frames) /\ Len(ring) < RingSize
    OBVIOUS
  <2>2. bufs \in [0 .. Slots - 1 -> Frames \cup {None}]
    OBVIOUS
  <2>3. irq \in BOOLEAN /\ jammed \in BOOLEAN
    BY Zenon
  <2>4. /\ isr \subseteq {"ROK", "TOK", "RXOVW"} /\ tx \subseteq 0 .. TxDescs - 1
        /\ status \subseteq SUBSET {"ROK", "TOK", "RXOVW"}
        /\ last \in Frames \cup {None}
    OBVIOUS
  <2>5. /\ cbr \in 0 .. RingSize - 1 /\ top \in 0 .. RingSize - 1
        /\ pos \in 0 .. RingSize - 1 /\ woken \in 0 .. MaxFrames
        /\ arrived \in 0 .. MaxFrames /\ pending_irqs \in 0 .. MaxPending
        /\ recv_empty \in 0 .. Slots /\ recv_full \in 0 .. Slots
        /\ recv_head \in 0 .. Slots - 1 /\ recv_tail \in 0 .. Slots - 1
        /\ next_tx_desc \in 0 .. TxDescs - 1
        /\ bh \in {"wait", "read", "loop"} /\ net \in {"wait", "handle"}
    OBVIOUS
  <2> QED
    BY <1>1, <2>1, <2>2, <2>3, <2>4, <2>5 DEF TypeOK
<1>3. BuffersCounted
  BY DEF BuffersCounted
<1>4. SignalsHaveRoom
  BY Zenon DEF SignalsHaveRoom
<1> QED
  BY <1>2, <1>3, <1>4 DEF IInv

(* The device's own steps do not touch the interface.                      *)
LEMMA DeviceSteps == IInv /\ (Arrive \/ Sent) => IInv'
<1> SUFFICES ASSUME IInv, Arrive \/ Sent PROVE IInv'
  OBVIOUS
<1> USE NetworkAssumption
<1>1. CASE Arrive
  <2>1. ring' \in Seq(Frames) /\ Len(ring') < RingSize
    <3>1. CASE UNCHANGED ring
      BY <3>1 DEF IInv, TypeOK
    <3>2. ASSUME NEW k \in Kinds, Len(ring) < RingSize - 1,
                 ring' = Append(ring, <<arrived + 1, k>>)
          PROVE  ring' \in Seq(Frames) /\ Len(ring') < RingSize
      <4>1. <<arrived + 1, k>> \in Frames
        BY <1>1, SMTT(60) DEF Arrive, IInv, TypeOK, Frames
      <4> QED
        BY <3>2, <4>1 DEF IInv, TypeOK
    <3> QED
      BY <1>1, <3>1, <3>2 DEF Arrive
  <2>2. cbr' \in 0 .. RingSize - 1
    <3>1. cbr + 1 \in Nat /\ RingSize \in Nat \ {0} /\ cbr \in 0 .. RingSize - 1
      BY DEF IInv, TypeOK
    <3>2. (cbr + 1) % RingSize \in 0 .. RingSize - 1
      BY <3>1, ModRange
    <3> QED
      BY <1>1, <3>1, <3>2 DEF Arrive
  <2>3. isr' \subseteq {"ROK", "TOK", "RXOVW"} /\ irq' \in BOOLEAN
    <3>1. isr \subseteq {"ROK", "TOK", "RXOVW"} /\ irq \in BOOLEAN
      BY Zenon DEF IInv, TypeOK
    <3> QED BY <1>1, <3>1, ZenonT(60) DEF Arrive, SetIsr
  <2>4. arrived' \in 0 .. MaxFrames
    BY <1>1 DEF Arrive, IInv, TypeOK
  <2> QED
    BY <1>1, <2>1, <2>2, <2>3, <2>4
    DEF Arrive, IInv, TypeOK, BuffersCounted, SignalsHaveRoom,
        handler, bottom, interface, stack
<1>2. CASE Sent
  <2>1. isr' \subseteq {"ROK", "TOK", "RXOVW"} /\ irq' \in BOOLEAN
    BY <1>2 DEF Sent, SetIsr, IInv, TypeOK
  <2>2. tx' \subseteq 0 .. TxDescs - 1
    BY <1>2 DEF Sent, IInv, TypeOK
  <2> QED
    BY <1>2, <2>1, <2>2
    DEF Sent, IInv, TypeOK, BuffersCounted, SignalsHaveRoom,
        handler, bottom, interface, stack
<1> QED
  BY <1>1, <1>2

(* Neither does rtl8139_handler, which only counts up to the maximum.      *)
LEMMA HandlerSteps == IInv /\ Handler => IInv'
<1> SUFFICES ASSUME IInv, Handler PROVE IInv'
  OBVIOUS
<1> USE NetworkAssumption
<1>1. CASE HandlerRead
  <2>1. irq' \in BOOLEAN
    BY <1>1, Zenon DEF HandlerRead
  <2>2. status' \subseteq SUBSET {"ROK", "TOK", "RXOVW"}
    BY <1>1 DEF HandlerRead, IInv, TypeOK
  <2>3. UNCHANGED <<ring, cbr, capr, isr, tx, arrived, pending_irqs,
                    bottom, interface, stack, jammed>>
    BY <1>1 DEF HandlerRead
  <2> QED
    BY <2>1, <2>2, <2>3
    DEF IInv, TypeOK, BuffersCounted, SignalsHaveRoom, bottom, interface, stack
<1>2. CASE HandlerAck
  <2>1. pending_irqs' \in 0 .. MaxPending
    <3>1. pending_irqs' = pending_irqs
          \/ (pending_irqs < MaxPending /\ pending_irqs' = pending_irqs + 1)
      BY <1>2 DEF HandlerAck
    <3> QED
      BY <3>1 DEF IInv, TypeOK
  <2>2. isr' \subseteq {"ROK", "TOK", "RXOVW"} /\ status' = {}
    BY <1>2 DEF HandlerAck, IInv, TypeOK
  <2> QED
    BY <1>2, <2>1, <2>2
    DEF HandlerAck, IInv, TypeOK, BuffersCounted, SignalsHaveRoom,
        bottom, interface, stack
<1> QED
  BY <1>1, <1>2 DEF Handler

(* process_receive takes a free buffer before it signals a filled one.     *)
LEMMA BottomSteps == IInv /\ Bottom => IInv'
<1> SUFFICES ASSUME IInv, Bottom PROVE IInv'
  OBVIOUS
<1> USE NetworkAssumption
<1>1. CASE BhWait
  BY <1>1 DEF BhWait, IInv, TypeOK, BuffersCounted, SignalsHaveRoom,
              device, interface, stack
<1>2. CASE BhRead
  <2>1. pos' \in 0 .. RingSize - 1
    BY <1>2, ModRange DEF BhRead, PlaceOf, CaprOffset, CaprWidth, IInv, TypeOK
  <2> QED
    BY <1>2, <2>1 DEF BhRead, IInv, TypeOK, BuffersCounted, SignalsHaveRoom,
                      device, handler, interface, stack
<1>3. CASE BhDone
  BY <1>3 DEF BhDone, IInv, TypeOK, BuffersCounted, SignalsHaveRoom,
              device, handler, interface, stack
<1>4. CASE BhFrame
  <2>1. Head(ring) \in Frames /\ ring' \in Seq(Frames) /\ Len(ring') < RingSize
    BY <1>4 DEF BhFrame, IInv, TypeOK
  <2>2. pos' \in 0 .. RingSize - 1
    <3>1. pos \in 0 .. RingSize - 1 /\ pos' = (pos + 1) % RingSize
      BY <1>4, Zenon DEF BhFrame, IInv, TypeOK
    <3>2. RingSize \in Nat \ {0} /\ pos + 1 \in Nat
      BY <3>1
    <3> QED BY <3>1, <3>2, ModRange
  <2>3. capr' \in 0 .. CaprWidth - 1
    BY <1>4, <2>2, CaprRange DEF BhFrame
  <2>4. /\ bufs' \in [0 .. Slots - 1 -> Frames \cup {None}]
        /\ recv_head' \in 0 .. Slots - 1
        /\ recv_tail' = recv_tail
    <3>1. /\ recv_head + 1 \in Nat /\ recv_head \in 0 .. Slots - 1
          /\ bufs \in [0 .. Slots - 1 -> Frames \cup {None}]
      BY DEF IInv, TypeOK
    <3>2. (recv_head + 1) % Slots \in 0 .. Slots - 1
      BY <3>1, ModRange
    <3>3. \/ UNCHANGED <<bufs, recv_head, recv_tail>>
          \/ /\ bufs' = [bufs EXCEPT ![recv_head] = Head(ring)]
             /\ recv_head' = (recv_head + 1) % Slots
             /\ UNCHANGED recv_tail
      BY <1>4 DEF BhFrame, recv_frame, interface
    <3> QED
      BY <2>1, <3>1, <3>2, <3>3
  <2>5. /\ recv_empty' \in 0 .. Slots /\ recv_full' \in 0 .. Slots
        /\ recv_empty' + recv_full' = recv_empty + recv_full
        /\ ~jammed' /\ jammed' \in BOOLEAN
    <3>1. CASE recv_empty = 0 /\ UNCHANGED <<interface, jammed>>
      BY <3>1 DEF interface, IInv, TypeOK, SignalsHaveRoom
    <3>2. CASE /\ recv_empty > 0
               /\ recv_empty' = recv_empty - 1
               /\ recv_full' = IF recv_full < Slots THEN recv_full + 1 ELSE recv_full
               /\ jammed' = (recv_full >= Slots)
      <4>1. recv_full < Slots /\ (recv_full >= Slots) = FALSE
        BY <3>2 DEF IInv, TypeOK, BuffersCounted
      <4>2. ~jammed' /\ jammed' \in BOOLEAN
        <5>1. jammed' = FALSE
          BY <3>2, <4>1, Zenon
        <5> QED
          BY <5>1, Zenon
      <4> QED
        BY <3>2, <4>1, <4>2 DEF IInv, TypeOK
    <3> QED
      BY <1>4, <3>1, <3>2 DEF BhFrame, recv_frame
  <2>6. UNCHANGED <<cbr, isr, tx, arrived, irq, handler, bh, top, woken, stack>>
    BY <1>4 DEF BhFrame
  <2> QED
    BY <2>1, <2>2, <2>3, <2>4, <2>5, <2>6, Zenon
    DEF IInv, TypeOK, BuffersCounted, SignalsHaveRoom, handler, stack
<1> QED
  BY <1>1, <1>2, <1>3, <1>4 DEF Bottom

(* handle_frame takes a filled buffer before it signals a free one.        *)
LEMMA NetSteps == IInv /\ Net => IInv'
<1> SUFFICES ASSUME IInv, Net PROVE IInv'
  OBVIOUS
<1> USE NetworkAssumption
<1>1. CASE NetWait
  BY <1>1 DEF NetWait, IInv, TypeOK, BuffersCounted, SignalsHaveRoom,
              device, handler, bottom
<1>2. CASE NetHandle
  <2>1. recv_tail' \in 0 .. Slots - 1 /\ last' \in Frames \cup {None}
    <3>1. recv_tail + 1 \in Nat
      BY DEF IInv, TypeOK
    <3>2. (recv_tail + 1) % Slots \in 0 .. Slots - 1
      BY <3>1, ModRange
    <3> QED
      BY <1>2, <3>2 DEF NetHandle, IInv, TypeOK
  <2>2. tx' \subseteq 0 .. TxDescs - 1 /\ next_tx_desc' \in 0 .. TxDescs - 1
    <3>1. next_tx_desc + 1 \in Nat
      BY DEF IInv, TypeOK
    <3>2. (next_tx_desc + 1) % TxDescs \in 0 .. TxDescs - 1
      BY <3>1, ModRange
    <3> QED
      <4>1. tx \subseteq 0 .. TxDescs - 1 /\ next_tx_desc \in 0 .. TxDescs - 1
        BY Zenon DEF IInv, TypeOK
      <4> QED BY <1>2, <3>2, <4>1, ZenonT(60) DEF NetHandle, transmit
  <2>3. recv_empty < Slots /\ (recv_empty >= Slots) = FALSE
    BY <1>2 DEF NetHandle, IInv, TypeOK, BuffersCounted
  <2>4. ~jammed' /\ jammed' \in BOOLEAN
    <3>1. jammed' = FALSE
      BY <1>2, <2>3, Zenon DEF NetHandle
    <3> QED
      BY <3>1, Zenon
  <2>5. recv_empty' \in 0 .. Slots /\ recv_empty' = recv_empty + 1
    BY <1>2, <2>3 DEF NetHandle, IInv, TypeOK
  <2>6. /\ net = "handle" /\ net' = "wait"
        /\ UNCHANGED <<ring, cbr, capr, isr, arrived, irq, handler, bottom,
                       recv_full, recv_head, bufs>>
    BY <1>2 DEF NetHandle
  <2>7. BuffersCounted'
    BY <2>5, <2>6 DEF IInv, TypeOK, BuffersCounted
  <2>8. TypeOK'
    BY <2>1, <2>2, <2>4, <2>5, <2>6, SMTT(60) DEF IInv, TypeOK, handler, bottom
  <2> QED
    BY <2>4, <2>7, <2>8 DEF IInv, SignalsHaveRoom
<1> QED
  BY <1>1, <1>2 DEF Net

(* No step breaks IInv.                                                    *)
LEMMA InvariantStep == IInv /\ [Next]_vars => IInv'
<1>1. IInv /\ UNCHANGED vars => IInv'
  <2> SUFFICES ASSUME IInv, UNCHANGED vars PROVE IInv'
    OBVIOUS
  <2>1. UNCHANGED <<ring, cbr, capr, isr, tx, arrived, irq, status, pending_irqs, bh, top, pos, woken>>
    BY Zenon DEF vars, device, handler, bottom
  <2>2. UNCHANGED <<recv_empty, recv_full, recv_head, recv_tail, bufs, net, last, next_tx_desc, jammed>>
    BY Zenon DEF vars, interface, stack
  <2>3. TypeOK'
    BY <2>1, <2>2, Zenon DEF IInv, TypeOK
  <2> QED BY <2>2, <2>3, Zenon DEF IInv, BuffersCounted, SignalsHaveRoom
<1> QED
  BY <1>1, DeviceSteps, HandlerSteps, BottomSteps, NetSteps DEF Next

(* IInv is an invariant of the driver and the stack.                       *)
THEOREM Invariance == Spec => []IInv
  BY InitHolds, InvariantStep, PTL DEF Spec

(* Registers, indices and semaphores keep their ranges.                    *)
THEOREM TypeCorrect == Spec => []TypeOK
<1>1. IInv => TypeOK
  BY DEF IInv
<1> QED
  BY <1>1, Invariance, PTL

(* Whatever the number of buffers, and whatever the order in which the     *)
(* device, the handler and the two tasks run, neither recv_frame nor       *)
(* handle_frame blocks in signal() while it holds a buffer's spin lock.    *)
THEOREM SignalsNeverBlock == Spec => []SignalsHaveRoom
<1>1. IInv => SignalsHaveRoom
  BY DEF IInv
<1> QED
  BY <1>1, Invariance, PTL

-----------------------------------------------------------------------------

(* The buffers between recv_tail and recv_head: those filled and the one   *)
(* that handle_frame has waited for.                                       *)
InUse == recv_full + (IF net = "handle" THEN 1 ELSE 0)

(* recv_head is where the buffers in use end.                              *)
HeadAfterQueue == recv_head = (recv_tail + InUse) % Slots

QInv == IInv /\ ReadsOldestFrame /\ HeadAfterQueue

(* An index and a distance up to the size wrap at most once.               *)
LEMMA SmallMod ==
  ASSUME NEW n \in Nat \ {0}, NEW a \in 0 .. n - 1, NEW d \in 0 .. n
  PROVE  (a + d) % n = IF a + d < n THEN a + d ELSE a + d - n
<1>1. CASE a + d < n
  BY <1>1
<1>2. CASE a + d >= n
  <2>1. a + d - n \in 0 .. n - 1
    BY <1>2
  <2> QED BY <1>2, <2>1
<1> QED BY <1>1, <1>2

(* What the driver writes to CAPR it reads back as the same place.         *)
LEMMA CaprRoundTrip ==
  ASSUME NEW place \in 0 .. RingSize - 1
  PROVE  PlaceOf(CaprOf(place)) = place
<1> USE NetworkAssumption
<1>1. CaprOf(place) = IF place = 0 THEN CaprWidth - 1 ELSE place - 1
  <2>1. /\ CaprWidth \in Nat \ {0} /\ CaprWidth - 1 \in 0 .. CaprWidth - 1
        /\ place \in 0 .. CaprWidth
        /\ place + CaprWidth - CaprOffset = (CaprWidth - 1) + place
    BY DEF CaprWidth, CaprOffset
  <2>2. ((CaprWidth - 1) + place) % CaprWidth =
          IF (CaprWidth - 1) + place < CaprWidth
          THEN (CaprWidth - 1) + place ELSE (CaprWidth - 1) + place - CaprWidth
    BY <2>1, SmallMod, Zenon
  <2> QED BY <2>1, <2>2 DEF CaprOf
<1>2. CASE place = 0
  <2>1. PlaceOf(CaprOf(place)) = (2 * RingSize) % RingSize
    BY <1>1, <1>2 DEF PlaceOf, CaprOffset, CaprWidth
  <2> QED BY <1>2, <2>1
<1>3. CASE place # 0
  BY <1>1, <1>3 DEF PlaceOf, CaprOffset
<1> QED BY <1>2, <1>3

(* Places are places.                                                      *)
LEMMA PlaceRange ==
  ASSUME TypeOK
  PROVE  PlaceOf(capr) \in 0 .. RingSize - 1
<1>1. capr + CaprOffset \in Nat /\ RingSize \in Nat \ {0}
  BY NetworkAssumption DEF TypeOK, CaprWidth, CaprOffset
<1> QED BY <1>1, ModRange DEF PlaceOf

(* One more on both sides of a wrapped sum.                                *)
LEMMA WrapStep ==
  ASSUME NEW n \in Nat \ {0}, NEW a \in 0 .. n - 1, NEW d \in 0 .. n - 1
  PROVE  /\ (((a + d) % n) + 1) % n = (a + (d + 1)) % n
         /\ (((a + 1) % n) + d) % n = (a + (d + 1)) % n
<1>1. 1 \in 0 .. n /\ d + 1 \in 0 .. n /\ d \in 0 .. n
  OBVIOUS
<1>2. (a + d) % n = IF a + d < n THEN a + d ELSE a + d - n
  BY <1>1, SmallMod, Zenon
<1>3. (a + 1) % n = IF a + 1 < n THEN a + 1 ELSE a + 1 - n
  BY <1>1, SmallMod, Zenon
<1>4. (a + (d + 1)) % n = IF a + (d + 1) < n THEN a + (d + 1) ELSE a + (d + 1) - n
  BY <1>1, SmallMod, Zenon
<1>5. (a + d) % n \in 0 .. n - 1 /\ (a + 1) % n \in 0 .. n - 1
  BY <1>2, <1>3
<1>6. (((a + d) % n) + 1) % n =
        IF ((a + d) % n) + 1 < n THEN ((a + d) % n) + 1 ELSE ((a + d) % n) + 1 - n
  BY <1>1, <1>5, SmallMod, Zenon
<1>7. (((a + 1) % n) + d) % n =
        IF ((a + 1) % n) + d < n THEN ((a + 1) % n) + d ELSE ((a + 1) % n) + d - n
  BY <1>1, <1>5, SmallMod, Zenon
<1>8. (((a + d) % n) + 1) % n = (a + (d + 1)) % n
  <2>1. CASE a + d < n
    BY <1>2, <1>4, <1>6, <2>1
  <2>2. CASE a + d >= n
    BY <1>2, <1>4, <1>6, <2>2
  <2> QED BY <2>1, <2>2
<1>9. (((a + 1) % n) + d) % n = (a + (d + 1)) % n
  <2>1. CASE a + 1 < n
    BY <1>3, <1>4, <1>7, <2>1
  <2>2. CASE a + 1 = n
    BY <1>3, <1>4, <1>7, <2>2
  <2> QED BY <2>1, <2>2
<1> QED BY <1>8, <1>9

-----------------------------------------------------------------------------
(* At the start both rings are empty.                                      *)
LEMMA QInitHolds == Init => QInv /\ FQ!Init
<1> SUFFICES ASSUME Init PROVE QInv /\ FQ!Init
  OBVIOUS
<1> USE NetworkAssumption DEF Init, DeviceInit, InterfaceInit
<1>1. PlaceOf(capr) = 0
  BY CaprRoundTrip
<1>2. ReadsOldestFrame
  BY <1>1 DEF ReadsOldestFrame
<1>3. HeadAfterQueue
  BY DEF HeadAfterQueue, InUse
<1>4. Queue = <<>>
  BY DEF Queue
<1> QED BY InitHolds, <1>2, <1>3, <1>4 DEF QInv, FQ!Init

(* The device appends and the driver removes at the places they agree on.  *)
LEMMA InStep == QInv /\ [Next]_vars => ReadsOldestFrame'
<1> SUFFICES ASSUME QInv, [Next]_vars PROVE ReadsOldestFrame'
  OBVIOUS
<1> USE NetworkAssumption
<1>1. /\ PlaceOf(capr) \in 0 .. RingSize - 1 /\ Len(ring) \in 0 .. RingSize - 1
      /\ RingSize \in Nat \ {0} /\ ring \in Seq(Frames)
      /\ (PlaceOf(capr) + Len(ring)) % RingSize = cbr
      /\ bh = "loop" => pos = PlaceOf(capr)
  BY PlaceRange, SMTT(60) DEF QInv, IInv, TypeOK, ReadsOldestFrame
<1>2. CASE Arrive
  <2>1. capr' = capr /\ bh' = bh /\ pos' = pos
    BY <1>2 DEF Arrive, bottom
  <2>2. CASE UNCHANGED <<ring, cbr>>
    BY <1>1, <2>1, <2>2 DEF ReadsOldestFrame, PlaceOf
  <2>3. ASSUME NEW k \in Kinds, ring' = Append(ring, <<arrived + 1, k>>),
               cbr' = (cbr + 1) % RingSize
        PROVE  ReadsOldestFrame'
    <3>1. Len(ring') = Len(ring) + 1
      BY <1>1, <2>3
    <3>2. cbr' = (PlaceOf(capr) + (Len(ring) + 1)) % RingSize
      BY <1>1, <2>3, WrapStep, Zenon
    <3> QED BY <1>1, <2>1, <3>1, <3>2 DEF ReadsOldestFrame, PlaceOf
  <2> QED BY <1>2, <2>2, <2>3 DEF Arrive
<1>3. CASE BhFrame
  <2>1. /\ bh = "loop" /\ bh' = "loop" /\ cbr' = cbr /\ ring # <<>> /\ ring' = Tail(ring)
        /\ pos' = (pos + 1) % RingSize /\ capr' = CaprOf(pos')
    BY <1>3 DEF BhFrame
  <2>2. Len(ring') = Len(ring) - 1 /\ Len(ring) - 1 \in 0 .. RingSize - 1
    BY <1>1, <2>1, SMTT(60)
  <2>3. pos' \in 0 .. RingSize - 1 /\ pos' = (PlaceOf(capr) + 1) % RingSize
    <3>1. pos' = (PlaceOf(capr) + 1) % RingSize
      BY <1>1, <2>1
    <3>2. PlaceOf(capr) + 1 \in Nat
      BY <1>1
    <3> QED BY <1>1, <3>1, <3>2, ModRange, Zenon
  <2>4. PlaceOf(capr') = pos'
    BY <2>1, <2>3, CaprRoundTrip
  <2>5. (pos' + (Len(ring) - 1)) % RingSize = (PlaceOf(capr) + ((Len(ring) - 1) + 1)) % RingSize
    <3> DEFINE d == Len(ring) - 1
    <3>1. d \in 0 .. RingSize - 1
      BY <2>2
    <3> HIDE DEF d
    <3>2. (((PlaceOf(capr) + 1) % RingSize) + d) % RingSize = (PlaceOf(capr) + (d + 1)) % RingSize
      BY <1>1, <3>1, WrapStep, Zenon
    <3> QED BY <2>3, <3>2 DEF d
  <2>6. (Len(ring) - 1) + 1 = Len(ring)
    BY <1>1
  <2> QED BY <1>1, <2>1, <2>2, <2>4, <2>5, <2>6 DEF ReadsOldestFrame, PlaceOf
<1>4. CASE BhRead
  BY <1>1, <1>4 DEF BhRead, device, ReadsOldestFrame, PlaceOf
<1>5. CASE Sent \/ Handler \/ BhWait \/ BhDone \/ Net \/ UNCHANGED vars
  <2>1. ring' = ring /\ cbr' = cbr /\ capr' = capr /\ pos' = pos
    BY <1>5, SMTT(30) DEF Sent, Handler, HandlerRead, HandlerAck, BhWait, BhDone, Net, NetWait, NetHandle,
                vars, device, bottom
  <2>2. bh' = "loop" => bh = "loop"
    BY <1>5 DEF Sent, Handler, HandlerRead, HandlerAck, BhWait, BhDone, Net, NetWait, NetHandle,
                vars, bottom
  <2> QED BY <1>1, <2>1, <2>2 DEF ReadsOldestFrame, PlaceOf
<1> QED BY <1>2, <1>3, <1>4, <1>5 DEF Next, Bottom

-----------------------------------------------------------------------------
(* How many buffers are in use.                                            *)
LEMMA InUseRange ==
  ASSUME IInv
  PROVE  /\ InUse \in 0 .. Slots /\ InUse + recv_empty = Slots
         /\ Slots \in Nat \ {0} /\ recv_tail \in 0 .. Slots - 1
         /\ recv_empty \in 0 .. Slots
         /\ bufs \in [0 .. Slots - 1 -> Frames \cup {None}]
<1>1. /\ recv_empty \in 0 .. Slots /\ recv_full \in 0 .. Slots
      /\ Slots \in Nat \ {0} /\ recv_tail \in 0 .. Slots - 1
      /\ bufs \in [0 .. Slots - 1 -> Frames \cup {None}]
  BY NetworkAssumption DEF IInv, TypeOK
<1>2. recv_empty + recv_full + (IF net = "handle" THEN 1 ELSE 0) = Slots
  BY DEF IInv, BuffersCounted
<1>3. CASE net = "handle"
  BY <1>1, <1>2, <1>3 DEF InUse
<1>4. CASE net # "handle"
  BY <1>1, <1>2, <1>4 DEF InUse
<1> QED BY <1>3, <1>4

(* Two functions on the same places are the same if they agree.            *)
LEMMA SameSeq ==
  ASSUME NEW n \in Nat, NEW T, NEW q \in Seq(T), NEW r \in Seq(T), Len(q) = n, Len(r) = n,
         \A i \in 1 .. n : q[i] = r[i]
  PROVE  q = r
OBVIOUS

(* Steps that leave the interface's queue alone.                           *)
LEMMA QueueUntouched ==
  ASSUME UNCHANGED <<recv_tail, recv_head, bufs, last>>, InUse' = InUse, HeadAfterQueue
  PROVE  HeadAfterQueue' /\ UNCHANGED <<Queue, last>>
BY DEF HeadAfterQueue, Queue, InUse

(* recv_frame puts the frame at the end of the queue.                      *)
LEMMA PutStep ==
  ASSUME QInv, NEW f \in Frames, recv_empty > 0, recv_frame(f), net' = net, last' = last
  PROVE  HeadAfterQueue' /\ FQ!Put
<1>1. /\ recv_full' = recv_full + 1 /\ recv_tail' = recv_tail
      /\ recv_head' = (recv_head + 1) % Slots
      /\ bufs' = [bufs EXCEPT ![recv_head] = f]
  <2>1. recv_empty \in Nat /\ recv_full \in Nat /\ Slots \in Nat /\ BuffersCounted
    <3>1. recv_empty \in 0 .. Slots /\ recv_full \in 0 .. Slots /\ BuffersCounted
      BY Zenon DEF QInv, IInv, TypeOK
    <3> QED BY <3>1, NetworkAssumption
  <2>2. recv_full < Slots
    BY <2>1 DEF BuffersCounted
  <2> QED BY <2>1, <2>2 DEF recv_frame
<1> DEFINE n == InUse
           S == Slots
           t == recv_tail
<1>2. InUse' = n + 1
  <2>1. recv_full \in Nat
    BY DEF QInv, IInv, TypeOK
  <2> QED BY <1>1, <2>1 DEF InUse
<1>3. /\ n \in 0 .. S - 1 /\ S \in Nat \ {0} /\ t \in 0 .. S - 1
      /\ recv_head = (t + n) % S /\ recv_head \in 0 .. S - 1
      /\ bufs \in [0 .. S - 1 -> Frames \cup {None}]
  <2>1. n \in 0 .. S /\ n + recv_empty = S /\ recv_empty \in 0 .. S /\ S \in Nat \ {0}
    BY InUseRange DEF QInv
  <2>2. n \in 0 .. S - 1
    BY <2>1
  <2>3. recv_head = (t + n) % S /\ recv_head \in 0 .. S - 1
    BY DEF QInv, HeadAfterQueue, IInv, TypeOK
  <2> QED BY <2>1, <2>2, <2>3, InUseRange DEF QInv
<1>4. HeadAfterQueue'
  <2>1. (((t + n) % S) + 1) % S = (t + (n + 1)) % S
    BY <1>3, WrapStep
  <2> QED BY <1>1, <1>2, <1>3, <2>1 DEF HeadAfterQueue
<1>5. Queue' = [i \in 1 .. n + 1 |-> bufs'[(t + i - 1) % S]]
  BY <1>1, <1>2 DEF Queue, InUse
<1>6. Queue = [i \in 1 .. n |-> bufs[(t + i - 1) % S]]
  BY DEF Queue, InUse
<1>7. ASSUME NEW i \in 1 .. n PROVE bufs'[(t + i - 1) % S] = bufs[(t + i - 1) % S]
  <2> DEFINE d == i - 1
  <2>1. d \in 0 .. n - 1 /\ d \in 0 .. S /\ n \in 0 .. S /\ t + i - 1 = t + d
    BY <1>3, <1>7
  <2> HIDE DEF d, n
  <2>2. (t + d) % S = IF t + d < S THEN t + d ELSE t + d - S
    BY <1>3, <2>1, SmallMod, Zenon
  <2>3. (t + n) % S = IF t + n < S THEN t + n ELSE t + n - S
    BY <1>3, <2>1, SmallMod, Zenon
  <2>4. (t + d) % S # recv_head /\ (t + d) % S \in 0 .. S - 1
    BY <1>3, <2>1, <2>2, <2>3, SMTT(60)
  <2> QED BY <1>1, <1>3, <2>1, <2>4, SMTT(60)
<1>8. bufs'[(t + (n + 1) - 1) % S] = f
  <2>1. t + (n + 1) - 1 = t + n
    BY <1>3
  <2> QED BY <1>1, <1>3, <2>1
<1> HIDE DEF n, S, t
<1>9. Queue' = Append(Queue, f)
  <2> DEFINE T == Frames \cup {None}
  <2>1. \A i \in 1 .. n + 1 : (t + i - 1) % S \in 0 .. S - 1
    BY <1>3
  <2>2. bufs' \in [0 .. S - 1 -> T]
    BY <1>1, <1>3
  <2>3. Queue \in Seq(T) /\ Len(Queue) = n
    BY <1>3, <1>6, <2>1
  <2>4. Queue' \in Seq(T) /\ Len(Queue') = n + 1
    BY <1>3, <1>5, <2>1, <2>2
  <2>5. Append(Queue, f) \in Seq(T) /\ Len(Append(Queue, f)) = n + 1
    BY <2>3
  <2>6. ASSUME NEW i \in 1 .. n + 1 PROVE Queue'[i] = Append(Queue, f)[i]
    <3>1. CASE i = n + 1
      BY <1>3, <1>5, <1>8, <2>3, <3>1
    <3>2. CASE i # n + 1
      <4>1. i \in 1 .. n
        BY <1>3, <3>2
      <4>2. Append(Queue, f)[i] = Queue[i]
        BY <2>3, <4>1
      <4>3. Queue'[i] = bufs'[(t + i - 1) % S]
        BY <1>3, <1>5, <2>6
      <4>4. Queue[i] = bufs[(t + i - 1) % S]
        BY <1>6, <4>1
      <4> QED BY <1>7, <4>1, <4>2, <4>3, <4>4
    <3> QED BY <3>1, <3>2, Zenon
  <2> HIDE DEF T
  <2>7. n + 1 \in Nat
    BY <1>3
  <2> QED BY <2>4, <2>5, <2>6, <2>7, SameSeq
<1>10. Len(Queue) < Slots
  BY <1>3, <1>6 DEF S
<1> QED BY <1>4, <1>9, <1>10 DEF FQ!Put

(* handle_frame takes the frame at the front.                              *)
LEMMA GetStep ==
  ASSUME QInv, NetHandle
  PROVE  HeadAfterQueue' /\ FQ!Get
<1> DEFINE n == InUse
           S == Slots
           t == recv_tail
<1>1. /\ net = "handle" /\ net' = "wait" /\ recv_full' = recv_full /\ recv_head' = recv_head
      /\ recv_tail' = (t + 1) % S /\ bufs' = bufs /\ last' = bufs[t]
  BY DEF NetHandle
<1>2. InUse' = n - 1 /\ n >= 1
  BY <1>1 DEF InUse, QInv, IInv, TypeOK
<1>3. /\ n \in 1 .. S /\ S \in Nat \ {0} /\ t \in 0 .. S - 1
      /\ recv_head = (t + n) % S
  BY <1>2, InUseRange DEF QInv, HeadAfterQueue
<1>4. \A d \in 0 .. S - 1 : (((t + 1) % S) + d) % S = (t + (d + 1)) % S
  BY <1>3, WrapStep
<1>5. HeadAfterQueue'
  <2>1. n - 1 \in 0 .. S - 1 /\ (n - 1) + 1 = n
    BY <1>3
  <2>2. (((t + 1) % S) + (n - 1)) % S = (t + ((n - 1) + 1)) % S
    BY <1>4, <2>1
  <2> QED BY <1>1, <1>2, <1>3, <2>1, <2>2 DEF HeadAfterQueue
<1>6. Queue' = [i \in 1 .. n - 1 |-> bufs[(((t + 1) % S) + i - 1) % S]]
  BY <1>1, <1>2 DEF Queue, InUse
<1>7. Queue = [i \in 1 .. n |-> bufs[(t + i - 1) % S]]
  BY DEF Queue, InUse
<1>8. (t + 1) % S \in Nat
  BY <1>3
<1>9. ASSUME NEW i \in 1 .. n - 1
      PROVE  (((t + 1) % S) + i - 1) % S = (t + (i + 1) - 1) % S
  <2>1. i - 1 \in 0 .. S - 1 /\ ((t + 1) % S) + i - 1 = ((t + 1) % S) + (i - 1)
        /\ t + (i + 1) - 1 = t + ((i - 1) + 1)
    BY <1>3, <1>8, <1>9
  <2> QED BY <1>4, <2>1
<1> HIDE DEF n, S, t
<1>10. Queue' = Tail(Queue) /\ Queue # <<>>
  <2> DEFINE T == Frames \cup {None}
  <2>1. /\ \A i \in 1 .. n : (t + i - 1) % S \in 0 .. S - 1
        /\ \A i \in 1 .. n - 1 : (((t + 1) % S) + i - 1) % S \in 0 .. S - 1
    BY <1>3, <1>8
  <2>2. bufs \in [0 .. S - 1 -> T]
    BY InUseRange DEF QInv, S
  <2>3. Queue \in Seq(T) /\ Len(Queue) = n /\ Queue # <<>>
    BY <1>3, <1>7, <2>1, <2>2, SMTT(60)
  <2>4. Queue' \in Seq(T) /\ Len(Queue') = n - 1
    BY <1>3, <1>6, <2>1, <2>2
  <2>5. Tail(Queue) \in Seq(T) /\ Len(Tail(Queue)) = n - 1
    BY <1>3, <2>3
  <2>6. ASSUME NEW i \in 1 .. n - 1 PROVE Queue'[i] = Tail(Queue)[i]
    <3>1. Tail(Queue)[i] = Queue[i + 1] /\ i + 1 \in 1 .. n
      BY <1>3, <2>3, <2>6
    <3> QED BY <1>3, <1>6, <1>7, <1>9, <3>1
  <2> HIDE DEF T
  <2>7. n - 1 \in Nat
    BY <1>3
  <2> QED BY <2>3, <2>4, <2>5, <2>6, <2>7, SameSeq
<1>11. last' = Head(Queue)
  <2>1. (t + 1 - 1) % S = t
    BY <1>3
  <2> QED BY <1>1, <1>3, <1>7, <2>1
<1> QED BY <1>5, <1>10, <1>11 DEF FQ!Get

(* Every step of driver, device and stack is a step of the queue or leaves *)
(* it alone.                                                               *)
LEMMA QueueStep ==
  ASSUME QInv, [Next]_vars
  PROVE  HeadAfterQueue' /\ [FQ!Put \/ FQ!Get]_<<Queue, last>>
<1>1. CASE Arrive \/ Sent \/ Handler \/ BhWait \/ BhRead \/ BhDone \/ UNCHANGED vars
  <2>1. UNCHANGED <<recv_tail, recv_head, bufs, last>> /\ InUse' = InUse
    BY <1>1 DEF Arrive, Sent, Handler, HandlerRead, HandlerAck, BhWait, BhRead, BhDone, vars,
                interface, stack, InUse
  <2> QED BY <2>1, QueueUntouched DEF QInv
<1>2. CASE BhFrame
  <2>1. /\ Head(ring) \in Frames /\ recv_frame(Head(ring)) /\ UNCHANGED <<net, last>>
    <3>1. ring \in Seq(Frames) /\ ring # <<>>
      BY <1>2, Zenon DEF BhFrame, QInv, IInv, TypeOK
    <3>2. recv_frame(Head(ring)) /\ UNCHANGED <<net, last>>
      BY <1>2, Zenon DEF BhFrame, stack
    <3> QED BY <3>1, <3>2
  <2>2. CASE recv_empty > 0
    BY <2>1, <2>2, PutStep
  <2>3. CASE ~(recv_empty > 0)
    <3>1. UNCHANGED <<recv_tail, recv_head, bufs, last>> /\ InUse' = InUse
      BY <2>1, <2>3 DEF recv_frame, interface, InUse
    <3> QED BY <3>1, QueueUntouched DEF QInv
  <2> QED BY <2>2, <2>3
<1>3. CASE NetWait
  <2>1. UNCHANGED <<recv_tail, recv_head, bufs, last>>
    BY <1>3 DEF NetWait
  <2>2. InUse' = InUse
    BY <1>3 DEF NetWait, InUse, QInv, IInv, TypeOK
  <2> QED BY <2>1, <2>2, QueueUntouched DEF QInv
<1>4. CASE NetHandle
  BY <1>4, GetStep
<1> QED BY <1>1, <1>2, <1>3, <1>4 DEF Next, Bottom, Net

(* QInv is an invariant.                                                   *)
THEOREM QueueInvariance == Spec => []QInv
<1>1. IInv /\ [Next]_vars => IInv'
  BY InvariantStep
<1>2. QInv /\ [Next]_vars => QInv'
  BY <1>1, InStep, QueueStep DEF QInv
<1> QED BY QInitHolds, <1>2, PTL DEF Spec

(* For every size of the ring, the place process_receive reads next is     *)
(* where the device put its oldest unread frame, through all wraps.        *)
THEOREM DriverInStep == Spec => []ReadsOldestFrame
<1>1. QInv => ReadsOldestFrame
  BY DEF QInv
<1> QED BY QueueInvariance, <1>1, PTL

(* For every number of buffers, recv_frame and handle_frame implement the  *)
(* first-in first-out queue: a frame is handed out once, unchanged, in     *)
(* order (the safety half of ImplementsFrameQueue).                        *)
THEOREM QueueRefinement == Spec => FQ!Init /\ [][FQ!Put \/ FQ!Get]_<<Queue, last>>
<1>1. QInv /\ [Next]_vars => [FQ!Put \/ FQ!Get]_<<Queue, last>>
  BY QueueStep
<1> QED BY QInitHolds, QueueInvariance, <1>1, PTL DEF Spec

=============================================================================
