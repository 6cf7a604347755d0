------------------------------- MODULE Serial -------------------------------
(***************************************************************************)
(* The driver of the first serial port (drivers/serial.rs) on its 16550     *)
(* UART.  Bytes are "c", for every byte that is sent as it is, and "n", the *)
(* newline, which is sent as "r" and "lf".                                  *)
(*                                                                         *)
(* COM1's lock disables interrupts, so between lock and unlock only the    *)
(* UART acts.  The bytes of a message are single steps because the UART    *)
(* sends at its own pace in between.                                       *)
(***************************************************************************)
EXTENDS Naturals, Sequences

CONSTANTS
  TxFifo,   \* Places of the transmit FIFO, 16 in the UART.
  RxFifo    \* Places of the receive FIFO; read_com1's buffer holds as many.

ASSUME SerialAssumption == TxFifo \in Nat \ {0, 1} /\ RxFifo \in Nat \ {0}

VARIABLES
  ier,      \* The UART's interrupts are enabled.
  rx,       \* The receive FIFO.
  tx,       \* The transmit FIFO.
  thri,     \* The UART signals that its transmit FIFO became empty.
  com1,     \* COM1.port is Some: serial::init has finished.
  who,      \* Who holds COM1's lock, or "none".
  said,     \* The bytes the lock was taken for.
  out,      \* What write_all has still to write of them.
  wire      \* What the UART has accepted since the lock was taken.

uartVars == <<ier, rx, tx, thri>>
lockVars == <<who, said, out, wire>>
serialVars == <<uartVars, com1, lockVars>>

Bytes == {"c", "n"}

(* write_byte turns a newline into two bytes.                              *)
Encode(b) == IF b = "n" THEN <<"r", "lf">> ELSE <<b>>
Expand(s) ==
  LET first[i \in 0 .. Len(s)] == IF i = 0 THEN <<>> ELSE first[i - 1] \o Encode(s[i])
  IN  first[Len(s)]

SerialInit ==
  /\ ier = FALSE /\ rx = <<>> /\ tx = <<>> /\ thri = FALSE
  /\ com1 = FALSE
  /\ who = "none" /\ said = <<>> /\ out = <<>> /\ wire = <<>>

-----------------------------------------------------------------------------
(* The UART.                                                               *)

(* The interrupt line: data to read, or an empty transmit FIFO that no     *)
(* write has answered.  The driver never reads IIR, the other answer.      *)
ComLine == ier /\ (rx # <<>> \/ thri)

(* A byte comes in; without a free place it is lost.                       *)
Receive(b) ==
  /\ ier
  /\ Len(rx) < RxFifo
  /\ rx' = Append(rx, b)
  /\ UNCHANGED <<ier, tx, thri, com1, lockVars>>

(* A byte leaves the transmit FIFO.                                        *)
Transmit ==
  /\ tx # <<>>
  /\ tx' = Tail(tx)
  /\ thri' = (thri \/ Tail(tx) = <<>>)
  /\ UNCHANGED <<ier, rx, com1, lockVars>>

(* outb(0, b): the UART drops a byte it has no place for.                  *)
OutThr(b) ==
  /\ thri' = FALSE
  /\ IF Len(tx) < TxFifo
       THEN tx' = Append(tx, b) /\ wire' = Append(wire, b)
       ELSE UNCHANGED <<tx, wire>>

-----------------------------------------------------------------------------
(* The driver.                                                             *)

(* serial::init: Com::new clears the FIFOs and enables interrupts; the     *)
(* escape sequence is next, without COM1's lock.                           *)
ComNew ==
  /\ ier' = TRUE
  /\ rx' = <<>> /\ tx' = <<>> /\ thri' = TRUE
  /\ out' = <<"c", "c">>
  /\ UNCHANGED <<com1, who, said, wire>>

(* The escape sequence is one call of `write`, which stops at the first    *)
(* byte that finds the transmit FIFO not empty; its result is ignored.     *)
EscapeEnds ==
  /\ out = <<>> \/ tx # <<>>
  /\ out' = <<>>
  /\ UNCHANGED <<uartVars, com1, who, said, wire>>

(* serial::init, last step: COM1 is there for everybody.                   *)
ComSet ==
  /\ who = "none"
  /\ com1' = TRUE
  /\ UNCHANGED <<uartVars, lockVars>>

(* COM1.lock() for p, which will write msg: tmp_write_com1, Handle::new,   *)
(* read_com1.                                                              *)
LockCom1(p, msg) ==
  /\ who = "none"
  /\ who' = p /\ said' = msg /\ out' = msg /\ wire' = <<>>

(* read: what is in the FIFO, for which read_com1's buffer has the places. *)
ReadAll == rx' = <<>>

(* Faulty variant: the line status is not looked at.                       *)
WriteByteUnchecked ==
  /\ out # <<>> /\ Head(out) \in Bytes
  /\ OutThr(Encode(Head(out))[1])
  /\ out' = Tail(Encode(Head(out))) \o Tail(out)
  /\ UNCHANGED <<ier, rx, com1, who, said>>

(* A byte of write_all: `write` stops at a byte for which the transmit     *)
(* FIFO is not empty, and write_all calls it again with the rest, so the   *)
(* byte is written once the FIFO is empty.  Of a newline this is the first *)
(* of two bytes.                                                           *)
WriteByte ==
  /\ out # <<>> /\ Head(out) \in Bytes
  /\ tx = <<>>
  /\ OutThr(Encode(Head(out))[1])
  /\ out' = Tail(Encode(Head(out))) \o Tail(out)
  /\ UNCHANGED <<ier, rx, com1, who, said>>

(* The second byte of a newline follows without a look at the line status. *)
WriteSecond ==
  /\ out # <<>> /\ Head(out) \notin Bytes
  /\ OutThr(Head(out))
  /\ out' = Tail(out)
  /\ UNCHANGED <<ier, rx, com1, who, said>>

(* The message is written and the guard dropped.                           *)
UnlockCom1(p) ==
  /\ who = p /\ out = <<>>
  /\ who' = "none" /\ said' = <<>> /\ wire' = <<>>
  /\ UNCHANGED out

-----------------------------------------------------------------------------
(* Properties.                                                             *)

(* Console output is exact: while somebody writes, what the UART has       *)
(* accepted and what is left make up the message, newlines expanded, with  *)
(* nothing lost to a full FIFO and nobody else's bytes in between.  In     *)
(* serial.rs this rests on one line status check per newline, on the FIFO  *)
(* and on the lock, which keeps read_com1's echo out.                      *)
MessagesWhole == who # "none" => Expand(said) = wire \o Expand(out)

=============================================================================
