------------------------------ MODULE BootProofs -----------------------------
(***************************************************************************)
(* The safety properties of Boot and of the serial port in it, for any     *)
(* size of the FIFOs and of the heap.                                      *)
(***************************************************************************)
EXTENDS Boot, WellFoundedInduction, TLAPS

(* What the UART is handed.                                                *)
Chars == Bytes \cup {"r", "lf"}

TypeOK ==
  /\ pc \in 1 .. 18 /\ tpc \in {"absent", "say", "nap"} /\ cur \in {"boot", "task"}
  /\ pend \subseteq Vectors

(* How far start() must have come for what there is: an interrupt can only *)
(* be pending, and a handler only run, once what it needs is set up.       *)
Setup ==
  /\ pc > 1 => gates = {"com", "hpet", "nic"}
  /\ pc <= 2 => routed = {}
  /\ pc > 3 => lapic = TRUE
  /\ ier = TRUE => pc > 4
  /\ hpet = TRUE => pc > 10
  /\ "nic" \in routed => pc > 12
  /\ pc > 12 => "nic" \in handlers
  /\ heapLock \in BOOLEAN /\ (heapLock = TRUE => pc = 9)

Pending ==
  /\ pc <= 2 => pend = {}
  /\ "com" \in pend => pc > 4
  /\ "hpet" \in pend => pc > 10
  /\ "nic" \in pend => pc > 12

(* The handler that runs is one of those, and has what it needs.           *)
Handling ==
  /\ trap \in {"none", "halt", "com", "com_out", "hpet", "nic", "nic_say", "nic_out", "no_heap",
               "ack", "exit"}
  /\ trap \notin {"none", "halt"} => pc > 4
  /\ trap \in {"nic", "nic_say", "nic_out", "no_heap"} => pc > 12
  /\ trap = "halt" => service = "kbd"

(* COM1's lock is held with interrupts off, by a handler or by the running *)
(* task at a place where it writes.                                        *)
Locking ==
  /\ trap # "none" => intr = FALSE
  /\ who = "trap" <=> trap \in {"com_out", "nic_out"}
  /\ who # "none" /\ who # "trap" => who = cur /\ trap = "none" /\ intr = FALSE /\ Says

(* start() forks only before it has written to user memory.                *)
Flushed == tlb \in BOOLEAN /\ (tlb = TRUE => pc > 14) /\ stale = FALSE

(* What is left to write begins with the second byte of a newline or is a  *)
(* part of the message; the second byte finds a place in the FIFO.         *)
Writing ==
  \/ out \in Seq(Bytes)
  \/ \E s \in Seq(Bytes) : out = <<"lf">> \o s /\ Len(tx) <= 1

SInv ==
  /\ rx \in Seq(Bytes) /\ tx \in Seq(Chars) /\ said \in Seq(Bytes) /\ wire \in Seq(Chars)
  /\ Writing /\ MessagesWhole

(* The inductive invariant.                                                *)
IInv == TypeOK /\ Setup /\ Pending /\ Handling /\ Locking /\ Flushed /\ SInv

-----------------------------------------------------------------------------
(* Expand, by the first byte of the message.                               *)

(* A set of numbers that is not empty has a least element.                 *)
LEMMA LeastNumber ==
  ASSUME NEW S \in SUBSET Nat, S # {}
  PROVE  \E x \in S : \A y \in S : x <= y
<1> DEFINE R == OpToRel(<, Nat)
<1>1. IsWellFoundedOn(R, Nat)
  BY NatLessThanWellFounded, Zenon
<1>2. \A x, y \in Nat : y < x => <<y, x>> \in R
  BY DEF OpToRel
<1> HIDE DEF R
<1>3. PICK x \in S : \A y \in S : ~(<<y, x>> \in R)
  BY <1>1, WFMin, ZenonT(60)
<1>4. \A y \in S : ~(y < x)
  BY <1>2, <1>3, Zenon
<1> QED BY <1>4

(* What holds of 0 and passes from a number to the next holds up to n.     *)
LEMMA Upwards ==
  ASSUME NEW n \in Nat, NEW G, 0 \in G, \A i \in 0 .. n : i + 1 \in 0 .. n /\ i \in G => i + 1 \in G
  PROVE  0 .. n \subseteq G
<1> DEFINE W == {i \in 0 .. n : i \notin G}
<1> SUFFICES ASSUME W # {} PROVE FALSE
  BY Zenon
<1>1. W \in SUBSET Nat
  OBVIOUS
<1> HIDE DEF W
<1>2. PICK m \in W : \A k \in W : m <= k
  BY <1>1, LeastNumber, Zenon
<1>3. m \in 0 .. n /\ m \notin G /\ m # 0
  BY <1>2, Zenon DEF W
<1>4. m - 1 \in 0 .. n /\ m - 1 + 1 = m
  BY <1>3
<1>5. m - 1 \notin W
  BY <1>1, <1>2, <1>4
<1>6. m - 1 \in G
  BY <1>4, <1>5, Zenon DEF W
<1> QED BY <1>3, <1>4, <1>6, Zenon

(* Sequences are equal if their items are.                                 *)
LEMMA SeqEqual ==
  ASSUME NEW S, NEW p \in Seq(S), NEW q \in Seq(S), Len(p) = Len(q),
         \A i \in 1 .. Len(p) : p[i] = q[i]
  PROVE  p = q
<1>1. DOMAIN p = 1 .. Len(p) /\ DOMAIN q = 1 .. Len(p)
  OBVIOUS
<1>2. p = [i \in 1 .. Len(p) |-> p[i]] /\ q = [i \in 1 .. Len(p) |-> q[i]]
  BY <1>1
<1> QED BY <1>2, Zenon

(* Concatenation is associative.                                           *)
LEMMA Assoc ==
  \A x, y, z \in Seq(Chars) : (x \o y) \o z = x \o (y \o z)
<1> TAKE x, y, z \in Seq(Chars)
<1> DEFINE l == (x \o y) \o z
           r == x \o (y \o z)
<1>1. l \in Seq(Chars) /\ r \in Seq(Chars) /\ Len(l) = Len(r)
  OBVIOUS
<1>2. \A i \in 1 .. Len(l) : l[i] = r[i]
  OBVIOUS
<1> HIDE DEF l, r
<1>3. l = r
  BY <1>1, <1>2, SeqEqual, Zenon
<1> QED BY <1>3, Zenon DEF l, r

(* f holds what the first bytes of s expand to.                            *)
Expands(f, s) ==
  /\ f[0] = <<>>
  /\ \A i \in 0 .. Len(s) : i + 1 \in 0 .. Len(s) => f[i + 1] = f[i] \o Encode(s[i + 1])

(* f solves the recursion in Expand, as far as m.                          *)
ExpandTo(f, s, m) == f = [i \in 0 .. m |-> IF i = 0 THEN <<>> ELSE f[i - 1] \o Encode(s[i])]

(* The recursion in Expand has a solution.                                 *)
LEMMA ExpandExists ==
  ASSUME NEW s, Len(s) \in Nat PROVE \E f : ExpandTo(f, s, Len(s))
<1> DEFINE G == {m \in Nat : \E f : ExpandTo(f, s, m)}
<1>1. 0 \in G
  <2> DEFINE f == [i \in 0 .. 0 |-> <<>>]
  <2>1. \A i \in 0 .. 0 : i = 0
    OBVIOUS
  <2>2. f = [i \in 0 .. 0 |-> IF i = 0 THEN <<>> ELSE f[i - 1] \o Encode(s[i])]
    BY <2>1, Zenon
  <2>3. 0 \in Nat
    OBVIOUS
  <2> QED BY <2>2, <2>3, Zenon DEF ExpandTo
<1>2. ASSUME NEW m \in 0 .. Len(s), m \in G PROVE m + 1 \in G
  <2>1. PICK f : ExpandTo(f, s, m)
    BY <1>2, Zenon
  <2> DEFINE h == [i \in 0 .. m + 1 |-> IF i <= m THEN f[i] ELSE f[m] \o Encode(s[i])]
  <2>2. \A i \in 0 .. m + 1 : /\ i <= m => i \in 0 .. m
                              /\ ~(i <= m) => i # 0 /\ i - 1 = m
                              /\ i # 0 => i - 1 \in 0 .. m + 1 /\ i - 1 <= m
    OBVIOUS
  <2>3. \A i \in 0 .. m : f[i] = IF i = 0 THEN <<>> ELSE f[i - 1] \o Encode(s[i])
    BY <2>1, Zenon DEF ExpandTo
  <2>4. ASSUME NEW i \in 0 .. m + 1
        PROVE  h[i] = IF i = 0 THEN <<>> ELSE h[i - 1] \o Encode(s[i])
    <3>1. i # 0 => h[i - 1] = f[i - 1]
      BY <2>2, Zenon
    <3>2. CASE i <= m
      <4>1. h[i] = f[i]
        BY <3>2, Zenon
      <4> HIDE DEF h
      <4> QED BY <2>2, <2>3, <3>1, <3>2, <4>1, Zenon
    <3>3. CASE ~(i <= m)
      <4>1. h[i] = f[m] \o Encode(s[i])
        BY <3>3, Zenon
      <4> HIDE DEF h
      <4> QED BY <2>2, <3>1, <3>3, <4>1, Zenon
    <3> QED BY <3>2, <3>3, Zenon
  <2>5. h = [i \in 0 .. m + 1 |-> IF i = 0 THEN <<>> ELSE h[i - 1] \o Encode(s[i])]
    <3> DEFINE g == [i \in 0 .. m + 1 |-> IF i = 0 THEN <<>> ELSE h[i - 1] \o Encode(s[i])]
    <3>1. \A i \in 0 .. m + 1 : h[i] = g[i]
      BY <2>4, Zenon
    <3> QED BY <3>1, Zenon
  <2>6. m + 1 \in Nat
    OBVIOUS
  <2> HIDE DEF h
  <2> QED BY <2>5, <2>6, Zenon DEF ExpandTo
<1> HIDE DEF G
<1>3. 0 .. Len(s) \subseteq G
  BY <1>1, <1>2, Upwards, Zenon
<1>4. Len(s) \in 0 .. Len(s)
  OBVIOUS
<1> QED BY <1>3, <1>4, Zenon DEF G

(* Expand is its last value.                                               *)
LEMMA ExpandFacts ==
  ASSUME NEW s, Len(s) \in Nat
  PROVE  \E f : Expands(f, s) /\ Expand(s) = f[Len(s)]
<1> DEFINE f == CHOOSE g : ExpandTo(g, s, Len(s))
<1>1. ExpandTo(f, s, Len(s))
  BY ExpandExists, Zenon
<1>2. Expand(s) = f[Len(s)]
  BY Zenon DEF Expand, ExpandTo
<1>3. 0 \in 0 .. Len(s)
  OBVIOUS
<1> HIDE DEF f
<1>4. \A i \in 0 .. Len(s) : f[i] = IF i = 0 THEN <<>> ELSE f[i - 1] \o Encode(s[i])
  BY <1>1, Zenon DEF ExpandTo
<1>5. ASSUME NEW i \in 0 .. Len(s), i + 1 \in 0 .. Len(s)
      PROVE  f[i + 1] = f[i] \o Encode(s[i + 1])
  <2>1. PICK k \in 0 .. Len(s) : k = i + 1 /\ k # 0 /\ k - 1 = i
    BY <1>5
  <2>2. f[k] = f[k - 1] \o Encode(s[k])
    BY <1>4, <2>1, Zenon
  <2> QED BY <2>1, <2>2, Zenon
<1>6. Expands(f, s)
  BY <1>3, <1>4, <1>5, Zenon DEF Expands
<1> QED BY <1>2, <1>6, Zenon

LEMMA EncodeFacts ==
  /\ \A b \in Chars : Encode(b) \in Seq(Chars)
  /\ Encode("n") = <<"r", "lf">> /\ Encode("c") = <<"c">> /\ Encode("lf") = <<"lf">>
BY DEF Encode, Chars, Bytes

(* Bytes expand to what the UART is handed.                                *)
LEMMA ExpandType ==
  ASSUME NEW s \in Seq(Chars), NEW f, Expands(f, s)
  PROVE  \A i \in 0 .. Len(s) : f[i] \in Seq(Chars)
<1> DEFINE G == {i \in Nat : i \in 0 .. Len(s) => f[i] \in Seq(Chars)}
<1>1. 0 \in G
  <2>1. <<>> \in Seq(Chars) /\ 0 \in Nat
    OBVIOUS
  <2> QED BY <2>1, Zenon DEF Expands
<1>2. ASSUME NEW i \in 0 .. Len(s), i + 1 \in 0 .. Len(s), i \in G PROVE i + 1 \in G
  <2>1. f[i + 1] = f[i] \o Encode(s[i + 1])
    BY <1>2, Zenon DEF Expands
  <2>2. f[i] \in Seq(Chars)
    BY <1>2
  <2>3. s[i + 1] \in Chars
    BY <1>2
  <2>4. Encode(s[i + 1]) \in Seq(Chars)
    BY <2>3, EncodeFacts, Zenon
  <2>5. f[i + 1] \in Seq(Chars)
    BY <2>1, <2>2, <2>4
  <2> QED BY <2>5
<1>3. Len(s) \in Nat
  OBVIOUS
<1> HIDE DEF G
<1>4. 0 .. Len(s) \subseteq G
  BY <1>1, <1>2, <1>3, Upwards, Zenon
<1> QED BY <1>4, Zenon DEF G

(* Expanding a message, by its first byte.                                 *)
LEMMA ExpandEmpty == Expand(<<>>) = <<>>
<1>1. Len(<<>>) = 0
  OBVIOUS
<1>2. PICK f : Expands(f, <<>>) /\ Expand(<<>>) = f[Len(<<>>)]
  <2>1. Len(<<>>) \in Nat
    OBVIOUS
  <2> QED BY <2>1, ExpandFacts, Zenon
<1> QED BY <1>1, <1>2, Zenon DEF Expands

LEMMA ExpandCons ==
  ASSUME NEW b \in Chars, NEW s \in Seq(Bytes)
  PROVE  /\ Expand(s) \in Seq(Chars)
         /\ Expand(<<b>> \o s) = Encode(b) \o Expand(s)
<1> DEFINE w == <<b>> \o s
           e == Encode(b)
<1>1. /\ w \in Seq(Chars) /\ Len(w) = Len(s) + 1 /\ w[1] = b /\ s \in Seq(Chars)
      /\ Len(s) \in Nat /\ Len(w) \in Nat /\ Len(s) \in 0 .. Len(s)
  BY DEF Chars
<1>2. \A i \in 0 .. Len(s) : i + 1 \in 0 .. Len(s) => w[i + 1 + 1] = s[i + 1]
  BY DEF Chars
<1>3. e \in Seq(Chars)
  BY EncodeFacts, Zenon
<1> HIDE DEF w, e
<1>4. PICK f : Expands(f, w) /\ Expand(w) = f[Len(w)]
  BY <1>1, ExpandFacts, Zenon
<1>5. PICK g : Expands(g, s) /\ Expand(s) = g[Len(s)]
  BY <1>1, ExpandFacts, Zenon
<1>6. \A i \in 0 .. Len(s) : g[i] \in Seq(Chars)
  BY <1>1, <1>5, ExpandType, Zenon
<1> DEFINE G == {i \in Nat : i \in 0 .. Len(s) => f[i + 1] = e \o g[i]}
<1>7. 0 \in G
  <2>1. 0 \in 0 .. Len(w) /\ 0 + 1 \in 0 .. Len(w) /\ 0 + 1 = 1 /\ 0 \in Nat
    BY <1>1
  <2>2. f[0 + 1] = f[0] \o Encode(w[0 + 1]) /\ f[0] = <<>> /\ g[0] = <<>>
    BY <1>4, <1>5, <2>1, Zenon DEF Expands
  <2>3. f[0 + 1] = <<>> \o e
    BY <1>1, <2>1, <2>2, Zenon DEF e
  <2>4. <<>> \o e = e \o <<>>
    BY <1>3
  <2> QED BY <2>1, <2>2, <2>3, <2>4, Zenon
<1>8. ASSUME NEW i \in 0 .. Len(s), i + 1 \in 0 .. Len(s), i \in G PROVE i + 1 \in G
  <2>1. i + 1 \in 0 .. Len(w) /\ i + 1 + 1 \in 0 .. Len(w) /\ i + 1 \in Nat
    BY <1>1, <1>8
  <2>2. f[i + 1 + 1] = f[i + 1] \o Encode(w[i + 1 + 1]) /\ g[i + 1] = g[i] \o Encode(s[i + 1])
    BY <1>4, <1>5, <1>8, <2>1, Zenon DEF Expands
  <2>3. f[i + 1] = e \o g[i] /\ w[i + 1 + 1] = s[i + 1] /\ g[i] \in Seq(Chars)
    BY <1>2, <1>6, <1>8, Zenon
  <2>4. Encode(s[i + 1]) \in Seq(Chars)
    <3>1. s[i + 1] \in Chars
      BY <1>1, <1>8
    <3> QED BY <3>1, EncodeFacts, Zenon
  <2>5. (e \o g[i]) \o Encode(s[i + 1]) = e \o (g[i] \o Encode(s[i + 1]))
    BY <1>3, <2>3, <2>4, Assoc, Zenon
  <2>6. f[i + 1 + 1] = e \o g[i + 1]
    BY <2>2, <2>3, <2>5, Zenon
  <2> QED BY <2>1, <2>6, Zenon
<1> HIDE DEF G
<1>9. 0 .. Len(s) \subseteq G
  BY <1>1, <1>7, <1>8, Upwards, Zenon
<1>10. f[Len(s) + 1] = e \o g[Len(s)]
  BY <1>1, <1>9, Zenon DEF G
<1> QED BY <1>1, <1>4, <1>5, <1>6, <1>10, Zenon DEF w, e

-----------------------------------------------------------------------------
(* The serial port.                                                        *)

(* What a step of Boot does to the serial port: nothing, a step of the     *)
(* driver, or one of the UART.                                             *)
Locks == /\ who' \in {"boot", "task", "trap"} /\ said' \in Seq(Bytes) /\ out' = said' /\ wire' = <<>>
         /\ rx' \in {rx, <<>>} /\ UNCHANGED <<ier, tx>>

Unlocks == /\ who' = "none" /\ said' = <<>> /\ wire' = <<>>
           /\ UNCHANGED <<ier, rx, tx, out>>

SerialStep ==
  \/ UNCHANGED <<ier, rx, tx, lockVars>>
  \/ who = "none" /\ (ComNew \/ EscapeEnds)
  \/ WriteByte \/ WriteSecond
  \/ Locks \/ Unlocks
  \/ Transmit \/ \E b \in Bytes : Receive(b)

(* The first byte of what is left to write.                                *)
LEMMA HeadTail ==
  ASSUME NEW s \in Seq(Bytes), s # <<>>
  PROVE  Head(s) \in Bytes /\ Tail(s) \in Seq(Bytes) /\ s = <<Head(s)>> \o Tail(s)
OBVIOUS

LEMMA SecondByte ==
  ASSUME NEW s \in Seq(Bytes)
  PROVE  /\ <<"lf">> \o s # <<>> /\ Head(<<"lf">> \o s) = "lf" /\ Tail(<<"lf">> \o s) = s
         /\ "lf" \notin Bytes /\ "lf" \in Chars
BY DEF Bytes, Chars

(* An empty FIFO takes a byte, and one with a byte in it another.          *)
LEMMA Accepted ==
  ASSUME tx \in Seq(Chars), wire \in Seq(Chars), Len(tx) <= 1, NEW b \in Chars, OutThr(b)
  PROVE  /\ tx' = Append(tx, b) /\ tx' \in Seq(Chars)
         /\ wire' = wire \o <<b>> /\ wire' \in Seq(Chars)
<1>1. Len(tx) < TxFifo
  BY SerialAssumption
<1>2. tx' = Append(tx, b) /\ wire' = Append(wire, b)
  BY <1>1, Zenon DEF OutThr
<1> QED BY <1>2

(* A byte that the UART accepts goes from what is left to the wire.        *)
LEMMA Moved ==
  \A w, s \in Seq(Chars) :
    /\ w \o (<<"c">> \o s) = (w \o <<"c">>) \o s
    /\ w \o (<<"lf">> \o s) = (w \o <<"lf">>) \o s
    /\ w \o ((<<"r">> \o <<"lf">>) \o s) = (w \o <<"r">>) \o (<<"lf">> \o s)
<1> SUFFICES ASSUME NEW w \in Seq(Chars), NEW s \in Seq(Chars)
             PROVE  /\ w \o (<<"c">> \o s) = (w \o <<"c">>) \o s
                    /\ w \o (<<"lf">> \o s) = (w \o <<"lf">>) \o s
                    /\ w \o ((<<"r">> \o <<"lf">>) \o s) = (w \o <<"r">>) \o (<<"lf">> \o s)
  BY Zenon
<1>1. <<"c">> \in Seq(Chars) /\ <<"lf">> \in Seq(Chars) /\ <<"r">> \in Seq(Chars)
  BY DEF Chars, Bytes
<1>2. <<"lf">> \o s \in Seq(Chars)
  BY <1>1
<1>3. (w \o <<"c">>) \o s = w \o (<<"c">> \o s)
  BY <1>1, Assoc, Zenon
<1>4. (w \o <<"lf">>) \o s = w \o (<<"lf">> \o s)
  BY <1>1, Assoc, Zenon
<1>5. (<<"r">> \o <<"lf">>) \o s = <<"r">> \o (<<"lf">> \o s)
  BY <1>1, Assoc, Zenon
<1>6. (w \o <<"r">>) \o (<<"lf">> \o s) = w \o (<<"r">> \o (<<"lf">> \o s))
  BY <1>1, <1>2, Assoc, Zenon
<1> QED BY <1>3, <1>4, <1>5, <1>6, Zenon

LEMMA WriteByteKeeps ==
  ASSUME SInv, WriteByte PROVE SInv'
<1>1. /\ out # <<>> /\ Head(out) \in Bytes /\ tx = <<>> /\ OutThr(Encode(Head(out))[1])
      /\ out' = Tail(Encode(Head(out))) \o Tail(out)
      /\ UNCHANGED <<ier, rx, com1, who, said>>
  BY Zenon DEF WriteByte
<1>2. /\ rx \in Seq(Bytes) /\ tx \in Seq(Chars) /\ said \in Seq(Bytes) /\ wire \in Seq(Chars)
      /\ Writing /\ MessagesWhole
  BY Zenon DEF SInv
<1>3. out \in Seq(Bytes)
  BY <1>1, <1>2, SecondByte, Zenon DEF Writing
<1> DEFINE b == Head(out)
           s == Tail(out)
<1>4. b \in Bytes /\ b \in Chars /\ s \in Seq(Bytes) /\ out = <<b>> \o s
  BY <1>1, <1>3, HeadTail DEF Chars
<1>5. Len(tx) <= 1 /\ Len(tx) = 0
  BY <1>1
<1>6. Expand(s) \in Seq(Chars) /\ Expand(out) = Encode(b) \o Expand(s)
  BY <1>4, ExpandCons, Zenon
<1>7. <<"lf">> \in Seq(Chars) /\ <<>> \in Seq(Chars) /\ "r" \in Chars /\ "lf" \in Chars /\ "c" \in Chars
  BY DEF Chars, Bytes
<1> HIDE DEF b, s
<1>8. CASE b = "n"
  <2>1. /\ Encode(b)[1] = "r" /\ Tail(Encode(b)) = <<"lf">> /\ Encode(b) = <<"r">> \o <<"lf">>
    BY <1>8 DEF Encode
  <2>2. OutThr("r") /\ out' = <<"lf">> \o s
    BY <1>1, <2>1, Zenon DEF b, s
  <2>3. tx' = Append(tx, "r") /\ tx' \in Seq(Chars) /\ wire' = wire \o <<"r">> /\ wire' \in Seq(Chars)
    BY <1>2, <1>5, <1>7, <2>2, Accepted, Zenon
  <2>4. Len(tx') <= 1
    BY <1>2, <1>5, <2>3
  <2>5. Writing'
    BY <1>4, <2>2, <2>4, Zenon DEF Writing
  <2>6. Expand(out)' = <<"lf">> \o Expand(s)
    <3>1. Expand(out') = Encode("lf") \o Expand(s)
      BY <1>4, <1>7, <2>2, ExpandCons, Zenon
    <3> QED BY <3>1, EncodeFacts, Zenon
  <2>7. wire \o Expand(out) = wire' \o Expand(out)'
    <3>1. wire \o ((<<"r">> \o <<"lf">>) \o Expand(s)) = (wire \o <<"r">>) \o (<<"lf">> \o Expand(s))
      BY <1>2, <1>6, Moved, Zenon
    <3> QED BY <1>6, <2>1, <2>3, <2>6, <3>1, Zenon
  <2>8. MessagesWhole'
    BY <1>1, <1>2, <2>7, Zenon DEF MessagesWhole
  <2> QED BY <1>1, <1>2, <2>3, <2>5, <2>8, Zenon DEF SInv
<1>9. CASE b = "c"
  <2>1. Encode(b)[1] = "c" /\ Tail(Encode(b)) = <<>> /\ Encode(b) = <<"c">>
    BY <1>9 DEF Encode
  <2>2. OutThr("c") /\ out' = s
    <3>1. <<>> \o s = s
      BY <1>4
    <3> QED BY <1>1, <2>1, <3>1, Zenon DEF b, s
  <2>3. tx' \in Seq(Chars) /\ wire' = wire \o <<"c">> /\ wire' \in Seq(Chars)
    BY <1>2, <1>5, <1>7, <2>2, Accepted, Zenon
  <2>4. Writing'
    BY <1>4, <2>2, Zenon DEF Writing
  <2>5. wire \o Expand(out) = wire' \o Expand(out)'
    <3>1. wire \o (<<"c">> \o Expand(s)) = (wire \o <<"c">>) \o Expand(s)
      BY <1>2, <1>6, Moved, Zenon
    <3> QED BY <1>6, <2>1, <2>2, <2>3, <3>1, Zenon
  <2>6. MessagesWhole'
    BY <1>1, <1>2, <2>5, Zenon DEF MessagesWhole
  <2> QED BY <1>1, <1>2, <2>3, <2>4, <2>6, Zenon DEF SInv
<1> QED BY <1>4, <1>8, <1>9, Zenon DEF Bytes

LEMMA WriteSecondKeeps ==
  ASSUME SInv, WriteSecond PROVE SInv'
<1>1. /\ out # <<>> /\ Head(out) \notin Bytes /\ OutThr(Head(out)) /\ out' = Tail(out)
      /\ UNCHANGED <<ier, rx, com1, who, said>>
  BY Zenon DEF WriteSecond
<1>2. /\ rx \in Seq(Bytes) /\ tx \in Seq(Chars) /\ said \in Seq(Bytes) /\ wire \in Seq(Chars)
      /\ Writing /\ MessagesWhole
  BY Zenon DEF SInv
<1>3. PICK s \in Seq(Bytes) : out = <<"lf">> \o s /\ Len(tx) <= 1
  BY <1>1, <1>2, HeadTail, Zenon DEF Writing
<1>4. OutThr("lf") /\ out' = s /\ "lf" \in Chars
  BY <1>1, <1>3, SecondByte, Zenon
<1>5. tx' \in Seq(Chars) /\ wire' = wire \o <<"lf">> /\ wire' \in Seq(Chars)
  BY <1>2, <1>3, <1>4, Accepted, Zenon
<1>6. Writing'
  BY <1>4, Zenon DEF Writing
<1>7. Expand(s) \in Seq(Chars) /\ Expand(out) = <<"lf">> \o Expand(s)
  BY <1>3, <1>4, ExpandCons, EncodeFacts, Zenon
<1>8. wire \o Expand(out) = wire' \o Expand(out)'
  <2>1. wire \o (<<"lf">> \o Expand(s)) = (wire \o <<"lf">>) \o Expand(s)
    BY <1>2, <1>7, Moved, Zenon
  <2> QED BY <1>4, <1>5, <1>7, <2>1, Zenon
<1>9. MessagesWhole'
  BY <1>1, <1>2, <1>8, Zenon DEF MessagesWhole
<1> QED BY <1>1, <1>2, <1>5, <1>6, <1>9, Zenon DEF SInv

(* Every step keeps what is said of the serial port.                       *)
LEMMA SerialKeeps ==
  ASSUME SInv, SerialStep PROVE SInv'
<1>1. /\ rx \in Seq(Bytes) /\ tx \in Seq(Chars) /\ said \in Seq(Bytes) /\ wire \in Seq(Chars)
      /\ Writing /\ MessagesWhole
  BY Zenon DEF SInv
<1>2. CASE UNCHANGED <<ier, rx, tx, lockVars>>
  BY <1>1, <1>2, Zenon DEF SInv, Writing, MessagesWhole, lockVars
<1>3. CASE who = "none" /\ (ComNew \/ EscapeEnds)
  <2>1. /\ rx' \in Seq(Bytes) /\ tx' \in Seq(Chars) /\ out' \in Seq(Bytes)
    <3>1. <<>> \in Seq(Bytes) /\ <<>> \in Seq(Chars) /\ <<"c", "c">> \in Seq(Bytes)
      BY DEF Bytes
    <3> QED BY <1>1, <1>3, <3>1, Zenon DEF ComNew, EscapeEnds, uartVars
  <2>2. UNCHANGED <<who, said, wire>>
    BY <1>3 DEF ComNew, EscapeEnds
  <2> QED BY <1>1, <1>3, <2>1, <2>2, Zenon DEF SInv, Writing, MessagesWhole
<1>4. CASE Locks
  <2>1. /\ <<>> \in Seq(Bytes) /\ <<>> \in Seq(Chars) /\ said' \in Seq(Bytes) /\ out' = said' /\ wire' = <<>>
        /\ rx' \in {rx, <<>>} /\ tx' = tx
    BY <1>4 DEF Locks
  <2>2. <<>> \o Expand(said') = Expand(said')
    <3>1. Expand(said') \in Seq(Chars)
      BY <2>1, ExpandCons, Zenon DEF Chars, Bytes
    <3> QED BY <3>1
  <2> QED BY <1>1, <2>1, <2>2, Zenon DEF SInv, Writing, MessagesWhole
<1>5. CASE Unlocks
  <2>1. <<>> \in Seq(Bytes) /\ <<>> \in Seq(Chars)
    OBVIOUS
  <2> QED BY <1>1, <1>5, <2>1, Zenon DEF SInv, Writing, MessagesWhole, Unlocks
<1>6. CASE Transmit
  <2>1. tx' \in Seq(Chars) /\ (Len(tx) <= 1 => Len(tx') <= 1)
    BY <1>1, <1>6 DEF Transmit
  <2>2. UNCHANGED <<rx, who, said, out, wire>>
    BY <1>6, Zenon DEF Transmit, lockVars
  <2> QED BY <1>1, <2>1, <2>2, Zenon DEF SInv, Writing, MessagesWhole
<1>7. CASE \E b \in Bytes : Receive(b)
  <2>1. rx' \in Seq(Bytes)
    BY <1>1, <1>7 DEF Receive
  <2>2. UNCHANGED <<tx, who, said, out, wire>>
    BY <1>7, Zenon DEF Receive, lockVars
  <2> QED BY <1>1, <2>1, <2>2, Zenon DEF SInv, Writing, MessagesWhole
<1> QED BY <1>2, <1>3, <1>4, <1>5, <1>6, <1>7, WriteByteKeeps, WriteSecondKeeps, Zenon DEF SerialStep

-----------------------------------------------------------------------------
(* start().                                                                *)

(* The steps by their numbers.                                             *)
LEMMA OrderFacts ==
  ASSUME NEW i \in 1 .. 18
  PROVE  /\ Step(i) = "idt" <=> i = 1
         /\ Step(i) = "remap" <=> i = 2
         /\ Step(i) = "statics" <=> i = 3
         /\ Step(i) = "com_new" <=> i = 4
         /\ Step(i) = "esc" <=> i = 5
         /\ Step(i) = "com_set" <=> i = 6
         /\ Step(i) = "mcfg" <=> i = 8
         /\ Step(i) = "mcfg_drop" <=> i = 9
         /\ Step(i) = "hpet" <=> i = 10
         /\ Step(i) = "nic_on" <=> i = 11
         /\ Step(i) = "nic_route" <=> i = 12
         /\ Step(i) = "new_task" <=> i = 14
         /\ Step(i) = "main_sleep" <=> i = 16
         /\ Step(i) = "main_touch" <=> i = 17
         /\ Step(i) = "main_yield" <=> i = 18
         /\ Step(i) \in {"say", "main_say"} <=> i \in {7, 13, 15}
         /\ Step(i) = "main_say" <=> i = 15
BY DEF Step, Order

LEMMA AfterFacts ==
  /\ \A i \in 1 .. 17 : After(i) = i + 1
  /\ After(18) = 15
<1>1. Len(Order) = 18 /\ DOMAIN Order = 1 .. 18
  BY DEF Order
<1>2. (CHOOSE j \in DOMAIN Order : Order[j] = "main_say") = 15
  <2>1. \A j \in 1 .. 18 : Order[j] = "main_say" <=> j = 15
    BY OrderFacts, Zenon DEF Step
  <2>2. 15 \in 1 .. 18
    OBVIOUS
  <2> QED BY <1>1, <2>1, <2>2, Zenon
<1>3. \A i \in 1 .. 17 : i # 18
  OBVIOUS
<1> QED BY <1>1, <1>2, <1>3, Zenon DEF After

(* start() goes from step n to step m, nobody holding COM1's lock.         *)
Goes(n, m) == /\ pc = n /\ pc' = m /\ cur = "boot"
              /\ trap = "none" /\ trap' = "none" /\ who = "none" /\ who' = "none"

(* At a step that does not write nobody holds COM1's lock.                 *)
LEMMA NobodyWrites ==
  ASSUME TypeOK, Locking, NEW s, BootAt(s), s \notin {"say", "main_say"}
  PROVE  who = "none"
BY DEF TypeOK, Locking, BootAt, Says

LEMMA StepGoes ==
  ASSUME TypeOK, Locking
  PROVE  /\ InitIdt => Goes(1, 2)
         /\ RemapAll => Goes(2, 3)
         /\ SetStatics => Goes(3, 4)
         /\ SerialNew => Goes(4, 5)
         /\ SerialEscape => Goes(5, 5) \/ Goes(5, 6)
         /\ SerialSet => Goes(6, 7)
         /\ ParseMcfg => Goes(8, 9)
         /\ ParseMcfgDrop => Goes(9, 10)
         /\ HpetInit => Goes(10, 11)
         /\ NicOn => Goes(11, 12)
         /\ NicRoute => Goes(12, 13)
         /\ NewTasks => Goes(14, 15)
         /\ MainSleep => Goes(16, 17)
         /\ MainTouch => Goes(17, 18)
         /\ MainYield => Goes(18, 15)
<1> DEFINE At(s, n) == BootAt(s) => /\ pc = n /\ cur = "boot" /\ trap = "none" /\ who = "none"
                                    /\ Proceed => pc' = IF n = 18 THEN 15 ELSE n + 1
<1>1. pc \in 1 .. 18
  BY DEF TypeOK
<1>2. /\ At("idt", 1) /\ At("remap", 2) /\ At("statics", 3) /\ At("com_new", 4) /\ At("esc", 5)
      /\ At("com_set", 6) /\ At("mcfg", 8) /\ At("mcfg_drop", 9) /\ At("hpet", 10)
      /\ At("nic_on", 11) /\ At("nic_route", 12) /\ At("new_task", 14) /\ At("main_sleep", 16)
      /\ At("main_touch", 17) /\ At("main_yield", 18)
  BY <1>1, OrderFacts, AfterFacts, NobodyWrites DEF BootAt, Proceed
<1> HIDE DEF At
<1>3. InitIdt => Goes(1, 2)
  BY <1>2 DEF InitIdt, At, Goes, cpuVars, serialVars, lockVars
<1>4. RemapAll => Goes(2, 3)
  BY <1>2 DEF RemapAll, At, Goes, cpuVars, serialVars, lockVars
<1>5. SetStatics => Goes(3, 4)
  BY <1>2 DEF SetStatics, At, Goes, cpuVars, serialVars, lockVars
<1>6. SerialNew => Goes(4, 5)
  BY <1>2 DEF SerialNew, ComNew, At, Goes, cpuVars, serialVars, lockVars
<1>7. SerialEscape => Goes(5, 5) \/ Goes(5, 6)
  <2>1. SerialEscape => BootAt("esc") /\ (pc' = pc \/ Proceed) /\ UNCHANGED <<who, trap>>
    BY Zenon DEF SerialEscape, WriteByte, EscapeEnds, cpuVars
  <2> QED BY <1>2, <2>1 DEF At, Goes
<1>8. SerialSet => Goes(6, 7)
  BY <1>2 DEF SerialSet, ComSet, At, Goes, cpuVars, serialVars, lockVars
<1>9. ParseMcfg => Goes(8, 9)
  BY <1>2 DEF ParseMcfg, At, Goes, cpuVars, serialVars, lockVars
<1>10. ParseMcfgDrop => Goes(9, 10)
  BY <1>2 DEF ParseMcfgDrop, At, Goes, cpuVars, serialVars, lockVars
<1>11. HpetInit => Goes(10, 11)
  BY <1>2 DEF HpetInit, At, Goes, cpuVars, serialVars, lockVars
<1>12. NicOn => Goes(11, 12)
  BY <1>2 DEF NicOn, At, Goes, cpuVars, serialVars, lockVars
<1>13. NicRoute => Goes(12, 13)
  BY <1>2 DEF NicRoute, At, Goes, cpuVars, serialVars, lockVars
<1>14. NewTasks => Goes(14, 15)
  BY <1>2 DEF NewTasks, At, Goes, cpuVars, serialVars, lockVars
<1>15. MainSleep => Goes(16, 17)
  BY <1>2 DEF MainSleep, At, Goes, cpuVars, serialVars, lockVars
<1>16. MainTouch => Goes(17, 18)
  BY <1>2 DEF MainTouch, At, Goes, cpuVars, serialVars, lockVars
<1>17. MainYield => Goes(18, 15)
  BY <1>2 DEF MainYield, At, Goes, cpuVars, serialVars, lockVars
<1> QED BY <1>3, <1>4, <1>5, <1>6, <1>7, <1>8, <1>9, <1>10, <1>11, <1>12, <1>13, <1>14, <1>15, <1>16, <1>17, Zenon

(* start() is where it was, or a step further.                             *)
Onward == pc' \in 1 .. 18 /\ \A c \in 1 .. 14 : pc > c => pc' > c

(* What a step of start() sets up is what the steps after it rely on.      *)
LEMMA BootSetup ==
  ASSUME TypeOK, Setup, Locking, BootStep
  PROVE  Setup' /\ Onward /\ trap = "none" /\ trap' = "none" /\ who' = "none"
<1> DEFINE Goal == Setup' /\ Onward /\ trap = "none" /\ trap' = "none" /\ who' = "none"
<1>1. CASE InitIdt
  <2>1. Goes(1, 2)
    BY <1>1, StepGoes, Zenon
  <2> QED BY <1>1, <2>1 DEF InitIdt, Goes, Onward, Setup, setupVars, heapVars, serialVars, uartVars
<1>2. CASE RemapAll
  <2>1. Goes(2, 3)
    BY <1>2, StepGoes, Zenon
  <2> QED BY <1>2, <2>1 DEF RemapAll, Goes, Onward, Setup, setupVars, heapVars, serialVars, uartVars
<1>3. CASE SetStatics
  <2>1. Goes(3, 4)
    BY <1>3, StepGoes, Zenon
  <2> QED BY <1>3, <2>1 DEF SetStatics, Goes, Onward, Setup, setupVars, heapVars, serialVars, uartVars
<1>4. CASE SerialNew
  <2>1. Goes(4, 5)
    BY <1>4, StepGoes, Zenon
  <2> QED BY <1>4, <2>1 DEF SerialNew, ComNew, Goes, Onward, Setup, setupVars, heapVars, serialVars, uartVars
<1>5. CASE SerialEscape
  <2>1. Goes(5, 5) \/ Goes(5, 6)
    BY <1>5, StepGoes, Zenon
  <2> QED BY <1>5, <2>1 DEF SerialEscape, WriteByte, EscapeEnds, Goes, Onward, Setup, setupVars, heapVars, serialVars, uartVars
<1>6. CASE SerialSet
  <2>1. Goes(6, 7)
    BY <1>6, StepGoes, Zenon
  <2> QED BY <1>6, <2>1 DEF SerialSet, ComSet, Goes, Onward, Setup, setupVars, heapVars, serialVars, uartVars
<1>7. CASE ParseMcfg
  <2>1. Goes(8, 9)
    BY <1>7, StepGoes, Zenon
  <2> QED BY <1>7, <2>1 DEF ParseMcfg, Goes, Onward, Setup, setupVars, heapVars, serialVars, uartVars
<1>8. CASE ParseMcfgDrop
  <2>1. Goes(9, 10)
    BY <1>8, StepGoes, Zenon
  <2>2. heapLock' \in BOOLEAN /\ (heapLock' = TRUE => pc' = 9)
    BY <1>8, Zenon DEF ParseMcfgDrop
  <2>3. UNCHANGED <<gates, routed, lapic, handlers, hpet, ier>>
    BY <1>8, Zenon DEF ParseMcfgDrop, setupVars, serialVars, uartVars
  <2> QED BY <2>1, <2>2, <2>3 DEF Goes, Onward, Setup
<1>9. CASE HpetInit
  <2>1. Goes(10, 11)
    BY <1>9, StepGoes, Zenon
  <2> QED BY <1>9, <2>1 DEF HpetInit, Unmask, Goes, Onward, Setup, setupVars, heapVars, serialVars, uartVars
<1>10. CASE NicOn
  <2>1. Goes(11, 12)
    BY <1>10, StepGoes, Zenon
  <2> QED BY <1>10, <2>1 DEF NicOn, Goes, Onward, Setup, setupVars, heapVars, serialVars, uartVars
<1>11. CASE NicRoute
  <2>1. Goes(12, 13)
    BY <1>11, StepGoes, Zenon
  <2> QED BY <1>11, <2>1 DEF NicRoute, Remap, Goes, Onward, Setup, setupVars, heapVars, serialVars, uartVars
<1>12. CASE NewTasks
  <2>1. Goes(14, 15)
    BY <1>12, StepGoes, Zenon
  <2> QED BY <1>12, <2>1 DEF NewTasks, Goes, Onward, Setup, setupVars, heapVars, serialVars, uartVars
<1>13. CASE MainSleep
  <2>1. Goes(16, 17)
    BY <1>13, StepGoes, Zenon
  <2> QED BY <1>13, <2>1 DEF MainSleep, Goes, Onward, Setup, setupVars, heapVars, serialVars, uartVars
<1>14. CASE MainTouch
  <2>1. Goes(17, 18)
    BY <1>14, StepGoes, Zenon
  <2> QED BY <1>14, <2>1 DEF MainTouch, Goes, Onward, Setup, setupVars, heapVars, serialVars, uartVars
<1>15. CASE MainYield
  <2>1. Goes(18, 15)
    BY <1>15, StepGoes, Zenon
  <2> QED BY <1>15, <2>1 DEF MainYield, Goes, Onward, Setup, setupVars, heapVars, serialVars, uartVars
<1> HIDE DEF Goal
<1> QED BY <1>1, <1>2, <1>3, <1>4, <1>5, <1>6, <1>7, <1>8, <1>9, <1>10, <1>11, <1>12, <1>13, <1>14, <1>15, Zenon DEF BootStep

(* start() forks before it writes to user memory.                          *)
LEMMA BootFork ==
  ASSUME TypeOK, Locking, Flushed, BootStep
  PROVE  Flushed' /\ tpc' \in {"absent", "say", "nap"} /\ cur' \in {"boot", "task"}
<1>2. CASE NicRoute
  <2>1. Goes(12, 13)
    BY <1>2, StepGoes, Zenon
  <2>2. tlb = FALSE /\ stale = FALSE /\ pc' = 13
    BY <2>1 DEF Goes, Flushed
  <2> QED BY <1>2, <2>2, Zenon DEF NicRoute, Flushed, TypeOK
<1>3. CASE NewTasks
  <2>1. Goes(14, 15)
    BY <1>3, StepGoes, Zenon
  <2>2. tlb = FALSE /\ stale = FALSE /\ pc' = 15
    BY <2>1 DEF Goes, Flushed
  <2> QED BY <1>3, <2>2, Zenon DEF NewTasks, Flushed, TypeOK, cpuVars
<1>4. CASE MainTouch
  <2>1. Goes(17, 18)
    BY <1>4, StepGoes, Zenon
  <2> QED BY <1>4, <2>1 DEF MainTouch, Goes, Flushed, TypeOK, cpuVars
<1>5. CASE MainYield
  <2>1. Goes(18, 15)
    BY <1>5, StepGoes, Zenon
  <2> QED BY <1>5, <2>1 DEF MainYield, SwitchTo, Goes, Flushed, TypeOK
<1>6. CASE ~(NicRoute \/ NewTasks \/ MainTouch \/ MainYield)
  <2>1. UNCHANGED <<tlb, stale, tpc, cur>>
    BY <1>6, Zenon DEF BootStep, InitIdt, RemapAll, SetStatics, SerialNew, SerialEscape, SerialSet,
         ParseMcfg, ParseMcfgDrop, HpetInit, NicOn, MainSleep, forkVars, cpuVars
  <2>2. pc > 14 => pc' > 14
    BY <1>6, StepGoes DEF BootStep, Goes
  <2> QED BY <2>1, <2>2, Zenon DEF Flushed, TypeOK
<1> QED BY <1>2, <1>3, <1>4, <1>5, <1>6, Zenon

(* What the steps below keep.                                              *)
Kept == /\ Setup' /\ Onward /\ Handling' /\ Locking' /\ Flushed'
        /\ tpc' \in {"absent", "say", "nap"} /\ cur' \in {"boot", "task"}

LEMMA BootKeeps ==
  ASSUME TypeOK, Setup, Locking, Flushed, BootStep PROVE Kept
<1>1. Setup' /\ Onward /\ trap' = "none" /\ who' = "none"
  BY BootSetup, Zenon
<1>2. Handling' /\ Locking'
  BY <1>1, Zenon DEF Handling, Locking
<1> QED BY <1>1, <1>2, BootFork, Zenon DEF Kept

LEMMA SameSetup ==
  ASSUME pc \in 1 .. 18, Setup, UNCHANGED <<pc, ier, setupVars, heapLock>> PROVE Setup' /\ Onward
<1>1. UNCHANGED <<gates, routed, lapic, handlers, hpet>>
  BY Zenon DEF setupVars
<1>2. Setup'
  BY <1>1, Zenon DEF Setup
<1> QED BY <1>2, Zenon DEF Onward

(* The devices only raise their lines.                                     *)
LEMMA DeviceKeeps ==
  ASSUME TypeOK, Setup, Handling, Locking, Flushed,
         UNCHANGED <<pc, tpc, cpuVars, ier, who, setupVars, heapLock, forkVars>>
  PROVE  Kept
<1>1. UNCHANGED <<pc, tpc, cur, intr, trap, service, who, tlb, stale>>
  BY Zenon DEF cpuVars, forkVars
<1>2. Setup' /\ Onward
  BY SameSetup, Zenon DEF TypeOK
<1>3. Handling' /\ Flushed'
  BY <1>1, Zenon DEF Handling, Flushed
<1>4. Locking'
  BY <1>1, Zenon DEF Locking, Says, Step
<1> QED BY <1>1, <1>2, <1>3, <1>4, Zenon DEF Kept, TypeOK

LEMMA ConsoleKeeps ==
  ASSUME TypeOK, Setup, Handling, Locking, Flushed, ConsoleStep PROVE Kept
<1>1. CASE Say
  <2>1. /\ trap = "none" /\ Says /\ who' = cur /\ intr' = FALSE
        /\ UNCHANGED <<pc, tpc, cur, trap, service, setupVars, heapLock, ier, tlb, stale>>
    BY <1>1, Zenon DEF Say, LockCom1, uartVars, heapVars, forkVars
  <2>2. Setup' /\ Onward
    BY <2>1, SameSetup, Zenon DEF TypeOK
  <2>3. Handling' /\ Flushed'
    BY <2>1, Zenon DEF Handling, Flushed
  <2>4. Locking'
    BY <2>1, Zenon DEF Locking, Says, Step, TypeOK
  <2> QED BY <2>1, <2>2, <2>3, <2>4, Zenon DEF Kept, TypeOK
<1>2. CASE Write
  BY <1>2, DeviceKeeps, Zenon DEF Write, WriteByte, WriteSecond, heapVars
<1>3. CASE Said
  <2>1. /\ trap = "none" /\ who = cur /\ who' = "none"
        /\ UNCHANGED <<cur, trap, service, setupVars, heapLock, ier, tlb, stale>>
        /\ tpc' \in {tpc, "nap"}
        /\ pc' = pc \/ (cur = "boot" /\ pc' = After(pc))
    BY <1>3, Zenon DEF Said, UnlockCom1, Proceed, uartVars, heapVars, forkVars
  <2>2. Handling' /\ Locking'
    BY <2>1, Zenon DEF Handling, Locking
  <2>3. cur = "boot" => pc \in {7, 13, 15}
    BY <2>1, OrderFacts DEF Locking, Says, TypeOK
  <2>4. pc' = pc \/ (pc \in {7, 13, 15} /\ pc' = pc + 1)
    BY <2>1, <2>3, AfterFacts
  <2>5. Setup' /\ Onward
    BY <2>1, <2>4 DEF Setup, Onward, TypeOK, setupVars
  <2>6. Flushed'
    BY <2>1, <2>4 DEF Flushed
  <2>7. tpc' \in {"absent", "say", "nap"} /\ cur' \in {"boot", "task"}
    BY <2>1, Zenon DEF TypeOK
  <2> QED BY <2>2, <2>5, <2>6, <2>7, Zenon DEF Kept
<1> QED BY <1>1, <1>2, <1>3, Zenon DEF ConsoleStep

(* some_task sleeps.                                                       *)
LEMMA NapKeeps ==
  ASSUME TypeOK, Setup, Handling, Locking, Flushed, TaskNap PROVE Kept
<1>1. /\ trap = "none" /\ cur = "task" /\ tpc = "nap" /\ tpc' = "say" /\ cur' = "boot"
      /\ UNCHANGED <<pc, intr, trap, setupVars, heapLock, ier, who, stale>>
      /\ tlb' = (tlb /\ "boot" = cur)
  BY Zenon DEF TaskNap, SwitchTo, serialVars, uartVars, lockVars, heapVars
<1>2. who = "none"
  BY <1>1 DEF Locking, Says
<1>3. Setup' /\ Onward
  BY <1>1, SameSetup, Zenon DEF TypeOK
<1>4. Handling' /\ Locking'
  BY <1>1, <1>2, Zenon DEF Handling, Locking
<1>5. Flushed'
  BY <1>1 DEF Flushed
<1> QED BY <1>1, <1>3, <1>4, <1>5, Zenon DEF Kept

(* A handler finds what it needs and gets COM1's lock.                     *)
LEMMA TrapKeeps ==
  ASSUME TypeOK, Setup, Handling, Locking, Flushed, TrapStep PROVE Kept
<1> DEFINE Rest == /\ UNCHANGED <<pc, setupVars, heapLock, ier>>
                   /\ tpc' \in {"absent", "say", "nap"} /\ cur' \in {"boot", "task"}
                   /\ Handling' /\ Locking' /\ Flushed'
<1>1. ASSUME Com0Handler PROVE Rest
  <2>1. /\ trap = "com" /\ who = "none"
        /\ (trap' = "com_out" /\ who' = "trap") \/ (trap' = "ack" /\ who' = who)
        /\ UNCHANGED <<pc, tpc, cur, intr, service, setupVars, heapLock, ier, tlb, stale>>
    BY <1>1, Zenon DEF Com0Handler, LockCom1, ReadAll, lockVars, heapVars, forkVars
  <2> QED BY <2>1, Zenon DEF Handling, Locking, Flushed, TypeOK
<1>2. ASSUME HpetHandler PROVE Rest
  <2>1. /\ trap = "hpet" /\ trap' = "ack"
        /\ UNCHANGED <<pc, tpc, cur, intr, service, setupVars, heapLock, ier, tlb, stale, who>>
    BY <1>2, Zenon DEF HpetHandler, serialVars, uartVars, lockVars, heapVars, forkVars
  <2> QED BY <2>1, Zenon DEF Handling, Locking, Flushed, TypeOK
<1>3. ASSUME NicCollect PROVE Rest
  <2>1. /\ trap = "nic" /\ trap' \in {"no_handler", "no_heap", "nic_say"}
        /\ trap' = "no_handler" => "nic" \notin handlers
        /\ UNCHANGED <<pc, tpc, cur, intr, service, setupVars, heapLock, ier, tlb, stale, who>>
    BY <1>3, Zenon DEF NicCollect, serialVars, uartVars, lockVars, forkVars
  <2>2. trap' # "no_handler"
    BY <2>1, Zenon DEF Handling, Setup
  <2> QED BY <2>1, <2>2, Zenon DEF Handling, Locking, Flushed, TypeOK
<1>4. ASSUME NicSay PROVE Rest
  <2>1. /\ trap = "nic_say" /\ trap' = "nic_out" /\ who' = "trap"
        /\ UNCHANGED <<pc, tpc, cur, intr, service, setupVars, heapLock, ier, tlb, stale>>
    BY <1>4, Zenon DEF NicSay, LockCom1, uartVars, heapVars, forkVars
  <2> QED BY <2>1, Zenon DEF Handling, Locking, Flushed, TypeOK
<1>5. ASSUME HandlerSaid PROVE Rest
  <2>1. /\ trap \in {"com_out", "nic_out"} /\ trap' = "ack" /\ who' = "none"
        /\ UNCHANGED <<pc, tpc, cur, intr, service, setupVars, heapLock, ier, tlb, stale>>
    BY <1>5, Zenon DEF HandlerSaid, UnlockCom1, uartVars, heapVars, forkVars
  <2> QED BY <2>1, Zenon DEF Handling, Locking, Flushed, TypeOK
<1>6. ASSUME Acknowledge PROVE Rest
  <2>1. /\ trap = "ack"
        /\ IF lapic THEN trap' = "exit" ELSE trap' = "no_lapic"
        /\ UNCHANGED <<pc, tpc, cur, intr, setupVars, heapLock, ier, tlb, stale, who>>
    BY <1>6, Zenon DEF Acknowledge, serialVars, uartVars, lockVars, heapVars, forkVars
  <2>2. lapic = TRUE
    BY <2>1 DEF Handling, Setup, TypeOK
  <2>3. trap' = "exit"
    BY <2>1, <2>2, Zenon
  <2> QED BY <2>1, <2>3, Zenon DEF Handling, Locking, Flushed, TypeOK
<1>7. ASSUME IsrExit PROVE Rest
  <2>1. /\ trap = "exit" /\ trap' = "none" /\ cur' \in {"boot", "task"}
        /\ \E t \in {"boot", "task"} : tlb' = (tlb /\ t = cur)
        /\ UNCHANGED <<pc, tpc, setupVars, heapLock, ier, stale, who>>
    BY <1>7, Zenon DEF IsrExit, SwitchTo, serialVars, uartVars, lockVars, heapVars
  <2>2. who' = "none"
    BY <2>1, Zenon DEF Locking
  <2>3. Flushed'
    BY <2>1 DEF Flushed
  <2> QED BY <2>1, <2>2, <2>3, Zenon DEF Handling, Locking, TypeOK
<1> HIDE DEF Rest
<1>8. Rest
  BY <1>1, <1>2, <1>3, <1>4, <1>5, <1>6, <1>7, Zenon DEF TrapStep
<1>9. Setup' /\ Onward
  BY <1>8, SameSetup, Zenon DEF Rest, TypeOK
<1> QED BY <1>8, <1>9, Zenon DEF Kept, Rest

(* An interrupt that is taken has its gate, but for the keyboard's.        *)
LEMMA DeliverKeeps ==
  ASSUME TypeOK, Setup, Pending, Handling, Locking, Flushed, NEW v \in Vectors, Deliver(v)
  PROVE  Kept
<1>1. /\ trap = "none" /\ intr /\ v \in pend /\ intr' = FALSE /\ service' = v
      /\ trap' = IF v \in gates THEN v ELSE "halt"
      /\ UNCHANGED <<pc, tpc, cur, setupVars, heapLock, ier, tlb, stale, who>>
  BY Zenon DEF Deliver, serialVars, uartVars, lockVars, heapVars, forkVars
<1>2. pc > 2 /\ gates = {"com", "hpet", "nic"}
  BY <1>1 DEF Pending, Setup, TypeOK
<1>3. who = "none"
  <2>1. intr # FALSE
    BY <1>1, Zenon
  <2> QED BY <1>1, <2>1, Zenon DEF Locking
<1>4. Handling'
  <2>1. CASE v = "kbd"
    BY <1>1, <1>2, <2>1, Zenon DEF Handling
  <2>2. CASE v # "kbd"
    <3>1. v \in {"com", "hpet", "nic"} /\ trap' = v
      BY <1>1, <1>2, <2>2, Zenon DEF Vectors
    <3>2. pc > 4 /\ (v = "nic" => pc > 12)
      BY <1>1, <3>1 DEF Pending, TypeOK
    <3> QED BY <1>1, <3>1, <3>2, Zenon DEF Handling
  <2> QED BY <2>1, <2>2
<1>5. Locking'
  <2>1. trap' \notin {"com_out", "nic_out"} /\ who' = "none"
    BY <1>1, <1>3, Zenon DEF Vectors
  <2> QED BY <1>1, <2>1, Zenon DEF Locking
<1>6. Setup' /\ Onward
  BY <1>1, SameSetup, Zenon DEF TypeOK
<1>7. Flushed'
  BY <1>1, Zenon DEF Flushed
<1> QED BY <1>1, <1>4, <1>5, <1>6, <1>7, Zenon DEF Kept, TypeOK

(* An interrupt is only raised through an entry that start() has set up.   *)
LEMMA IoApicKeeps ==
  ASSUME TypeOK, Setup, Pending, Setup', Onward, IoApic
  PROVE  pend' \subseteq Vectors /\ Pending'
<1>1. \A v : v \in pend' => v \in pend \/ (v = "com" /\ ier' /\ v \in routed)
                                       \/ (v = "nic" /\ v \in routed)
  BY Zenon DEF IoApic, Rises, ComLine
<1>2. ier' => pc' > 4
  BY DEF Setup
<1>3. pend' \subseteq Vectors
  BY <1>1, Zenon DEF TypeOK, Vectors
<1>4. pc' <= 2 => pend' = {}
  <2>1. pc' <= 2 => pc <= 2
    BY DEF Onward, TypeOK
  <2> QED BY <1>1, <2>1, Zenon DEF Pending, Setup
<1>5. /\ pc > 4 => pc' > 4
      /\ pc > 10 => pc' > 10
      /\ pc > 12 => pc' > 12
  BY DEF Onward
<1>6. "nic" \in routed => pc > 12
  BY DEF Setup
<1>7. ("com" \in pend' => pc' > 4) /\ ("hpet" \in pend' => pc' > 10) /\ ("nic" \in pend' => pc' > 12)
  BY <1>1, <1>2, <1>5, <1>6 DEF Pending
<1> QED BY <1>3, <1>4, <1>7, Zenon DEF Pending

(* Every step is one of the driver's or the UART's for the serial port.    *)
LEMMA NextSerial ==
  ASSUME TypeOK, Locking, SInv, Next PROVE SerialStep
<1>1. CASE BootStep
  <2>1. CASE SerialNew \/ SerialEscape
    <3>1. who = "none"
      BY <2>1, StepGoes, Zenon DEF Goes
    <3> QED BY <2>1, <3>1, Zenon DEF SerialNew, SerialEscape, SerialStep
  <2>2. CASE ~(SerialNew \/ SerialEscape)
    BY <1>1, <2>2, Zenon DEF BootStep, InitIdt, RemapAll, SetStatics, SerialSet, ComSet,
         ParseMcfg, ParseMcfgDrop, HpetInit, NicOn, NicRoute, NewTasks, MainSleep, MainTouch, MainYield,
         SerialStep, serialVars, uartVars
  <2> QED BY <2>1, <2>2, Zenon
<1>2. CASE Say \/ NicSay
  <2>1. Message \in Seq(Bytes)
    BY DEF Message, Bytes
  <2>2. cur \in {"boot", "task"}
    BY DEF TypeOK
  <2> QED BY <1>2, <2>1, <2>2, Zenon DEF Say, NicSay, LockCom1, SerialStep, Locks, uartVars
<1>3. CASE Com0Handler
  BY <1>3, Zenon DEF Com0Handler, LockCom1, ReadAll, SerialStep, Locks, SInv
<1>4. CASE Said \/ HandlerSaid
  BY <1>4, Zenon DEF Said, HandlerSaid, UnlockCom1, SerialStep, Unlocks, uartVars
<1>5. CASE Write \/ Uart
  BY <1>5, Zenon DEF Write, Uart, SerialStep
<1>6. CASE UNCHANGED serialVars
  BY <1>6, Zenon DEF SerialStep, serialVars, uartVars
<1>7. CASE TaskNap \/ HpetHandler \/ NicCollect \/ Acknowledge \/ IsrExit \/ Frame \/ Key \/ Tick
           \/ \E v \in Vectors : Deliver(v)
  BY <1>6, <1>7, Zenon DEF TaskNap, HpetHandler, NicCollect, Acknowledge, IsrExit, Frame, Key, Tick, Deliver
<1> QED BY <1>1, <1>2, <1>3, <1>4, <1>5, <1>7, Zenon DEF Next, ConsoleStep, TrapStep

LEMMA KeptIInv ==
  ASSUME TypeOK, Setup, Pending, Kept, SInv', IoApic PROVE IInv'
<1>1. pend' \subseteq Vectors /\ Pending'
  BY IoApicKeeps, Zenon DEF Kept
<1> QED BY <1>1, Zenon DEF Kept, Onward, IInv, TypeOK

(* Every step keeps the invariant.                                         *)
LEMMA NextIInv == IInv /\ [Next]_vars => IInv'
<1> SUFFICES ASSUME IInv, [Next]_vars PROVE IInv'
  OBVIOUS
<1>1. TypeOK /\ Setup /\ Pending /\ Handling /\ Locking /\ Flushed /\ SInv
  BY DEF IInv
<1>2. CASE UNCHANGED vars
  <2>1. /\ UNCHANGED <<pc, tpc, cpuVars, ier, who, setupVars, heapLock, forkVars>>
        /\ UNCHANGED <<pend, rx, tx, lockVars>>
    BY <1>2, Zenon DEF vars, serialVars, uartVars, lockVars, heapVars
  <2>2. Kept
    BY <1>1, <2>1, DeviceKeeps, Zenon
  <2>3. pend' \subseteq Vectors /\ Pending'
    BY <1>1, <2>1, Zenon DEF TypeOK, Pending
  <2>4. SInv'
    BY <1>1, <2>1, SerialKeeps, Zenon DEF SerialStep
  <2> QED BY <2>2, <2>3, <2>4, Zenon DEF Kept, Onward, IInv, TypeOK
<1>3. CASE Next
  <2>1. SInv'
    BY <1>1, <1>3, NextSerial, SerialKeeps, Zenon
  <2>2. CASE (BootStep \/ ConsoleStep \/ TaskNap \/ TrapStep \/ Uart \/ Frame) /\ IoApic
    <3>1. CASE Uart \/ Frame
      <4>1. UNCHANGED <<pc, tpc, cpuVars, ier, who, setupVars, heapLock, forkVars>>
        BY <3>1, Zenon DEF Uart, Frame, Transmit, Receive, serialVars, uartVars, lockVars, heapVars
      <4> QED BY <1>1, <4>1, <2>1, <2>2, DeviceKeeps, KeptIInv, Zenon
    <3>2. CASE BootStep \/ ConsoleStep \/ TaskNap \/ TrapStep
      <4>1. Kept
        BY <1>1, <3>2, BootKeeps, ConsoleKeeps, NapKeeps, TrapKeeps, Zenon
      <4> QED BY <1>1, <4>1, <2>1, <2>2, KeptIInv, Zenon
    <3> QED BY <2>2, <3>1, <3>2, Zenon
  <2>3. CASE (\E v \in Vectors : Deliver(v)) /\ IoApic
    <3>1. Kept
      BY <1>1, <2>3, DeliverKeeps, Zenon
    <3> QED BY <1>1, <2>1, <2>3, <3>1, KeptIInv, Zenon
  <2>4. CASE Key \/ Tick
    <3>1. UNCHANGED <<pc, tpc, cpuVars, ier, who, setupVars, heapLock, forkVars>>
      BY <2>4, Zenon DEF Key, Tick, serialVars, uartVars, lockVars, heapVars
    <3>2. Kept
      BY <1>1, <3>1, DeviceKeeps, Zenon
    <3>3. pend' \subseteq Vectors /\ Pending'
      <4>1. CASE Key
        <5>1. "kbd" \in routed /\ pend' = pend \cup {"kbd"} /\ pc' = pc
          BY <4>1, Zenon DEF Key
        <5>2. ~(pc <= 2)
          BY <1>1, <5>1, Zenon DEF Setup
        <5> QED BY <1>1, <5>1, <5>2, Zenon DEF Pending, TypeOK, Vectors
      <4>2. CASE Tick
        <5>1. hpet /\ pend' = pend \cup {"hpet"} /\ pc' = pc
          BY <4>2, Zenon DEF Tick
        <5>2. pc > 10
          BY <1>1, <5>1 DEF Setup
        <5>3. ~(pc <= 2)
          BY <1>1, <5>2 DEF TypeOK
        <5> QED BY <1>1, <5>1, <5>2, <5>3, Zenon DEF Pending, TypeOK, Vectors
      <4> QED BY <2>4, <4>1, <4>2, Zenon
    <3> QED BY <2>1, <3>2, <3>3, Zenon DEF Kept, Onward, IInv, TypeOK
  <2> QED BY <1>3, <2>2, <2>3, <2>4, Zenon DEF Next
<1> QED BY <1>2, <1>3, Zenon

LEMMA InitIInv == Init => IInv
<1> SUFFICES ASSUME Init PROVE IInv
  OBVIOUS
<1>1. TypeOK /\ Setup /\ Pending
  <2>1. /\ pc = 1 /\ tpc = "absent" /\ cur = "boot" /\ pend = {} /\ routed = {}
        /\ ier = FALSE /\ hpet = FALSE /\ heapLock = FALSE
    BY Zenon DEF Init, SerialInit
  <2>2. TypeOK /\ Pending
    BY <2>1 DEF TypeOK, Pending
  <2>3. 1 \in 1 .. 18 /\ ~(1 > 1) /\ ~(1 > 3) /\ ~(1 > 12)
    OBVIOUS
  <2>4. Setup
    BY <2>1, <2>3, Zenon DEF Setup
  <2> QED BY <2>2, <2>4, Zenon
<1>2. Handling /\ Locking /\ Flushed
  BY Zenon DEF Init, SerialInit, Handling, Locking, Flushed
<1>3. SInv
  <2>1. <<>> \in Seq(Bytes) /\ <<>> \in Seq(Chars)
    OBVIOUS
  <2> QED BY <2>1, Zenon DEF Init, SerialInit, SInv, Writing, MessagesWhole
<1> QED BY <1>1, <1>2, <1>3, Zenon DEF IInv

-----------------------------------------------------------------------------
(* What follows, for any size of the FIFOs and of the heap.                *)

(* The inductive invariant holds of every behaviour.                       *)
THEOREM Invariance == Spec => []IInv
BY InitIInv, NextIInv, PTL DEF Spec

(* Whatever interrupt arrives while start() sets the drivers up, its gate, *)
(* its handler and the local APIC's address are there, but for the         *)
(* keyboard's gate.                                                        *)
THEOREM ReadyTheorem == Spec => []HandlersReady
<1>1. IInv => HandlersReady
  BY Zenon DEF IInv, Handling, HandlersReady
<1> QED BY <1>1, Invariance, PTL

(* No handler waits for COM1's lock or the heap's mutex, held by the code  *)
(* it interrupted.                                                         *)
THEOREM SpinTheorem == Spec => []NoHandlerSpins
<1>1. IInv => NoHandlerSpins
  <2> SUFFICES ASSUME IInv PROVE NoHandlerSpins
    OBVIOUS
  <2>1. trap \in {"com", "nic_say"} => who = "none"
    BY Zenon DEF IInv, Locking
  <2>2. trap = "nic" => heapLock = FALSE
    BY DEF IInv, Setup, Handling
  <2> QED BY <2>1, <2>2, Zenon DEF NoHandlerSpins
<1> QED BY <1>1, Invariance, PTL

(* fork finds no writable translation of a user page in the TLB.           *)
THEOREM ForkTheorem == Spec => []ForksFlushed
<1>1. IInv => ForksFlushed
  BY Zenon DEF IInv, Flushed, ForksFlushed
<1> QED BY <1>1, Invariance, PTL

(* Console output is exact: the UART accepts the bytes of a message, the   *)
(* newlines expanded, in order, and nobody else's in between.              *)
THEOREM ConsoleTheorem == Spec => []MessagesWhole
<1>1. IInv => MessagesWhole
  BY Zenon DEF IInv, SInv
<1> QED BY <1>1, Invariance, PTL
=============================================================================
