--------------------------- MODULE DevicesProofs ---------------------------
(***************************************************************************)
(* Proofs about Devices, for any firmware, any PCI bus and any frames.     *)
(***************************************************************************)
EXTENDS Devices, TLAPS

-----------------------------------------------------------------------------
(* The registers of a NIC.                                                 *)

(* The bottom half reads registers of NICs that are driven, and            *)
(* CONFIG_ADDRESS is at BAR 0 of one of them when it is about to read the  *)
(* port.                                                                   *)
Reading == [pc : {"type", "bar", "port"}, nic : DOMAIN nics]
Done == [pc : {"idle"}, nic : DOMAIN nics, port : DOMAIN nics]
Access ==
  /\ interfaces = DOMAIN nics
  /\ reader \in {NoReader} \cup Reading \cup Done
  /\ stage # "run" => reader = NoReader
  /\ reader.pc = "port" => config.register = "BAR0" /\ config.bdf \in DOMAIN nics

(* What the access is at.                                                  *)
LEMMA AtPlaces ==
  ASSUME Access
  PROVE  /\ reader.pc \in {"type", "bar", "port"} => reader \in Reading
         /\ "port" \in DOMAIN reader => reader \in Done
BY DEF Access, Reading, Done, NoReader

(* start() does not read registers through the bottom half.                *)
LEMMA StartSteps ==
  ASSUME Access, stage # "run",
         ParseMadt \/ ParseMcfg \/ HpetInit \/ PciInit \/ GetDevices
  PROVE  Access'
<1>1. UNCHANGED <<reader, nics, interfaces, config>>
  BY Zenon DEF ParseMadt, ParseMcfg, HpetInit, PciInit, GetDevices, nicVars
<1>2. reader = NoReader
  BY Zenon DEF Access
<1> QED BY <1>1, <1>2, Zenon DEF Access, Reading, Done, NoReader

(* A NIC enters NICS and NETWORK_STACK together.                           *)
LEMMA InitNicStep ==
  ASSUME Access, InitNic
  PROVE  Access'
<1>1. reader = NoReader /\ reader' = reader /\ stage' = stage /\ interfaces = DOMAIN nics
  BY Zenon DEF Access, InitNic
<1>2. PICK b, i : InsertNic(b, i)
  BY Zenon DEF InitNic
<1>3. interfaces' = DOMAIN nics'
  BY <1>1, <1>2 DEF InsertNic, Insert
<1>4. reader'.pc # "port"
  BY <1>1 DEF NoReader
<1> QED BY <1>1, <1>3, <1>4, Zenon DEF Access, NoReader

(* The end of start() keeps the keys.                                      *)
LEMMA NicsDoneStep ==
  ASSUME Access, NicsDone
  PROVE  Access'
<1>1. reader = NoReader /\ reader' = reader /\ interfaces' = interfaces
  BY Zenon DEF Access, NicsDone
<1>2. DOMAIN nics' = DOMAIN nics
  BY DEF NicsDone
<1>3. reader'.pc # "port"
  BY <1>1 DEF NoReader
<1>4. interfaces = DOMAIN nics
  BY Zenon DEF Access
<1> QED BY <1>1, <1>2, <1>3, <1>4, Zenon DEF Access, NoReader

(* The four steps of an access.                                            *)
LEMMA ReaderSteps ==
  ASSUME Access, ReaderStart \/ ReaderType \/ ReaderBar \/ ReaderPort
  PROVE  Access'
<1> DEFINE D == DOMAIN nics
<1>1. nics' = nics /\ interfaces' = interfaces /\ stage' = stage
  BY Zenon DEF ReaderStart, ReaderType, ReaderBar, ReaderPort, nicVars
<1>2. stage = "run"
  BY DEF Access, ReaderStart, ReaderType, ReaderBar, ReaderPort, NoReader
<1>3. interfaces = D
  BY Zenon DEF Access
<1>4. /\ reader' \in [pc : {"type", "bar", "port"}, nic : D] \cup [pc : {"idle"}, nic : D, port : D]
      /\ reader'.pc = "port" => config'.register = "BAR0" /\ config'.bdf \in D
  <2>1. CASE ReaderStart
    <3>1. PICK n \in D : reader' = [pc |-> "type", nic |-> n]
      BY <2>1, Zenon DEF ReaderStart
    <3> QED BY <3>1
  <2>2. CASE ReaderType
    <3>1. reader \in Reading /\ reader' = [reader EXCEPT !.pc = "bar"]
      BY <2>2, AtPlaces DEF ReaderType
    <3> QED BY <3>1 DEF Reading
  <2>3. CASE ReaderBar
    <3>1. reader \in Reading /\ reader' = [reader EXCEPT !.pc = "port"]
      BY <2>3, AtPlaces DEF ReaderBar
    <3>2. config' = [bdf |-> reader.nic, register |-> "BAR0"]
      BY <2>3, Zenon DEF ReaderBar, LeavesConfig
    <3> QED BY <3>1, <3>2 DEF Reading
  <2>4. CASE ReaderPort
    <3>1. reader \in Reading /\ reader' = [pc |-> "idle", nic |-> reader.nic, port |-> PortBase]
      BY <2>4, AtPlaces DEF ReaderPort
    <3>2. PortBase \in D
      BY <2>4 DEF Access, ReaderPort, PortBase
    <3> QED BY <3>1, <3>2 DEF Reading
  <2> QED BY <2>1, <2>2, <2>3, <2>4, Zenon
<1> QED BY <1>1, <1>2, <1>3, <1>4, Zenon DEF Access, Reading, Done

(* The handler, and transmit for the network stack, leave CONFIG_ADDRESS   *)
(* at BAR 0 of a NIC.                                                      *)
LEMMA OtherSteps ==
  ASSUME Access, Handler \/ HandleFrame
  PROVE  Access'
<1>1. stage = "run" /\ UNCHANGED <<stage, nics, interfaces, reader>>
  BY Zenon DEF Handler, HandleFrame, nicVars
<1>2. config' = config \/ \E n \in DOMAIN nics : config' = LeavesConfig(n)
  <2>1. CASE Handler
    BY <2>1, Zenon DEF Handler, HandlerLeavesConfig
  <2>2. CASE HandleFrame
    <3>1. config' = config \/ \E n \in interfaces : config' = LeavesConfig(n)
      BY <2>2, Zenon DEF HandleFrame
    <3> QED BY <3>1, Zenon DEF Access
  <2> QED BY <2>1, <2>2, Zenon
<1>3. config' = config \/ (config'.register = "BAR0" /\ config'.bdf \in DOMAIN nics)
  BY <1>2 DEF LeavesConfig
<1> QED BY <1>1, <1>3, Zenon DEF Access, Reading, Done

(* It is an invariant.                                                     *)
LEMMA AccessInvariant == Spec => []Access
<1>1. Init => Access
  BY DEF Init, Access, NoReader
<1>2. Access /\ [Next]_(vars) => Access'
  <2> SUFFICES ASSUME Access, [Next]_(vars) PROVE Access'
    OBVIOUS
  <2>1. CASE ParseMadt \/ ParseMcfg \/ HpetInit \/ PciInit \/ GetDevices
    <3>1. stage # "run"
      BY <2>1 DEF ParseMadt, ParseMcfg, HpetInit, PciInit, GetDevices
    <3> QED BY <2>1, <3>1, StartSteps, Zenon
  <2>2. CASE InitNic \/ NicsDone
    BY <2>2, InitNicStep, NicsDoneStep, Zenon
  <2>3. CASE ReaderStart \/ ReaderType \/ ReaderBar \/ ReaderPort
    BY <2>3, ReaderSteps, Zenon
  <2>4. CASE Handler \/ HandleFrame
    BY <2>4, OtherSteps, Zenon
  <2>5. CASE UNCHANGED vars
    BY <2>5, Zenon DEF vars, nicVars, Access, Reading, Done, NoReader
  <2> QED BY <2>1, <2>2, <2>3, <2>4, <2>5, Zenon DEF Next
<1> QED BY <1>1, <1>2, PTL DEF Spec

(* With one NIC, on any bus and with any firmware, the bottom half's       *)
(* accesses to registers reach it, whatever the handler and transmit do    *)
(* with CONFIG_ADDRESS in between (ioaddr, BAR 0).                         *)
THEOREM PortsTheorem == Spec => []PortsRight
<1>1. Access => PortsRight
  <2> SUFFICES ASSUME Access, "port" \in DOMAIN reader, NEW n \in DOMAIN nics, DOMAIN nics = {n}
               PROVE  reader.port = reader.nic
    BY Zenon DEF PortsRight
  <2>1. reader \in Done
    BY AtPlaces
  <2> QED BY <2>1 DEF Done
<1> QED BY <1>1, AccessInvariant, PTL

-----------------------------------------------------------------------------
(* Numbers and sequences.                                                  *)

INSTANCE WellFoundedInduction

(* A set of numbers that is not empty has a least one.                     *)
LEMMA LeastNumber ==
  ASSUME NEW S \in SUBSET Nat, S # {}
  PROVE  \E x \in S : \A y \in S : x <= y
<1> DEFINE R == OpToRel(<, Nat)
<1>1. IsWellFoundedOn(R, Nat)
  BY NatLessThanWellFounded, Zenon
<1>2. \A x, y \in Nat : y < x => <<y, x>> \in R
  BY Zenon DEF OpToRel
<1> HIDE DEF R
<1>3. PICK x \in S : \A y \in S : ~(<<y, x>> \in R)
  BY <1>1, WFMin, ZenonT(60)
<1>4. \A y \in S : ~(y < x)
  BY <1>2, <1>3, Zenon
<1> QED BY <1>4

(* What holds for 0 and for the next number after any, holds as far as n.  *)
LEMMA Upwards ==
  ASSUME NEW n \in Nat, NEW G, 0 \in G,
         \A i \in 0 .. n : i + 1 \in 0 .. n /\ i \in G => i + 1 \in G
  PROVE  n \in G
<1> DEFINE W == {i \in 0 .. n : i \notin G}
<1>1. W \in SUBSET Nat /\ n \in 0 .. n
  OBVIOUS
<1> SUFFICES ASSUME W # {} PROVE FALSE
  BY <1>1, Zenon
<1> HIDE DEF W
<1>2. PICK m \in W : \A k \in W : m <= k
  BY <1>1, LeastNumber, Zenon
<1>3. m \in 0 .. n /\ m \notin G /\ m # 0
  BY <1>2, Zenon DEF W
<1>4. m - 1 \in 0 .. n /\ m - 1 + 1 = m
  BY <1>3
<1>5. m - 1 \notin W
  BY <1>1, <1>2, <1>4
<1>6. m - 1 \in G
  BY <1>4, <1>5, Zenon DEF W
<1> QED BY <1>3, <1>4, <1>6, Zenon

(* f is what a loop computes round by round, from x by F.                  *)
Loops(f, n, x, F) == f[0] = x /\ \A i \in 0 .. n : i # 0 => f[i] = F[i][f[i - 1]]

(* Such a function exists.                                                 *)
LEMMA Recursion ==
  ASSUME NEW n \in Nat, NEW X, NEW x \in X, NEW F \in [0 .. n -> [X -> X]]
  PROVE  \E f \in [0 .. n -> X] : Loops(f, n, x, F)
<1> DEFINE G == {m \in Nat : \E f \in [0 .. m -> X] : Loops(f, m, x, F)}
<1>1. 0 \in G
  <2> DEFINE f == [i \in 0 .. 0 |-> x]
  <2>1. f \in [0 .. 0 -> X] /\ f[0] = x /\ \A i \in 0 .. 0 : i = 0
    OBVIOUS
  <2> HIDE DEF f
  <2> QED BY <2>1, Zenon DEF Loops
<1>2. ASSUME NEW m \in 0 .. n, m + 1 \in 0 .. n, m \in G PROVE m + 1 \in G
  <2>1. PICK f \in [0 .. m -> X] : Loops(f, m, x, F)
    BY <1>2, Zenon
  <2> DEFINE h == [i \in 0 .. m + 1 |-> IF i <= m THEN f[i] ELSE F[i][f[m]]]
  <2>2. m \in Nat /\ m + 1 \in Nat /\ m \in 0 .. m
    OBVIOUS
  <2>3. \A i \in 0 .. m + 1 : /\ i <= m => i \in 0 .. m
                              /\ ~(i <= m) => i = m + 1 /\ i # 0 /\ i - 1 = m
                              /\ i # 0 => i - 1 \in 0 .. m /\ i - 1 <= m /\ i - 1 \in 0 .. m + 1
    OBVIOUS
  <2>4. h \in [0 .. m + 1 -> X]
    <3>1. f[m] \in X /\ F[m + 1] \in [X -> X]
      BY <1>2, <2>2, Zenon
    <3>2. F[m + 1][f[m]] \in X
      BY <3>1, Zenon
    <3>3. ASSUME NEW i \in 0 .. m + 1 PROVE (IF i <= m THEN f[i] ELSE F[i][f[m]]) \in X
      BY <2>3, <3>2, Zenon
    <3> QED BY <3>3, Zenon
  <2>5. h[0] = x
    <3>1. 0 \in 0 .. m + 1 /\ 0 <= m
      OBVIOUS
    <3> QED BY <2>1, <3>1, Zenon DEF Loops
  <2>6. ASSUME NEW i \in 0 .. m + 1, i # 0 PROVE h[i] = F[i][h[i - 1]]
    <3>1. h[i - 1] = f[i - 1]
      BY <2>3, <2>6, Zenon
    <3>2. h[i] = IF i <= m THEN f[i] ELSE F[i][f[m]]
      BY Zenon
    <3> HIDE DEF h
    <3> QED BY <2>1, <2>3, <2>6, <3>1, <3>2, Zenon DEF Loops
  <2> HIDE DEF h
  <2>7. Loops(h, m + 1, x, F)
    BY <2>5, <2>6, Zenon DEF Loops
  <2> QED BY <2>2, <2>4, <2>7, Zenon
<1> HIDE DEF G
<1>3. n \in G
  BY <1>1, <1>2, Upwards, Zenon
<1> QED BY <1>3, Zenon DEF G

(* The items of a sequence.                                                *)
Items(q) == {q[i] : i \in 1 .. Len(q)}

(* The items of two sequences, one after the other.                        *)
LEMMA ItemsJoin ==
  ASSUME NEW S, NEW p \in Seq(S), NEW q \in Seq(S)
  PROVE  p \o q \in Seq(S) /\ Items(p \o q) = Items(p) \cup Items(q)
<1> DEFINE r == p \o q
<1>1. /\ r \in Seq(S) /\ Len(p) \in Nat /\ Len(q) \in Nat /\ Len(r) = Len(p) + Len(q)
      /\ \A i \in 1 .. Len(p) : r[i] = p[i]
      /\ \A i \in 1 .. Len(q) : r[Len(p) + i] = q[i]
  OBVIOUS
<1> HIDE DEF r
<1>2. \A i \in 1 .. Len(p) : i \in 1 .. Len(r)
  BY <1>1
<1>3. \A i \in 1 .. Len(q) : Len(p) + i \in 1 .. Len(r)
  BY <1>1
<1>4. \A i \in 1 .. Len(r) : i \in 1 .. Len(p) \/ \E k \in 1 .. Len(q) : i = Len(p) + k
  <2> SUFFICES ASSUME NEW i \in 1 .. Len(r), i \notin 1 .. Len(p)
               PROVE  \E k \in 1 .. Len(q) : i = Len(p) + k
    BY Zenon
  <2>1. i - Len(p) \in 1 .. Len(q) /\ i = Len(p) + (i - Len(p))
    BY <1>1
  <2> QED BY <2>1, Zenon
<1>5. ASSUME NEW y PROVE y \in Items(r) <=> y \in Items(p) \/ y \in Items(q)
  <2>1. ASSUME NEW i \in 1 .. Len(r) PROVE r[i] \in Items(p) \/ r[i] \in Items(q)
    <3>1. CASE i \in 1 .. Len(p)
      BY <1>1, <3>1, Zenon DEF Items
    <3>2. ASSUME NEW k \in 1 .. Len(q), i = Len(p) + k PROVE r[i] \in Items(q)
      BY <1>1, <3>2, Zenon DEF Items
    <3> QED BY <1>4, <3>1, <3>2, Zenon
  <2>2. \A i \in 1 .. Len(p) : p[i] \in Items(r)
    BY <1>1, <1>2, Zenon DEF Items
  <2>3. \A i \in 1 .. Len(q) : q[i] \in Items(r)
    BY <1>1, <1>3, Zenon DEF Items
  <2>4. ASSUME y \in Items(r) PROVE y \in Items(p) \/ y \in Items(q)
    BY <2>1, <2>4, Zenon DEF Items
  <2>5. ASSUME y \in Items(p) PROVE y \in Items(r)
    BY <2>2, <2>5, Zenon DEF Items
  <2>6. ASSUME y \in Items(q) PROVE y \in Items(r)
    BY <2>3, <2>6, Zenon DEF Items
  <2> QED BY <2>4, <2>5, <2>6, Zenon
<1>6. Items(r) = Items(p) \cup Items(q)
  BY <1>5, Zenon
<1> QED BY <1>1, <1>6, Zenon DEF r

(* No item, and one.                                                       *)
LEMMA ItemsFew ==
  /\ \A S : <<>> \in Seq(S)
  /\ Items(<<>>) = {}
  /\ \A S : \A x \in S : << x >> \in Seq(S)
  /\ \A x : Items(<< x >>) = {x}
<1>1. Len(<<>>) = 0 /\ 1 .. 0 = {}
  OBVIOUS
<1>2. Items(<<>>) = {}
  BY <1>1, Zenon DEF Items
<1>3. ASSUME NEW x PROVE Items(<< x >>) = {x}
  <2>1. Len(<< x >>) = 1 /\ 1 .. 1 = {1} /\ << x >>[1] = x
    OBVIOUS
  <2> QED BY <2>1, Zenon DEF Items
<1>4. /\ \A S : <<>> \in Seq(S)
      /\ \A S : \A x \in S : << x >> \in Seq(S)
  OBVIOUS
<1> QED BY <1>2, <1>3, <1>4, Zenon

(* f solves the recursion of Flatten.                                      *)
FlattensTo(f, q, n) == f = [i \in 0 .. n |-> IF i = 0 THEN <<>> ELSE f[i - 1] \o q[i]]

(* It has a solution.                                                      *)
LEMMA FlattenExists ==
  ASSUME NEW n \in Nat, NEW S, NEW q \in [1 .. n -> Seq(S)]
  PROVE  \E f : FlattensTo(f, q, n)
<1> DEFINE F == [i \in 0 .. n |-> [p \in Seq(S) |-> IF i = 0 THEN p ELSE p \o q[i]]]
<1>1. <<>> \in Seq(S) /\ \A i \in 0 .. n : i # 0 => i \in 1 .. n /\ i - 1 \in 0 .. n
  OBVIOUS
<1>2. F \in [0 .. n -> [Seq(S) -> Seq(S)]]
  <2>1. ASSUME NEW i \in 0 .. n, NEW p \in Seq(S) PROVE (IF i = 0 THEN p ELSE p \o q[i]) \in Seq(S)
    <3>1. CASE i # 0
      <4>1. q[i] \in Seq(S)
        BY <1>1, <3>1, Zenon
      <4> QED BY <3>1, <4>1
    <3> QED BY <3>1, Zenon
  <2> QED BY <2>1, Zenon
<1>3. PICK f \in [0 .. n -> Seq(S)] : Loops(f, n, <<>>, F)
  <2> HIDE DEF F
  <2> QED BY <1>1, <1>2, Recursion, Zenon
<1>4. ASSUME NEW i \in 0 .. n PROVE f[i] = IF i = 0 THEN <<>> ELSE f[i - 1] \o q[i]
  <2>1. CASE i = 0
    BY <1>3, <2>1, Zenon DEF Loops
  <2>2. CASE i # 0
    <3>1. f[i] = F[i][f[i - 1]] /\ f[i - 1] \in Seq(S)
      <4> HIDE DEF F
      <4> QED BY <1>1, <1>3, <2>2, Zenon DEF Loops
    <3>2. F[i][f[i - 1]] = f[i - 1] \o q[i]
      BY <2>2, <3>1, Zenon
    <3> QED BY <2>2, <3>1, <3>2, Zenon
  <2> QED BY <2>1, <2>2, Zenon
<1>5. f = [i \in 0 .. n |-> f[i]]
  BY Zenon
<1>6. FlattensTo(f, q, n)
  BY <1>4, <1>5, Zenon DEF FlattensTo
<1> QED BY <1>6, Zenon

(* Flatten has the items of all the sequences.                             *)
LEMMA FlattenItems ==
  ASSUME NEW n \in Nat, NEW S, NEW q \in [1 .. n -> Seq(S)]
  PROVE  Flatten(q) \in Seq(S) /\ Items(Flatten(q)) = UNION {Items(q[i]) : i \in 1 .. n}
<1> DEFINE f == CHOOSE g : FlattensTo(g, q, n)
           G == {i \in Nat : /\ f[i] \in Seq(S)
                             /\ \A y : y \in Items(f[i]) <=> \E j \in 1 .. i : y \in Items(q[j])}
<1>1. FlattensTo(f, q, n)
  BY FlattenExists, Zenon
<1>2. Flatten(q) = f[n]
  <2>1. Len(q) = n
    OBVIOUS
  <2> QED BY <2>1, Zenon DEF Flatten, FlattensTo
<1> HIDE DEF f
<1>3. \A i \in 0 .. n : f[i] = IF i = 0 THEN <<>> ELSE f[i - 1] \o q[i]
  BY <1>1, Zenon DEF FlattensTo
<1>4. 0 \in G
  <2>1. 0 \in 0 .. n /\ 1 .. 0 = {} /\ 0 \in Nat
    OBVIOUS
  <2>2. f[0] = <<>>
    BY <1>3, <2>1, Zenon
  <2> QED BY <2>1, <2>2, ItemsFew, Zenon
<1>5. ASSUME NEW i \in 0 .. n, i + 1 \in 0 .. n, i \in G PROVE i + 1 \in G
  <2>1. PICK k \in 1 .. n : k = i + 1 /\ k # 0 /\ k - 1 = i /\ k \in Nat /\ k \in 0 .. n
    BY <1>5
  <2>2. \A j : j \in 1 .. k <=> j \in 1 .. i \/ j = k
    BY <2>1
  <2>3. f[k] = f[i] \o q[k]
    BY <1>3, <2>1, Zenon
  <2>4. f[i] \in Seq(S) /\ q[k] \in Seq(S)
    BY <1>5, Zenon
  <2>5. f[k] \in Seq(S) /\ Items(f[k]) = Items(f[i]) \cup Items(q[k])
    <3>1. f[i] \o q[k] \in Seq(S) /\ Items(f[i] \o q[k]) = Items(f[i]) \cup Items(q[k])
      BY <2>4, ItemsJoin, ZenonT(30)
    <3> QED BY <2>3, <3>1, Zenon
  <2>6. ASSUME NEW y
        PROVE  y \in Items(f[k]) <=> \E j \in 1 .. k : y \in Items(q[j])
    <3>1. y \in Items(f[i]) <=> \E j \in 1 .. i : y \in Items(q[j])
      BY <1>5, Zenon
    <3> QED BY <2>2, <2>5, <3>1, Zenon
  <2> QED BY <2>1, <2>5, <2>6, Zenon
<1> HIDE DEF G
<1>6. n \in G
  BY <1>4, <1>5, Upwards, Zenon
<1>7. /\ f[n] \in Seq(S)
      /\ \A y : y \in Items(f[n]) <=> \E j \in 1 .. n : y \in Items(q[j])
  BY <1>6, Zenon DEF G
<1>8. Items(f[n]) = UNION {Items(q[i]) : i \in 1 .. n}
  BY <1>7, Zenon
<1> QED BY <1>2, <1>7, <1>8, Zenon

-----------------------------------------------------------------------------
(* The PCI bus.                                                            *)

(* The devices there may be on the bus, and the functions that             *)
(* enumerate_pci_bus visits and finds.                                     *)
AllDevices(s) == {PciDevice(s, b) : b \in BDF}
Listed(s, b) ==
  /\ s[b].vendor # "none" /\ s[<<b[1], b[2], 0>>].vendor # "none"
  /\ b[3] = 0 \/ s[<<b[1], b[2], 0>>].multi

(* visit_configuration_space finds the function that is there.             *)
LEMMA VisitItems ==
  ASSUME NEW s, NEW b \in BDF
  PROVE  /\ Visit(s, b) \in Seq(AllDevices(s))
         /\ \A y : y \in Items(Visit(s, b)) <=> s[b].vendor # "none" /\ y = PciDevice(s, b)
         /\ Visit(s, b) = <<>> <=> s[b].vendor = "none"
<1>1. \A x : << x >> # <<>>
  OBVIOUS
<1>2. PciDevice(s, b) \in AllDevices(s)
  BY Zenon DEF AllDevices
<1>3. CASE s[b].vendor = "none"
  <2>1. Visit(s, b) = <<>>
    BY <1>3, Zenon DEF Visit
  <2> QED BY <1>3, <2>1, ItemsFew, Zenon
<1>4. CASE s[b].vendor # "none"
  <2>1. Visit(s, b) = << PciDevice(s, b) >>
    BY <1>4, Zenon DEF Visit
  <2>2. Visit(s, b) \in Seq(AllDevices(s)) /\ Items(Visit(s, b)) = {PciDevice(s, b)}
    BY <1>2, <2>1, ItemsFew, Zenon
  <2> QED BY <1>1, <1>4, <2>1, <2>2, Zenon
<1> QED BY <1>3, <1>4, Zenon

(* The functions of a device.                                              *)
LEMMA Functions ==
  ASSUME NEW b \in 0 .. NBus - 1, NEW d \in 0 .. NDev - 1
  PROVE  /\ NFun \in Nat /\ 0 \in 0 .. NFun - 1
         /\ \A i \in 1 .. NFun : i - 1 \in 0 .. NFun - 1
         /\ \A f \in 0 .. NFun - 1 : \E i \in 1 .. NFun : f = i - 1
         /\ \A f \in 0 .. NFun - 1 :
              /\ <<b, d, f>> \in BDF
              /\ <<b, d, f>>[1] = b /\ <<b, d, f>>[2] = d /\ <<b, d, f>>[3] = f
<1>1. NFun \in Nat \ {0}
  BY PciAssumption
<1>2. 0 \in 0 .. NFun - 1 /\ \A i \in 1 .. NFun : i - 1 \in 0 .. NFun - 1
  BY <1>1
<1>3. ASSUME NEW f \in 0 .. NFun - 1 PROVE \E i \in 1 .. NFun : f = i - 1
  <2>1. PICK i \in 1 .. NFun : i = f + 1
    BY <1>1
  <2>2. f = i - 1
    BY <2>1
  <2> QED BY <2>2, Zenon
<1>4. ASSUME NEW f \in 0 .. NFun - 1
      PROVE  /\ <<b, d, f>> \in BDF
             /\ <<b, d, f>>[1] = b /\ <<b, d, f>>[2] = d /\ <<b, d, f>>[3] = f
  BY DEF BDF
<1> QED BY <1>1, <1>2, <1>3, <1>4, Zenon

(* A device of the bus: its functions that are listed.                     *)
LEMMA DeviceItems ==
  ASSUME NEW s, NEW b \in 0 .. NBus - 1, NEW d \in 0 .. NDev - 1
  PROVE  /\ VisitDevice(s, b, d) \in Seq(AllDevices(s))
         /\ \A y : y \in Items(VisitDevice(s, b, d)) <=>
              \E f \in 0 .. NFun - 1 : Listed(s, <<b, d, f>>) /\ y = PciDevice(s, <<b, d, f>>)
<1> DEFINE first == Visit(s, <<b, d, 0>>)
           q == [i \in 1 .. NFun |-> Visit(s, <<b, d, i - 1>>)]
           functions == Flatten(q)
           Found(y, f) == s[<<b, d, f>>].vendor # "none" /\ y = PciDevice(s, <<b, d, f>>)
<1>1. VisitDevice(s, b, d) = IF first = <<>> THEN <<>>
                             ELSE (IF s[<<b, d, 0>>].multi THEN functions ELSE <<>>) \o first
  BY Zenon DEF VisitDevice
<1>2. /\ first \in Seq(AllDevices(s)) /\ \A y : y \in Items(first) <=> Found(y, 0)
      /\ first = <<>> <=> s[<<b, d, 0>>].vendor = "none"
  <2>1. <<b, d, 0>> \in BDF
    BY Functions, Zenon
  <2> QED BY <2>1, VisitItems, Zenon
<1>3. functions \in Seq(AllDevices(s))
      /\ \A y : y \in Items(functions) <=> \E f \in 0 .. NFun - 1 : Found(y, f)
  <2>1. ASSUME NEW i \in 1 .. NFun
        PROVE  /\ Visit(s, <<b, d, i - 1>>) \in Seq(AllDevices(s))
               /\ \A y : y \in Items(Visit(s, <<b, d, i - 1>>)) <=> Found(y, i - 1)
    <3>1. <<b, d, i - 1>> \in BDF
      BY Functions, Zenon
    <3> QED BY <3>1, VisitItems, Zenon
  <2>2. q \in [1 .. NFun -> Seq(AllDevices(s))] /\ \A i \in 1 .. NFun : q[i] = Visit(s, <<b, d, i - 1>>)
    BY <2>1, Zenon
  <2> HIDE DEF q, Found
  <2>3. functions \in Seq(AllDevices(s)) /\ Items(functions) = UNION {Items(q[i]) : i \in 1 .. NFun}
    <3>1. NFun \in Nat
      BY Functions, Zenon
    <3> QED BY <2>2, <3>1, FlattenItems, Zenon
  <2>4. \A y : y \in Items(functions) <=> \E i \in 1 .. NFun : Found(y, i - 1)
    BY <2>1, <2>2, <2>3, Zenon
  <2>5. \A y : (\E i \in 1 .. NFun : Found(y, i - 1)) <=> \E f \in 0 .. NFun - 1 : Found(y, f)
    BY Functions, Zenon
  <2> QED BY <2>3, <2>4, <2>5, Zenon
<1>4. ASSUME NEW f \in 0 .. NFun - 1
      PROVE  Listed(s, <<b, d, f>>) <=> /\ s[<<b, d, f>>].vendor # "none"
                                        /\ s[<<b, d, 0>>].vendor # "none"
                                        /\ f = 0 \/ s[<<b, d, 0>>].multi
  <2>1. <<b, d, f>>[1] = b /\ <<b, d, f>>[2] = d /\ <<b, d, f>>[3] = f
    BY Functions, Zenon
  <2> QED BY <2>1, Zenon DEF Listed
<1>5. \A y, f : f \in 0 .. NFun - 1 =>
        (Listed(s, <<b, d, f>>) /\ y = PciDevice(s, <<b, d, f>>) <=>
           Found(y, f) /\ s[<<b, d, 0>>].vendor # "none" /\ (f = 0 \/ s[<<b, d, 0>>].multi))
  BY <1>4, Zenon
<1>6. 0 \in 0 .. NFun - 1
  BY Functions, Zenon
<1> HIDE DEF first, functions, Found
<1>7. CASE first = <<>>
  <2>1. VisitDevice(s, b, d) = <<>>
    BY <1>1, <1>7, Zenon
  <2> QED BY <1>2, <1>5, <1>7, <2>1, ItemsFew, Zenon
<1>8. CASE first # <<>> /\ s[<<b, d, 0>>].multi
  <2>1. VisitDevice(s, b, d) = functions \o first
    BY <1>1, <1>8, Zenon
  <2>2. /\ VisitDevice(s, b, d) \in Seq(AllDevices(s))
        /\ Items(VisitDevice(s, b, d)) = Items(functions) \cup Items(first)
    <3>1. functions \in Seq(AllDevices(s)) /\ first \in Seq(AllDevices(s))
      BY <1>2, <1>3, Zenon
    <3>2. /\ functions \o first \in Seq(AllDevices(s))
          /\ Items(functions \o first) = Items(functions) \cup Items(first)
      BY <3>1, ItemsJoin, ZenonT(30)
    <3> QED BY <2>1, <3>2, Zenon
  <2>3. \A y : y \in Items(VisitDevice(s, b, d)) <=> \E f \in 0 .. NFun - 1 : Found(y, f)
    BY <1>2, <1>3, <1>6, <2>2, Zenon
  <2> QED BY <1>2, <1>5, <1>8, <2>2, <2>3, Zenon
<1>9. CASE first # <<>> /\ ~s[<<b, d, 0>>].multi
  <2>1. VisitDevice(s, b, d) = <<>> \o first
    BY <1>1, <1>9, Zenon
  <2>2. <<>> \in Seq(AllDevices(s)) /\ Items(<<>>) = {}
    BY ItemsFew, Zenon
  <2>3. /\ VisitDevice(s, b, d) \in Seq(AllDevices(s))
        /\ Items(VisitDevice(s, b, d)) = {} \cup Items(first)
    <3>1. <<>> \in Seq(AllDevices(s)) /\ first \in Seq(AllDevices(s))
      BY <1>2, <2>2, Zenon
    <3>2. <<>> \o first \in Seq(AllDevices(s)) /\ Items(<<>> \o first) = Items(<<>>) \cup Items(first)
      BY <3>1, ItemsJoin, ZenonT(30)
    <3> QED BY <2>1, <2>2, <3>2, Zenon
  <2>4. \A y : y \in Items(VisitDevice(s, b, d)) <=> Found(y, 0)
    BY <1>2, <2>3, Zenon
  <2> QED BY <1>2, <1>5, <1>6, <1>9, <2>3, <2>4, Zenon
<1> QED BY <1>7, <1>8, <1>9, Zenon

(* enumerate_pci_bus lists exactly these functions, some of them twice.    *)
LEMMA EnumerateItems ==
  ASSUME NEW s
  PROVE  /\ EnumeratePciBus(s) \in Seq(AllDevices(s))
         /\ \A y : y \in Items(EnumeratePciBus(s)) <=>
              \E b \in BDF : Listed(s, b) /\ y = PciDevice(s, b)
<1> DEFINE Found(y, b, d) ==
             \E f \in 0 .. NFun - 1 : Listed(s, <<b, d, f>>) /\ y = PciDevice(s, <<b, d, f>>)
           bus(b) == [d \in 1 .. NDev |-> VisitDevice(s, b - 1, d - 1)]
           q == [b \in 1 .. NBus |-> Flatten(bus(b))]
<1>1. /\ NBus \in Nat /\ NDev \in Nat
      /\ \A b \in 1 .. NBus : b - 1 \in 0 .. NBus - 1
      /\ \A d \in 1 .. NDev : d - 1 \in 0 .. NDev - 1
  BY PciAssumption
<1>2. ASSUME NEW b \in 1 .. NBus
      PROVE  /\ Flatten(bus(b)) \in Seq(AllDevices(s))
             /\ \A y : y \in Items(Flatten(bus(b))) <=> \E d \in 1 .. NDev : Found(y, b - 1, d - 1)
  <2>1. ASSUME NEW d \in 1 .. NDev
        PROVE  /\ VisitDevice(s, b - 1, d - 1) \in Seq(AllDevices(s))
               /\ \A y : y \in Items(VisitDevice(s, b - 1, d - 1)) <=> Found(y, b - 1, d - 1)
    <3>1. b - 1 \in 0 .. NBus - 1 /\ d - 1 \in 0 .. NDev - 1
      BY <1>1, Zenon
    <3> QED BY <3>1, DeviceItems, Zenon
  <2>2. /\ bus(b) \in [1 .. NDev -> Seq(AllDevices(s))]
        /\ \A d \in 1 .. NDev : bus(b)[d] = VisitDevice(s, b - 1, d - 1)
    BY <2>1, Zenon
  <2> HIDE DEF bus, Found
  <2>3. /\ Flatten(bus(b)) \in Seq(AllDevices(s))
        /\ Items(Flatten(bus(b))) = UNION {Items(bus(b)[d]) : d \in 1 .. NDev}
    BY <1>1, <2>2, FlattenItems, Zenon
  <2> QED BY <2>1, <2>2, <2>3, Zenon
<1>3. EnumeratePciBus(s) = Flatten(q)
  BY Zenon DEF EnumeratePciBus
<1>4. /\ q \in [1 .. NBus -> Seq(AllDevices(s))]
      /\ \A b \in 1 .. NBus : q[b] = Flatten(bus(b))
  <2> HIDE DEF bus
  <2> QED BY <1>2, Zenon
<1> HIDE DEF bus, q, Found
<1>5. /\ Flatten(q) \in Seq(AllDevices(s))
      /\ Items(Flatten(q)) = UNION {Items(q[b]) : b \in 1 .. NBus}
  <2>1. NBus \in Nat /\ q \in [1 .. NBus -> Seq(AllDevices(s))]
    BY <1>1, <1>4, Zenon
  <2> QED BY <2>1, FlattenItems, Zenon
<1>6. \A y : y \in Items(Flatten(q)) <=>
        \E b \in 1 .. NBus : \E d \in 1 .. NDev : Found(y, b - 1, d - 1)
  BY <1>2, <1>4, <1>5, Zenon
<1>7. ASSUME NEW y, NEW b \in 1 .. NBus, NEW d \in 1 .. NDev, Found(y, b - 1, d - 1)
      PROVE  \E x \in BDF : Listed(s, x) /\ y = PciDevice(s, x)
  <2>1. b - 1 \in 0 .. NBus - 1 /\ d - 1 \in 0 .. NDev - 1
    BY <1>1, Zenon
  <2>2. PICK f \in 0 .. NFun - 1 :
          Listed(s, <<b - 1, d - 1, f>>) /\ y = PciDevice(s, <<b - 1, d - 1, f>>)
    BY <1>7, Zenon DEF Found
  <2>3. <<b - 1, d - 1, f>> \in BDF
    BY <2>1, Functions, Zenon
  <2> QED BY <2>2, <2>3, Zenon
<1>8. ASSUME NEW y, NEW x \in BDF, Listed(s, x), y = PciDevice(s, x)
      PROVE  \E b \in 1 .. NBus : \E d \in 1 .. NDev : Found(y, b - 1, d - 1)
  <2>1. /\ x[1] \in 0 .. NBus - 1 /\ x[2] \in 0 .. NDev - 1 /\ x[3] \in 0 .. NFun - 1
        /\ x = <<x[1], x[2], x[3]>>
    BY DEF BDF
  <2>2. PICK b \in 1 .. NBus : b - 1 = x[1]
    <3>1. x[1] + 1 \in 1 .. NBus /\ (x[1] + 1) - 1 = x[1]
      BY <1>1, <2>1
    <3> QED BY <3>1
  <2>3. PICK d \in 1 .. NDev : d - 1 = x[2]
    <3>1. x[2] + 1 \in 1 .. NDev /\ (x[2] + 1) - 1 = x[2]
      BY <1>1, <2>1
    <3> QED BY <3>1
  <2>4. x = <<b - 1, d - 1, x[3]>>
    BY <2>1, <2>2, <2>3, Zenon
  <2>5. Found(y, b - 1, d - 1)
    BY <1>8, <2>1, <2>4, Zenon DEF Found
  <2> QED BY <2>5, Zenon
<1>9. \A y : y \in Items(Flatten(q)) <=> \E b \in BDF : Listed(s, b) /\ y = PciDevice(s, b)
  BY <1>6, <1>7, <1>8, Zenon
<1> QED BY <1>3, <1>5, <1>9, Zenon

(* One round of get_device.                                                *)
Sorted(p, d, vendor) ==
  IF d.vendor = vendor THEN [p EXCEPT !.taken = Append(@, d)] ELSE [p EXCEPT !.left = Append(@, d)]

(* f solves the recursion of ExtractIf.                                    *)
ExtractsTo(f, q, vendor) ==
  f = [k \in 0 .. Len(q) |-> IF k = 0 THEN [taken |-> <<>>, left |-> <<>>]
                             ELSE IF q[k].vendor = vendor
                                  THEN [f[k - 1] EXCEPT !.taken = Append(@, q[k])]
                                  ELSE [f[k - 1] EXCEPT !.left = Append(@, q[k])]]

(* r is p with d put into one of its two lists.                            *)
PutIn(r, p, d, vendor, D) ==
  /\ r \in [taken : Seq(D), left : Seq(D)]
  /\ d.vendor = vendor => r.taken = Append(p.taken, d) /\ r.left = p.left
  /\ d.vendor # vendor => r.taken = p.taken /\ r.left = Append(p.left, d)

(* That is what a round does.                                              *)
LEMMA SortedType ==
  ASSUME NEW D, NEW p \in [taken : Seq(D), left : Seq(D)], NEW d \in D, NEW vendor
  PROVE  PutIn(Sorted(p, d, vendor), p, d, vendor, D)
<1>1. p.taken \in Seq(D) /\ p.left \in Seq(D)
  OBVIOUS
<1>2. Append(p.taken, d) \in Seq(D) /\ Append(p.left, d) \in Seq(D)
  BY <1>1
<1>3. CASE d.vendor = vendor
  <2>1. Sorted(p, d, vendor) = [p EXCEPT !.taken = Append(@, d)]
    BY <1>3, Zenon DEF Sorted
  <2> QED BY <1>2, <1>3, <2>1, Zenon DEF PutIn
<1>4. CASE d.vendor # vendor
  <2>1. Sorted(p, d, vendor) = [p EXCEPT !.left = Append(@, d)]
    BY <1>4, Zenon DEF Sorted
  <2> QED BY <1>2, <1>4, <2>1, Zenon DEF PutIn
<1> QED BY <1>3, <1>4, Zenon

(* The recursion has a solution.                                           *)
LEMMA ExtractExists ==
  ASSUME NEW D, NEW q \in Seq(D), NEW vendor
  PROVE  \E f : ExtractsTo(f, q, vendor)
<1> DEFINE X == [taken : Seq(D), left : Seq(D)]
           n == Len(q)
           x == [taken |-> <<>>, left |-> <<>>]
           F == [k \in 0 .. n |-> [p \in X |-> IF k = 0 THEN p ELSE Sorted(p, q[k], vendor)]]
<1>1. n \in Nat /\ 0 \in Nat /\ 0 <= n /\ x \in X
  OBVIOUS
<1>2. \A k \in 0 .. n : k # 0 => q[k] \in D /\ k - 1 \in 0 .. n
  OBVIOUS
<1> HIDE DEF X, n, x
<1>3. F \in [0 .. n -> [X -> X]]
  <2>1. ASSUME NEW k \in 0 .. n, NEW p \in X PROVE (IF k = 0 THEN p ELSE Sorted(p, q[k], vendor)) \in X
    <3>1. CASE k = 0
      BY <3>1, Zenon
    <3>2. CASE k # 0
      <4>1. q[k] \in D /\ p \in [taken : Seq(D), left : Seq(D)]
        BY <1>2, <3>2, Zenon DEF X
      <4>2. PutIn(Sorted(p, q[k], vendor), p, q[k], vendor, D)
        BY <4>1, SortedType, Zenon
      <4> QED BY <3>2, <4>2, Zenon DEF PutIn, X
    <3> QED BY <3>1, <3>2, Zenon
  <2> QED BY <2>1, Zenon
<1>4. PICK f \in [0 .. n -> X] : Loops(f, n, x, F)
  <2> HIDE DEF F
  <2> QED BY <1>1, <1>3, Recursion, Zenon
<1>5. ASSUME NEW k \in 0 .. n, k # 0 PROVE f[k] = Sorted(f[k - 1], q[k], vendor)
  <2>1. f[k] = F[k][f[k - 1]] /\ f[k - 1] \in X
    <3> HIDE DEF F
    <3> QED BY <1>2, <1>4, <1>5, Zenon DEF Loops
  <2>2. F[k][f[k - 1]] = Sorted(f[k - 1], q[k], vendor)
    BY <1>5, <2>1, Zenon
  <2> QED BY <2>1, <2>2, Zenon
<1>6. f[0] = x
  BY <1>4, Zenon DEF Loops
<1>7. f = [k \in 0 .. n |-> f[k]]
  BY Zenon
<1>8. f = [k \in 0 .. n |-> IF k = 0 THEN x ELSE Sorted(f[k - 1], q[k], vendor)]
  BY <1>5, <1>6, <1>7, Zenon
<1>9. ExtractsTo(f, q, vendor)
  BY <1>8, Zenon DEF ExtractsTo, Sorted, n, x
<1> QED BY <1>9, Zenon

(* The devices of the vendor in q, and the others.                         *)
Parts(r, q, vendor, D) ==
  /\ r.taken \in Seq(D) /\ r.left \in Seq(D)
  /\ \A y : y \in Items(r.taken) <=> y \in Items(q) /\ y.vendor = vendor
  /\ \A y : y \in Items(r.left) <=> y \in Items(q) /\ y.vendor # vendor

(* get_device takes out the devices of the vendor and leaves the others.   *)
LEMMA ExtractItems ==
  ASSUME NEW D, NEW q \in Seq(D), NEW vendor
  PROVE  Parts(ExtractIf(q, vendor), q, vendor, D)
<1> DEFINE n == Len(q)
           f == CHOOSE g : ExtractsTo(g, q, vendor)
           Before(y, i) == \E j \in 1 .. i : y = q[j]
           Parted(i) ==
             /\ f[i] \in [taken : Seq(D), left : Seq(D)]
             /\ \A y : y \in Items(f[i].taken) <=> Before(y, i) /\ y.vendor = vendor
             /\ \A y : y \in Items(f[i].left) <=> Before(y, i) /\ y.vendor # vendor
           G == {i \in Nat : Parted(i)}
<1>1. ExtractsTo(f, q, vendor)
  BY ExtractExists, Zenon
<1>2. ExtractIf(q, vendor) = f[n]
  BY Zenon DEF ExtractIf, ExtractsTo
<1> HIDE DEF f
<1>3. \A i \in 0 .. n : f[i] = IF i = 0 THEN [taken |-> <<>>, left |-> <<>>]
                               ELSE Sorted(f[i - 1], q[i], vendor)
  BY <1>1, Zenon DEF ExtractsTo, Sorted
<1>4. n \in Nat /\ n \in 0 .. n /\ 0 \in 0 .. n /\ 0 \in Nat /\ 1 .. 0 = {}
  OBVIOUS
<1>5. 0 \in G
  <2>1. f[0] = [taken |-> <<>>, left |-> <<>>]
    BY <1>3, <1>4, Zenon
  <2>2. f[0].taken = <<>> /\ f[0].left = <<>> /\ f[0] \in [taken : Seq(D), left : Seq(D)]
    BY <2>1
  <2>3. Items(f[0].taken) = {} /\ Items(f[0].left) = {}
    BY <2>2, ItemsFew, Zenon
  <2>4. \A y : ~Before(y, 0)
    BY <1>4, Zenon
  <2> HIDE DEF Before
  <2> QED BY <1>4, <2>2, <2>3, <2>4, Zenon
<1>6. ASSUME NEW i \in 0 .. n, i + 1 \in 0 .. n, i \in G PROVE i + 1 \in G
  <2>1. PICK k \in 0 .. n : k = i + 1 /\ k # 0 /\ k - 1 = i /\ k \in Nat
    BY <1>6
  <2>2. q[k] \in D /\ \A j : j \in 1 .. k <=> j \in 1 .. i \/ j = k
    BY <2>1
  <2>3. f[k] = Sorted(f[i], q[k], vendor)
    BY <1>3, <2>1, Zenon
  <2>4. \A y : Before(y, k) <=> Before(y, i) \/ y = q[k]
    BY <2>2, Zenon
  <2>5. Parted(i)
    BY <1>6, Zenon
  <2> HIDE DEF Before, n
  <2>6. /\ f[i] \in [taken : Seq(D), left : Seq(D)] /\ f[i].taken \in Seq(D) /\ f[i].left \in Seq(D)
    <3>1. f[i] \in [taken : Seq(D), left : Seq(D)]
      BY <2>5, Zenon
    <3> QED BY <3>1
  <2>7. /\ f[k] \in [taken : Seq(D), left : Seq(D)]
        /\ q[k].vendor = vendor => f[k].taken = Append(f[i].taken, q[k]) /\ f[k].left = f[i].left
        /\ q[k].vendor # vendor => f[k].taken = f[i].taken /\ f[k].left = Append(f[i].left, q[k])
    <3>1. q[k] \in D /\ f[i] \in [taken : Seq(D), left : Seq(D)]
      BY <2>2, <2>6, Zenon
    <3>2. PutIn(Sorted(f[i], q[k], vendor), f[i], q[k], vendor, D)
      BY <3>1, SortedType, Zenon
    <3> QED BY <2>3, <3>2, Zenon DEF PutIn
  <2>8. ASSUME NEW p \in Seq(D) PROVE \A y : y \in Items(Append(p, q[k])) <=> y \in Items(p) \/ y = q[k]
    <3>1. Append(p, q[k]) = p \o << q[k] >>
      BY <2>2
    <3>2. << q[k] >> \in Seq(D)
      BY <2>2, ItemsFew, Zenon
    <3>3. Items(<< q[k] >>) = {q[k]}
      BY ItemsFew, Zenon
    <3>4. Items(p \o << q[k] >>) = Items(p) \cup Items(<< q[k] >>)
      BY <2>8, <3>2, ItemsJoin, ZenonT(30)
    <3> QED BY <3>1, <3>3, <3>4, Zenon
  <2>9. Parted(k)
    <3>1. CASE q[k].vendor = vendor
      <4>1. \A y : y \in Items(f[k].taken) <=> y \in Items(f[i].taken) \/ y = q[k]
        BY <2>6, <2>7, <2>8, <3>1, Zenon
      <4>2. f[k].left = f[i].left
        BY <2>7, <3>1, Zenon
      <4>3. \A y : y \in Items(f[k].taken) <=> Before(y, k) /\ y.vendor = vendor
        BY <2>4, <2>5, <3>1, <4>1, Zenon
      <4>4. \A y : y \in Items(f[k].left) <=> Before(y, k) /\ y.vendor # vendor
        BY <2>4, <2>5, <3>1, <4>2, Zenon
      <4> QED BY <2>7, <4>3, <4>4, Zenon
    <3>2. CASE q[k].vendor # vendor
      <4>1. \A y : y \in Items(f[k].left) <=> y \in Items(f[i].left) \/ y = q[k]
        BY <2>6, <2>7, <2>8, <3>2, Zenon
      <4>2. f[k].taken = f[i].taken
        BY <2>7, <3>2, Zenon
      <4>3. \A y : y \in Items(f[k].left) <=> Before(y, k) /\ y.vendor # vendor
        BY <2>4, <2>5, <3>2, <4>1, Zenon
      <4>4. \A y : y \in Items(f[k].taken) <=> Before(y, k) /\ y.vendor = vendor
        BY <2>4, <2>5, <3>2, <4>2, Zenon
      <4> QED BY <2>7, <4>3, <4>4, Zenon
    <3> QED BY <3>1, <3>2, Zenon
  <2> HIDE DEF Parted
  <2> QED BY <2>1, <2>9, Zenon
<1>7. Parted(n)
  <2> HIDE DEF Parted, n
  <2>1. n \in G
    <3> HIDE DEF G
    <3> QED BY <1>4, <1>5, <1>6, Upwards, Zenon
  <2> QED BY <2>1, Zenon
<1>8. \A y : Before(y, n) <=> y \in Items(q)
  BY Zenon DEF Items
<1>9. f[n].taken \in Seq(D) /\ f[n].left \in Seq(D)
  <2>1. f[n] \in [taken : Seq(D), left : Seq(D)]
    <3> HIDE DEF Before
    <3> QED BY <1>7, Zenon
  <2> HIDE DEF n
  <2> QED BY <2>1
<1> HIDE DEF Before, n
<1> QED BY <1>2, <1>7, <1>8, <1>9, Zenon DEF Parts

-----------------------------------------------------------------------------
(* rtl8139::init.                                                          *)

(* The devices of the NICs.                                                *)
NicDevices == {PciDevice(space, b) : b \in Nics}

(* Before rtl8139::init nothing is driven, and PCI.devices lists what      *)
(* enumerate_pci_bus found.  During it, a NIC is driven or waits in todo,  *)
(* and those that are driven have their buffers and their I/O APIC entry.  *)
Driven ==
  /\ stage \in {"madt", "mcfg", "hpet", "pci", "nics"} => nics = <<>> /\ buffers = <<>>
  /\ stage = "nics" => devices = EnumeratePciBus(space)
  /\ stage = "nic" =>
       /\ todo \in Seq(NicDevices)
       /\ DOMAIN nics \cup {d.bdf : d \in Items(todo)} = Nics
       /\ nics = buffers
       /\ \A n \in DOMAIN nics : LineEntry(space[n].line) \subseteq entry
       /\ \A i \in DOMAIN devices : devices[i].vendor # "rtl8139"

(* The NICs are the RTL8139s among the functions that are listed.          *)
LEMMA NicsListed ==
  ASSUME NEW b \in BDF
  PROVE  b \in Nics <=> Listed(space, b) /\ space[b].vendor = "rtl8139"
<1>1. space[b].vendor = "rtl8139" => space[b].vendor # "none"
  OBVIOUS
<1> QED BY <1>1, Zenon DEF Nics, Listed

(* The fields of a device that visit_configuration_space returns.          *)
LEMMA DeviceFields ==
  ASSUME NEW s, NEW b
  PROVE  /\ PciDevice(s, b).bdf = b /\ PciDevice(s, b).vendor = s[b].vendor
         /\ PciDevice(s, b).line = s[b].line
BY DEF PciDevice

(* pci::init.                                                              *)
LEMMA PciInitStep ==
  ASSUME Driven, PciInit
  PROVE  Driven'
<1>1. stage = "pci" /\ stage' = "nics" /\ nics' = nics /\ buffers' = buffers
  BY Zenon DEF PciInit
<1>2. devices' = EnumeratePciBus(space)'
  <2>1. PICK s \in Spaces : space' = s /\ devices' = EnumeratePciBus(s)
    BY Zenon DEF PciInit
  <2> QED BY <2>1, Zenon
<1>3. stage' # "nic"
  BY <1>1
<1> QED BY <1>1, <1>2, <1>3, Zenon DEF Driven

(* get_device: all the NICs wait to be initialised.                        *)
LEMMA GetDevicesStep ==
  ASSUME Driven, GetDevices
  PROVE  Driven'
<1> DEFINE q == ExtractIf(devices, "rtl8139")
<1>1. /\ stage = "nics" /\ stage' = "nic" /\ todo' = q.taken /\ devices' = q.left
      /\ UNCHANGED <<space, madt, nics, buffers, entry>>
  BY Zenon DEF GetDevices, bootVars
<1>2. nics = <<>> /\ buffers = <<>> /\ devices = EnumeratePciBus(space)
  BY <1>1, Zenon DEF Driven
<1>3. /\ devices \in Seq(AllDevices(space))
      /\ \A y : y \in Items(devices) <=> \E b \in BDF : Listed(space, b) /\ y = PciDevice(space, b)
  BY <1>2, EnumerateItems, Zenon
<1>4. Parts(q, devices, "rtl8139", AllDevices(space))
  <2>1. devices \in Seq(AllDevices(space))
    BY <1>3, Zenon
  <2> QED BY <2>1, ExtractItems, Zenon
<1> HIDE DEF q
<1>5. /\ q.taken \in Seq(AllDevices(space)) /\ q.left \in Seq(AllDevices(space))
      /\ \A y : y \in Items(q.taken) <=> y \in Items(devices) /\ y.vendor = "rtl8139"
      /\ \A y : y \in Items(q.left) <=> y \in Items(devices) /\ y.vendor # "rtl8139"
  BY <1>4, Zenon DEF Parts
<1>6. ASSUME NEW y PROVE y \in Items(q.taken) <=> y \in NicDevices
  <2>1. ASSUME NEW b \in BDF, Listed(space, b), y = PciDevice(space, b), y.vendor = "rtl8139"
        PROVE  y \in NicDevices
    <3>1. PciDevice(space, b).vendor = space[b].vendor
      BY DeviceFields, Zenon
    <3>2. space[b].vendor = "rtl8139"
      BY <2>1, <3>1, Zenon
    <3>3. b \in Nics
      BY <2>1, <3>2, NicsListed, Zenon
    <3> QED BY <2>1, <3>3, Zenon DEF NicDevices
  <2>2. ASSUME NEW b \in Nics, y = PciDevice(space, b)
        PROVE  y \in Items(q.taken)
    <3>1. b \in BDF
      BY Zenon DEF Nics
    <3>2. Listed(space, b) /\ space[b].vendor = "rtl8139"
      BY <3>1, NicsListed, Zenon
    <3>3. PciDevice(space, b).vendor = space[b].vendor
      BY DeviceFields, ZenonT(30)
    <3>4. y.vendor = "rtl8139"
      BY <2>2, <3>2, <3>3, Zenon
    <3>5. y \in Items(devices)
      BY <1>3, <2>2, <3>1, <3>2, Zenon
    <3> QED BY <1>5, <3>4, <3>5, Zenon
  <2>3. y \in Items(q.taken) => y \in NicDevices
    BY <1>3, <1>5, <2>1, Zenon
  <2> QED BY <2>2, <2>3, Zenon DEF NicDevices
<1>7. q.taken \in Seq(NicDevices)
  <2>1. Len(q.taken) \in Nat /\ q.taken = [i \in 1 .. Len(q.taken) |-> q.taken[i]]
    BY <1>5
  <2>2. \A i \in 1 .. Len(q.taken) : q.taken[i] \in NicDevices
    BY <1>6, Zenon DEF Items
  <2> QED BY <2>1, <2>2
<1>8. {d.bdf : d \in Items(q.taken)} = Nics
  <2>1. Items(q.taken) = NicDevices
    BY <1>6, Zenon
  <2>2. \A b \in Nics : PciDevice(space, b).bdf = b /\ PciDevice(space, b) \in NicDevices
    BY DeviceFields, Zenon DEF NicDevices
  <2>3. \A d \in NicDevices : \E b \in Nics : d.bdf = b
    BY <2>2, Zenon DEF NicDevices
  <2>4. \A b \in Nics : \E d \in NicDevices : d.bdf = b
    BY <2>2, Zenon
  <2> QED BY <2>1, <2>3, <2>4, Zenon
<1>9. \A i \in DOMAIN q.left : q.left[i].vendor # "rtl8139"
  <2>1. DOMAIN q.left = 1 .. Len(q.left)
    BY <1>5
  <2> QED BY <1>5, <2>1, Zenon DEF Items
<1>10. DOMAIN nics = {}
  BY <1>2
<1>11. Nics' = Nics /\ NicDevices' = NicDevices
  BY <1>1, Zenon DEF Nics, NicDevices
<1>12. stage' \notin {"madt", "mcfg", "hpet", "pci", "nics"} /\ stage' # "nics"
  BY <1>1
<1> QED BY <1>1, <1>2, <1>7, <1>8, <1>9, <1>10, <1>11, <1>12, Zenon DEF Driven

(* One round of rtl8139::init: a NIC, perhaps for the second time, gets a  *)
(* new instance, its buffers and its entry.                                *)
LEMMA InitNicDrives ==
  ASSUME Driven, InitNic
  PROVE  Driven'
<1> DEFINE d == Head(todo)
           instance == Len(todo)
<1>1. /\ stage = "nic" /\ stage' = stage /\ todo # <<>> /\ todo' = Tail(todo)
      /\ nics' = Insert(nics, d.bdf, instance) /\ buffers' = Insert(buffers, d.bdf, instance)
      /\ entry' = entry \cup LineEntry(d.line)
      /\ UNCHANGED <<space, madt, devices>>
  BY Zenon DEF InitNic, InsertNic, bootVars
<1>2. /\ todo \in Seq(NicDevices) /\ DOMAIN nics \cup {x.bdf : x \in Items(todo)} = Nics
      /\ nics = buffers
      /\ \A n \in DOMAIN nics : LineEntry(space[n].line) \subseteq entry
      /\ \A i \in DOMAIN devices : devices[i].vendor # "rtl8139"
  BY <1>1, Zenon DEF Driven
<1>3. /\ d \in NicDevices /\ Tail(todo) \in Seq(NicDevices)
      /\ << d >> \in Seq(NicDevices) /\ todo = << d >> \o Tail(todo)
  <2>1. todo \in Seq(NicDevices) /\ todo # <<>>
    BY <1>1, <1>2, Zenon
  <2> QED BY <2>1
<1>4. Items(todo) = {d} \cup Items(Tail(todo))
  <2>1. << d >> \in Seq(NicDevices) /\ Tail(todo) \in Seq(NicDevices)
    BY <1>3, Zenon
  <2>2. Items(<< d >> \o Tail(todo)) = Items(<< d >>) \cup Items(Tail(todo))
    BY <2>1, ItemsJoin, ZenonT(30)
  <2> QED BY <1>3, <2>2, ItemsFew, Zenon
<1>5. PICK b \in Nics : d = PciDevice(space, b)
  BY <1>3, Zenon DEF NicDevices
<1>6. d.bdf = b /\ d.line = space[b].line
  <2>1. PciDevice(space, b).bdf = b /\ PciDevice(space, b).line = space[b].line
    BY DeviceFields, Zenon
  <2> QED BY <1>5, <2>1, Zenon
<1> HIDE DEF d, instance
<1>7. DOMAIN nics' = DOMAIN nics \cup {b}
  BY <1>1, <1>6, Zenon DEF Insert
<1>8. nics' = buffers'
  BY <1>1, <1>2, Zenon
<1>9. DOMAIN nics' \cup {x.bdf : x \in Items(Tail(todo))} = Nics
  <2>1. {x.bdf : x \in Items(todo)} = {b} \cup {x.bdf : x \in Items(Tail(todo))}
    BY <1>4, <1>6, Zenon
  <2> QED BY <1>2, <1>7, <2>1, Zenon
<1>10. \A n \in DOMAIN nics' : LineEntry(space[n].line) \subseteq entry'
  BY <1>1, <1>2, <1>6, <1>7, Zenon
<1>11. Nics' = Nics /\ NicDevices' = NicDevices /\ \A x : LineEntry(x)' = LineEntry(x)
  BY <1>1, Zenon DEF Nics, NicDevices, LineEntry
<1>12. stage' = "nic" /\ stage' \notin {"madt", "mcfg", "hpet", "pci", "nics"} /\ stage' # "nics"
  BY <1>1
<1>13. \A n \in DOMAIN nics' : LineEntry(space[n].line)' \subseteq entry'
  BY <1>1, <1>10, <1>11, Zenon
<1> QED BY <1>1, <1>2, <1>3, <1>8, <1>9, <1>11, <1>12, <1>13, Zenon DEF Driven

(* The other steps of start(), and all that runs after it.                 *)
LEMMA OthersDrive ==
  ASSUME Driven,
         ParseMadt \/ ParseMcfg \/ HpetInit \/ NicsDone \/ ReaderStart \/ ReaderType \/ ReaderBar
           \/ ReaderPort \/ Handler \/ HandleFrame \/ UNCHANGED vars
  PROVE  Driven'
<1>1. CASE ParseMadt \/ ParseMcfg \/ HpetInit
  <2>1. /\ stage \in {"madt", "mcfg", "hpet"} /\ nics' = nics /\ buffers' = buffers
        /\ stage' # "nics" /\ stage' # "nic"
    BY <1>1 DEF ParseMadt, ParseMcfg, HpetInit, nicVars
  <2>2. nics = <<>> /\ buffers = <<>>
    BY <2>1, Zenon DEF Driven
  <2> QED BY <2>1, <2>2, Zenon DEF Driven
<1>2. CASE NicsDone
  <2>1. stage' \notin {"madt", "mcfg", "hpet", "pci", "nics", "nic"}
    BY <1>2 DEF NicsDone
  <2> QED BY <2>1, Zenon DEF Driven
<1>3. CASE ReaderStart \/ ReaderType \/ ReaderBar \/ ReaderPort \/ Handler \/ HandleFrame \/ UNCHANGED vars
  <2>1. UNCHANGED <<stage, madt, space, devices, todo, buffers, nics, entry>>
    BY <1>3, Zenon DEF ReaderStart, ReaderType, ReaderBar, ReaderPort, Handler, HandleFrame, vars,
                       nicVars, bootVars
  <2>2. /\ Nics' = Nics /\ NicDevices' = NicDevices /\ \A x : LineEntry(x)' = LineEntry(x)
        /\ EnumeratePciBus(space)' = EnumeratePciBus(space)
    BY <2>1, Zenon DEF Nics, NicDevices, LineEntry
  <2>3. \A n \in DOMAIN nics : LineEntry(space[n].line)' = LineEntry(space[n].line)
    BY <2>1, <2>2, Zenon
  <2> QED BY <2>1, <2>2, <2>3, Zenon DEF Driven
<1> QED BY <1>1, <1>2, <1>3, Zenon

(* It is an invariant.                                                     *)
LEMMA DrivenInvariant == Spec => []Driven
<1>1. Init => Driven
  BY DEF Init, Driven
<1>2. Driven /\ [Next]_vars => Driven'
  <2> SUFFICES ASSUME Driven, [Next]_vars PROVE Driven'
    OBVIOUS
  <2>1. CASE PciInit
    BY <2>1, PciInitStep, Zenon
  <2>2. CASE GetDevices
    BY <2>2, GetDevicesStep, Zenon
  <2>3. CASE InitNic
    BY <2>3, InitNicDrives, Zenon
  <2>4. CASE ParseMadt \/ ParseMcfg \/ HpetInit \/ NicsDone \/ ReaderStart \/ ReaderType \/ ReaderBar
               \/ ReaderPort \/ Handler \/ HandleFrame \/ UNCHANGED vars
    BY <2>4, OthersDrive, Zenon
  <2> QED BY <2>1, <2>2, <2>3, <2>4, Zenon DEF Next
<1> QED BY <1>1, <1>2, PTL DEF Spec

(* For any number of buses, devices and functions, any configuration space *)
(* and any MADT: rtl8139::init drives exactly the NICs that are on the     *)
(* bus, each by the instance whose buffers its registers hold, with its    *)
(* I/O APIC entry routed.                                                  *)
THEOREM NicsTheorem == Spec => []NicsExact
<1>1. Access /\ Driven => NicsExact
  <2> SUFFICES ASSUME Access, Driven, stage = "nic", todo = <<>>
               PROVE  /\ DOMAIN nics = Nics /\ interfaces = Nics
                      /\ nics = buffers
                      /\ \A n \in Nics, i \in DOMAIN madt.mappings :
                           /\ madt.mappings[i].irq = space[n].line
                           /\ \A j \in 1 .. i - 1 : madt.mappings[j].irq # space[n].line
                           => madt.mappings[i].gsi \in entry
                      /\ \A i \in DOMAIN devices : devices[i].vendor # "rtl8139"
    BY Zenon DEF NicsExact
  <2>1. /\ DOMAIN nics \cup {d.bdf : d \in Items(todo)} = Nics
        /\ nics = buffers
        /\ \A n \in DOMAIN nics : LineEntry(space[n].line) \subseteq entry
        /\ \A i \in DOMAIN devices : devices[i].vendor # "rtl8139"
    BY Zenon DEF Driven
  <2>2. DOMAIN nics = Nics
    BY <2>1, ItemsFew, Zenon
  <2>3. interfaces = Nics
    BY <2>2, Zenon DEF Access
  <2>4. ASSUME NEW n \in Nics, NEW i \in DOMAIN madt.mappings,
               madt.mappings[i].irq = space[n].line,
               \A j \in 1 .. i - 1 : madt.mappings[j].irq # space[n].line
        PROVE  madt.mappings[i].gsi \in entry
    <3>1. madt.mappings[i].gsi \in LineEntry(space[n].line)
      BY <2>4, Zenon DEF LineEntry
    <3> QED BY <2>1, <2>2, <3>1, Zenon
  <2> QED BY <2>1, <2>2, <2>3, <2>4, Zenon
<1> QED BY <1>1, AccessInvariant, DrivenInvariant, PTL

=============================================================================
