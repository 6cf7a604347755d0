---------------------------- MODULE MapperProofs ----------------------------
(***************************************************************************)
(* Proofs about the Mapper, for tables of any size, any number of tables,  *)
(* pages and address spaces, and any pages of userland that lie in one     *)
(* page table.  With pages in two of them fork goes wrong, as the property *)
(* ForkClones shows.                                                       *)
(*                                                                         *)
(* The invariant has two layers.  Shape is about the region of tables: an  *)
(* address space owns a chain of four tables, PML4, PDPT, page directory   *)
(* and page table, which no other and not the kernel uses, and corres-     *)
(* ponding tables agree in bit 12 of their addresses.  Counted is about    *)
(* what the page tables hold: reference counts and aliases.                *)
(***************************************************************************)
EXTENDS Mapper, TLAPS

(* The pages of userland lie in one page table.                            *)
OnePageTable == \A v \in UserPages : v[2] = 0 /\ v[3] = 0

Tables == 0 .. MaxTables + Slack
Entry == [addr : Nat, present : BOOLEAN, rw : BOOLEAN]

Points(e, n) == e.present = TRUE /\ e.addr = n

(* The tables below PML4 s: the PDPT, and after it the other two.          *)
Pdpt(t, s) == t[s][0].addr
Pd(t, s) == Pdpt(t, s) + 1
Pt(t, s) == Pdpt(t, s) + 2
Chain(t, s) == {s, Pdpt(t, s), Pd(t, s), Pt(t, s)}

(* The tables of the kernel: table 1 and the two for the scratch page.     *)
Scratched(t) == t[1][1].present = TRUE
ScratchPd(t) == t[1][1].addr
ScratchPt(t) == ScratchPd(t) + 1
Kernel(t) == {1} \cup {n \in {ScratchPd(t), ScratchPt(t)} : Scratched(t)}

(* The chain of PML4 s.  The last conjunct is what keeps PAT_FLAG from     *)
(* doing harm.                                                             *)
Space(t, nx, s) ==
  /\ s \in Nat /\ Pdpt(t, s) \in Nat
  /\ s < Pdpt(t, s) /\ Pt(t, s) < nx
  /\ t[s][0].present = TRUE
  /\ Points(t[s][1], 1)
  /\ Points(t[Pdpt(t, s)][0], Pd(t, s))
  /\ Points(t[Pd(t, s)][0], Pt(t, s))
  /\ \A i \in Index \ {0} : t[Pdpt(t, s)][i].present = FALSE /\ t[Pd(t, s)][i].present = FALSE
  /\ (Pdpt(t, s) + nx) % 2 = 1

KernelShape(t, nx) ==
  Scratched(t) => /\ ScratchPd(t) \in Nat /\ ScratchPd(t) > 1 /\ ScratchPt(t) < nx
                  /\ Points(t[ScratchPd(t)][0], ScratchPt(t))

Apart(t, sp) ==
  /\ \A s \in sp : Chain(t, s) \cap Kernel(t) = {}
  /\ \A s, r \in sp : s # r => Chain(t, s) \cap Chain(t, r) = {}

Shape(t, nx, sp) ==
  /\ nx \in Nat /\ nx > 1 /\ nx <= MaxTables + 3
  /\ t \in [Tables -> [Index -> Entry]]
  /\ \A s \in sp : Space(t, nx, s)
  /\ KernelShape(t, nx)
  /\ Apart(t, sp)
  /\ \A n \in Tables : n >= nx => t[n] = [i \in Index |-> Null]

Va(i) == <<0, 0, 0, i>>
Pte(t, s, i) == t[Pt(t, s)][i]

(* What the proofs use of numbers and of finite sets.  The lemmas that     *)
(* depend on it assume SetFacts; MapperTheorems shows that it holds.       *)
LeastFact == \A S \in SUBSET Nat : S # {} => \E x \in S : \A y \in S : x <= y
SizeFact ==
  /\ IsFiniteSet({}) /\ Cardinality({}) = 0
  /\ \A x : IsFiniteSet({x}) /\ Cardinality({x}) = 1
  /\ \A S : IsFiniteSet(S) => /\ Cardinality(S) \in Nat
                              /\ Cardinality(S) = 0 <=> S = {}
                              /\ Cardinality(S) = 1 <=> \E x : S = {x}
ChangeFact ==
  \A S, x : IsFiniteSet(S) =>
    /\ IsFiniteSet(S \cup {x}) /\ IsFiniteSet(S \ {x})
    /\ Cardinality(S \cup {x}) = IF x \in S THEN Cardinality(S) ELSE Cardinality(S) + 1
    /\ Cardinality(S \ {x}) = IF x \in S THEN Cardinality(S) - 1 ELSE Cardinality(S)
SetFacts == LeastFact /\ SizeFact /\ ChangeFact

-----------------------------------------------------------------------------
(* The tables.                                                             *)

(* Indices, tables and pages are numbers.                                  *)
LEMMA Sizes ==
  /\ 0 \in Index /\ 1 \in Index /\ Index \subseteq Nat
  /\ 0 \in Tables /\ 1 \in Tables /\ Tables \subseteq Nat
  /\ \A n \in Nat : n <= MaxTables + 7 => n \in Tables
  /\ Pages \subseteq Nat
BY MapperAssumption DEF Index, Tables, Slack

(* Where the tables of an address space are.                               *)
LEMMA ChainIn ==
  ASSUME NEW t, NEW nx, NEW sp, Shape(t, nx, sp), NEW s \in sp
  PROVE  /\ s \in Tables /\ Pdpt(t, s) \in Tables /\ Pd(t, s) \in Tables /\ Pt(t, s) \in Tables
         /\ s < nx /\ Pdpt(t, s) < nx /\ Pd(t, s) < nx /\ Pt(t, s) < nx
         /\ s # Pdpt(t, s) /\ s # Pd(t, s) /\ s # Pt(t, s)
         /\ Pdpt(t, s) # Pd(t, s) /\ Pdpt(t, s) # Pt(t, s) /\ Pd(t, s) # Pt(t, s)
<1>1. /\ s \in Nat /\ Pdpt(t, s) \in Nat /\ s < Pdpt(t, s) /\ Pdpt(t, s) + 2 < nx
      /\ nx \in Nat /\ nx <= MaxTables + 3
  BY Zenon DEF Shape, Space, Pt
<1> QED BY <1>1, MapperAssumption DEF Tables, Slack, Pd, Pt

(* A page table is no other table of an address space, nor the kernel's.   *)
LEMMA PtAlone ==
  ASSUME NEW t, NEW nx, NEW sp, Shape(t, nx, sp), NEW s \in sp, NEW r \in sp
  PROVE  /\ Pt(t, s) # r /\ Pt(t, s) # Pdpt(t, r) /\ Pt(t, s) # Pd(t, r)
         /\ s # r => Pt(t, s) # Pt(t, r)
         /\ Pt(t, s) # 1 /\ r # 1 /\ Pdpt(t, r) # 1 /\ Pd(t, r) # 1
         /\ Scratched(t) => /\ Pt(t, s) # ScratchPd(t) /\ Pt(t, s) # ScratchPt(t)
                            /\ r # ScratchPt(t) /\ Pdpt(t, r) # ScratchPt(t) /\ Pd(t, r) # ScratchPt(t)
<1>1. Apart(t, sp)
  BY Zenon DEF Shape
<1>2. /\ Pt(t, s) # s /\ Pt(t, s) # Pdpt(t, s) /\ Pt(t, s) # Pd(t, s)
  BY ChainIn, Zenon
<1>3. CASE s = r
  BY <1>1, <1>2, <1>3, Zenon DEF Apart, Chain, Kernel
<1>4. CASE s # r
  BY <1>1, <1>4, Zenon DEF Apart, Chain, Kernel
<1> QED BY <1>3, <1>4, Zenon

(* Writes to page tables leave the shape alone.                            *)
LEMMA PtWrites ==
  ASSUME NEW t, NEW nx, NEW sp, Shape(t, nx, sp), NEW u \in [Tables -> [Index -> Entry]],
         \A n \in Tables : (\A s \in sp : n # Pt(t, s)) => u[n] = t[n]
  PROVE  /\ Shape(u, nx, sp)
         /\ \A s \in sp : Pt(u, s) = Pt(t, s)
         /\ Scratched(u) = Scratched(t) /\ ScratchPt(u) = ScratchPt(t)
         /\ Scratched(t) => u[ScratchPt(t)] = t[ScratchPt(t)]
<1>1. ASSUME NEW s \in sp
      PROVE  u[s] = t[s] /\ u[Pdpt(t, s)] = t[Pdpt(t, s)] /\ u[Pd(t, s)] = t[Pd(t, s)]
  <2>1. s \in Tables /\ Pdpt(t, s) \in Tables /\ Pd(t, s) \in Tables
    BY ChainIn, Zenon
  <2>2. \A r \in sp : Pt(t, r) # s /\ Pt(t, r) # Pdpt(t, s) /\ Pt(t, r) # Pd(t, s)
    BY PtAlone, Zenon
  <2> QED BY <2>1, <2>2, Zenon
<1>2. \A s \in sp : Pdpt(u, s) = Pdpt(t, s)
  BY <1>1, Zenon DEF Pdpt
<1>3. \A s \in sp : Pd(u, s) = Pd(t, s) /\ Pt(u, s) = Pt(t, s) /\ Chain(u, s) = Chain(t, s)
  BY <1>2, Zenon DEF Pd, Pt, Chain
<1>4. ASSUME NEW s \in sp PROVE Space(u, nx, s)
  <2>1. Space(t, nx, s)
    BY Zenon DEF Shape
  <2>2. /\ u[s] = t[s] /\ u[Pdpt(t, s)] = t[Pdpt(t, s)] /\ u[Pd(t, s)] = t[Pd(t, s)]
        /\ Pdpt(u, s) = Pdpt(t, s) /\ Pd(u, s) = Pd(t, s) /\ Pt(u, s) = Pt(t, s)
    BY <1>1, <1>2, <1>3, Zenon
  <2> QED BY <2>1, <2>2 DEF Space
<1>5. u[1] = t[1]
  BY PtAlone, Sizes, Zenon
<1>6. /\ Scratched(u) = Scratched(t) /\ ScratchPd(u) = ScratchPd(t) /\ ScratchPt(u) = ScratchPt(t)
      /\ Kernel(u) = Kernel(t)
  BY <1>5, Zenon DEF Scratched, ScratchPd, ScratchPt, Kernel
<1>7. Apart(u, sp)
  BY <1>3, <1>6, Zenon DEF Apart, Shape
<1>8. ASSUME Scratched(t)
      PROVE  /\ ScratchPd(t) \in Tables /\ u[ScratchPd(t)] = t[ScratchPd(t)]
             /\ ScratchPt(t) \in Tables /\ u[ScratchPt(t)] = t[ScratchPt(t)]
  <2>1. KernelShape(t, nx) /\ nx \in Nat /\ nx <= MaxTables + 3
    BY Zenon DEF Shape
  <2>2. ScratchPd(t) \in Tables /\ ScratchPt(t) \in Tables
    BY <1>8, <2>1, MapperAssumption DEF KernelShape, ScratchPt, Tables, Slack
  <2> QED BY <1>8, <2>2, PtAlone, Zenon
<1>9. KernelShape(u, nx)
  BY <1>6, <1>8, Zenon DEF KernelShape, Shape
<1>10. \A n \in Tables : n >= nx => u[n] = [i \in Index |-> Null]
  <2>1. \A n \in Tables : n >= nx => \A s \in sp : n # Pt(t, s)
    <3> SUFFICES ASSUME NEW n \in Tables, n >= nx, NEW s \in sp PROVE n # Pt(t, s)
      BY Zenon
    <3>1. Pt(t, s) \in Tables /\ Pt(t, s) < nx
      BY ChainIn, Zenon
    <3>2. nx \in Nat
      BY Zenon DEF Shape
    <3> QED BY <3>1, <3>2, Sizes
  <2> QED BY <2>1, Zenon DEF Shape
<1> QED BY <1>3, <1>4, <1>6, <1>7, <1>8, <1>9, <1>10, Zenon DEF Shape

(* So do writes to the page table of the scratch page, which keep the page *)
(* tables of userland too.                                                 *)
LEMMA ScratchWrites ==
  ASSUME NEW t, NEW nx, NEW sp, Shape(t, nx, sp), NEW u \in [Tables -> [Index -> Entry]],
         Scratched(t), \A n \in Tables : n # ScratchPt(t) => u[n] = t[n]
  PROVE  /\ Shape(u, nx, sp)
         /\ \A s \in sp : Pt(u, s) = Pt(t, s) /\ u[Pt(t, s)] = t[Pt(t, s)]
         /\ Scratched(u) = Scratched(t) /\ ScratchPt(u) = ScratchPt(t)
<1>1. \A s \in sp : /\ u[s] = t[s] /\ u[Pdpt(t, s)] = t[Pdpt(t, s)]
                    /\ u[Pd(t, s)] = t[Pd(t, s)] /\ u[Pt(t, s)] = t[Pt(t, s)]
  BY ChainIn, PtAlone, Zenon
<1>2. \A s \in sp : Pdpt(u, s) = Pdpt(t, s)
  BY <1>1, Zenon DEF Pdpt
<1>3. \A s \in sp : Pd(u, s) = Pd(t, s) /\ Pt(u, s) = Pt(t, s) /\ Chain(u, s) = Chain(t, s)
  BY <1>2, Zenon DEF Pd, Pt, Chain
<1>4. ASSUME NEW s \in sp PROVE Space(u, nx, s)
  <2>1. Space(t, nx, s)
    BY Zenon DEF Shape
  <2>2. /\ u[s] = t[s] /\ u[Pdpt(t, s)] = t[Pdpt(t, s)] /\ u[Pd(t, s)] = t[Pd(t, s)]
        /\ Pdpt(u, s) = Pdpt(t, s) /\ Pd(u, s) = Pd(t, s) /\ Pt(u, s) = Pt(t, s)
    BY <1>1, <1>2, <1>3, Zenon
  <2> QED BY <2>1, <2>2 DEF Space
<1>5. /\ KernelShape(t, nx) /\ nx \in Nat /\ nx <= MaxTables + 3
  BY Zenon DEF Shape
<1>6. /\ ScratchPd(t) \in Tables /\ ScratchPt(t) < nx
      /\ ScratchPd(t) # ScratchPt(t) /\ 1 # ScratchPt(t)
  BY <1>5, MapperAssumption DEF KernelShape, ScratchPt, Tables, Slack
<1>7. u[1] = t[1] /\ u[ScratchPd(t)] = t[ScratchPd(t)]
  BY <1>6, Sizes, Zenon
<1>8. /\ Scratched(u) = Scratched(t) /\ ScratchPd(u) = ScratchPd(t) /\ ScratchPt(u) = ScratchPt(t)
      /\ Kernel(u) = Kernel(t)
  BY <1>7, Zenon DEF Scratched, ScratchPd, ScratchPt, Kernel
<1>9. Apart(u, sp)
  BY <1>3, <1>8, Zenon DEF Apart, Shape
<1>10. KernelShape(u, nx)
  BY <1>5, <1>7, <1>8, Zenon DEF KernelShape
<1>11. \A n \in Tables : n >= nx => n # ScratchPt(t)
  BY <1>5, <1>6, Sizes DEF ScratchPt, KernelShape
<1>12. \A n \in Tables : n >= nx => u[n] = [i \in Index |-> Null]
  BY <1>11, Zenon DEF Shape
<1> QED BY <1>1, <1>3, <1>4, <1>8, <1>9, <1>10, <1>12, Zenon DEF Shape

-----------------------------------------------------------------------------
(* Walks.                                                                  *)

(* Addresses of userland, and the scratch address.                         *)
LEMMA VaFacts ==
  /\ \A i : Va(i)[1] = 0 /\ Va(i)[2] = 0 /\ Va(i)[3] = 0 /\ Va(i)[4] = i /\ IsUser(Va(i))
  /\ \A i, j : Va(i) = Va(j) => i = j
  /\ Scratch[1] = 1 /\ Scratch[2] = 1 /\ Scratch[3] = 0 /\ Scratch[4] = 0 /\ ~IsUser(Scratch)
<1>1. \A i : Va(i)[1] = 0 /\ Va(i)[2] = 0 /\ Va(i)[3] = 0 /\ Va(i)[4] = i
  BY DEF Va
<1>2. Scratch[1] = 1 /\ Scratch[2] = 1 /\ Scratch[3] = 0 /\ Scratch[4] = 0
  BY DEF Scratch
<1>3. \A i : IsUser(Va(i))
  BY <1>1, Zenon DEF IsUser
<1>4. ~IsUser(Scratch)
  BY <1>2 DEF IsUser
<1>5. \A i, j : Va(i) = Va(j) => i = j
  BY <1>1
<1> QED BY <1>1, <1>2, <1>3, <1>4, <1>5, Zenon

(* Reading an entry of a table.                                            *)
LEMMA AtIs ==
  ASSUME NEW t \in [Tables -> [Index -> Entry]], NEW n \in Tables, NEW i
  PROVE  At(t, n, i) = t[n][i]
BY Zenon DEF At

(* walk_to_leaf on an address of userland ends in the page table of its    *)
(* address space.                                                          *)
LEMMA WalkUser ==
  ASSUME NEW t, NEW nx, NEW sp, Shape(t, nx, sp), NEW s \in sp, NEW i \in Index
  PROVE  /\ PageTable(t, s, Va(i)) = {Pt(t, s)}
         /\ Leaf(t, s, Va(i)) =
              {[table |-> Pt(t, s), page |-> Pte(t, s, i).addr, rw |-> Pte(t, s, i).rw] :
                 n \in {m \in {Pt(t, s)} : Pte(t, s, i).present}}
<1>1. t \in [Tables -> [Index -> Entry]] /\ Space(t, nx, s)
  BY Zenon DEF Shape
<1>2. s \in Tables /\ Pdpt(t, s) \in Tables /\ Pd(t, s) \in Tables /\ Pt(t, s) \in Tables
  BY ChainIn, Zenon
<1>3. /\ At(t, s, 0) = t[s][0] /\ At(t, Pdpt(t, s), 0) = t[Pdpt(t, s)][0]
      /\ At(t, Pd(t, s), 0) = t[Pd(t, s)][0] /\ At(t, Pt(t, s), i) = Pte(t, s, i)
  <2>1. \A n \in Tables : \A k : At(t, n, k) = t[n][k]
    BY <1>1, AtIs, Zenon
  <2> QED BY <1>2, <2>1, Zenon DEF Pte
<1>4. /\ t[s][0].present = TRUE /\ t[s][0].addr = Pdpt(t, s)
      /\ t[Pdpt(t, s)][0].present = TRUE /\ t[Pdpt(t, s)][0].addr = Pd(t, s)
      /\ t[Pd(t, s)][0].present = TRUE /\ t[Pd(t, s)][0].addr = Pt(t, s)
  BY <1>1, Zenon DEF Space, Points, Pdpt
<1>5. PageTable(t, s, Va(i)) = {Pt(t, s)}
  <2>1. Va(i)[1] = 0 /\ Va(i)[2] = 0 /\ Va(i)[3] = 0
    BY VaFacts, Zenon
  <2> QED BY <1>3, <1>4, <2>1 DEF PageTable
<1>6. Va(i)[4] = i
  BY VaFacts, Zenon
<1>7. Leaf(t, s, Va(i)) =
        {[table |-> n, page |-> At(t, n, i).addr, rw |-> At(t, n, i).rw] :
           n \in {m \in {Pt(t, s)} : At(t, m, i).present}}
  BY <1>5, <1>6, Zenon DEF Leaf
<1> QED BY <1>3, <1>5, <1>7, Zenon

(* walk_to_leaf on the scratch address ends in the page table of the       *)
(* kernel.                                                                 *)
LEMMA WalkScratch ==
  ASSUME NEW t, NEW nx, NEW sp, Shape(t, nx, sp), NEW s \in sp, Scratched(t)
  PROVE  /\ PageTable(t, s, Scratch) = {ScratchPt(t)} /\ ScratchPt(t) \in Tables
         /\ t[ScratchPt(t)][0].present = TRUE =>
              \E l : Leaf(t, s, Scratch) = {l} /\ l.table = ScratchPt(t)
<1>1. t \in [Tables -> [Index -> Entry]] /\ Space(t, nx, s) /\ KernelShape(t, nx)
      /\ nx \in Nat /\ nx <= MaxTables + 3
  BY Zenon DEF Shape
<1>2. ScratchPd(t) \in Tables /\ ScratchPt(t) \in Tables
  BY <1>1, MapperAssumption DEF KernelShape, ScratchPt, Tables, Slack
<1>3. s \in Tables /\ 1 \in Tables
  BY ChainIn, Sizes, Zenon
<1>4. /\ At(t, s, 1) = t[s][1] /\ At(t, 1, 1) = t[1][1]
      /\ At(t, ScratchPd(t), 0) = t[ScratchPd(t)][0] /\ At(t, ScratchPt(t), 0) = t[ScratchPt(t)][0]
  <2>1. \A n \in Tables : \A i : At(t, n, i) = t[n][i]
    BY <1>1, AtIs, Zenon
  <2> QED BY <1>2, <1>3, <2>1, Zenon
<1>5. /\ t[s][1].present = TRUE /\ t[s][1].addr = 1
      /\ t[1][1].present = TRUE /\ t[1][1].addr = ScratchPd(t)
      /\ t[ScratchPd(t)][0].present = TRUE /\ t[ScratchPd(t)][0].addr = ScratchPt(t)
  BY <1>1, Zenon DEF Space, Points, KernelShape, Scratched, ScratchPd
<1>6. PageTable(t, s, Scratch) = {ScratchPt(t)}
  <2>1. Scratch[1] = 1 /\ Scratch[2] = 1 /\ Scratch[3] = 0
    BY VaFacts, Zenon
  <2> QED BY <1>4, <1>5, <2>1 DEF PageTable
<1>7. Scratch[4] = 0
  BY VaFacts, Zenon
<1>8. Leaf(t, s, Scratch) =
        {[table |-> n, page |-> At(t, n, 0).addr, rw |-> At(t, n, 0).rw] :
           n \in {m \in {ScratchPt(t)} : At(t, m, 0).present}}
  BY <1>6, <1>7, Zenon DEF Leaf
<1>9. ASSUME t[ScratchPt(t)][0].present = TRUE
      PROVE  \E l : Leaf(t, s, Scratch) = {l} /\ l.table = ScratchPt(t)
  <2> DEFINE l == [table |-> ScratchPt(t), page |-> t[ScratchPt(t)][0].addr,
                   rw |-> t[ScratchPt(t)][0].rw]
  <2>1. Leaf(t, s, Scratch) = {l}
    BY <1>4, <1>8, <1>9, Zenon
  <2>2. l.table = ScratchPt(t)
    BY Zenon
  <2> QED BY <2>1, <2>2, Zenon
<1> QED BY <1>2, <1>6, <1>9, Zenon

-----------------------------------------------------------------------------
(* Mapping and unmapping.                                                  *)

R(t, nx, mp) == [tables |-> t, next |-> nx, mapped |-> mp]
Put(t, n, i, e) == [t EXCEPT ![n][i] = e]
Fresh(p) == [addr |-> p, present |-> TRUE, rw |-> TRUE]

(* One entry is written.                                                   *)
LEMMA PutIs ==
  ASSUME NEW t \in [Tables -> [Index -> Entry]], NEW n \in Tables, NEW i \in Index, NEW e \in Entry
  PROVE  /\ Put(t, n, i, e) \in [Tables -> [Index -> Entry]]
         /\ Put(t, n, i, e)[n][i] = e
         /\ \A j \in Index : j # i => Put(t, n, i, e)[n][j] = t[n][j]
         /\ \A m \in Tables : m # n => Put(t, n, i, e)[m] = t[m]
BY DEF Put

(* u is t with e at index i of table n.                                    *)
Wrote(t, u, n, i, e) ==
  /\ u \in [Tables -> [Index -> Entry]]
  /\ u[n][i] = e
  /\ \A j \in Index : j # i => u[n][j] = t[n][j]
  /\ \A m \in Tables : m # n => u[m] = t[m]

(* The same, as a relation between tables.                                 *)
LEMMA PutWrites ==
  ASSUME NEW t \in [Tables -> [Index -> Entry]], NEW n \in Tables, NEW i \in Index, NEW e \in Entry
  PROVE  Wrote(t, Put(t, n, i, e), n, i, e)
BY DEF Wrote, Put

(* walk_or_create_table where there is a table.                            *)
LEMMA WalkFinds ==
  ASSUME NEW st, NEW n, NEW i, st.tables[n][i].present = TRUE
  PROVE  WalkOrCreate(st, n, i) = st
BY Zenon DEF WalkOrCreate

(* The fields of the state that the operations take, and their updates.    *)
LEMMA RFacts ==
  ASSUME NEW t, NEW nx, NEW mp
  PROVE  /\ R(t, nx, mp).tables = t /\ R(t, nx, mp).next = nx /\ R(t, nx, mp).mapped = mp
         /\ \A n, i, e : [R(t, nx, mp) EXCEPT !.tables[n][i] = e] = R(Put(t, n, i, e), nx, mp)
         /\ \A u : [R(t, nx, mp) EXCEPT !.tables = u] = R(u, nx, mp)
         /\ \A p, m : [R(t, nx, mp) EXCEPT !.mapped[p] = m] = R(t, nx, [mp EXCEPT ![p] = m])
<1>1. R(t, nx, mp).tables = t /\ R(t, nx, mp).next = nx /\ R(t, nx, mp).mapped = mp
  BY DEF R
<1>2. ASSUME NEW n, NEW i, NEW e
      PROVE  [R(t, nx, mp) EXCEPT !.tables[n][i] = e] = R(Put(t, n, i, e), nx, mp)
  BY DEF R, Put
<1>3. ASSUME NEW u PROVE [R(t, nx, mp) EXCEPT !.tables = u] = R(u, nx, mp)
  BY DEF R
<1>4. ASSUME NEW p, NEW m
      PROVE  [R(t, nx, mp) EXCEPT !.mapped[p] = m] = R(t, nx, [mp EXCEPT ![p] = m])
  BY DEF R
<1> QED BY <1>1, <1>2, <1>3, <1>4, Zenon

(* new_table and the entry that points to it.                              *)
LEMMA TakeTableIs ==
  ASSUME NEW t, NEW nx, NEW mp, NEW n, NEW i, NEW e
  PROVE  TakeTable(R(t, nx, mp), n, i, e) = R(Put(t, n, i, e), nx + 1, mp)
<1>1. [R(t, nx, mp) EXCEPT !.tables[n][i] = e] = R(Put(t, n, i, e), nx, mp)
  BY RFacts
<1> DEFINE w == Put(t, n, i, e)
<1> HIDE DEF w
<1>2. [R(w, nx, mp) EXCEPT !.next = @ + 1] = R(w, nx + 1, mp)
  BY DEF R
<1>3. TakeTable(R(t, nx, mp), n, i, e) = [R(w, nx, mp) EXCEPT !.next = @ + 1]
  BY <1>1, Zenon DEF TakeTable, w
<1> QED BY <1>2, <1>3, Zenon DEF w

(* Where all tables are there, none is made.                               *)
LeadsTo(t, s, v, n1, n2, n3) ==
  Points(t[s][v[1]], n1) /\ Points(t[n1][v[2]], n2) /\ Points(t[n2][v[3]], n3)

(* The page table is found.                                                *)
LEMMA NoneMade ==
  ASSUME NEW st, NEW s, NEW v, NEW n1, NEW n2, NEW n3, LeadsTo(st.tables, s, v, n1, n2, n3)
  PROVE  MakeTables(st, s, v).state = st /\ MakeTables(st, s, v).pt = n3
<1>1. WalkOrCreate(st, s, v[1]) = st /\ WalkOrCreate(st, n1, v[2]) = st /\ WalkOrCreate(st, n2, v[3]) = st
  BY WalkFinds, Zenon DEF LeadsTo, Points
<1>2. MakeTables(st, s, v) = [state |-> st, pt |-> n3]
  BY <1>1, Zenon DEF MakeTables, LeadsTo, Points
<1> QED BY <1>2

(* map of a page that is not mapped, at an address of userland.            *)
Entered(t, nx, mp, s, p, i) ==
  R(Put(t, Pt(t, s), i, Fresh(p)), nx, [mp EXCEPT ![p] = [refs |-> 1, aliases |-> {<<s, Va(i)>>}]])

(* It enters the page and counts it once.                                  *)
LEMMA MapUser ==
  ASSUME NEW t, NEW nx, NEW sp, Shape(t, nx, sp), NEW s \in sp, NEW i \in Index,
         NEW mp, NEW p \in Pages, mp[p].refs = 0, mp[p].aliases = {}
  PROVE  Map(R(t, nx, mp), s, p, Va(i)) = Entered(t, nx, mp, s, p, i)
<1> DEFINE st == R(t, nx, mp)
           put == Put(t, Pt(t, s), i, Fresh(p))
           m4 == [refs |-> 1, aliases |-> {<<s, Va(i)>>}]
<1>1. Space(t, nx, s)
  BY Zenon DEF Shape
<1>2. /\ t[s][0].present = TRUE /\ t[s][0].addr = Pdpt(t, s)
      /\ t[Pdpt(t, s)][0].present = TRUE /\ t[Pdpt(t, s)][0].addr = Pd(t, s)
      /\ t[Pd(t, s)][0].present = TRUE /\ t[Pd(t, s)][0].addr = Pt(t, s)
  BY <1>1, Zenon DEF Space, Points, Pdpt
<1>3. st.tables = t /\ st.mapped = mp
  BY RFacts
<1>4. Va(i)[1] = 0 /\ Va(i)[2] = 0 /\ Va(i)[3] = 0 /\ Va(i)[4] = i /\ IsUser(Va(i))
  BY VaFacts, Zenon
<1>5. [st EXCEPT !.tables[Pt(t, s)][i] = Fresh(p)] = R(put, nx, mp)
  BY RFacts
<1>6. [R(put, nx, mp) EXCEPT !.mapped[p] = m4] = R(put, nx, [mp EXCEPT ![p] = m4])
  <2> HIDE DEF put, m4
  <2> QED BY RFacts
<1>7. [refs |-> st.mapped[p].refs + 1, aliases |-> st.mapped[p].aliases \cup {<<s, Va(i)>>}] = m4
  <2> HIDE DEF st
  <2>1. st.mapped[p].refs + 1 = 1
    BY <1>3
  <2>2. st.mapped[p].aliases \cup {<<s, Va(i)>>} = {<<s, Va(i)>>}
    BY <1>3, Zenon
  <2> QED BY <2>1, <2>2, Zenon
<1>8. m4.refs = 1
  BY Zenon
<1> HIDE DEF st, put, m4
<1>9. MakeTables(st, s, Va(i)).state = st /\ MakeTables(st, s, Va(i)).pt = Pt(t, s)
  <2> DEFINE v == Va(i)
  <2> HIDE DEF v
  <2>0. v[1] = 0 /\ v[2] = 0 /\ v[3] = 0
    BY <1>4, Zenon DEF v
  <2>1. LeadsTo(st.tables, s, v, Pdpt(t, s), Pd(t, s), Pt(t, s))
    BY <1>2, <1>3, <2>0 DEF LeadsTo, Points
  <2>2. MakeTables(st, s, v).state = st /\ MakeTables(st, s, v).pt = Pt(t, s)
    BY <2>1, NoneMade
  <2> QED BY <2>2, Zenon DEF v
<1>10. Map(st, s, p, Va(i)) = Enter(st, Pt(t, s), s, p, Va(i))
  BY <1>9, Zenon DEF Map
<1>11. Enter(st, Pt(t, s), s, p, Va(i)) = R(put, nx, [mp EXCEPT ![p] = m4])
  BY <1>4, <1>5, <1>6, <1>7, <1>8, Zenon DEF Enter, Fresh
<1> QED BY <1>10, <1>11, Zenon DEF st, put, m4, Entered

(* Bit 12 of table addresses.                                              *)
LEMMA Parity ==
  /\ \A a, b \in Nat : (a + b) % 2 = 1 => (a + (b + 2)) % 2 = 1
  /\ \A a, b \in Nat : (a + b) % 2 = 1 => (a + (b + 4)) % 2 = 1
  /\ \A a, b \in Nat : (a + b) % 2 = 1 => ~((a + 1) % 2 = 1 /\ (b + 2) % 2 = 0)
  /\ \A a, b \in Nat : (a + b) % 2 = 1 => ~((a + 2) % 2 = 1 /\ (b + 3) % 2 = 0)
  /\ \A b \in Nat : ((b + 1) + (b + 4)) % 2 = 1
OBVIOUS

(* The page tables of userland are the same in u.                          *)
SameRows(t, u, sp) == \A s \in sp : Pt(u, s) = Pt(t, s) /\ u[Pt(t, s)] = t[Pt(t, s)]

(* The tables for the scratch page, when they are made.                    *)
WithScratch(t, nx) == Put(Put(t, 1, 1, Fresh(nx)), nx, 0, Fresh(nx + 1))

(* They keep the shape and are seen by nobody.                             *)
LEMMA ScratchMade ==
  ASSUME NEW t, NEW nx, NEW sp, Shape(t, nx, sp), ~Scratched(t), nx + 2 <= MaxTables
  PROVE  /\ Shape(WithScratch(t, nx), nx + 2, sp) /\ SameRows(t, WithScratch(t, nx), sp)
         /\ Scratched(WithScratch(t, nx)) /\ ScratchPd(WithScratch(t, nx)) = nx
         /\ ScratchPt(WithScratch(t, nx)) = nx + 1
<1> DEFINE w == Put(t, 1, 1, Fresh(nx))
           u == WithScratch(t, nx)
<1>1. /\ nx \in Nat /\ nx > 1 /\ nx <= MaxTables + 3 /\ t \in [Tables -> [Index -> Entry]]
      /\ \A n \in Tables : n >= nx => t[n] = [i \in Index |-> Null]
  BY Zenon DEF Shape
<1>2. /\ nx \in Tables /\ nx + 1 \in Tables /\ nx # 1 /\ nx + 2 \in Nat
      /\ nx + 2 > 1 /\ nx + 2 <= MaxTables + 3 /\ nx >= nx
  BY <1>1, MapperAssumption DEF Tables, Slack
<1>3. Fresh(nx) \in Entry /\ Fresh(nx + 1) \in Entry
  BY <1>1 DEF Fresh, Entry
<1>4. /\ w \in [Tables -> [Index -> Entry]] /\ w[1][1] = Fresh(nx)
      /\ \A m \in Tables : m # 1 => w[m] = t[m]
  <2>1. 1 \in Tables /\ 1 \in Index
    BY Sizes, Zenon
  <2> QED BY <1>1, <1>3, <2>1, PutIs
<1> HIDE DEF w
<1>5. /\ u \in [Tables -> [Index -> Entry]] /\ u[nx][0] = Fresh(nx + 1)
      /\ \A m \in Tables : m # nx => u[m] = w[m]
  <2>1. u = Put(w, nx, 0, Fresh(nx + 1))
    BY Zenon DEF w, WithScratch
  <2> HIDE DEF u
  <2>2. 0 \in Index
    BY Sizes, Zenon
  <2> DEFINE e == Fresh(nx + 1)
  <2>3. e \in Entry
    BY <1>3, Zenon
  <2> HIDE DEF e
  <2>4. /\ Put(w, nx, 0, e) \in [Tables -> [Index -> Entry]] /\ Put(w, nx, 0, e)[nx][0] = e
        /\ \A m \in Tables : m # nx => Put(w, nx, 0, e)[m] = w[m]
    BY <1>2, <1>4, <2>2, <2>3, PutIs
  <2> QED BY <2>1, <2>4, Zenon DEF e
<1> HIDE DEF u
<1>6. u[1][1] = Fresh(nx)
  BY <1>2, <1>4, <1>5, Sizes, Zenon
<1>7. \A m \in Tables : m # 1 /\ m # nx => u[m] = t[m]
  BY <1>4, <1>5, Zenon
<1>8. ASSUME NEW s \in sp
      PROVE  /\ u[s] = t[s] /\ u[Pdpt(t, s)] = t[Pdpt(t, s)]
             /\ u[Pd(t, s)] = t[Pd(t, s)] /\ u[Pt(t, s)] = t[Pt(t, s)]
  <2>1. /\ s \in Tables /\ Pdpt(t, s) \in Tables /\ Pd(t, s) \in Tables /\ Pt(t, s) \in Tables
        /\ s < nx /\ Pdpt(t, s) < nx /\ Pd(t, s) < nx /\ Pt(t, s) < nx
    BY ChainIn, Zenon
  <2>2. s # nx /\ Pdpt(t, s) # nx /\ Pd(t, s) # nx /\ Pt(t, s) # nx
    BY <1>1, <2>1, Sizes
  <2>3. s # 1 /\ Pdpt(t, s) # 1 /\ Pd(t, s) # 1 /\ Pt(t, s) # 1
    BY PtAlone, Zenon
  <2> QED BY <1>7, <2>1, <2>2, <2>3, Zenon
<1>9. \A s \in sp : Pdpt(u, s) = Pdpt(t, s)
  BY <1>8, Zenon DEF Pdpt
<1>10. \A s \in sp : Pd(u, s) = Pd(t, s) /\ Pt(u, s) = Pt(t, s) /\ Chain(u, s) = Chain(t, s)
  BY <1>9, Zenon DEF Pd, Pt, Chain
<1>11. ASSUME NEW s \in sp PROVE Space(u, nx + 2, s)
  <2>1. Space(t, nx, s)
    BY Zenon DEF Shape
  <2>2. /\ u[s] = t[s] /\ u[Pdpt(t, s)] = t[Pdpt(t, s)] /\ u[Pd(t, s)] = t[Pd(t, s)]
        /\ Pdpt(u, s) = Pdpt(t, s) /\ Pd(u, s) = Pd(t, s) /\ Pt(u, s) = Pt(t, s)
    BY <1>8, <1>9, <1>10, Zenon
  <2>3. Pdpt(t, s) \in Nat /\ (Pdpt(t, s) + nx) % 2 = 1 /\ Pt(t, s) < nx
    BY <2>1, Zenon DEF Space
  <2>4. (Pdpt(t, s) + (nx + 2)) % 2 = 1
    BY <1>1, <2>3, Parity, Zenon
  <2>5. Pt(t, s) < nx + 2
    BY <1>1, <2>3 DEF Pt
  <2> QED BY <2>1, <2>2, <2>4, <2>5, Zenon DEF Space
<1>12. Scratched(u) /\ ScratchPd(u) = nx /\ ScratchPt(u) = nx + 1
  BY <1>6 DEF Scratched, ScratchPd, ScratchPt, Fresh
<1>13. KernelShape(u, nx + 2)
  <2>1. Points(u[nx][0], nx + 1)
    BY <1>5 DEF Points, Fresh
  <2> QED BY <1>1, <1>12, <2>1 DEF KernelShape
<1>14. Apart(u, sp)
  <2>1. ASSUME NEW s \in sp PROVE Chain(t, s) \cap Kernel(u) = {}
    <3>1. /\ s \in Tables /\ Pdpt(t, s) \in Tables /\ Pd(t, s) \in Tables /\ Pt(t, s) \in Tables
          /\ s < nx /\ Pdpt(t, s) < nx /\ Pd(t, s) < nx /\ Pt(t, s) < nx
      BY ChainIn, Zenon
    <3>2. Chain(t, s) \subseteq Nat /\ \A n \in Chain(t, s) : n < nx
      BY <3>1, Sizes, Zenon DEF Chain
    <3>3. 1 \notin Chain(t, s)
      BY Zenon DEF Shape, Apart, Kernel
    <3>4. \A n \in Kernel(u) : n = 1 \/ n = nx \/ n = nx + 1
      BY <1>12, Zenon DEF Kernel
    <3> QED BY <1>1, <3>2, <3>3, <3>4
  <2> QED BY <1>10, <2>1, Zenon DEF Shape, Apart
<1>15. ASSUME NEW n \in Tables, n >= nx + 2 PROVE u[n] = [i \in Index |-> Null]
  <2>1. n >= nx /\ n # nx /\ n # 1
    BY <1>1, <1>15, Sizes
  <2> QED BY <1>1, <1>7, <2>1, Zenon
<1>16. Shape(u, nx + 2, sp)
  BY <1>2, <1>5, <1>11, <1>13, <1>14, <1>15, Zenon DEF Shape
<1>17. SameRows(t, u, sp)
  BY <1>8, <1>10, Zenon DEF SameRows
<1> QED BY <1>12, <1>16, <1>17, Zenon DEF u

(* u is t but for the scratch page.                                        *)
ButScratch(t, u, nx, sp) == Shape(u, nx, sp) /\ SameRows(t, u, sp) /\ Scratched(u)

(* Entries of the scratch page leave the rest.                             *)
LEMMA PutScratch ==
  ASSUME NEW t, NEW nx, NEW sp, Shape(t, nx, sp), Scratched(t), NEW s \in sp, NEW e \in Entry
  PROVE  /\ ButScratch(t, Put(t, ScratchPt(t), 0, e), nx, sp)
         /\ ScratchPt(Put(t, ScratchPt(t), 0, e)) = ScratchPt(t)
         /\ Put(t, ScratchPt(t), 0, e)[ScratchPt(t)][0] = e
<1> DEFINE n == ScratchPt(t)
           u == Put(t, n, 0, e)
<1>1. t \in [Tables -> [Index -> Entry]] /\ n \in Tables /\ 0 \in Index
  BY WalkScratch, Sizes, Zenon DEF Shape
<1> HIDE DEF n
<1>2. /\ u \in [Tables -> [Index -> Entry]] /\ u[n][0] = e
      /\ \A m \in Tables : m # n => u[m] = t[m]
  BY <1>1, PutIs
<1> HIDE DEF u
<1>3. /\ Shape(u, nx, sp)
      /\ \A r \in sp : Pt(u, r) = Pt(t, r) /\ u[Pt(t, r)] = t[Pt(t, r)]
      /\ Scratched(u) = Scratched(t) /\ ScratchPt(u) = ScratchPt(t)
  <2>1. \A m \in Tables : m # ScratchPt(t) => u[m] = t[m]
    BY <1>2, Zenon DEF n
  <2> QED BY <1>2, <2>1, ScratchWrites, Zenon
<1>4. ButScratch(t, u, nx, sp)
  BY <1>3, Zenon DEF ButScratch, SameRows
<1> QED BY <1>2, <1>3, <1>4, Zenon DEF u, n

(* map at the scratch address.                                             *)
LEMMA EnterScratch ==
  ASSUME NEW t, NEW nx, NEW mp, NEW n, NEW s, NEW p
  PROVE  Enter(R(t, nx, mp), n, s, p, Scratch) = R(Put(t, n, 0, Fresh(p)), nx, mp)
<1> DEFINE st == R(t, nx, mp)
<1>1. [st EXCEPT !.tables[n][0] = Fresh(p)] = R(Put(t, n, 0, Fresh(p)), nx, mp)
  BY RFacts
<1>2. ~IsUser(Scratch) /\ Scratch[4] = 0
  BY VaFacts, Zenon
<1> HIDE DEF st
<1>3. Enter(st, n, s, p, Scratch) = [st EXCEPT !.tables[n][0] = Fresh(p)]
  BY <1>2, Zenon DEF Enter, Fresh
<1> QED BY <1>1, <1>3, Zenon DEF st

(* The tables that map makes, or finds, for the scratch address.           *)
LEMMA ScratchTables ==
  ASSUME NEW t, NEW nx, NEW sp, Shape(t, nx, sp), NEW s \in sp, NEW mp, nx + 2 <= MaxTables
  PROVE  \E u, nu : /\ MakeTables(R(t, nx, mp), s, Scratch).state = R(u, nu, mp)
                    /\ MakeTables(R(t, nx, mp), s, Scratch).pt = ScratchPt(u)
                    /\ ButScratch(t, u, nu, sp)
<1> DEFINE st == R(t, nx, mp)
<1>1. st.tables = t /\ st.next = nx /\ st.mapped = mp
  BY RFacts
<1>2. Scratch[1] = 1 /\ Scratch[2] = 1 /\ Scratch[3] = 0
  BY VaFacts, Zenon
<1>3. Points(t[s][1], 1) /\ KernelShape(t, nx) /\ nx \in Nat /\ nx > 1
  BY Zenon DEF Shape, Space
<1> HIDE DEF st
<1>4. CASE Scratched(t)
  <2>1. LeadsTo(st.tables, s, Scratch, 1, ScratchPd(t), ScratchPt(t))
    BY <1>1, <1>2, <1>3, <1>4 DEF LeadsTo, Points, KernelShape, Scratched, ScratchPd
  <2>2. MakeTables(st, s, Scratch).state = st /\ MakeTables(st, s, Scratch).pt = ScratchPt(t)
    BY <2>1, NoneMade
  <2>3. ButScratch(t, t, nx, sp)
    BY <1>4, Zenon DEF ButScratch, SameRows
  <2> QED BY <2>2, <2>3, Zenon DEF st
<1>5. CASE ~Scratched(t)
  <2> DEFINE w == Put(t, 1, 1, Fresh(nx))
             u == WithScratch(t, nx)
  <2>1. WalkOrCreate(st, s, 1) = st
    BY <1>1, <1>3, WalkFinds, Zenon DEF Points
  <2>2. WalkOrCreate(st, 1, 1) = R(w, nx + 1, mp)
    <3>1. ~t[1][1].present
      <4>1. t[1][1] \in Entry
        BY Sizes, Zenon DEF Shape
      <4> QED BY <1>5, <4>1 DEF Scratched, Entry
    <3> QED BY <1>1, <3>1, ZenonT(30) DEF WalkOrCreate, TakeTable, st, R, Put, Fresh
  <2>3. R(w, nx + 1, mp).tables = w /\ w[1][1].addr = nx
    <3>1. t \in [Tables -> [Index -> Entry]] /\ 1 \in Tables /\ 1 \in Index
      BY Sizes, Zenon DEF Shape
    <3>2. w[1][1] = Fresh(nx)
      BY <3>1 DEF Put
    <3> QED BY <3>2, RFacts DEF Fresh
  <2>4. WalkOrCreate(R(w, nx + 1, mp), nx, 0) = R(u, nx + 2, mp)
    <3>1. ~w[nx][0].present
      <4>1. t \in [Tables -> [Index -> Entry]] /\ nx \in Tables /\ 0 \in Index /\ nx >= nx
        BY <1>3, MapperAssumption, Sizes DEF Shape, Tables, Slack
      <4>2. t[nx] = [i \in Index |-> Null]
        BY <4>1, Zenon DEF Shape
      <4>3. w[nx] = t[nx]
        BY <1>3, <4>1 DEF Put
      <4> QED BY <4>1, <4>2, <4>3 DEF Null
    <3>2. u = Put(w, nx, 0, Fresh(nx + 1))
      BY Zenon DEF WithScratch
    <3> HIDE DEF w, u
    <3>3. R(w, nx + 1, mp).tables = w /\ R(w, nx + 1, mp).next = nx + 1
      BY RFacts
    <3>4. nx + 1 + 1 = nx + 2
      BY <1>3
    <3> QED BY <3>1, <3>2, <3>3, <3>4, ZenonT(30) DEF WalkOrCreate, TakeTable, R, Put, Fresh
  <2>5. /\ Shape(u, nx + 2, sp) /\ SameRows(t, u, sp)
        /\ Scratched(u) /\ ScratchPd(u) = nx /\ ScratchPt(u) = nx + 1
    BY <1>5, ScratchMade, Zenon
  <2>6. R(u, nx + 2, mp).tables = u
    BY RFacts
  <2>7. u[nx][0].addr = nx + 1
    <3> HIDE DEF u
    <3> QED BY <2>5, ZenonT(60) DEF Shape, KernelShape, Points
  <2> HIDE DEF w, u
  <2>8. MakeTables(st, s, Scratch) = [state |-> R(u, nx + 2, mp), pt |-> nx + 1]
    <3>1. t[s][1].addr = 1
      BY <1>3, Zenon DEF Points
    <3> QED BY <1>1, <1>2, <2>1, <2>2, <2>3, <2>4, <2>6, <2>7, <3>1, ZenonT(30) DEF MakeTables
  <2>9. MakeTables(st, s, Scratch).state = R(u, nx + 2, mp) /\ MakeTables(st, s, Scratch).pt = nx + 1
    BY <2>8
  <2> QED BY <2>5, <2>9, Zenon DEF st, ButScratch
<1> QED BY <1>4, <1>5, Zenon

MapsScratch(st, t, u, nu, mp, sp) ==
  st = R(u, nu, mp) /\ ButScratch(t, u, nu, sp) /\ u[ScratchPt(u)][0].present = TRUE

(* map at the scratch address is seen by nobody.                           *)
LEMMA MapScratch ==
  ASSUME NEW t, NEW nx, NEW sp, Shape(t, nx, sp), NEW s \in sp, NEW mp, NEW p \in Pages,
         nx + 2 <= MaxTables
  PROVE  \E u, nu : MapsScratch(Map(R(t, nx, mp), s, p, Scratch), t, u, nu, mp, sp)
<1>1. PICK w, nu : /\ MakeTables(R(t, nx, mp), s, Scratch).state = R(w, nu, mp)
                   /\ MakeTables(R(t, nx, mp), s, Scratch).pt = ScratchPt(w)
                   /\ ButScratch(t, w, nu, sp)
  BY ScratchTables
<1> DEFINE u == Put(w, ScratchPt(w), 0, Fresh(p))
<1>2. Map(R(t, nx, mp), s, p, Scratch) = R(u, nu, mp)
  <2>1. Map(R(t, nx, mp), s, p, Scratch) = Enter(R(w, nu, mp), ScratchPt(w), s, p, Scratch)
    BY <1>1, Zenon DEF Map
  <2> QED BY <2>1, EnterScratch
<1>3. Fresh(p) \in Entry
  <2>1. p \in Nat
    BY Sizes, Zenon
  <2> QED BY <2>1 DEF Fresh, Entry
<1>4. /\ ButScratch(w, u, nu, sp) /\ ScratchPt(u) = ScratchPt(w)
      /\ u[ScratchPt(w)][0] = Fresh(p)
  BY <1>1, <1>3, PutScratch, Zenon DEF ButScratch
<1> HIDE DEF u
<1>5. ButScratch(t, u, nu, sp)
  BY <1>1, <1>4, Zenon DEF ButScratch, SameRows
<1>6. u[ScratchPt(u)][0].present = TRUE
  BY <1>4 DEF Fresh
<1> QED BY <1>2, <1>5, <1>6, Zenon DEF MapsScratch

(* The one leaf that unmap finds.                                          *)
LEMMA ChooseOnly == ASSUME NEW l PROVE (CHOOSE x \in {l} : TRUE) = l
OBVIOUS

(* unmap of the scratch address neither.                                   *)
LEMMA UnmapScratch ==
  ASSUME NEW t, NEW nx, NEW sp, Shape(t, nx, sp), NEW s \in sp, NEW mp,
         Scratched(t), t[ScratchPt(t)][0].present = TRUE
  PROVE  \E u : Unmap(R(t, nx, mp), s, Scratch) = R(u, nx, mp) /\ ButScratch(t, u, nx, sp)
<1> DEFINE st == R(t, nx, mp)
           u == Put(t, ScratchPt(t), 0, Null)
<1>1. PICK l : Leaf(t, s, Scratch) = {l} /\ l.table = ScratchPt(t)
  BY WalkScratch, Zenon
<1>2. st.tables = t
  BY RFacts
<1>3. (CHOOSE x \in Leaf(st.tables, s, Scratch) : TRUE) = l
  <2>1. Leaf(st.tables, s, Scratch) = {l}
    BY <1>1, <1>2, Zenon
  <2> QED BY <2>1
<1>4. [st EXCEPT !.tables[ScratchPt(t)][0] = Null] = R(u, nx, mp)
  BY RFacts
<1>5. Scratch[4] = 0 /\ ~IsUser(Scratch)
  BY VaFacts, Zenon
<1> HIDE DEF st
<1>6. Unmap(st, s, Scratch) = [st EXCEPT !.tables[ScratchPt(t)][0] = Null]
  BY <1>1, <1>3, <1>5, Zenon DEF Unmap
<1>7. Null \in Entry
  BY DEF Null, Entry
<1>8. ButScratch(t, u, nx, sp)
  BY <1>7, PutScratch, Zenon
<1> QED BY <1>4, <1>6, <1>8, Zenon DEF st

(* u is t with entry i writable, or not, in S.                             *)
Flagged(t, u, sp, S, i, on) ==
  /\ u \in [Tables -> [Index -> Entry]]
  /\ \A n \in Tables : (\A s \in sp : n # Pt(t, s)) => u[n] = t[n]
  /\ \A r \in sp : r \notin S => u[Pt(t, r)] = t[Pt(t, r)]
  /\ \A r \in S : u[Pt(t, r)] = [t[Pt(t, r)] EXCEPT ![i].rw = on]

(* set_flags(RW_FLAG, on) in some address spaces.                          *)
LEMMA SetRwIs ==
  ASSUME NEW t, NEW nx, NEW sp, Shape(t, nx, sp), NEW S \in SUBSET sp, NEW i \in Index,
         NEW on \in BOOLEAN
  PROVE  Flagged(t, SetRw(t, S, Va(i), on), sp, S, i, on)
<1> DEFINE u == SetRw(t, S, Va(i), on)
           L == {n \in UNION {PageTable(t, r, Va(i)) : r \in S} : n \in DOMAIN t}
<1>1. t \in [Tables -> [Index -> Entry]] /\ DOMAIN t = Tables
  BY Zenon DEF Shape
<1>2. Va(i)[4] = i
  BY VaFacts, Zenon
<1>3. u = [n \in Tables |-> IF n \in L THEN [t[n] EXCEPT ![i].rw = on] ELSE t[n]]
  BY <1>1, <1>2, Zenon DEF SetRw
<1>4. \A r \in S : PageTable(t, r, Va(i)) = {Pt(t, r)} /\ Pt(t, r) \in Tables
  BY WalkUser, ChainIn, Zenon
<1>5. \A n : n \in L <=> \E r \in S : n = Pt(t, r)
  BY <1>1, <1>4, Zenon
<1>6. \A n \in Tables : [t[n] EXCEPT ![i].rw = on] \in [Index -> Entry]
  <2> SUFFICES ASSUME NEW n \in Tables PROVE [t[n] EXCEPT ![i].rw = on] \in [Index -> Entry]
    BY Zenon
  <2>1. t[n] \in [Index -> Entry]
    BY <1>1, Zenon
  <2>2. t[n][i] \in Entry
    BY <2>1, Zenon
  <2>3. [t[n][i] EXCEPT !.rw = on] \in Entry
    BY <2>2 DEF Entry
  <2> DEFINE e == [t[n][i] EXCEPT !.rw = on]
  <2>4. [t[n] EXCEPT ![i].rw = on] = [t[n] EXCEPT ![i] = e]
    OBVIOUS
  <2> HIDE DEF e
  <2>5. [t[n] EXCEPT ![i] = e] \in [Index -> Entry]
    BY <2>1, <2>3, Zenon DEF e
  <2> QED BY <2>4, <2>5, Zenon
<1> HIDE DEF L, u
<1>7. u \in [Tables -> [Index -> Entry]]
  <2>1. \A n \in Tables : t[n] \in [Index -> Entry]
    BY <1>1, Zenon
  <2> QED BY <1>3, <1>6, <2>1
<1>8. \A n \in Tables : (\A s \in sp : n # Pt(t, s)) => u[n] = t[n]
  BY <1>3, <1>5, Zenon
<1>9. \A r \in sp : Pt(t, r) \in Tables /\ \A q \in sp : r # q => Pt(t, r) # Pt(t, q)
  BY ChainIn, PtAlone, Zenon
<1>10. \A r \in sp : r \notin S => u[Pt(t, r)] = t[Pt(t, r)]
  <2>1. \A r \in sp : r \notin S => Pt(t, r) \notin L
    BY <1>5, <1>9, Zenon
  <2> QED BY <1>3, <1>9, <2>1, Zenon
<1>11. \A r \in S : u[Pt(t, r)] = [t[Pt(t, r)] EXCEPT ![i].rw = on]
  <2>1. \A r \in S : Pt(t, r) \in L /\ Pt(t, r) \in Tables
    BY <1>5, <1>9, Zenon
  <2> QED BY <1>3, <2>1, Zenon
<1> QED BY <1>7, <1>8, <1>10, <1>11, Zenon DEF u, Flagged

(* u is t without entry i of s, and with entry i writable in S.            *)
Without(t, u, nx, sp, s, i, S) ==
  /\ Shape(u, nx, sp)
  /\ Scratched(u) = Scratched(t) /\ ScratchPt(u) = ScratchPt(t)
  /\ Scratched(t) => u[ScratchPt(t)] = t[ScratchPt(t)]
  /\ Pte(u, s, i) = Null
  /\ \A r \in sp, j \in Index : ~(r = s /\ j = i) =>
       Pte(u, r, j) = IF r \in S /\ j = i THEN [Pte(t, r, j) EXCEPT !.rw = TRUE] ELSE Pte(t, r, j)

Others(mp, p, a) == mp[p].aliases \ {a}
LessOne(mp, p, a) == [refs |-> mp[p].refs - 1, aliases |-> Others(mp, p, a)]
Freed(mp, p, a) == {b[1] : b \in {c \in Others(mp, p, a) : mp[p].refs = 2}}

(* Clearing an entry.                                                      *)
LEMMA PutNull ==
  ASSUME NEW t, NEW nx, NEW sp, Shape(t, nx, sp), NEW s \in sp, NEW i \in Index
  PROVE  /\ Without(t, Put(t, Pt(t, s), i, Null), nx, sp, s, i, {})
         /\ \A r \in sp : Pt(Put(t, Pt(t, s), i, Null), r) = Pt(t, r)
<1> DEFINE n == Pt(t, s)
           u == Put(t, n, i, Null)
<1>1. t \in [Tables -> [Index -> Entry]] /\ n \in Tables
  BY ChainIn, Zenon DEF Shape
<1>2. Null \in Entry
  BY DEF Null, Entry
<1> HIDE DEF n
<1>3. /\ u \in [Tables -> [Index -> Entry]] /\ u[n][i] = Null
      /\ \A j \in Index : j # i => u[n][j] = t[n][j]
      /\ \A m \in Tables : m # n => u[m] = t[m]
  BY <1>1, <1>2, PutIs
<1> HIDE DEF u
<1>4. /\ Shape(u, nx, sp) /\ \A r \in sp : Pt(u, r) = Pt(t, r)
      /\ Scratched(u) = Scratched(t) /\ ScratchPt(u) = ScratchPt(t)
      /\ Scratched(t) => u[ScratchPt(t)] = t[ScratchPt(t)]
  <2>1. \A m \in Tables : (\A r \in sp : m # Pt(t, r)) => u[m] = t[m]
    BY <1>3, Zenon DEF n
  <2> QED BY <1>3, <2>1, PtWrites
<1>5. Pte(u, s, i) = Null
  BY <1>3, <1>4, Zenon DEF Pte, n
<1>6. ASSUME NEW r \in sp, NEW j \in Index, ~(r = s /\ j = i) PROVE Pte(u, r, j) = Pte(t, r, j)
  <2>1. CASE r = s
    BY <1>3, <1>4, <1>6, <2>1, Zenon DEF Pte, n
  <2>2. CASE r # s
    <3>1. Pt(t, r) # n /\ Pt(t, r) \in Tables
      BY <2>2, PtAlone, ChainIn, Zenon DEF n
    <3> QED BY <1>3, <1>4, <3>1, Zenon DEF Pte
  <2> QED BY <2>1, <2>2, Zenon
<1>7. Without(t, u, nx, sp, s, i, {})
  BY <1>4, <1>5, <1>6, Zenon DEF Without
<1> QED BY <1>4, <1>7, Zenon DEF u, n

(* unmap of a page of userland that is shared.                             *)
LEMMA UnmapUser ==
  ASSUME NEW t, NEW nx, NEW sp, Shape(t, nx, sp), NEW s \in sp, NEW i \in Index, NEW mp,
         Pte(t, s, i).present = TRUE, NEW p, p = Pte(t, s, i).addr,
         mp[p].refs \in Nat, mp[p].refs > 1,
         \A a \in Others(mp, p, <<s, Va(i)>>) : a[1] \in sp /\ a[1] # s
  PROVE  \E u : /\ Unmap(R(t, nx, mp), s, Va(i)) =
                     R(u, nx, [mp EXCEPT ![p] = LessOne(mp, p, <<s, Va(i)>>)])
                /\ Without(t, u, nx, sp, s, i, Freed(mp, p, <<s, Va(i)>>))
<1> DEFINE st == R(t, nx, mp)
           a == <<s, Va(i)>>
           w == Put(t, Pt(t, s), i, Null)
           m2 == [mp EXCEPT ![p] = LessOne(mp, p, a)]
           l == [table |-> Pt(t, s), page |-> Pte(t, s, i).addr, rw |-> Pte(t, s, i).rw]
<1>1. st.tables = t /\ st.mapped = mp
  BY RFacts
<1>2. Leaf(t, s, Va(i)) = {l}
  <2>1. Leaf(t, s, Va(i)) = {l : n \in {m \in {Pt(t, s)} : Pte(t, s, i).present}}
    BY WalkUser, Zenon
  <2> QED BY <2>1, Zenon
<1>3. l.table = Pt(t, s) /\ l.page = p
  BY Zenon
<1> HIDE DEF l
<1>4. (CHOOSE x \in Leaf(st.tables, s, Va(i)) : TRUE) = l
  <2>1. Leaf(st.tables, s, Va(i)) = {l}
    BY <1>1, <1>2, Zenon
  <2> QED BY <2>1
<1>5. [st EXCEPT !.tables[Pt(t, s)][i] = Null] = R(w, nx, mp)
  BY RFacts
<1>8. Without(t, w, nx, sp, s, i, {}) /\ \A r \in sp : Pt(w, r) = Pt(t, r)
  BY PutNull
<1> HIDE DEF w
<1>6. [R(w, nx, mp) EXCEPT !.mapped[p] = LessOne(mp, p, a)] = R(w, nx, m2)
  <2> DEFINE m == LessOne(mp, p, a)
  <2> HIDE DEF m
  <2>1. [R(w, nx, mp) EXCEPT !.mapped[p] = m] = R(w, nx, [mp EXCEPT ![p] = m])
    BY DEF R
  <2> QED BY <2>1, Zenon DEF m
<1>7. Va(i)[4] = i /\ IsUser(Va(i)) /\ ~(mp[p].refs <= 1)
  BY VaFacts
<1> HIDE DEF st, m2
<1>9. CASE mp[p].refs = 2
  <2> DEFINE S == {b[1] : b \in Others(mp, p, a)}
             u == SetRw(w, S, Va(i), TRUE)
  <2>1. S \in SUBSET sp /\ s \notin S
    BY Zenon
  <2>2. Freed(mp, p, a) = S
    BY <1>9, Zenon DEF Freed
  <2>3. R(w, nx, m2).tables = w /\ [R(w, nx, m2) EXCEPT !.tables = u] = R(u, nx, m2)
    <3> HIDE DEF u
    <3> QED BY DEF R
  <2>4. {b[1] : b \in LessOne(mp, p, a).aliases} = S
    BY DEF LessOne
  <2> HIDE DEF S
  <2>5. Unmap(st, s, Va(i)) = R(u, nx, m2)
    <3> DEFINE s2 == R(w, nx, m2)
    <3> HIDE DEF s2
    <3>1. [R(w, nx, mp) EXCEPT !.mapped[p] = LessOne(mp, p, a)] = s2
      BY <1>6, Zenon DEF s2
    <3>2. Unmap(st, s, Va(i)) =
            [s2 EXCEPT !.tables = SetRw(@, {b[1] : b \in LessOne(mp, p, a).aliases}, Va(i), TRUE)]
      BY <1>1, <1>3, <1>4, <1>5, <1>7, <1>9, <3>1, Zenon DEF Unmap, LessOne, Others
    <3>3. SetRw(s2.tables, {b[1] : b \in LessOne(mp, p, a).aliases}, Va(i), TRUE) = u
      BY <2>3, <2>4, Zenon DEF s2
    <3> HIDE DEF u
    <3> QED BY <2>3, <3>2, <3>3, Zenon DEF s2
  <2>6. Shape(w, nx, sp)
    BY <1>8, Zenon DEF Without
  <2>7. /\ u \in [Tables -> [Index -> Entry]]
        /\ \A n \in Tables : (\A r \in sp : n # Pt(w, r)) => u[n] = w[n]
        /\ \A r \in sp : r \notin S => u[Pt(w, r)] = w[Pt(w, r)]
        /\ \A r \in S : u[Pt(w, r)] = [w[Pt(w, r)] EXCEPT ![i].rw = TRUE]
    <3>1. Flagged(w, u, sp, S, i, TRUE)
      BY <2>1, <2>6, SetRwIs, Zenon
    <3> QED BY <3>1, Zenon DEF Flagged
  <2> HIDE DEF u
  <2>8. /\ Shape(u, nx, sp) /\ \A r \in sp : Pt(u, r) = Pt(w, r)
        /\ Scratched(u) = Scratched(w) /\ ScratchPt(u) = ScratchPt(w)
        /\ Scratched(w) => u[ScratchPt(w)] = w[ScratchPt(w)]
    BY <2>6, <2>7, PtWrites
  <2>9. Pte(u, s, i) = Null
    <3>1. w[Pt(w, s)][i] = Null
      BY <1>8, Zenon DEF Without, Pte
    <3>2. u[Pt(u, s)] = w[Pt(w, s)]
      BY <2>1, <2>7, <2>8, Zenon
    <3> QED BY <3>1, <3>2, Zenon DEF Pte
  <2>10. ASSUME NEW r \in sp, NEW j \in Index, ~(r = s /\ j = i)
         PROVE  Pte(u, r, j) = IF r \in S /\ j = i THEN [Pte(t, r, j) EXCEPT !.rw = TRUE] ELSE Pte(t, r, j)
    <3>1. Pte(w, r, j) = Pte(t, r, j)
      BY <1>8, <2>10, Zenon DEF Without
    <3>2. CASE r \notin S
      BY <2>7, <2>8, <3>1, <3>2, Zenon DEF Pte
    <3>3. CASE r \in S
      <4>1. Pte(u, r, j) = [w[Pt(w, r)] EXCEPT ![i].rw = TRUE][j]
        BY <2>7, <2>8, <3>3, Zenon DEF Pte
      <4>2. w[Pt(w, r)] \in [Index -> Entry]
        BY <2>6, ChainIn, Zenon DEF Shape
      <4> QED BY <3>1, <3>3, <4>1, <4>2, ZenonT(30) DEF Pte
    <3> QED BY <3>2, <3>3, Zenon
  <2>11. Without(t, u, nx, sp, s, i, S)
    BY <1>8, <2>8, <2>9, <2>10, Zenon DEF Without
  <2> QED BY <2>2, <2>5, <2>11, Zenon DEF st, m2
<1>10. CASE mp[p].refs # 2
  <2>1. Freed(mp, p, a) = {}
    BY <1>10, Zenon DEF Freed
  <2>2. Unmap(st, s, Va(i)) = R(w, nx, m2)
    BY <1>1, <1>3, <1>4, <1>5, <1>6, <1>7, <1>10, ZenonT(60) DEF Unmap, LessOne, Others
  <2> QED BY <1>8, <2>1, <2>2, Zenon DEF st, m2
<1> QED BY <1>9, <1>10, Zenon

-----------------------------------------------------------------------------
(* fork.                                                                   *)

(* A loop over the entries of a table that only its first round changes.   *)
LEMMA FirstRound ==
  ASSUME SetFacts, NEW f, NEW r, f[1] = r,
         \A k \in 1 .. Entries : k # 1 /\ f[k - 1] = r => f[k] = r
  PROVE  f[Entries] = r
<1> DEFINE W == {k \in 1 .. Entries : f[k] # r}
<1>1. Entries \in 1 .. Entries /\ W \in SUBSET Nat
  BY MapperAssumption
<1> SUFFICES ASSUME W # {} PROVE FALSE
  BY <1>1, Zenon
<1> HIDE DEF W
<1>2. PICK m \in W : \A k \in W : m <= k
  BY <1>1, Zenon DEF SetFacts, LeastFact
<1>3. m \in 1 .. Entries /\ f[m] # r /\ m # 1
  BY <1>2, Zenon DEF W
<1>4. m - 1 \in 1 .. Entries /\ ~(m <= m - 1)
  BY <1>3, MapperAssumption
<1>5. f[m - 1] = r
  BY <1>2, <1>4, Zenon DEF W
<1> QED BY <1>3, <1>5, Zenon

OnlyFirst(row) == \A i \in Index \ {0} : row[i].present = FALSE

(* The rounds of the loop over a page directory.                           *)
PdEntry(s, i, src, dst, dst_cr3, v) ==
  LET e == s.tables[src][i] IN
  IF ~e.present THEN s
  ELSE ClonePt(CloneTable(s, dst, i, e), e.addr, s.next, dst_cr3, Append(v, i))

PdRounds(f, st, src, dst, dst_cr3, v) ==
  f = [k \in 0 .. Entries |-> IF k = 0 THEN st ELSE PdEntry(f[k - 1], k - 1, src, dst, dst_cr3, v)]

(* The loop over a page directory clones its one page table.               *)
LEMMA PdLoop ==
  ASSUME SetFacts, NEW st, NEW src, NEW dst, NEW dst_cr3, NEW v,
         OnlyFirst(PdEntry(st, 0, src, dst, dst_cr3, v).tables[src])
  PROVE  ClonePd(st, src, dst, dst_cr3, v) = PdEntry(st, 0, src, dst, dst_cr3, v)
<1> DEFINE r == PdEntry(st, 0, src, dst, dst_cr3, v)
<1>0. r = PdEntry(st, 0, src, dst, dst_cr3, v) /\ \A i \in Index \ {0} : r.tables[src][i].present = FALSE
  BY Zenon DEF OnlyFirst
<1> HIDE DEF r
<1> DEFINE g == [k \in 0 .. Entries |-> IF k = 0 THEN st ELSE r]
           f == CHOOSE h : PdRounds(h, st, src, dst, dst_cr3, v)
<1>1. \A k \in 0 .. Entries : k # 0 => /\ k - 1 \in 0 .. Entries
                                       /\ k - 1 # 0 => k - 1 \in Index \ {0}
                                       /\ k - 1 = 0 => k = 1
  BY MapperAssumption DEF Index
<1>2. \A i \in Index \ {0} : PdEntry(r, i, src, dst, dst_cr3, v) = r
  BY <1>0, Zenon DEF PdEntry
<1>3. ASSUME NEW k \in 0 .. Entries
      PROVE  g[k] = IF k = 0 THEN st ELSE PdEntry(g[k - 1], k - 1, src, dst, dst_cr3, v)
  <2>1. CASE k = 0
    BY <2>1, Zenon
  <2>2. CASE k # 0 /\ k - 1 = 0
    <3>1. g[k] = r /\ g[k - 1] = st
      BY <1>1, <2>2, Zenon
    <3> HIDE DEF g
    <3> QED BY <1>0, <2>2, <3>1, Zenon
  <2>3. CASE k # 0 /\ k - 1 # 0
    <3>1. g[k] = r /\ g[k - 1] = r
      BY <1>1, <2>3, Zenon
    <3> HIDE DEF g
    <3> QED BY <1>1, <1>2, <2>3, <3>1, Zenon
  <2> QED BY <2>1, <2>2, <2>3, Zenon
<1>4. PdRounds(g, st, src, dst, dst_cr3, v)
  <2> DEFINE h == [k \in 0 .. Entries |->
                     IF k = 0 THEN st ELSE PdEntry(g[k - 1], k - 1, src, dst, dst_cr3, v)]
  <2>1. \A k \in 0 .. Entries : g[k] = h[k]
    BY <1>3, Zenon
  <2>2. g = h
    BY <2>1, Zenon
  <2> QED BY <2>2, Zenon DEF PdRounds
<1> HIDE DEF g
<1>5. PdRounds(f, st, src, dst, dst_cr3, v)
  BY <1>4, Zenon
<1>6. ClonePd(st, src, dst, dst_cr3, v) = f[Entries]
  BY Zenon DEF ClonePd, PdRounds, PdEntry
<1> HIDE DEF f
<1>7. \A k \in 0 .. Entries :
        f[k] = IF k = 0 THEN st ELSE PdEntry(f[k - 1], k - 1, src, dst, dst_cr3, v)
  BY <1>5, Zenon DEF PdRounds
<1>8. /\ 0 \in 0 .. Entries /\ 1 \in 0 .. Entries /\ 1 # 0 /\ 1 - 1 = 0
      /\ \A k \in 1 .. Entries : k \in 0 .. Entries /\ k # 0 /\ (k # 1 => k - 1 # 0)
  BY MapperAssumption
<1>9. f[0] = st
  BY <1>7, <1>8, Zenon
<1>10. f[1] = r
  <2>1. f[1] = PdEntry(f[1 - 1], 1 - 1, src, dst, dst_cr3, v)
    BY <1>7, <1>8, Zenon
  <2> QED BY <1>0, <1>8, <1>9, <2>1, Zenon
<1>11. ASSUME NEW k \in 1 .. Entries, k # 1, f[k - 1] = r
       PROVE  f[k] = r
  <2>1. k \in 0 .. Entries /\ k # 0 /\ k - 1 \in Index \ {0}
    BY <1>1, <1>8, <1>11, Zenon
  <2>2. f[k] = PdEntry(f[k - 1], k - 1, src, dst, dst_cr3, v)
    BY <1>7, <2>1, Zenon
  <2> QED BY <1>2, <1>11, <2>1, <2>2, Zenon
<1>12. f[Entries] = r
  BY <1>10, <1>11, FirstRound, ZenonT(30)
<1> QED BY <1>0, <1>6, <1>12, Zenon

(* The rounds of the loop over a PDPT.                                     *)
PdptEntry(s, i, src, dst, dst_cr3, v) ==
  LET e == s.tables[src][i] IN
  IF ~e.present THEN s
  ELSE ClonePd(CloneTable(s, dst, i, e), e.addr, s.next, dst_cr3, Append(v, i))

PdptRounds(f, st, src, dst, dst_cr3, v) ==
  f = [k \in 0 .. Entries |-> IF k = 0 THEN st ELSE PdptEntry(f[k - 1], k - 1, src, dst, dst_cr3, v)]

(* The loop over a PDPT clones its one page directory.                     *)
LEMMA PdptLoop ==
  ASSUME SetFacts, NEW st, NEW src, NEW dst, NEW dst_cr3, NEW v,
         OnlyFirst(PdptEntry(st, 0, src, dst, dst_cr3, v).tables[src])
  PROVE  recursively_clone(st, src, dst, dst_cr3, v) = PdptEntry(st, 0, src, dst, dst_cr3, v)
<1> DEFINE r == PdptEntry(st, 0, src, dst, dst_cr3, v)
<1>0. r = PdptEntry(st, 0, src, dst, dst_cr3, v) /\ \A i \in Index \ {0} : r.tables[src][i].present = FALSE
  BY Zenon DEF OnlyFirst
<1> HIDE DEF r
<1> DEFINE g == [k \in 0 .. Entries |-> IF k = 0 THEN st ELSE r]
           f == CHOOSE h : PdptRounds(h, st, src, dst, dst_cr3, v)
<1>1. \A k \in 0 .. Entries : k # 0 => /\ k - 1 \in 0 .. Entries
                                       /\ k - 1 # 0 => k - 1 \in Index \ {0}
                                       /\ k - 1 = 0 => k = 1
  BY MapperAssumption DEF Index
<1>2. \A i \in Index \ {0} : PdptEntry(r, i, src, dst, dst_cr3, v) = r
  BY <1>0, Zenon DEF PdptEntry
<1>3. ASSUME NEW k \in 0 .. Entries
      PROVE  g[k] = IF k = 0 THEN st ELSE PdptEntry(g[k - 1], k - 1, src, dst, dst_cr3, v)
  <2>1. CASE k = 0
    BY <2>1, Zenon
  <2>2. CASE k # 0 /\ k - 1 = 0
    <3>1. g[k] = r /\ g[k - 1] = st
      BY <1>1, <2>2, Zenon
    <3> HIDE DEF g
    <3> QED BY <1>0, <2>2, <3>1, Zenon
  <2>3. CASE k # 0 /\ k - 1 # 0
    <3>1. g[k] = r /\ g[k - 1] = r
      BY <1>1, <2>3, Zenon
    <3> HIDE DEF g
    <3> QED BY <1>1, <1>2, <2>3, <3>1, Zenon
  <2> QED BY <2>1, <2>2, <2>3, Zenon
<1>4. PdptRounds(g, st, src, dst, dst_cr3, v)
  <2> DEFINE h == [k \in 0 .. Entries |->
                     IF k = 0 THEN st ELSE PdptEntry(g[k - 1], k - 1, src, dst, dst_cr3, v)]
  <2>1. \A k \in 0 .. Entries : g[k] = h[k]
    BY <1>3, Zenon
  <2>2. g = h
    BY <2>1, Zenon
  <2> QED BY <2>2, Zenon DEF PdptRounds
<1> HIDE DEF g
<1>5. PdptRounds(f, st, src, dst, dst_cr3, v)
  BY <1>4, Zenon
<1>6. recursively_clone(st, src, dst, dst_cr3, v) = f[Entries]
  BY Zenon DEF recursively_clone, PdptRounds, PdptEntry
<1> HIDE DEF f
<1>7. \A k \in 0 .. Entries :
        f[k] = IF k = 0 THEN st ELSE PdptEntry(f[k - 1], k - 1, src, dst, dst_cr3, v)
  BY <1>5, Zenon DEF PdptRounds
<1>8. /\ 0 \in 0 .. Entries /\ 1 \in 0 .. Entries /\ 1 # 0 /\ 1 - 1 = 0
      /\ \A k \in 1 .. Entries : k \in 0 .. Entries /\ k # 0 /\ (k # 1 => k - 1 # 0)
  BY MapperAssumption
<1>9. f[0] = st
  BY <1>7, <1>8, Zenon
<1>10. f[1] = r
  <2>1. f[1] = PdptEntry(f[1 - 1], 1 - 1, src, dst, dst_cr3, v)
    BY <1>7, <1>8, Zenon
  <2> QED BY <1>0, <1>8, <1>9, <2>1, Zenon
<1>11. ASSUME NEW k \in 1 .. Entries, k # 1, f[k - 1] = r
       PROVE  f[k] = r
  <2>1. k \in 0 .. Entries /\ k # 0 /\ k - 1 \in Index \ {0}
    BY <1>1, <1>8, <1>11, Zenon
  <2>2. f[k] = PdptEntry(f[k - 1], k - 1, src, dst, dst_cr3, v)
    BY <1>7, <2>1, Zenon
  <2> QED BY <1>2, <1>11, <2>1, <2>2, Zenon
<1>12. f[Entries] = r
  BY <1>10, <1>11, FirstRound, ZenonT(30)
<1> QED BY <1>0, <1>6, <1>12, Zenon

(* What a page table holds that is cloned from `row`, over `old`.          *)
Protected(row, old) ==
  [i \in Index |-> IF row[i].present THEN [row[i] EXCEPT !.rw = FALSE] ELSE old[i]]

Copied(t, src, dst) ==
  [[t EXCEPT ![src] = Protected(t[src], t[src])] EXCEPT ![dst] = Protected(t[src], t[dst])]

SharedAt(row, p) == {i \in Index : row[i].present /\ row[i].addr = p}

(* The page is counted once more for each of the entries that hold it.     *)
Recounted(mp, row, d, v) ==
  [p \in Pages |->
     [refs |-> mp[p].refs + Cardinality(SharedAt(row, p)),
      aliases |-> mp[p].aliases \cup {<<d, Append(v, i)>> : i \in SharedAt(row, p)}]]

(* Cloning a page table.                                                   *)
LEMMA ClonePtIs ==
  ASSUME NEW t \in [Tables -> [Index -> Entry]], NEW nx, NEW mp, NEW src \in Tables, NEW dst \in Tables,
         src # dst, NEW d, NEW v
  PROVE  ClonePt(R(t, nx, mp), src, dst, d, v) =
           R(Copied(t, src, dst), nx, Recounted(mp, t[src], d, v))
<1> DEFINE st == R(t, nx, mp)
           a == Protected(t[src], t[src])
           b == Protected(t[src], t[dst])
           m == Recounted(mp, t[src], d, v)
<1>1. st.tables = t /\ st.mapped = mp
  BY RFacts
<1> HIDE DEF st
<1>2. ClonePt(st, src, dst, d, v) = [st EXCEPT !.tables = [@ EXCEPT ![src] = a, ![dst] = b], !.mapped = m]
  BY <1>1, Zenon DEF ClonePt, Protected, Recounted, SharedAt
<1> HIDE DEF a, b, m
<1>3. [st EXCEPT !.tables = [@ EXCEPT ![src] = a, ![dst] = b], !.mapped = m] =
        R([[t EXCEPT ![src] = a] EXCEPT ![dst] = b], nx, m)
  <2> DEFINE w == [t EXCEPT ![src] = a, ![dst] = b]
  <2>1. [st EXCEPT !.tables = [@ EXCEPT ![src] = a, ![dst] = b], !.mapped = m] =
          [st EXCEPT !.tables = w, !.mapped = m]
    BY <1>1, Zenon
  <2>2. w = [[t EXCEPT ![src] = a] EXCEPT ![dst] = b]
    OBVIOUS
  <2> HIDE DEF w
  <2>3. [st EXCEPT !.tables = w, !.mapped = m] = R(w, nx, m)
    <3>1. [st EXCEPT !.tables = w] = R(w, nx, mp)
      BY DEF st, R
    <3>2. [R(w, nx, mp) EXCEPT !.mapped = m] = R(w, nx, m)
      BY DEF R
    <3>3. [st EXCEPT !.tables = w, !.mapped = m] = [[st EXCEPT !.tables = w] EXCEPT !.mapped = m]
      OBVIOUS
    <3> QED BY <3>1, <3>2, <3>3, Zenon
  <2> QED BY <2>1, <2>2, <2>3, Zenon
<1> QED BY <1>2, <1>3, Zenon DEF st, a, b, m, Copied

(* A new table below entry e; bit 12 is not set for it.                    *)
LEMMA CloneTableIs ==
  ASSUME NEW t, NEW nx \in Nat, NEW mp, NEW dst, NEW e \in Entry, e.present = TRUE,
         ~(e.addr % 2 = 1 /\ nx % 2 = 0)
  PROVE  CloneTable(R(t, nx, mp), dst, 0, e) = R(Put(t, dst, 0, Fresh(nx)), nx + 1, mp)
<1>1. [WithFlags(nx, e) EXCEPT !.rw = TRUE] = Fresh(nx)
  <2>1. WithFlags(nx, e) = [e EXCEPT !.addr = nx]
    BY Zenon DEF WithFlags
  <2>2. [e EXCEPT !.addr = nx] = [addr |-> nx, present |-> e.present, rw |-> e.rw]
    BY DEF Entry
  <2>3. \A x, y : [[addr |-> nx, present |-> e.present, rw |-> x] EXCEPT !.rw = y] =
                 [addr |-> nx, present |-> e.present, rw |-> y]
    OBVIOUS
  <2>4. [[addr |-> nx, present |-> e.present, rw |-> e.rw] EXCEPT !.rw = TRUE] =
          [addr |-> nx, present |-> e.present, rw |-> TRUE]
    BY <2>3, Zenon
  <2>5. [WithFlags(nx, e) EXCEPT !.rw = TRUE] = [addr |-> nx, present |-> e.present, rw |-> TRUE]
    BY <2>1, <2>2, <2>4, Zenon
  <2> QED BY <2>5, Zenon DEF Fresh
<1>2. R(t, nx, mp).next = nx
  BY RFacts
<1>3. CloneTable(R(t, nx, mp), dst, 0, e) = TakeTable(R(t, nx, mp), dst, 0, Fresh(nx))
  BY <1>1, <1>2, Zenon DEF CloneTable
<1> QED BY <1>3, TakeTableIs

(* u is t with a new chain from nx on, cloned from that of s.              *)
Forked(t, u, nx, s) ==
  /\ u \in [Tables -> [Index -> Entry]]
  /\ \A n \in Tables : n < nx /\ n # Pt(t, s) => u[n] = t[n]
  /\ \A n \in Tables : n >= nx + 4 => u[n] = [i \in Index |-> Null]
  /\ Points(u[nx][0], nx + 1) /\ Points(u[nx][1], 1)
  /\ Points(u[nx + 1][0], nx + 2) /\ Points(u[nx + 2][0], nx + 3)
  /\ \A i \in Index \ {0} : u[nx + 1][i].present = FALSE /\ u[nx + 2][i].present = FALSE
  /\ u[Pt(t, s)] = Protected(t[Pt(t, s)], t[Pt(t, s)])
  /\ u[nx + 3] = Protected(t[Pt(t, s)], [i \in Index |-> Null])

(* The tables before the page table is cloned.                             *)
Grown(t, nx, s) ==
  Put(Put(Put(Put(t, nx, 1, t[s][1]), nx, 0, [t[s][0] EXCEPT !.addr = nx + 1]),
          nx + 1, 0, Fresh(nx + 2)),
      nx + 2, 0, Fresh(nx + 3))

GrowsTo(t, w, nx) ==
  /\ w \in [Tables -> [Index -> Entry]]
  /\ \A n \in Tables : n # nx /\ n # nx + 1 /\ n # nx + 2 => w[n] = t[n]
  /\ Points(w[nx][0], nx + 1) /\ Points(w[nx][1], 1)
  /\ Points(w[nx + 1][0], nx + 2) /\ Points(w[nx + 2][0], nx + 3)
  /\ \A i \in Index \ {0} : w[nx + 1][i].present = FALSE /\ w[nx + 2][i].present = FALSE

(* What is in the tables then.                                             *)
LEMMA GrownIs ==
  ASSUME NEW t, NEW nx, NEW sp, Shape(t, nx, sp), NEW s \in sp
  PROVE  GrowsTo(t, Grown(t, nx, s), nx)
<1> DEFINE e == [t[s][0] EXCEPT !.addr = nx + 1]
           w1 == Put(t, nx, 1, t[s][1])
           w2 == Put(w1, nx, 0, e)
           w3 == Put(w2, nx + 1, 0, Fresh(nx + 2))
           w4 == Put(w3, nx + 2, 0, Fresh(nx + 3))
<1>1. /\ nx \in Nat /\ nx <= MaxTables + 3 /\ t \in [Tables -> [Index -> Entry]]
      /\ \A n \in Tables : n >= nx => t[n] = [i \in Index |-> Null]
      /\ t[s][0].present = TRUE /\ Points(t[s][1], 1)
  BY Zenon DEF Shape, Space
<1>2. /\ nx \in Tables /\ nx + 1 \in Tables /\ nx + 2 \in Tables
      /\ nx # nx + 1 /\ nx # nx + 2 /\ nx + 1 # nx + 2 /\ nx + 1 >= nx /\ nx + 2 >= nx
  BY <1>1, MapperAssumption DEF Tables, Slack
<1>3. t[s][1] \in Entry /\ t[s][0] \in Entry
  BY <1>1, ChainIn, Sizes, Zenon
<1>4. e \in Entry /\ Points(e, nx + 1)
  <2>1. e = [addr |-> nx + 1, present |-> t[s][0].present, rw |-> t[s][0].rw]
    BY <1>3 DEF Entry
  <2>2. t[s][0].present \in BOOLEAN /\ t[s][0].rw \in BOOLEAN /\ nx + 1 \in Nat
    BY <1>1, <1>3 DEF Entry
  <2> HIDE DEF e
  <2>3. e.addr = nx + 1 /\ e.present = t[s][0].present
    BY <2>1, Zenon
  <2> QED BY <1>1, <2>1, <2>2, <2>3, Zenon DEF Entry, Points
<1>5. /\ Fresh(nx + 2) \in Entry /\ Points(Fresh(nx + 2), nx + 2)
      /\ Fresh(nx + 3) \in Entry /\ Points(Fresh(nx + 3), nx + 3)
  BY <1>1 DEF Fresh, Entry, Points
<1>6. 0 \in Index /\ 1 \in Index /\ 0 # 1
  BY Sizes
<1>7. Wrote(t, w1, nx, 1, t[s][1])
  BY <1>1, <1>2, <1>3, <1>6, PutWrites, Zenon
<1>8. Wrote(w1, w2, nx, 0, e)
  <2>1. w1 \in [Tables -> [Index -> Entry]]
    BY <1>7, Zenon DEF Wrote
  <2> HIDE DEF w1, e
  <2> QED BY <1>2, <1>4, <1>6, <2>1, PutWrites, Zenon
<1>9. Wrote(w2, w3, nx + 1, 0, Fresh(nx + 2))
  <2>1. w2 \in [Tables -> [Index -> Entry]]
    BY <1>8, Zenon DEF Wrote
  <2> HIDE DEF w2
  <2> QED BY <1>2, <1>5, <1>6, <2>1, PutWrites, Zenon
<1>10. Wrote(w3, w4, nx + 2, 0, Fresh(nx + 3))
  <2>1. w3 \in [Tables -> [Index -> Entry]]
    BY <1>9, Zenon DEF Wrote
  <2> HIDE DEF w3
  <2> QED BY <1>2, <1>5, <1>6, <2>1, PutWrites, Zenon
<1>11. w4 = Grown(t, nx, s)
  BY Zenon DEF Grown
<1> HIDE DEF w1, w2, w3, w4, e
<1>12. ASSUME NEW n \in Tables, n # nx, n # nx + 1, n # nx + 2
       PROVE  w4[n] = t[n]
  <2>1. w1[n] = t[n] /\ w2[n] = w1[n]
    BY <1>7, <1>8, <1>12, Zenon DEF Wrote
  <2>2. w3[n] = w2[n] /\ w4[n] = w3[n]
    BY <1>9, <1>10, <1>12, Zenon DEF Wrote
  <2> QED BY <2>1, <2>2, Zenon
<1>13. w4[nx][0] = e /\ w4[nx][1] = t[s][1] /\ w4[nx + 1][0] = Fresh(nx + 2)
  <2>1. w4[nx] = w2[nx] /\ w4[nx + 1] = w3[nx + 1]
    BY <1>2, <1>9, <1>10, Zenon DEF Wrote
  <2>2. w2[nx][0] = e /\ w2[nx][1] = t[s][1]
    BY <1>6, <1>7, <1>8, Zenon DEF Wrote
  <2> QED BY <1>9, <2>1, <2>2, Zenon DEF Wrote
<1>14. ASSUME NEW i \in Index \ {0}
       PROVE  w4[nx + 1][i].present = FALSE /\ w4[nx + 2][i].present = FALSE
  <2>1. w4[nx + 1][i] = t[nx + 1][i] /\ w4[nx + 2][i] = t[nx + 2][i]
    <3>1. w4[nx + 1] = w3[nx + 1] /\ w3[nx + 2] = w2[nx + 2]
      BY <1>2, <1>9, <1>10, Zenon DEF Wrote
    <3>2. w2[nx + 1] = t[nx + 1] /\ w2[nx + 2] = t[nx + 2]
      BY <1>2, <1>7, <1>8, Zenon DEF Wrote
    <3>3. w3[nx + 1][i] = w2[nx + 1][i] /\ w4[nx + 2][i] = w3[nx + 2][i]
      BY <1>9, <1>10, Zenon DEF Wrote
    <3> QED BY <3>1, <3>2, <3>3, Zenon
  <2>2. t[nx + 1][i] = Null /\ t[nx + 2][i] = Null
    <3>1. t[nx + 1] = [j \in Index |-> Null] /\ t[nx + 2] = [j \in Index |-> Null]
      BY <1>1, <1>2, Zenon
    <3> QED BY <3>1, Zenon
  <2> QED BY <2>1, <2>2 DEF Null
<1> QED BY <1>1, <1>4, <1>5, <1>10, <1>11, <1>12, <1>13, <1>14, Zenon DEF Wrote, GrowsTo

(* A cloned row is a row.                                                  *)
LEMMA ProtectedIs ==
  ASSUME NEW row \in [Index -> Entry], NEW old \in [Index -> Entry]
  PROVE  Protected(row, old) \in [Index -> Entry]
<1> SUFFICES ASSUME NEW i \in Index
             PROVE  (IF row[i].present THEN [row[i] EXCEPT !.rw = FALSE] ELSE old[i]) \in Entry
  BY Zenon DEF Protected
<1>1. row[i] \in Entry /\ old[i] \in Entry
  BY Zenon
<1>2. \A e \in Entry, x \in BOOLEAN : [e EXCEPT !.rw = x] \in Entry
  BY DEF Entry
<1>3. [row[i] EXCEPT !.rw = FALSE] \in Entry
  BY <1>1, <1>2, Zenon
<1> QED BY <1>1, <1>3, Zenon

(* The region after fork.                                                  *)
LEMMA GrownForked ==
  ASSUME NEW t, NEW nx, NEW sp, Shape(t, nx, sp), NEW s \in sp
  PROVE  Forked(t, Copied(Grown(t, nx, s), Pt(t, s), nx + 3), nx, s)
<1> DEFINE w == Grown(t, nx, s)
           n == Pt(t, s)
           a == Protected(t[n], t[n])
           b == Protected(t[n], [i \in Index |-> Null])
           u == Copied(w, n, nx + 3)
<1>1. /\ nx \in Nat /\ nx <= MaxTables + 3 /\ t \in [Tables -> [Index -> Entry]]
      /\ \A m \in Tables : m >= nx => t[m] = [i \in Index |-> Null]
  BY Zenon DEF Shape
<1>2. n \in Tables /\ n < nx
  BY ChainIn, Zenon
<1>3. /\ nx + 3 \in Tables /\ nx + 3 >= nx
      /\ nx \in Tables /\ nx + 1 \in Tables /\ nx + 2 \in Tables
      /\ n # nx /\ n # nx + 1 /\ n # nx + 2 /\ n # nx + 3
      /\ nx # nx + 3 /\ nx + 1 # nx + 3 /\ nx + 2 # nx + 3
      /\ \A m \in Tables :
           m < nx \/ m >= nx + 4 => m # nx /\ m # nx + 1 /\ m # nx + 2 /\ m # nx + 3
      /\ \A m \in Tables : m >= nx + 4 => m >= nx /\ m # n
  <2>1. /\ nx + 3 \in Tables /\ nx + 3 >= nx
        /\ nx \in Tables /\ nx + 1 \in Tables /\ nx + 2 \in Tables
    BY <1>1, MapperAssumption DEF Tables, Slack
  <2>2. n \in Nat /\ n < nx
    BY <1>2, Sizes, Zenon
  <2>3. n # nx /\ n # nx + 1 /\ n # nx + 2 /\ n # nx + 3
    BY <1>1, <2>2
  <2>4. nx # nx + 3 /\ nx + 1 # nx + 3 /\ nx + 2 # nx + 3
    BY <1>1
  <2>5. \A m \in Nat : m < nx \/ m >= nx + 4 => m # nx /\ m # nx + 1 /\ m # nx + 2 /\ m # nx + 3
    BY <1>1
  <2>6. \A m \in Nat : m >= nx + 4 => m >= nx /\ m # n
    BY <1>1, <2>2
  <2> QED BY <2>1, <2>3, <2>4, <2>5, <2>6, Sizes, Zenon
<1>4. /\ w \in [Tables -> [Index -> Entry]]
      /\ \A m \in Tables : m # nx /\ m # nx + 1 /\ m # nx + 2 => w[m] = t[m]
      /\ Points(w[nx][0], nx + 1) /\ Points(w[nx][1], 1)
      /\ Points(w[nx + 1][0], nx + 2) /\ Points(w[nx + 2][0], nx + 3)
      /\ \A i \in Index \ {0} : w[nx + 1][i].present = FALSE /\ w[nx + 2][i].present = FALSE
  <2>1. GrowsTo(t, w, nx)
    BY GrownIs, Zenon
  <2> QED BY <2>1, Zenon DEF GrowsTo
<1>5. w[n] = t[n] /\ w[nx + 3] = [i \in Index |-> Null]
  BY <1>1, <1>2, <1>3, <1>4, Zenon
<1>6. a \in [Index -> Entry] /\ b \in [Index -> Entry]
  <2>1. Null \in Entry
    BY DEF Null, Entry
  <2>2. [i \in Index |-> Null] \in [Index -> Entry] /\ t[n] \in [Index -> Entry]
    BY <1>1, <1>2, <2>1, Zenon
  <2> QED BY <2>2, ProtectedIs, Zenon
<1> HIDE DEF w, n
<1>7. u = [[w EXCEPT ![n] = a] EXCEPT ![nx + 3] = b]
  BY <1>5, Zenon DEF Copied
<1> HIDE DEF a, b, u
<1>8. /\ u \in [Tables -> [Index -> Entry]] /\ u[n] = a /\ u[nx + 3] = b
      /\ \A m \in Tables : m # n /\ m # nx + 3 => u[m] = w[m]
  <2> DEFINE k == nx + 3
  <2>1. k \in Tables /\ k # n
    BY <1>3, Zenon
  <2>2. u = [[w EXCEPT ![n] = a] EXCEPT ![k] = b]
    BY <1>7, Zenon
  <2> HIDE DEF k
  <2>3. /\ u \in [Tables -> [Index -> Entry]] /\ u[n] = a /\ u[k] = b
        /\ \A m \in Tables : m # n /\ m # k => u[m] = w[m]
    BY <1>2, <1>4, <1>6, <2>1, <2>2, ZenonT(30)
  <2> QED BY <2>3, Zenon DEF k
<1>9. \A m \in Tables : m < nx /\ m # n => u[m] = t[m]
  BY <1>3, <1>4, <1>8, Zenon
<1>10. \A m \in Tables : m >= nx + 4 => u[m] = [i \in Index |-> Null]
  BY <1>1, <1>3, <1>4, <1>8, Zenon
<1>11. u[nx] = w[nx] /\ u[nx + 1] = w[nx + 1] /\ u[nx + 2] = w[nx + 2]
  BY <1>3, <1>8, Zenon
<1>12. Forked(t, u, nx, s)
  BY <1>4, <1>8, <1>9, <1>10, <1>11, Zenon DEF Forked, n, a, b
<1> QED BY <1>12, Zenon DEF u, w, n

(* The addresses that fork puts together.                                  *)
LEMMA SameSeq ==
  ASSUME NEW S, NEW s \in Seq(S), NEW t \in Seq(S), Len(s) = Len(t), \A i \in 1 .. Len(s) : s[i] = t[i]
  PROVE  s = t
OBVIOUS

(* Append, by its elements.                                                *)
LEMMA AppendIs ==
  ASSUME NEW S, NEW s \in Seq(S), NEW x \in S, NEW t \in Seq(S), Len(t) = Len(s) + 1,
         \A i \in 1 .. Len(s) : t[i] = s[i], t[Len(s) + 1] = x
  PROVE  Append(s, x) = t
<1>1. Append(s, x) \in Seq(S) /\ Len(Append(s, x)) = Len(t)
  OBVIOUS
<1>2. \A i \in 1 .. Len(Append(s, x)) : Append(s, x)[i] = t[i]
  OBVIOUS
<1> QED BY <1>1, <1>2, SameSeq, Zenon

(* The virtual address that recursively_clone puts together from its       *)
(* indices.                                                                *)
LEMMA Paths ==
  /\ Append(<<0>>, 0) = <<0, 0>> /\ Append(<<0, 0>>, 0) = <<0, 0, 0>>
  /\ \A i : Append(<<0, 0, 0>>, i) = Va(i)
<1>1. Append(<<0>>, 0) = <<0, 0>>
  <2> DEFINE s == <<0>>
             t == <<0, 0>>
  <2>1. /\ s \in Seq({0}) /\ t \in Seq({0}) /\ Len(s) = 1 /\ Len(t) = 2
        /\ s[1] = 0 /\ t[1] = 0 /\ t[2] = 0
    OBVIOUS
  <2> HIDE DEF s, t
  <2>2. Append(s, 0) = t
    <3>1. Len(t) = Len(s) + 1 /\ (\A i \in 1 .. Len(s) : t[i] = s[i]) /\ t[Len(s) + 1] = 0
      BY <2>1
    <3> QED BY <2>1, <3>1, AppendIs, Zenon
  <2> QED BY <2>2, Zenon DEF s, t
<1>2. Append(<<0, 0>>, 0) = <<0, 0, 0>>
  <2> DEFINE s == <<0, 0>>
             t == <<0, 0, 0>>
  <2>1. /\ s \in Seq({0}) /\ t \in Seq({0}) /\ Len(s) = 2 /\ Len(t) = 3
        /\ s[1] = 0 /\ s[2] = 0 /\ t[1] = 0 /\ t[2] = 0 /\ t[3] = 0
    OBVIOUS
  <2> HIDE DEF s, t
  <2>2. Append(s, 0) = t
    <3>1. Len(t) = Len(s) + 1 /\ (\A i \in 1 .. Len(s) : t[i] = s[i]) /\ t[Len(s) + 1] = 0
      BY <2>1
    <3> QED BY <2>1, <3>1, AppendIs, Zenon
  <2> QED BY <2>2, Zenon DEF s, t
<1>3. ASSUME NEW j PROVE Append(<<0, 0, 0>>, j) = Va(j)
  <2> DEFINE S == {0, j}
             s == <<0, 0, 0>>
             t == Va(j)
  <2>1. /\ s \in Seq(S) /\ t \in Seq(S) /\ j \in S /\ Len(s) = 3 /\ Len(t) = 4
        /\ s[1] = 0 /\ s[2] = 0 /\ s[3] = 0 /\ t[1] = 0 /\ t[2] = 0 /\ t[3] = 0 /\ t[4] = j
    BY DEF Va
  <2> HIDE DEF s, t, S
  <2>2. Append(s, j) = t
    <3>1. Len(t) = Len(s) + 1 /\ (\A i \in 1 .. Len(s) : t[i] = s[i]) /\ t[Len(s) + 1] = j
      BY <2>1
    <3> QED BY <2>1, <3>1, AppendIs, Zenon
  <2> QED BY <2>2, Zenon DEF s, t
<1> QED BY <1>1, <1>2, <1>3, Zenon

(* fork clones the one chain that there is.                                *)
LEMMA CloneSpaceIs ==
  ASSUME SetFacts, NEW t, NEW nx, NEW sp, Shape(t, nx, sp), NEW s \in sp, NEW mp
  PROVE  CloneSpace(R(t, nx, mp), s) =
           R(Copied(Grown(t, nx, s), Pt(t, s), nx + 3), nx + 4,
             Recounted(mp, t[Pt(t, s)], nx, <<0, 0, 0>>))
<1> DEFINE e0 == [t[s][0] EXCEPT !.addr = nx + 1]
           w1 == Put(t, nx, 1, t[s][1])
           w2 == Put(w1, nx, 0, e0)
           w3 == Put(w2, nx + 1, 0, Fresh(nx + 2))
           w4 == Put(w3, nx + 2, 0, Fresh(nx + 3))
           e1 == t[Pdpt(t, s)][0]
           e2 == t[Pd(t, s)][0]
           u == Copied(w4, Pt(t, s), nx + 3)
           m == Recounted(mp, t[Pt(t, s)], nx, <<0, 0, 0>>)
           r == R(u, nx + 4, m)
<1>1. /\ nx \in Nat /\ nx <= MaxTables + 3 /\ t \in [Tables -> [Index -> Entry]]
      /\ Space(t, nx, s)
  BY Zenon DEF Shape
<1>2. /\ Pdpt(t, s) \in Tables /\ Pd(t, s) \in Tables /\ Pt(t, s) \in Tables
      /\ Pdpt(t, s) < nx /\ Pd(t, s) < nx /\ Pt(t, s) < nx
      /\ Pdpt(t, s) # Pt(t, s) /\ Pd(t, s) # Pt(t, s) /\ s \in Tables
  BY ChainIn, Zenon
<1>3. /\ nx \in Tables /\ nx + 1 \in Tables /\ nx + 2 \in Tables /\ nx + 3 \in Tables
      /\ nx + 1 + 1 = nx + 2 /\ nx + 2 + 1 = nx + 3 /\ nx + 3 + 1 = nx + 4
      /\ nx + 2 \in Nat /\ nx + 3 \in Nat
  BY <1>1, MapperAssumption DEF Tables, Slack
<1>4. /\ e1 \in Entry /\ Points(e1, Pd(t, s)) /\ e2 \in Entry /\ Points(e2, Pt(t, s))
      /\ t[s][0].present = TRUE /\ t[s][0].addr = Pdpt(t, s)
  BY <1>1, <1>2, Sizes, Zenon DEF Space, Pdpt
<1>5. Pdpt(t, s) \in Nat /\ (Pdpt(t, s) + nx) % 2 = 1
  BY <1>1, Zenon DEF Space
<1>6. ~(e1.addr % 2 = 1 /\ (nx + 2) % 2 = 0) /\ ~(e2.addr % 2 = 1 /\ (nx + 3) % 2 = 0)
  <2>1. e1.addr = Pdpt(t, s) + 1 /\ e2.addr = Pdpt(t, s) + 2
    BY <1>4, Zenon DEF Points, Pd, Pt
  <2> QED BY <1>1, <1>5, <2>1, Parity, Zenon
<1>7. /\ t[s][1] \in Entry /\ e0 \in Entry /\ Fresh(nx + 2) \in Entry /\ Fresh(nx + 3) \in Entry
      /\ 0 \in Index /\ 1 \in Index
  <2>1. t[s][0] \in Entry /\ t[s][1] \in Entry /\ nx + 1 \in Nat /\ nx + 2 \in Nat /\ nx + 3 \in Nat
    BY <1>1, <1>2, Sizes
  <2>2. \A e \in Entry, n \in Nat : [e EXCEPT !.addr = n] \in Entry
    BY DEF Entry
  <2>3. \A n \in Nat : Fresh(n) \in Entry
    BY DEF Entry, Fresh
  <2> QED BY <2>1, <2>2, <2>3, Sizes, Zenon
<1>8. Wrote(t, w1, nx, 1, t[s][1])
  BY <1>1, <1>3, <1>7, PutWrites, Zenon
<1>9. Wrote(w1, w2, nx, 0, e0)
  <2>1. w1 \in [Tables -> [Index -> Entry]]
    BY <1>8, Zenon DEF Wrote
  <2> HIDE DEF w1, e0
  <2> QED BY <1>3, <1>7, <2>1, PutWrites, Zenon
<1>10. Wrote(w2, w3, nx + 1, 0, Fresh(nx + 2))
  <2>1. w2 \in [Tables -> [Index -> Entry]]
    BY <1>9, Zenon DEF Wrote
  <2> HIDE DEF w2
  <2> QED BY <1>3, <1>7, <2>1, PutWrites, Zenon
<1>11. w4 = Grown(t, nx, s)
  BY Zenon DEF Grown
<1>12. Forked(t, u, nx, s) /\ GrowsTo(t, w4, nx)
  BY <1>11, GrownForked, GrownIs, Zenon
<1>13. R(t, nx, mp).tables = t /\ R(t, nx, mp).next = nx
  BY RFacts
<1> HIDE DEF e0, e1, e2, u, m
<1>14. TakeTable(R(t, nx, mp), nx, 1, t[s][1]) = R(w1, nx + 1, mp)
  BY TakeTableIs
<1> HIDE DEF w1
<1>15. TakeTable(R(w1, nx + 1, mp), nx, 0, e0) = R(w2, nx + 2, mp)
  BY <1>3, TakeTableIs
<1> HIDE DEF w2
<1>16. CloneTable(R(w2, nx + 2, mp), nx + 1, 0, e1) = R(w3, nx + 3, mp)
  <2> DEFINE k == nx + 2
             d == nx + 1
  <2>1. k \in Nat /\ e1.present = TRUE /\ ~(e1.addr % 2 = 1 /\ k % 2 = 0)
    BY <1>3, <1>4, <1>6, Zenon DEF Points
  <2> HIDE DEF k, d
  <2>2. CloneTable(R(w2, k, mp), d, 0, e1) = R(Put(w2, d, 0, Fresh(k)), k + 1, mp)
    BY <1>4, <2>1, CloneTableIs, ZenonT(30)
  <2> QED BY <1>3, <2>2, Zenon DEF k, d
<1> HIDE DEF w3
<1>17. CloneTable(R(w3, nx + 3, mp), nx + 2, 0, e2) = R(w4, nx + 4, mp)
  <2> DEFINE k == nx + 3
             d == nx + 2
  <2>1. k \in Nat /\ e2.present = TRUE /\ ~(e2.addr % 2 = 1 /\ k % 2 = 0)
    BY <1>3, <1>4, <1>6, Zenon DEF Points
  <2> HIDE DEF k, d
  <2>2. CloneTable(R(w3, k, mp), d, 0, e2) = R(Put(w3, d, 0, Fresh(k)), k + 1, mp)
    BY <1>4, <2>1, CloneTableIs, ZenonT(30)
  <2> QED BY <1>3, <2>2, Zenon DEF k, d
<1> HIDE DEF w4
<1>18. R(w2, nx + 2, mp).tables = w2 /\ R(w2, nx + 2, mp).next = nx + 2
  BY RFacts
<1>19. R(w3, nx + 3, mp).tables = w3 /\ R(w3, nx + 3, mp).next = nx + 3
  BY RFacts
<1>20. R(w1, nx + 1, mp).next = nx + 1 /\ r.tables = u
  BY RFacts
<1>21. w2[Pdpt(t, s)] = t[Pdpt(t, s)] /\ w3[Pd(t, s)] = t[Pd(t, s)] /\ w4[Pt(t, s)] = t[Pt(t, s)]
  <2>1. \A n \in Tables : n < nx => n # nx /\ n # nx + 1 /\ n # nx + 2
    BY <1>1, Sizes
  <2> QED BY <1>2, <1>8, <1>9, <1>10, <1>12, <2>1, Zenon DEF Wrote, GrowsTo
<1>22. u[Pdpt(t, s)] = t[Pdpt(t, s)] /\ u[Pd(t, s)] = t[Pd(t, s)]
  BY <1>2, <1>12, Zenon DEF Forked
<1>23. ClonePt(R(w4, nx + 4, mp), Pt(t, s), nx + 3, nx, <<0, 0, 0>>) = r
  <2>1. w4 \in [Tables -> [Index -> Entry]] /\ Pt(t, s) # nx + 3
    <3>1. Pt(t, s) \in Nat
      BY <1>2, Sizes, Zenon
    <3>2. Pt(t, s) # nx + 3
      BY <1>1, <1>2, <3>1
    <3> QED BY <1>12, <3>2, Zenon DEF GrowsTo
  <2>2. ClonePt(R(w4, nx + 4, mp), Pt(t, s), nx + 3, nx, <<0, 0, 0>>) =
          R(Copied(w4, Pt(t, s), nx + 3), nx + 4, Recounted(mp, w4[Pt(t, s)], nx, <<0, 0, 0>>))
    <3> DEFINE k == nx + 3
    <3>1. k \in Tables /\ Pt(t, s) # k
      BY <1>3, <2>1, Zenon
    <3> HIDE DEF k
    <3>2. ClonePt(R(w4, nx + 4, mp), Pt(t, s), k, nx, <<0, 0, 0>>) =
            R(Copied(w4, Pt(t, s), k), nx + 4, Recounted(mp, w4[Pt(t, s)], nx, <<0, 0, 0>>))
      BY <1>2, <2>1, <3>1, ClonePtIs
    <3> QED BY <3>2, Zenon DEF k
  <2> QED BY <1>21, <2>2, Zenon DEF u, m
<1>24. Append(<<0>>, 0) = <<0, 0>> /\ Append(<<0, 0>>, 0) = <<0, 0, 0>>
  BY Paths, Zenon
<1> HIDE DEF r
<1>25. PdEntry(R(w3, nx + 3, mp), 0, Pd(t, s), nx + 2, nx, <<0, 0>>) = r
  <2>1. w3[Pd(t, s)][0] = e2 /\ e2.present = TRUE /\ e2.addr = Pt(t, s)
    BY <1>4, <1>21, Zenon DEF e2, Points
  <2> QED BY <1>17, <1>19, <1>23, <1>24, <2>1, ZenonT(30) DEF PdEntry
<1>26. ClonePd(R(w3, nx + 3, mp), Pd(t, s), nx + 2, nx, <<0, 0>>) = r
  <2>1. OnlyFirst(r.tables[Pd(t, s)])
    BY <1>1, <1>20, <1>22, Zenon DEF Space, OnlyFirst
  <2> DEFINE st == R(w3, nx + 3, mp)
             k == nx + 2
             v == <<0, 0>>
  <2>2. r = PdEntry(st, 0, Pd(t, s), k, nx, v)
    BY <1>25, Zenon
  <2> HIDE DEF st, k, v
  <2>3. ClonePd(st, Pd(t, s), k, nx, v) = r
    BY <2>1, <2>2, PdLoop, Zenon
  <2> QED BY <2>3, Zenon DEF st, k, v
<1>27. PdptEntry(R(w2, nx + 2, mp), 0, Pdpt(t, s), nx + 1, nx, <<0>>) = r
  <2>1. w2[Pdpt(t, s)][0] = e1 /\ e1.present = TRUE /\ e1.addr = Pd(t, s)
    BY <1>4, <1>21, Zenon DEF e1, Points
  <2> QED BY <1>16, <1>18, <1>24, <1>26, <2>1, ZenonT(30) DEF PdptEntry
<1>28. recursively_clone(R(w2, nx + 2, mp), Pdpt(t, s), nx + 1, nx, <<0>>) = r
  <2>1. OnlyFirst(r.tables[Pdpt(t, s)])
    BY <1>1, <1>20, <1>22, Zenon DEF Space, OnlyFirst
  <2> DEFINE st == R(w2, nx + 2, mp)
             k == nx + 1
             v == <<0>>
  <2>2. r = PdptEntry(st, 0, Pdpt(t, s), k, nx, v)
    BY <1>27, Zenon
  <2> HIDE DEF st, k, v
  <2>3. recursively_clone(st, Pdpt(t, s), k, nx, v) = r
    BY <2>1, <2>2, PdptLoop, Zenon
  <2> QED BY <2>3, Zenon DEF st, k, v
<1>29. CloneSpace(R(t, nx, mp), s) = r
  BY <1>4, <1>13, <1>14, <1>15, <1>20, <1>28 DEF CloneSpace, e0
<1> QED BY <1>11, <1>29, Zenon DEF r, u, m

(* The shape after fork.                                                   *)
NewSpace(t, u, nx, sp) ==
  /\ Shape(u, nx + 4, sp \cup {nx})
  /\ \A r \in sp : Pt(u, r) = Pt(t, r)
  /\ Pt(u, nx) = nx + 3 /\ nx \notin sp

(* There is one chain more.                                                *)
LEMMA ForkShape ==
  ASSUME NEW t, NEW nx, NEW sp, Shape(t, nx, sp), NEW s \in sp, NEW u, Forked(t, u, nx, s),
         nx + 4 <= MaxTables
  PROVE  NewSpace(t, u, nx, sp)
<1>1. /\ nx \in Nat /\ nx > 1 /\ t \in [Tables -> [Index -> Entry]] /\ KernelShape(t, nx)
      /\ Apart(t, sp)
  BY Zenon DEF Shape
<1>2. ASSUME NEW r \in sp
      PROVE  /\ u[r] = t[r] /\ u[Pdpt(t, r)] = t[Pdpt(t, r)] /\ u[Pd(t, r)] = t[Pd(t, r)]
             /\ Pdpt(u, r) = Pdpt(t, r) /\ Pd(u, r) = Pd(t, r) /\ Pt(u, r) = Pt(t, r)
             /\ Chain(u, r) = Chain(t, r) /\ \A n \in Chain(t, r) : n \in Nat /\ n < nx
  <2>1. /\ r \in Tables /\ Pdpt(t, r) \in Tables /\ Pd(t, r) \in Tables /\ Pt(t, r) \in Tables
        /\ r < nx /\ Pdpt(t, r) < nx /\ Pd(t, r) < nx /\ Pt(t, r) < nx
    BY ChainIn, Zenon
  <2>2. Pt(t, s) # r /\ Pt(t, s) # Pdpt(t, r) /\ Pt(t, s) # Pd(t, r)
    BY PtAlone, Zenon
  <2>3. u[r] = t[r] /\ u[Pdpt(t, r)] = t[Pdpt(t, r)] /\ u[Pd(t, r)] = t[Pd(t, r)]
    BY <2>1, <2>2, Zenon DEF Forked
  <2>4. Pdpt(u, r) = Pdpt(t, r)
    BY <2>3, Zenon DEF Pdpt
  <2> QED BY <2>1, <2>3, <2>4, Sizes, Zenon DEF Pd, Pt, Chain
<1>3. ASSUME NEW r \in sp PROVE Space(u, nx + 4, r)
  <2>1. Space(t, nx, r)
    BY Zenon DEF Shape
  <2>2. Pdpt(t, r) \in Nat /\ (Pdpt(t, r) + nx) % 2 = 1 /\ Pt(t, r) < nx
    BY <2>1, Zenon DEF Space
  <2>3. (Pdpt(t, r) + (nx + 4)) % 2 = 1
    BY <1>1, <2>2, Parity, Zenon
  <2>4. Pt(t, r) < nx + 4
    BY <1>1, <2>2 DEF Pt
  <2>5. /\ u[r] = t[r] /\ u[Pdpt(t, r)] = t[Pdpt(t, r)] /\ u[Pd(t, r)] = t[Pd(t, r)]
        /\ Pdpt(u, r) = Pdpt(t, r) /\ Pd(u, r) = Pd(t, r) /\ Pt(u, r) = Pt(t, r)
    BY <1>2, Zenon
  <2> QED BY <2>1, <2>3, <2>4, <2>5, Zenon DEF Space
<1>4. Pdpt(u, nx) = nx + 1 /\ Pd(u, nx) = nx + 2 /\ Pt(u, nx) = nx + 3
  <2>1. Pdpt(u, nx) = nx + 1
    BY Zenon DEF Forked, Points, Pdpt
  <2> QED BY <1>1, <2>1 DEF Pd, Pt
<1>5. Space(u, nx + 4, nx)
  <2>1. /\ nx + 1 \in Nat /\ nx < nx + 1 /\ nx + 3 < nx + 4
    BY <1>1
  <2>2. ((nx + 1) + (nx + 4)) % 2 = 1
    BY <1>1, Parity, Zenon
  <2>3. /\ u[nx][0].present = TRUE /\ Points(u[nx][1], 1)
        /\ Points(u[Pdpt(u, nx)][0], Pd(u, nx)) /\ Points(u[Pd(u, nx)][0], Pt(u, nx))
    <3>1. u[nx][0].present = TRUE /\ Points(u[nx][1], 1)
      BY Zenon DEF Forked, Points
    <3>2. Points(u[nx + 1][0], nx + 2) /\ Points(u[nx + 2][0], nx + 3)
      BY Zenon DEF Forked
    <3> QED BY <1>4, <3>1, <3>2, Zenon
  <2>4. \A i \in Index \ {0} :
          u[Pdpt(u, nx)][i].present = FALSE /\ u[Pd(u, nx)][i].present = FALSE
    <3>1. \A i \in Index \ {0} : u[nx + 1][i].present = FALSE /\ u[nx + 2][i].present = FALSE
      BY Zenon DEF Forked
    <3> QED BY <1>4, <3>1, Zenon
  <2>5. nx < Pdpt(u, nx) /\ Pt(u, nx) < nx + 4 /\ Pdpt(u, nx) \in Nat
    BY <1>4, <2>1, Zenon
  <2>6. (Pdpt(u, nx) + (nx + 4)) % 2 = 1
    BY <1>4, <2>2, Zenon
  <2> QED BY <1>1, <2>3, <2>4, <2>5, <2>6, Zenon DEF Space
<1>6. Pt(t, s) # 1 /\ 1 \in Tables /\ 1 < nx
  BY <1>1, PtAlone, Sizes, Zenon
<1>7. u[1] = t[1]
  BY <1>6, Zenon DEF Forked
<1>8. /\ Scratched(u) = Scratched(t) /\ ScratchPd(u) = ScratchPd(t) /\ ScratchPt(u) = ScratchPt(t)
      /\ Kernel(u) = Kernel(t)
  BY <1>7, Zenon DEF Scratched, ScratchPd, ScratchPt, Kernel
<1>9. ASSUME Scratched(t)
      PROVE  /\ u[ScratchPd(t)] = t[ScratchPd(t)] /\ ScratchPd(t) \in Nat /\ ScratchPt(t) \in Nat
             /\ ScratchPd(t) < nx /\ ScratchPt(t) < nx
  <2>1. /\ ScratchPd(t) \in Tables /\ ScratchPd(t) < nx /\ ScratchPd(t) \in Nat
        /\ ScratchPt(t) \in Nat /\ ScratchPt(t) < nx
    BY <1>1, <1>9, MapperAssumption DEF KernelShape, ScratchPt, Tables, Slack
  <2>2. Pt(t, s) # ScratchPd(t)
    BY <1>9, PtAlone, Zenon
  <2> QED BY <2>1, <2>2, Zenon DEF Forked
<1>10. KernelShape(u, nx + 4)
  <2>1. ASSUME Scratched(t) PROVE ScratchPt(t) < nx + 4
    BY <1>1, <1>9, <2>1
  <2> QED BY <1>1, <1>8, <1>9, <2>1, Zenon DEF KernelShape
<1>11. \A n \in Kernel(u) : n \in Nat /\ n < nx
  <2>1. 1 \in Nat /\ 1 < nx
    BY <1>1
  <2> QED BY <1>8, <1>9, <2>1, Zenon DEF Kernel
<1>12. \A n \in Chain(u, nx) : ~(n < nx)
  <2>1. ~(nx < nx) /\ ~(nx + 1 < nx) /\ ~(nx + 2 < nx) /\ ~(nx + 3 < nx)
    BY <1>1
  <2> QED BY <1>4, <2>1, Zenon DEF Chain
<1>13. \A r \in sp : nx # r /\ Chain(u, r) \cap Chain(u, nx) = {}
  <2>1. \A r \in sp : r \in Chain(t, r)
    BY Zenon DEF Chain
  <2>2. nx \in Chain(u, nx)
    BY Zenon DEF Chain
  <2> QED BY <1>2, <1>12, <2>1, <2>2, Zenon
<1>14. Apart(u, sp \cup {nx})
  <2>1. \A r \in sp \cup {nx} : Chain(u, r) \cap Kernel(u) = {}
    BY <1>1, <1>2, <1>8, <1>11, <1>12, Zenon DEF Apart
  <2>2. \A q, r \in sp \cup {nx} : q # r => Chain(u, q) \cap Chain(u, r) = {}
    <3>1. \A q, r \in sp : q # r => Chain(u, q) \cap Chain(u, r) = {}
      BY <1>1, <1>2, Zenon DEF Apart
    <3>2. \A r \in sp : Chain(u, nx) \cap Chain(u, r) = {}
      BY <1>13, Zenon
    <3> QED BY <1>13, <3>1, <3>2, Zenon
  <2> QED BY <2>1, <2>2, Zenon DEF Apart
<1>15. nx + 4 \in Nat /\ nx + 4 > 1 /\ nx + 4 <= MaxTables + 3
  BY <1>1, MapperAssumption
<1>16. \A r \in sp \cup {nx} : Space(u, nx + 4, r)
  BY <1>3, <1>5, Zenon
<1>17. Shape(u, nx + 4, sp \cup {nx})
  BY <1>10, <1>14, <1>15, <1>16, Zenon DEF Shape, Forked
<1> QED BY <1>2, <1>4, <1>13, <1>17, Zenon DEF NewSpace

-----------------------------------------------------------------------------
(* Entry i of the page table of s is counted in mp, and is writable if     *)
(* nobody shares its page.                                                 *)
CountedAt(t, mp, fr, s, i) ==
  Pte(t, s, i).present = TRUE =>
    /\ Pte(t, s, i).addr \in Pages \ fr
    /\ Va(i) \in UserPages
    /\ <<s, Va(i)>> \in mp[Pte(t, s, i).addr].aliases
    /\ (Pte(t, s, i).rw = TRUE) <=> mp[Pte(t, s, i).addr].refs = 1

(* A page is at one virtual address, wherever it is.                       *)
AliasesOf(t, mp, sp, p) ==
  /\ IsFiniteSet(mp[p].aliases)
  /\ mp[p].refs = Cardinality(mp[p].aliases)
  /\ \A a \in mp[p].aliases : \E i \in Index :
       /\ a[1] \in sp /\ a = <<a[1], Va(i)>>
       /\ Points(Pte(t, a[1], i), p)
  /\ \A a, b \in mp[p].aliases : a[2] = b[2]

Counted(t, mp, fr, sp) ==
  /\ \A s \in sp, i \in Index : CountedAt(t, mp, fr, s, i)
  /\ \A p \in Pages : AliasesOf(t, mp, sp, p)

Counts(sp) == [refs : Nat, aliases : SUBSET (sp \X UserPages)]

Good(t, nx, mp, fr, sp) ==
  /\ Shape(t, nx, sp)
  /\ Counted(t, mp, fr, sp)
  /\ mp \in [Pages -> Counts(sp)]

IInv ==
  /\ Good(tables, next, mapped_pages, free, spaces)
  /\ free \subseteq Pages
  /\ mem \in [Pages -> Values]
  /\ cr3 \in spaces
  /\ stopped # "assert"

-----------------------------------------------------------------------------
(* References.                                                             *)

(* Aliases are pairs.                                                      *)
LEMMA Pairs ==
  /\ \A x, y : <<x, y>>[1] = x /\ <<x, y>>[2] = y
  /\ \A x, y, z, w : <<x, y>> = <<z, w>> => x = z /\ y = w
OBVIOUS

(* The writable bit is changed and nothing else.                           *)
LEMMA RwOnly ==
  ASSUME NEW e \in Entry, NEW x
  PROVE  /\ [e EXCEPT !.rw = x].present = e.present /\ [e EXCEPT !.rw = x].addr = e.addr
         /\ [e EXCEPT !.rw = x].rw = x
BY DEF Entry

(* Entries of page tables.                                                 *)
LEMMA PteIn ==
  ASSUME NEW t, NEW nx, NEW sp, Shape(t, nx, sp), NEW s \in sp, NEW i \in Index
  PROVE  Pte(t, s, i) \in Entry
BY ChainIn, Zenon DEF Shape, Pte

(* A page with an alias has references; with one reference it has one.     *)
LEMMA AliasCount ==
  ASSUME SetFacts, NEW t, NEW mp, NEW sp, NEW p, AliasesOf(t, mp, sp, p), NEW a \in mp[p].aliases
  PROVE  mp[p].refs \in Nat /\ mp[p].refs >= 1 /\ (mp[p].refs = 1 => mp[p].aliases = {a})
<1> DEFINE S == mp[p].aliases
<1>1. IsFiniteSet(S) /\ mp[p].refs = Cardinality(S)
  BY Zenon DEF AliasesOf
<1>2. Cardinality(S) \in Nat /\ (Cardinality(S) = 0 <=> S = {}) /\ (Cardinality(S) = 1 <=> \E x : S = {x})
  <2>1. Cardinality(S) \in Nat
    BY <1>1, Zenon DEF SetFacts, SizeFact
  <2>2. Cardinality(S) = 0 <=> S = {}
    BY <1>1, Zenon DEF SetFacts, SizeFact
  <2>3. Cardinality(S) = 1 <=> \E x : S = {x}
    BY <1>1, Zenon DEF SetFacts, SizeFact
  <2> QED BY <2>1, <2>2, <2>3, Zenon
<1>3. ASSUME Cardinality(S) = 1 PROVE S = {a}
  <2>1. PICK x : S = {x}
    BY <1>2, <1>3, Zenon
  <2>2. a \in {x}
    BY <2>1, Zenon
  <2> QED BY <2>1, <2>2, Zenon
<1>4. Cardinality(S) # 0
  BY <1>2, Zenon
<1> QED BY <1>1, <1>2, <1>3, <1>4

(* A page that the allocator has is mapped nowhere.                        *)
LEMMA Unused ==
  ASSUME SetFacts, NEW t, NEW mp, NEW fr, NEW sp, Counted(t, mp, fr, sp), NEW p \in Pages, p \in fr
  PROVE  mp[p].refs = 0 /\ mp[p].aliases = {}
<1>1. AliasesOf(t, mp, sp, p)
  BY Zenon DEF Counted
<1>2. mp[p].aliases = {}
  <2> SUFFICES ASSUME NEW a \in mp[p].aliases PROVE FALSE
    BY Zenon
  <2>1. PICK i \in Index : a[1] \in sp /\ Points(Pte(t, a[1], i), p)
    BY <1>1, Zenon DEF AliasesOf
  <2>2. CountedAt(t, mp, fr, a[1], i)
    BY <2>1, Zenon DEF Counted
  <2> QED BY <2>1, <2>2, Zenon DEF CountedAt, Points
<1> QED BY <1>1, <1>2, Zenon DEF AliasesOf, SetFacts, SizeFact

(* The counts depend on the page tables only.                              *)
LEMMA SameCounts ==
  ASSUME NEW t, NEW u, NEW mp, NEW fr, NEW sp, Counted(t, mp, fr, sp), SameRows(t, u, sp)
  PROVE  Counted(u, mp, fr, sp)
<1>1. \A s \in sp, i \in Index : Pte(u, s, i) = Pte(t, s, i)
  BY Zenon DEF SameRows, Pte
<1>2. \A s \in sp, i \in Index : CountedAt(u, mp, fr, s, i)
  BY <1>1, ZenonT(30) DEF Counted, CountedAt
<1>3. ASSUME NEW p \in Pages PROVE AliasesOf(u, mp, sp, p)
  BY <1>1, Zenon DEF Counted, AliasesOf
<1> QED BY <1>2, <1>3, Zenon DEF Counted

(* What u maps, but for entry i of s, is what t maps.                      *)
SameBut(t, u, sp, s, i) ==
  \A r \in sp, j \in Index : ~(r = s /\ j = i) =>
    Pte(u, r, j).present = Pte(t, r, j).present /\ Pte(u, r, j).addr = Pte(t, r, j).addr

(* Entering a page that is not mapped.                                     *)
LEMMA PutFresh ==
  ASSUME NEW t, NEW nx, NEW sp, Shape(t, nx, sp), NEW s \in sp, NEW i \in Index, NEW p \in Pages
  PROVE  /\ Shape(Put(t, Pt(t, s), i, Fresh(p)), nx, sp)
         /\ Pte(Put(t, Pt(t, s), i, Fresh(p)), s, i) = Fresh(p)
         /\ \A r \in sp, j \in Index : ~(r = s /\ j = i) =>
              Pte(Put(t, Pt(t, s), i, Fresh(p)), r, j) = Pte(t, r, j)
<1> DEFINE n == Pt(t, s)
           e == Fresh(p)
           u == Put(t, n, i, e)
<1>1. t \in [Tables -> [Index -> Entry]] /\ n \in Tables
  BY ChainIn, Zenon DEF Shape
<1>2. e \in Entry
  <2>1. p \in Nat
    BY Sizes, Zenon
  <2> QED BY <2>1 DEF Fresh, Entry
<1> HIDE DEF n, e
<1>3. Wrote(t, u, n, i, e)
  BY <1>1, <1>2, PutWrites, Zenon
<1> HIDE DEF u
<1>4. Shape(u, nx, sp) /\ \A r \in sp : Pt(u, r) = Pt(t, r)
  <2>1. u \in [Tables -> [Index -> Entry]]
    BY <1>3, Zenon DEF Wrote
  <2>2. \A m \in Tables : (\A r \in sp : m # Pt(t, r)) => u[m] = t[m]
    BY <1>3, Zenon DEF n, Wrote
  <2> QED BY <2>1, <2>2, PtWrites
<1>5. Pte(u, s, i) = e
  BY <1>3, <1>4, Zenon DEF Pte, n, Wrote
<1>6. ASSUME NEW r \in sp, NEW j \in Index, ~(r = s /\ j = i) PROVE Pte(u, r, j) = Pte(t, r, j)
  <2>1. CASE r = s
    BY <1>3, <1>4, <1>6, <2>1, Zenon DEF Pte, n, Wrote
  <2>2. CASE r # s
    <3>1. Pt(t, r) # n /\ Pt(t, r) \in Tables
      BY <2>2, PtAlone, ChainIn, Zenon DEF n
    <3> QED BY <1>3, <1>4, <3>1, Zenon DEF Pte, Wrote
  <2> QED BY <2>1, <2>2, Zenon
<1> QED BY <1>4, <1>5, <1>6, Zenon DEF u, n, e

(* map of a free page keeps the counts.                                    *)
LEMMA CountMapped ==
  ASSUME SetFacts, NEW t, NEW u, NEW sp,
         NEW mp \in [Pages -> Counts(sp)],
         NEW fr, Counted(t, mp, fr, sp), NEW s \in sp, NEW i \in Index, NEW p \in Pages, p \in fr,
         Va(i) \in UserPages, Pte(t, s, i).present = FALSE, Pte(u, s, i) = Fresh(p),
         \A r \in sp, j \in Index : ~(r = s /\ j = i) => Pte(u, r, j) = Pte(t, r, j)
  PROVE  Counted(u, [mp EXCEPT ![p] = [refs |-> 1, aliases |-> {<<s, Va(i)>>}]], fr \ {p}, sp)
<1> DEFINE a == <<s, Va(i)>>
           m4 == [refs |-> 1, aliases |-> {a}]
           m == [mp EXCEPT ![p] = m4]
<1>1. m4.refs = 1 /\ m4.aliases = {a}
  BY Zenon
<1> HIDE DEF m4
<1>2. m[p] = m4 /\ \A q \in Pages : q # p => m[q] = mp[q]
  BY Zenon
<1>3. Fresh(p).present = TRUE /\ Fresh(p).addr = p /\ Fresh(p).rw = TRUE
  BY Zenon DEF Fresh
<1> HIDE DEF m
<1>4. ASSUME NEW r \in sp, NEW j \in Index PROVE CountedAt(u, m, fr \ {p}, r, j)
  <2>1. CASE r = s /\ j = i
    BY <1>1, <1>2, <1>3, <2>1, Zenon DEF CountedAt
  <2>2. CASE ~(r = s /\ j = i)
    <3> DEFINE e == Pte(t, r, j)
    <3>1. Pte(u, r, j) = e /\ CountedAt(t, mp, fr, r, j)
      BY <2>2, Zenon DEF Counted
    <3>2. SUFFICES ASSUME e.present = TRUE
                   PROVE  /\ e.addr \in Pages \ (fr \ {p}) /\ Va(j) \in UserPages
                          /\ <<r, Va(j)>> \in m[e.addr].aliases
                          /\ (e.rw = TRUE) <=> m[e.addr].refs = 1
      BY <3>1, Zenon DEF CountedAt
    <3>3. /\ e.addr \in Pages \ fr /\ Va(j) \in UserPages
          /\ <<r, Va(j)>> \in mp[e.addr].aliases
          /\ (e.rw = TRUE) <=> mp[e.addr].refs = 1
      BY <3>1, <3>2, Zenon DEF CountedAt
    <3>4. m[e.addr] = mp[e.addr]
      BY <1>2, <3>3, Zenon
    <3> QED BY <3>3, <3>4, Zenon
  <2> QED BY <2>1, <2>2, Zenon
<1>5. AliasesOf(u, m, sp, p)
  <2>1. m[p].aliases = {a} /\ m[p].refs = 1
    BY <1>1, <1>2, Zenon
  <2>2. IsFiniteSet({a}) /\ Cardinality({a}) = 1
    BY Zenon DEF SetFacts, SizeFact
  <2>3. a[1] = s
    BY Pairs, Zenon
  <2>4. Points(Pte(u, s, i), p)
    BY <1>3, Zenon DEF Points
  <2>5. \A b \in {a} : \E k \in Index : b[1] \in sp /\ b = <<b[1], Va(k)>> /\ Points(Pte(u, b[1], k), p)
    BY <2>3, <2>4, Zenon
  <2> HIDE DEF a
  <2> QED BY <2>1, <2>2, <2>5, Zenon DEF AliasesOf
<1>6. ASSUME NEW q \in Pages, q # p PROVE AliasesOf(u, m, sp, q)
  <2>1. m[q] = mp[q] /\ AliasesOf(t, mp, sp, q)
    BY <1>2, <1>6, Zenon DEF Counted
  <2>2. \A r \in sp, k \in Index : Points(Pte(t, r, k), q) => Pte(u, r, k) = Pte(t, r, k)
    BY Zenon DEF Points
  <2> QED BY <2>1, <2>2, Zenon DEF AliasesOf
<1> QED BY <1>4, <1>5, <1>6, Zenon DEF Counted, m, m4

(* unmap of a shared page does.                                            *)
LEMMA CountUnmapped ==
  ASSUME SetFacts, NEW t, NEW u, NEW nx, NEW sp,
         NEW mp \in [Pages -> Counts(sp)],
         Shape(t, nx, sp), NEW fr, Counted(t, mp, fr, sp), NEW s \in sp, NEW i \in Index, NEW p \in Pages,
         Points(Pte(t, s, i), p), mp[p].refs > 1,
         Without(t, u, nx, sp, s, i, Freed(mp, p, <<s, Va(i)>>))
  PROVE  /\ Counted(u, [mp EXCEPT ![p] = LessOne(mp, p, <<s, Va(i)>>)], fr, sp)
         /\ SameBut(t, u, sp, s, i)
<1> DEFINE a == <<s, Va(i)>>
           m1 == LessOne(mp, p, a)
           m == [mp EXCEPT ![p] = m1]
           F == Freed(mp, p, a)
<1>1. m1.refs = mp[p].refs - 1 /\ m1.aliases = mp[p].aliases \ {a}
  BY DEF LessOne, Others
<1> HIDE DEF m1
<1>2. m[p] = m1 /\ \A q \in Pages : q # p => m[q] = mp[q]
  BY Zenon
<1> HIDE DEF m
<1>3. Pte(u, s, i).present = FALSE
  BY DEF Without, Null
<1>4. a \in mp[p].aliases /\ AliasesOf(t, mp, sp, p) /\ mp[p].refs \in Nat
  BY AliasCount, Zenon DEF Counted, CountedAt, Points
<1>5. ASSUME NEW r \in sp, r \in F
      PROVE  mp[p].refs = 2 /\ Points(Pte(t, r, i), p)
  <2>1. PICK b \in mp[p].aliases : b[1] = r /\ mp[p].refs = 2
    BY <1>5, Zenon DEF Freed, Others
  <2>2. PICK k \in Index : b = <<b[1], Va(k)>> /\ Points(Pte(t, b[1], k), p)
    BY <1>4, <2>1, Zenon DEF AliasesOf
  <2>3. b[2] = a[2]
    BY <1>4, <2>1, Zenon DEF AliasesOf
  <2>4. Va(k) = Va(i)
    BY <2>2, <2>3, Pairs
  <2>5. k = i
    BY <2>4, VaFacts, Zenon
  <2> QED BY <2>1, <2>2, <2>5, Zenon
<1>6. \A r \in sp, j \in Index : ~(r = s /\ j = i) =>
        Pte(u, r, j) = IF r \in F /\ j = i THEN [Pte(t, r, j) EXCEPT !.rw = TRUE] ELSE Pte(t, r, j)
  BY Zenon DEF Without
<1> HIDE DEF F
<1>7. ASSUME NEW r \in sp, NEW j \in Index, ~(r = s /\ j = i)
      PROVE  /\ Pte(u, r, j).present = Pte(t, r, j).present /\ Pte(u, r, j).addr = Pte(t, r, j).addr
             /\ Pte(u, r, j).rw = IF r \in F /\ j = i THEN TRUE ELSE Pte(t, r, j).rw
  <2>1. Pte(t, r, j) \in Entry
    BY PteIn, Zenon
  <2>2. CASE r \in F /\ j = i
    <3>1. Pte(u, r, j) = [Pte(t, r, j) EXCEPT !.rw = TRUE]
      BY <1>6, <1>7, <2>2, Zenon
    <3>2. /\ [Pte(t, r, j) EXCEPT !.rw = TRUE].present = Pte(t, r, j).present
          /\ [Pte(t, r, j) EXCEPT !.rw = TRUE].addr = Pte(t, r, j).addr
          /\ [Pte(t, r, j) EXCEPT !.rw = TRUE].rw = TRUE
      BY <2>1, RwOnly, Zenon
    <3> QED BY <2>2, <3>1, <3>2, Zenon
  <2>3. CASE ~(r \in F /\ j = i)
    <3>1. Pte(u, r, j) = Pte(t, r, j)
      BY <1>6, <1>7, <2>3, Zenon
    <3> QED BY <2>3, <3>1, Zenon
  <2> QED BY <2>2, <2>3, Zenon
<1>8. ASSUME NEW r \in sp, NEW j \in Index PROVE CountedAt(u, m, fr, r, j)
  <2>1. CASE r = s /\ j = i
    BY <1>3, <2>1, Zenon DEF CountedAt
  <2>2. CASE ~(r = s /\ j = i)
    <3> DEFINE e == Pte(t, r, j)
    <3>1. SUFFICES ASSUME Pte(u, r, j).present = TRUE
                   PROVE  /\ e.addr \in Pages \ fr /\ Va(j) \in UserPages
                          /\ <<r, Va(j)>> \in m[e.addr].aliases
                          /\ (Pte(u, r, j).rw = TRUE) <=> m[e.addr].refs = 1
      BY <1>7, <2>2, Zenon DEF CountedAt
    <3>2. e.present = TRUE /\ CountedAt(t, mp, fr, r, j)
      BY <1>7, <2>2, <3>1, Zenon DEF Counted
    <3>3. /\ e.addr \in Pages \ fr /\ Va(j) \in UserPages
          /\ <<r, Va(j)>> \in mp[e.addr].aliases
          /\ (e.rw = TRUE) <=> mp[e.addr].refs = 1
      BY <3>2, Zenon DEF CountedAt
    <3>4. CASE e.addr # p
      <4>1. m[e.addr] = mp[e.addr]
        BY <1>2, <3>3, <3>4, Zenon
      <4>2. ~(r \in F /\ j = i)
        BY <1>5, <3>4, Zenon DEF Points
      <4>3. Pte(u, r, j).rw = e.rw
        BY <1>7, <2>2, <4>2, Zenon
      <4> QED BY <3>3, <4>1, <4>3, Zenon
    <3>5. CASE e.addr = p
      <4>1. m[e.addr] = m1
        BY <1>2, <3>5, Zenon
      <4>2. <<r, Va(j)>> \in mp[p].aliases
        BY <3>3, <3>5, Zenon
      <4>3. <<r, Va(j)>>[2] = a[2]
        BY <1>4, <4>2, Zenon DEF AliasesOf
      <4>4. Va(j) = Va(i)
        BY <4>3, Pairs
      <4>5. j = i /\ r # s
        BY <2>2, <4>4, VaFacts, Zenon
      <4>6. <<r, Va(j)>> # a
        BY <4>5, Pairs, Zenon
      <4>7. <<r, Va(j)>> \in m1.aliases
        BY <1>1, <4>2, <4>6, Zenon
      <4>8. CASE mp[p].refs = 2
        <5>1. r \in F
          <6>1. <<r, Va(j)>>[1] = r
            BY Pairs, Zenon
          <6> QED BY <4>2, <4>6, <4>8, <6>1, Zenon DEF F, Freed, Others
        <5>2. Pte(u, r, j).rw = TRUE
          BY <1>7, <2>2, <4>5, <5>1, Zenon
        <5>3. m1.refs = 1
          BY <1>1, <4>8
        <5> QED BY <3>3, <4>1, <4>7, <5>2, <5>3, Zenon
      <4>9. CASE mp[p].refs # 2
        <5>1. r \notin F
          BY <1>5, <4>9, Zenon
        <5>2. Pte(u, r, j).rw = e.rw
          BY <1>7, <2>2, <5>1, Zenon
        <5>3. m1.refs # 1 /\ mp[p].refs # 1
          BY <1>1, <1>4, <4>9
        <5> QED BY <3>3, <3>5, <4>1, <4>7, <5>2, <5>3, Zenon
      <4> QED BY <4>8, <4>9, Zenon
    <3> QED BY <3>4, <3>5, Zenon
  <2> QED BY <2>1, <2>2, Zenon
<1>9. AliasesOf(u, m, sp, p)
  <2>1. m[p].aliases = mp[p].aliases \ {a} /\ m[p].refs = mp[p].refs - 1
    BY <1>1, <1>2, Zenon
  <2>2. IsFiniteSet(mp[p].aliases \ {a}) /\ Cardinality(mp[p].aliases \ {a}) = mp[p].refs - 1
    <3>1. /\ IsFiniteSet(mp[p].aliases) /\ mp[p].refs = Cardinality(mp[p].aliases)
          /\ a \in mp[p].aliases
      BY <1>4, Zenon DEF AliasesOf
    <3>2. ChangeFact
      BY Zenon DEF SetFacts
    <3>3. /\ IsFiniteSet(mp[p].aliases \ {a})
          /\ Cardinality(mp[p].aliases \ {a}) =
               IF a \in mp[p].aliases THEN Cardinality(mp[p].aliases) - 1 ELSE Cardinality(mp[p].aliases)
      BY <3>1, <3>2, Zenon DEF ChangeFact
    <3> QED BY <3>1, <3>3, Zenon
  <2>3. ASSUME NEW b \in mp[p].aliases \ {a}
        PROVE  \E k \in Index : b[1] \in sp /\ b = <<b[1], Va(k)>> /\ Points(Pte(u, b[1], k), p)
    <3>1. PICK k \in Index : b[1] \in sp /\ b = <<b[1], Va(k)>> /\ Points(Pte(t, b[1], k), p)
      BY <1>4, Zenon DEF AliasesOf
    <3>2. ~(b[1] = s /\ k = i)
      BY <3>1, Zenon
    <3> QED BY <1>7, <3>1, <3>2, Zenon DEF Points
  <2>4. \A b, c \in mp[p].aliases \ {a} : b[2] = c[2]
    BY <1>4, Zenon DEF AliasesOf
  <2> QED BY <2>1, <2>2, <2>3, <2>4, Zenon DEF AliasesOf
<1>10. ASSUME NEW q \in Pages, q # p PROVE AliasesOf(u, m, sp, q)
  <2>1. m[q] = mp[q] /\ AliasesOf(t, mp, sp, q)
    BY <1>2, <1>10, Zenon DEF Counted
  <2>2. \A r \in sp, k \in Index : Points(Pte(t, r, k), q) => Points(Pte(u, r, k), q)
    BY <1>7, <1>10, Zenon DEF Points
  <2> QED BY <2>1, <2>2, Zenon DEF AliasesOf
<1>11. SameBut(t, u, sp, s, i)
  BY <1>7, Zenon DEF SameBut
<1> QED BY <1>8, <1>9, <1>10, <1>11, Zenon DEF Counted, m, m1

(* What the new address space maps after fork is what s maps.              *)
SameForked(t, u, nx, sp, s) ==
  /\ \A r \in sp, j \in Index :
       Pte(u, r, j).present = Pte(t, r, j).present /\ Pte(u, r, j).addr = Pte(t, r, j).addr
  /\ \A j \in Index :
       /\ Pte(u, nx, j).present = Pte(t, s, j).present
       /\ Pte(t, s, j).present = TRUE => Pte(u, nx, j).addr = Pte(t, s, j).addr

(* The entries after fork.                                                 *)
Protects(t, u, nx, sp, s) ==
  /\ \A r \in sp, j \in Index : r # s => Pte(u, r, j) = Pte(t, r, j)
  /\ \A j \in Index : Pte(t, s, j).present = TRUE => Pte(u, s, j).rw = FALSE /\ Pte(u, nx, j).rw = FALSE

(* Both are what fork leaves.                                              *)
LEMMA ForkEntries ==
  ASSUME NEW t, NEW u, NEW nx, NEW sp, Shape(t, nx, sp), NEW s \in sp, Forked(t, u, nx, s),
         NewSpace(t, u, nx, sp)
  PROVE  SameForked(t, u, nx, sp, s) /\ Protects(t, u, nx, sp, s)
<1>1. ASSUME NEW r \in sp, NEW j \in Index, r # s PROVE Pte(u, r, j) = Pte(t, r, j)
  <2>1. Pt(t, r) \in Tables /\ Pt(t, r) < nx /\ Pt(t, r) # Pt(t, s) /\ Pt(u, r) = Pt(t, r)
    <3>1. Pt(t, r) \in Tables /\ Pt(t, r) < nx
      BY ChainIn, Zenon
    <3>2. Pt(t, r) # Pt(t, s)
      BY <1>1, PtAlone, Zenon
    <3> QED BY <3>1, <3>2, Zenon DEF NewSpace
  <2> QED BY <2>1, Zenon DEF Forked, Pte
<1>2. ASSUME NEW j \in Index
      PROVE  /\ Pte(u, s, j).present = Pte(t, s, j).present
             /\ Pte(u, s, j).addr = Pte(t, s, j).addr
             /\ Pte(u, nx, j).present = Pte(t, s, j).present
             /\ Pte(t, s, j).present = TRUE => /\ Pte(u, nx, j).addr = Pte(t, s, j).addr
                                               /\ Pte(u, s, j).rw = FALSE /\ Pte(u, nx, j).rw = FALSE
  <2> DEFINE e == Pte(t, s, j)
  <2>1. e \in Entry
    BY PteIn, Zenon
  <2>2. /\ Pte(u, s, j) = IF e.present THEN [e EXCEPT !.rw = FALSE] ELSE e
        /\ Pte(u, nx, j) = IF e.present THEN [e EXCEPT !.rw = FALSE] ELSE Null
    <3>1. u[Pt(u, s)] = Protected(t[Pt(t, s)], t[Pt(t, s)])
      BY Zenon DEF NewSpace, Forked
    <3>2. u[Pt(u, nx)] = Protected(t[Pt(t, s)], [i \in Index |-> Null])
      <4>1. Pt(u, nx) = nx + 3 /\ u[nx + 3] = Protected(t[Pt(t, s)], [i \in Index |-> Null])
        BY Zenon DEF NewSpace, Forked
      <4> QED BY <4>1
    <3> QED BY <3>1, <3>2, Zenon DEF Pte, Protected
  <2>3. Null.present = FALSE
    BY DEF Null
  <2> HIDE DEF e
  <2>4. /\ [e EXCEPT !.rw = FALSE].present = e.present /\ [e EXCEPT !.rw = FALSE].addr = e.addr
        /\ [e EXCEPT !.rw = FALSE].rw = FALSE
    BY <2>1, RwOnly, Zenon
  <2>5. e.present \in BOOLEAN
    BY <2>1 DEF Entry
  <2>6. CASE e.present = TRUE
    BY <2>2, <2>4, <2>6, Zenon DEF e
  <2>7. CASE e.present = FALSE
    BY <2>2, <2>3, <2>7, Zenon DEF e
  <2> QED BY <2>5, <2>6, <2>7, Zenon
<1>3. SameForked(t, u, nx, sp, s)
  BY <1>1, <1>2, Zenon DEF SameForked
<1> QED BY <1>1, <1>2, <1>3, Zenon DEF Protects

(* mp counts page p once more, for entry i of nx.                          *)
PlusOne(mp, m, p, nx, i) ==
  /\ m[p].refs = mp[p].refs + 1 /\ m[p].aliases = mp[p].aliases \cup {<<nx, Va(i)>>}
  /\ <<nx, Va(i)>> \notin mp[p].aliases

CountsFork(t, s, nx, mp, m, p) ==
  /\ \A i \in Index : Points(Pte(t, s, i), p) => PlusOne(mp, m, p, nx, i)
  /\ (\A i \in Index : ~Points(Pte(t, s, i), p)) =>
       m[p].refs = mp[p].refs /\ m[p].aliases = mp[p].aliases

(* recursively_clone adds one reference for each entry that it clones.     *)
LEMMA ForkCounts ==
  ASSUME SetFacts, NEW t, NEW nx, NEW sp, Shape(t, nx, sp), nx \notin sp,
         NEW mp \in [Pages -> Counts(sp)],
         NEW fr, Counted(t, mp, fr, sp), NEW s \in sp, NEW m,
         m = Recounted(mp, t[Pt(t, s)], nx, <<0, 0, 0>>), NEW p \in Pages
  PROVE  CountsFork(t, s, nx, mp, m, p)
<1> DEFINE S == SharedAt(t[Pt(t, s)], p)
<1>1. \A i \in Index : i \in S <=> Points(Pte(t, s, i), p)
  <2> SUFFICES ASSUME NEW i \in Index PROVE i \in S <=> Points(Pte(t, s, i), p)
    BY Zenon
  <2>1. Pte(t, s, i).present \in BOOLEAN
    BY PteIn DEF Entry
  <2> QED BY <2>1, Zenon DEF SharedAt, Points, Pte
<1>2. S \subseteq Index
  BY Zenon DEF SharedAt
<1>3. /\ m[p].refs = mp[p].refs + Cardinality(S)
      /\ m[p].aliases = mp[p].aliases \cup {<<nx, Append(<<0, 0, 0>>, i)>> : i \in S}
  <2> DEFINE A == mp[p].aliases \cup {<<nx, Append(<<0, 0, 0>>, i)>> : i \in S}
             c == mp[p].refs + Cardinality(S)
  <2>1. m[p] = [refs |-> c, aliases |-> A]
    <3>1. Recounted(mp, t[Pt(t, s)], nx, <<0, 0, 0>>)[p] = [refs |-> c, aliases |-> A]
      BY Zenon DEF Recounted
    <3> QED BY <3>1
  <2> HIDE DEF A, c
  <2>2. m[p].refs = c /\ m[p].aliases = A
    BY <2>1
  <2> QED BY <2>2, Zenon DEF A, c
<1>4. {<<nx, Append(<<0, 0, 0>>, i)>> : i \in S} = {<<nx, Va(i)>> : i \in S}
  BY Paths, Zenon
<1>5. mp[p].refs \in Nat /\ mp[p].aliases \subseteq sp \X UserPages
  BY DEF Counts
<1> HIDE DEF S
<1>6. ASSUME NEW i \in Index, Points(Pte(t, s, i), p) PROVE PlusOne(mp, m, p, nx, i)
  <2>1. ASSUME NEW j \in S PROVE j = i
    <3>1. CountedAt(t, mp, fr, s, i) /\ CountedAt(t, mp, fr, s, j) /\ Points(Pte(t, s, j), p)
      BY <1>1, <1>2, Zenon DEF Counted
    <3>2. <<s, Va(i)>> \in mp[p].aliases /\ <<s, Va(j)>> \in mp[p].aliases
      BY <1>6, <3>1, Zenon DEF CountedAt, Points
    <3>3. <<s, Va(i)>>[2] = <<s, Va(j)>>[2]
      BY <3>2, Zenon DEF Counted, AliasesOf
    <3>4. Va(i) = Va(j)
      BY <3>3, Pairs
    <3> QED BY <3>4, VaFacts, Zenon
  <2>2. S = {i}
    BY <1>1, <1>6, <2>1, Zenon
  <2>3. Cardinality(S) = 1
    BY <2>2, Zenon DEF SetFacts, SizeFact
  <2>4. <<nx, Va(i)>> \notin mp[p].aliases
    BY <1>5
  <2>5. {<<nx, Va(j)>> : j \in S} = {<<nx, Va(i)>>}
    BY <2>2, Zenon
  <2> QED BY <1>3, <1>4, <2>3, <2>4, <2>5, Zenon DEF PlusOne
<1>7. ASSUME \A i \in Index : ~Points(Pte(t, s, i), p)
      PROVE  m[p].refs = mp[p].refs /\ m[p].aliases = mp[p].aliases
  <2>1. S = {}
    BY <1>1, <1>2, <1>7, Zenon
  <2>2. Cardinality(S) = 0
    BY <2>1, Zenon DEF SetFacts, SizeFact
  <2>3. {<<nx, Va(j)>> : j \in S} = {}
    BY <2>1, Zenon
  <2>4. m[p].refs = mp[p].refs
    BY <1>3, <1>5, <2>2
  <2>5. m[p].aliases = mp[p].aliases
    BY <1>3, <1>4, <2>3, Zenon
  <2> QED BY <2>4, <2>5, Zenon
<1> QED BY <1>6, <1>7, Zenon DEF CountsFork

(* fork keeps the counts.                                                  *)
LEMMA CountForked ==
  ASSUME SetFacts, NEW t, NEW u, NEW nx, NEW sp, Shape(t, nx, sp),
         NEW mp \in [Pages -> Counts(sp)],
         NEW fr, Counted(t, mp, fr, sp), NEW s \in sp, NEW m,
         m = Recounted(mp, t[Pt(t, s)], nx, <<0, 0, 0>>),
         Forked(t, u, nx, s), NewSpace(t, u, nx, sp)
  PROVE  Counted(u, m, fr, sp \cup {nx})
<1>1. nx \notin sp
  BY Zenon DEF NewSpace
<1>0. \A p \in Pages : CountsFork(t, s, nx, mp, m, p)
  BY <1>1, ForkCounts, Zenon
<1>2. SameForked(t, u, nx, sp, s) /\ Protects(t, u, nx, sp, s)
  BY ForkEntries, Zenon
<1>3. \A r \in sp, j \in Index : r # s => Pte(u, r, j) = Pte(t, r, j)
  BY <1>2, Zenon DEF Protects
<1>4. \A j \in Index : Pte(t, s, j).present = TRUE => Pte(u, s, j).rw = FALSE /\ Pte(u, nx, j).rw = FALSE
  BY <1>2, Zenon DEF Protects
<1>5. \A p \in Pages, i \in Index : Points(Pte(t, s, i), p) => PlusOne(mp, m, p, nx, i)
  BY <1>0, Zenon DEF CountsFork
<1>6. \A p \in Pages : (\A i \in Index : ~Points(Pte(t, s, i), p)) =>
        m[p].refs = mp[p].refs /\ m[p].aliases = mp[p].aliases
  BY <1>0, Zenon DEF CountsFork
<1>7. ASSUME NEW p \in Pages, NEW a \in mp[p].aliases
      PROVE  mp[p].refs + 1 # 1 /\ a \in m[p].aliases
  <2>1. AliasesOf(t, mp, sp, p)
    BY Zenon DEF Counted
  <2>2. mp[p].refs \in Nat /\ mp[p].refs >= 1
    BY <2>1, AliasCount, Zenon
  <2>3. mp[p].refs + 1 # 1
    BY <2>2
  <2>4. a \in m[p].aliases
    BY <1>5, <1>6, Zenon DEF PlusOne
  <2> QED BY <2>3, <2>4, Zenon
<1>8. \A r \in sp, j \in Index : Pte(t, r, j).present = TRUE =>
        /\ Pte(t, r, j).addr \in Pages \ fr /\ Va(j) \in UserPages
        /\ <<r, Va(j)>> \in mp[Pte(t, r, j).addr].aliases
        /\ (Pte(t, r, j).rw = TRUE) <=> mp[Pte(t, r, j).addr].refs = 1
  BY Zenon DEF Counted, CountedAt
<1>9. ASSUME NEW r \in sp, NEW j \in Index PROVE CountedAt(u, m, fr, r, j)
  <2> DEFINE e == Pte(t, r, j)
             q == e.addr
  <2>1. SUFFICES ASSUME e.present = TRUE
                 PROVE  /\ q \in Pages \ fr /\ Va(j) \in UserPages /\ <<r, Va(j)>> \in m[q].aliases
                        /\ (Pte(u, r, j).rw = TRUE) <=> m[q].refs = 1
    BY <1>2, Zenon DEF CountedAt, SameForked
  <2>2. /\ q \in Pages \ fr /\ Va(j) \in UserPages /\ <<r, Va(j)>> \in mp[q].aliases
        /\ (e.rw = TRUE) <=> mp[q].refs = 1
    BY <1>8, <2>1, Zenon
  <2>3. <<r, Va(j)>> \in m[q].aliases /\ mp[q].refs + 1 # 1
    BY <1>7, <2>2, Zenon
  <2>4. CASE r = s
    <3>1. PlusOne(mp, m, q, nx, j)
      BY <1>5, <2>1, <2>2, <2>4, Zenon DEF Points
    <3>2. Pte(u, r, j).rw = FALSE
      BY <1>4, <2>1, <2>4, Zenon
    <3> QED BY <2>2, <2>3, <3>1, <3>2, Zenon DEF PlusOne
  <2>5. CASE r # s /\ \E i \in Index : Points(Pte(t, s, i), q)
    <3>1. PICK i \in Index : Points(Pte(t, s, i), q)
      BY <2>5, Zenon
    <3>2. PlusOne(mp, m, q, nx, i)
      BY <1>5, <2>2, <3>1, Zenon
    <3>3. <<s, Va(i)>> \in mp[q].aliases
      BY <1>8, <3>1, Zenon DEF Points
    <3>4. <<s, Va(i)>> # <<r, Va(j)>>
      BY <2>5, Pairs, Zenon
    <3>5. mp[q].refs # 1
      <4>1. AliasesOf(t, mp, sp, q)
        BY <2>2, Zenon DEF Counted
      <4>2. mp[q].refs = 1 => mp[q].aliases = {<<r, Va(j)>>}
        BY <2>2, <4>1, AliasCount
      <4> QED BY <3>3, <3>4, <4>2, Zenon
    <3>6. Pte(u, r, j) = e
      BY <1>3, <2>5, Zenon
    <3> QED BY <2>2, <2>3, <3>2, <3>5, <3>6, Zenon DEF PlusOne
  <2>6. CASE r # s /\ ~\E i \in Index : Points(Pte(t, s, i), q)
    <3>1. m[q].refs = mp[q].refs /\ Pte(u, r, j) = e
      BY <1>3, <1>6, <2>2, <2>6, Zenon
    <3> QED BY <2>2, <2>3, <3>1, Zenon
  <2> QED BY <2>4, <2>5, <2>6, Zenon
<1>10. ASSUME NEW j \in Index PROVE CountedAt(u, m, fr, nx, j)
  <2> DEFINE q == Pte(t, s, j).addr
  <2>1. SUFFICES ASSUME Pte(t, s, j).present = TRUE
                 PROVE  /\ q \in Pages \ fr /\ Va(j) \in UserPages /\ <<nx, Va(j)>> \in m[q].aliases
                        /\ (Pte(u, nx, j).rw = TRUE) <=> m[q].refs = 1
    BY <1>2, Zenon DEF CountedAt, SameForked
  <2>2. q \in Pages \ fr /\ Va(j) \in UserPages /\ <<s, Va(j)>> \in mp[q].aliases
    BY <1>8, <2>1, Zenon
  <2>3. PlusOne(mp, m, q, nx, j) /\ mp[q].refs + 1 # 1
    BY <1>5, <1>7, <2>1, <2>2, Zenon DEF Points
  <2>4. Pte(u, nx, j).rw = FALSE
    BY <1>4, <2>1, Zenon
  <2> QED BY <2>2, <2>3, <2>4, Zenon DEF PlusOne
<1>11. ASSUME NEW p \in Pages PROVE AliasesOf(u, m, sp \cup {nx}, p)
  <2>1. AliasesOf(t, mp, sp, p)
    BY Zenon DEF Counted
  <2>2. \A b \in mp[p].aliases : \E k \in Index :
          b[1] \in sp /\ b = <<b[1], Va(k)>> /\ Points(Pte(u, b[1], k), p)
    BY <1>2, <2>1, Zenon DEF AliasesOf, SameForked, Points
  <2>3. CASE \A i \in Index : ~Points(Pte(t, s, i), p)
    BY <1>6, <2>1, <2>2, <2>3, Zenon DEF AliasesOf
  <2>4. ASSUME NEW i \in Index, Points(Pte(t, s, i), p) PROVE AliasesOf(u, m, sp \cup {nx}, p)
    <3> DEFINE a == <<nx, Va(i)>>
               A == mp[p].aliases
    <3>1. m[p].refs = mp[p].refs + 1 /\ m[p].aliases = A \cup {a} /\ a \notin A
      BY <1>5, <2>4, Zenon DEF PlusOne
    <3>2. IsFiniteSet(A \cup {a}) /\ Cardinality(A \cup {a}) = Cardinality(A) + 1
      <4>1. IsFiniteSet(A)
        BY <2>1, Zenon DEF AliasesOf
      <4> QED BY <3>1, <4>1, Zenon DEF SetFacts, ChangeFact
    <3>3. mp[p].refs = Cardinality(A)
      BY <2>1, Zenon DEF AliasesOf
    <3>4. Points(Pte(u, nx, i), p)
      BY <1>2, <2>4, Zenon DEF SameForked, Points
    <3>5. a[1] = nx /\ a[2] = Va(i)
      BY Pairs, Zenon
    <3>6. <<s, Va(i)>> \in A
      BY <1>8, <2>4, Zenon DEF Points
    <3>7. \A b \in A : b[2] = Va(i)
      <4>1. <<s, Va(i)>>[2] = Va(i)
        BY Pairs, Zenon
      <4> QED BY <2>1, <3>6, <4>1, Zenon DEF AliasesOf
    <3>8. \A b \in A \cup {a} : \E k \in Index :
            b[1] \in sp \cup {nx} /\ b = <<b[1], Va(k)>> /\ Points(Pte(u, b[1], k), p)
      BY <2>2, <3>4, <3>5, Zenon
    <3>9. \A b, c \in A \cup {a} : b[2] = c[2]
      <4>1. \A b \in A \cup {a} : b[2] = Va(i)
        BY <3>5, <3>7, Zenon
      <4> QED BY <4>1, Zenon
    <3> HIDE DEF a, A
    <3> QED BY <3>1, <3>2, <3>3, <3>8, <3>9, Zenon DEF AliasesOf
  <2> QED BY <2>3, <2>4, Zenon
<1> QED BY <1>9, <1>10, <1>11, Zenon DEF Counted

-----------------------------------------------------------------------------
(* Steps.                                                                  *)

(* The state that the operations take.                                     *)
LEMMA StateIs == State = R(tables, next, mapped_pages)
BY Zenon DEF State, R

(* The page that the allocator gives is one it has.                        *)
LEMMA LowestIn ==
  ASSUME SetFacts, NEW S \in SUBSET Pages, S # {}
  PROVE  Lowest(S) \in S
<1>1. \E x \in S : \A y \in S : x <= y
  BY Sizes, Zenon DEF SetFacts, LeastFact
<1> QED BY <1>1, Zenon DEF Lowest

(* Addresses of userland are those of one page table.                      *)
LEMMA UserVa ==
  ASSUME OnePageTable, NEW v \in UserPages
  PROVE  \E i \in Index : v = Va(i)
<1>1. v \in {0} \X Index \X Index \X Index /\ v[2] = 0 /\ v[3] = 0
  BY MapperAssumption, Zenon DEF OnePageTable
<1>2. v = <<v[1], v[2], v[3], v[4]>> /\ v[1] = 0 /\ v[4] \in Index
  BY <1>1
<1> QED BY <1>1, <1>2, Zenon DEF Va

(* What walk_to_leaf finds.                                                *)
LEMMA LeafIs ==
  ASSUME NEW t, NEW nx, NEW sp, Shape(t, nx, sp), NEW s \in sp, NEW i \in Index
  PROVE  /\ Leaf(t, s, Va(i)) = {} <=> Pte(t, s, i).present = FALSE
         /\ \A l \in Leaf(t, s, Va(i)) :
              Pte(t, s, i).present = TRUE /\ l.page = Pte(t, s, i).addr /\ l.rw = Pte(t, s, i).rw
         /\ PagesAt(t, s, Va(i)) = {p \in {Pte(t, s, i).addr} : Pte(t, s, i).present = TRUE}
<1> DEFINE e == Pte(t, s, i)
           l == [table |-> Pt(t, s), page |-> e.addr, rw |-> e.rw]
<1>1. Leaf(t, s, Va(i)) = {l : n \in {m \in {Pt(t, s)} : e.present}}
  BY WalkUser, Zenon
<1>2. e.present \in BOOLEAN
  BY PteIn DEF Entry
<1>3. l.page = e.addr /\ l.rw = e.rw
  BY Zenon
<1> HIDE DEF l, e
<1>4. Leaf(t, s, Va(i)) = {} <=> e.present = FALSE
  BY <1>1, <1>2, Zenon
<1>5. \A x \in Leaf(t, s, Va(i)) : e.present = TRUE /\ x = l
  BY <1>1, <1>2, Zenon
<1>6. e.present = TRUE => l \in Leaf(t, s, Va(i))
  BY <1>1, Zenon
<1>7. PagesAt(t, s, Va(i)) = {p \in {e.addr} : e.present = TRUE}
  BY <1>3, <1>5, <1>6, Zenon DEF PagesAt
<1> QED BY <1>3, <1>4, <1>5, <1>7, Zenon DEF e

(* The types of a count.                                                   *)
LEMMA AliasesIn ==
  ASSUME SetFacts, NEW t, NEW m, NEW fr, NEW sp, Counted(t, m, fr, sp), NEW p \in Pages
  PROVE  m[p].refs \in Nat /\ m[p].aliases \subseteq sp \X UserPages
<1>1. AliasesOf(t, m, sp, p)
  BY Zenon DEF Counted
<1>2. m[p].refs \in Nat
  <2>1. IsFiniteSet(m[p].aliases) /\ m[p].refs = Cardinality(m[p].aliases)
    BY <1>1, Zenon DEF AliasesOf
  <2>2. SizeFact
    BY Zenon DEF SetFacts
  <2>3. Cardinality(m[p].aliases) \in Nat
    BY <2>1, <2>2, Zenon DEF SizeFact
  <2> QED BY <2>1, <2>3, Zenon
<1>3. ASSUME NEW a \in m[p].aliases PROVE a \in sp \X UserPages
  <2>1. PICK i \in Index : a[1] \in sp /\ a = <<a[1], Va(i)>> /\ Points(Pte(t, a[1], i), p)
    BY <1>1, Zenon DEF AliasesOf
  <2>2. Va(i) \in UserPages
    BY <2>1, Zenon DEF Counted, CountedAt, Points
  <2>3. <<a[1], Va(i)>> \in sp \X UserPages
    BY <2>1, <2>2
  <2> QED BY <2>1, <2>3, Zenon
<1> QED BY <1>2, <1>3, Zenon

(* The page table entry of s at i is for page p, all others are as in t.   *)
Placed(t, u, sp, s, i, p) == Points(Pte(u, s, i), p) /\ SameBut(t, u, sp, s, i)

(* A page that is taken and lost does no harm.                             *)
LEMMA FewerFree ==
  ASSUME NEW t, NEW nx, NEW mp, NEW fr, NEW sp, Good(t, nx, mp, fr, sp), NEW p
  PROVE  Good(t, nx, mp, fr \ {p}, sp)
<1>1. \A s \in sp, i \in Index : CountedAt(t, mp, fr \ {p}, s, i)
  BY Zenon DEF Good, Counted, CountedAt
<1> QED BY <1>1, Zenon DEF Good, Counted

(* A page that is mapped where there was none.                             *)
LEMMA MapEffect ==
  ASSUME SetFacts, NEW t, NEW nx, NEW mp, NEW fr, NEW sp, Good(t, nx, mp, fr, sp), NEW s \in sp, NEW i \in Index,
         Va(i) \in UserPages, Pte(t, s, i).present = FALSE, NEW p \in Pages, p \in fr
  PROVE  \E u, m : /\ Map(R(t, nx, mp), s, p, Va(i)) = R(u, nx, m)
                   /\ Good(u, nx, m, fr \ {p}, sp) /\ Placed(t, u, sp, s, i, p)
<1> DEFINE u == Put(t, Pt(t, s), i, Fresh(p))
           m4 == [refs |-> 1, aliases |-> {<<s, Va(i)>>}]
           m == [mp EXCEPT ![p] = m4]
<1>1. Shape(t, nx, sp) /\ Counted(t, mp, fr, sp) /\ mp \in [Pages -> Counts(sp)]
  BY Zenon DEF Good
<1>2. mp[p].refs = 0 /\ mp[p].aliases = {}
  BY <1>1, Unused, Zenon
<1>3. Map(R(t, nx, mp), s, p, Va(i)) = R(u, nx, m)
  <2>1. Map(R(t, nx, mp), s, p, Va(i)) = Entered(t, nx, mp, s, p, i)
    BY <1>1, <1>2, MapUser
  <2> QED BY <2>1, Zenon DEF Entered
<1>4. /\ Shape(u, nx, sp) /\ Pte(u, s, i) = Fresh(p)
      /\ \A r \in sp, j \in Index : ~(r = s /\ j = i) => Pte(u, r, j) = Pte(t, r, j)
  BY <1>1, PutFresh
<1> HIDE DEF u
<1>5. Counted(u, m, fr \ {p}, sp)
  BY <1>1, <1>4, CountMapped, Zenon
<1>6. m \in [Pages -> Counts(sp)]
  <2>1. m4 \in Counts(sp)
    BY DEF Counts
  <2> HIDE DEF m4
  <2> QED BY <1>1, <2>1, Zenon
<1>7. Placed(t, u, sp, s, i, p)
  <2>1. Points(Fresh(p), p)
    BY DEF Points, Fresh
  <2> QED BY <1>4, <2>1, Zenon DEF Placed, SameBut
<1> QED BY <1>3, <1>4, <1>5, <1>6, <1>7, Zenon DEF Good

(* The scratch page that cow leaves when it fails.                         *)
ScratchAdded(t, u, sp) == SameRows(t, u, sp) /\ Scratched(u) /\ u[ScratchPt(u)][0].present = TRUE

(* It is seen by nobody.                                                   *)
LEMMA ScratchEffect ==
  ASSUME NEW t, NEW nx, NEW mp, NEW fr, NEW sp, Good(t, nx, mp, fr, sp), NEW s \in sp,
         NEW p \in Pages, nx + 2 <= MaxTables
  PROVE  \E u, nu : /\ Map(R(t, nx, mp), s, p, Scratch) = R(u, nu, mp)
                    /\ Good(u, nu, mp, fr, sp) /\ ScratchAdded(t, u, sp)
<1>1. Shape(t, nx, sp) /\ Counted(t, mp, fr, sp) /\ mp \in [Pages -> Counts(sp)]
  BY Zenon DEF Good
<1>2. PICK u, nu : MapsScratch(Map(R(t, nx, mp), s, p, Scratch), t, u, nu, mp, sp)
  BY <1>1, MapScratch, Zenon
<1>3. Shape(u, nu, sp) /\ SameRows(t, u, sp) /\ Scratched(u)
  BY <1>2, Zenon DEF MapsScratch, ButScratch
<1>4. Counted(u, mp, fr, sp)
  BY <1>1, <1>3, SameCounts, Zenon
<1> QED BY <1>1, <1>2, <1>3, <1>4, Zenon DEF Good, MapsScratch, ScratchAdded

(* cow as a whole.                                                         *)
CowMap(st, s, p, v) == Map(Unmap(Unmap(Map(st, s, p, Scratch), s, v), s, Scratch), s, p, v)

Cowed(st, t, fr, sp, s, i, p, u, nu, m) ==
  st = R(u, nu, m) /\ Good(u, nu, m, fr \ {p}, sp) /\ Placed(t, u, sp, s, i, p)

(* It puts the new page in the place of the shared one.                    *)
LEMMA CowEffect ==
  ASSUME SetFacts, NEW t, NEW nx, NEW mp, NEW fr, NEW sp, Good(t, nx, mp, fr, sp), NEW s \in sp, NEW i \in Index,
         Pte(t, s, i).present = TRUE, mp[Pte(t, s, i).addr].refs > 1,
         NEW p \in Pages, p \in fr, nx + 2 <= MaxTables
  PROVE  \E u, nu, m : Cowed(CowMap(R(t, nx, mp), s, p, Va(i)), t, fr, sp, s, i, p, u, nu, m)
<1> DEFINE q == Pte(t, s, i).addr
           a == <<s, Va(i)>>
<1>1. PICK t1, nu : /\ Map(R(t, nx, mp), s, p, Scratch) = R(t1, nu, mp)
                    /\ Good(t1, nu, mp, fr, sp) /\ ScratchAdded(t, t1, sp)
  BY ScratchEffect, ZenonT(30)
<1>2. Shape(t1, nu, sp) /\ Counted(t1, mp, fr, sp) /\ mp \in [Pages -> Counts(sp)]
  BY <1>1, Zenon DEF Good
<1>3. \A r \in sp, j \in Index : Pte(t1, r, j) = Pte(t, r, j)
  BY <1>1, Zenon DEF ScratchAdded, SameRows, Pte
<1>4. Points(Pte(t1, s, i), q)
  BY <1>3, Zenon DEF Points
<1>5. q \in Pages \ fr /\ Va(i) \in UserPages /\ a \in mp[q].aliases
  BY <1>2, <1>4, Zenon DEF Counted, CountedAt, Points
<1>6. AliasesOf(t1, mp, sp, q) /\ mp[q].refs \in Nat
  BY <1>2, <1>5, AliasCount, Zenon DEF Counted
<1> HIDE DEF q
<1>7. ASSUME NEW b \in Others(mp, q, a) PROVE b[1] \in sp /\ b[1] # s
  <2>1. PICK k \in Index : b[1] \in sp /\ b = <<b[1], Va(k)>>
    BY <1>6, Zenon DEF AliasesOf, Others
  <2>2. b[2] = a[2] /\ b # a
    BY <1>5, <1>6, Zenon DEF AliasesOf, Others
  <2>3. Va(k) = Va(i)
    BY <2>1, <2>2, Pairs
  <2> QED BY <2>1, <2>2, <2>3, Zenon
<1>8. PICK t2 : /\ Unmap(R(t1, nu, mp), s, Va(i)) = R(t2, nu, [mp EXCEPT ![q] = LessOne(mp, q, a)])
                /\ Without(t1, t2, nu, sp, s, i, Freed(mp, q, a))
  BY <1>2, <1>4, <1>6, <1>7, UnmapUser, Zenon DEF Points, q
<1> DEFINE m2 == [mp EXCEPT ![q] = LessOne(mp, q, a)]
<1>9. Counted(t2, m2, fr, sp) /\ SameBut(t1, t2, sp, s, i)
  BY <1>2, <1>4, <1>5, <1>8, CountUnmapped, Zenon DEF q
<1>10. m2 \in [Pages -> Counts(sp)]
  <2>1. mp[q] \in Counts(sp) /\ mp[q].refs > 1
    BY <1>2, <1>5, Zenon DEF q
  <2>2. LessOne(mp, q, a) \in Counts(sp)
    BY <2>1 DEF LessOne, Others, Counts
  <2> QED BY <1>2, <2>2, Zenon
<1> HIDE DEF m2
<1>11. /\ Shape(t2, nu, sp) /\ Scratched(t2) /\ t2[ScratchPt(t2)][0].present = TRUE
       /\ Pte(t2, s, i) = Null
  BY <1>1, <1>8, Zenon DEF Without, ScratchAdded
<1>12. PICK t3 : Unmap(R(t2, nu, m2), s, Scratch) = R(t3, nu, m2) /\ ButScratch(t2, t3, nu, sp)
  BY <1>11, UnmapScratch, Zenon
<1>13. Shape(t3, nu, sp) /\ SameRows(t2, t3, sp)
  BY <1>12, Zenon DEF ButScratch
<1>14. Counted(t3, m2, fr, sp)
  BY <1>9, <1>13, SameCounts, Zenon
<1>15. Good(t3, nu, m2, fr, sp)
  BY <1>10, <1>13, <1>14, Zenon DEF Good
<1>16. \A r \in sp, j \in Index : Pte(t3, r, j) = Pte(t2, r, j)
  BY <1>13, Zenon DEF SameRows, Pte
<1>17. Pte(t3, s, i).present = FALSE
  <2>1. Null.present = FALSE
    BY DEF Null
  <2> QED BY <1>11, <1>16, <2>1, Zenon
<1>18. PICK u, m : /\ Map(R(t3, nu, m2), s, p, Va(i)) = R(u, nu, m)
                   /\ Good(u, nu, m, fr \ {p}, sp) /\ Placed(t3, u, sp, s, i, p)
  BY <1>5, <1>15, <1>17, MapEffect, Zenon
<1>19. Placed(t, u, sp, s, i, p)
  <2>1. ASSUME NEW r \in sp, NEW j \in Index, ~(r = s /\ j = i)
        PROVE  Pte(u, r, j).present = Pte(t, r, j).present /\ Pte(u, r, j).addr = Pte(t, r, j).addr
    <3>1. /\ Pte(u, r, j).present = Pte(t3, r, j).present /\ Pte(u, r, j).addr = Pte(t3, r, j).addr
      BY <1>18, <2>1, Zenon DEF Placed, SameBut
    <3>2. /\ Pte(t2, r, j).present = Pte(t1, r, j).present /\ Pte(t2, r, j).addr = Pte(t1, r, j).addr
      BY <1>9, <2>1, Zenon DEF SameBut
    <3>3. Pte(t3, r, j) = Pte(t2, r, j) /\ Pte(t1, r, j) = Pte(t, r, j)
      BY <1>3, <1>16, Zenon
    <3> QED BY <3>1, <3>2, <3>3, Zenon
  <2> QED BY <1>18, <2>1, Zenon DEF Placed, SameBut
<1>20. CowMap(R(t, nx, mp), s, p, Va(i)) = R(u, nu, m)
  BY <1>1, <1>8, <1>12, <1>18, Zenon DEF m2, CowMap
<1> QED BY <1>18, <1>19, <1>20, Zenon DEF Cowed

(* fork as a whole.                                                        *)
LEMMA ForkEffect ==
  ASSUME SetFacts, NEW t, NEW nx, NEW mp, NEW fr, NEW sp, Good(t, nx, mp, fr, sp), NEW s \in sp
  PROVE  \E u, m :
           /\ CloneSpace(R(t, nx, mp), s) = R(u, nx + 4, m)
           /\ nx + 4 <= MaxTables =>
                Good(u, nx + 4, m, fr, sp \cup {nx}) /\ nx \notin sp /\ SameForked(t, u, nx, sp, s)
<1> DEFINE u == Copied(Grown(t, nx, s), Pt(t, s), nx + 3)
           m == Recounted(mp, t[Pt(t, s)], nx, <<0, 0, 0>>)
<1>1. Shape(t, nx, sp) /\ Counted(t, mp, fr, sp) /\ mp \in [Pages -> Counts(sp)]
  BY Zenon DEF Good
<1>2. CloneSpace(R(t, nx, mp), s) = R(u, nx + 4, m)
  BY <1>1, CloneSpaceIs, Zenon
<1>3. Forked(t, u, nx, s)
  BY <1>1, GrownForked, Zenon
<1>4. m = [p \in Pages |-> m[p]] /\ \A p \in Pages : m[p] = [refs |-> m[p].refs, aliases |-> m[p].aliases]
  <2> DEFINE A(p) == mp[p].refs + Cardinality(SharedAt(t[Pt(t, s)], p))
             B(p) == mp[p].aliases \cup {<<nx, Append(<<0, 0, 0>>, i)>> : i \in SharedAt(t[Pt(t, s)], p)}
  <2>1. m = [p \in Pages |-> [refs |-> A(p), aliases |-> B(p)]]
    BY Zenon DEF Recounted
  <2> HIDE DEF m, A, B
  <2>2. \A p \in Pages : m[p] = [refs |-> A(p), aliases |-> B(p)]
    BY <2>1, Zenon
  <2>3. m = [p \in Pages |-> m[p]]
    BY <2>1, Zenon
  <2> QED BY <2>2, <2>3
<1> HIDE DEF u, m
<1>6. ASSUME nx + 4 <= MaxTables
      PROVE  Good(u, nx + 4, m, fr, sp \cup {nx}) /\ nx \notin sp /\ SameForked(t, u, nx, sp, s)
  <2>1. NewSpace(t, u, nx, sp)
    BY <1>1, <1>3, <1>6, ForkShape, Zenon
  <2>2. SameForked(t, u, nx, sp, s)
    BY <1>1, <1>3, <2>1, ForkEntries, Zenon
  <2>3. Counted(u, m, fr, sp \cup {nx})
    BY <1>1, <1>3, <2>1, CountForked, Zenon DEF m
  <2>4. \A p \in Pages : m[p].refs \in Nat /\ m[p].aliases \in SUBSET ((sp \cup {nx}) \X UserPages)
    BY <2>3, AliasesIn, Zenon
  <2>5. \A p \in Pages : m[p] \in Counts(sp \cup {nx})
    <3> TAKE p \in Pages
    <3>1. m[p] = [refs |-> m[p].refs, aliases |-> m[p].aliases]
      BY <1>4, Zenon
    <3> DEFINE C == SUBSET ((sp \cup {nx}) \X UserPages)
    <3>2. m[p].refs \in Nat /\ m[p].aliases \in C
      BY <2>4, Zenon
    <3> HIDE DEF C
    <3>3. [refs |-> m[p].refs, aliases |-> m[p].aliases] \in [refs : Nat, aliases : C]
      BY <3>2
    <3> QED BY <3>1, <3>3, Zenon DEF Counts, C
  <2>6. m \in [Pages -> Counts(sp \cup {nx})]
    BY <1>4, <2>5, Zenon
  <2> QED BY <2>1, <2>2, <2>3, <2>6, Zenon DEF Good, NewSpace
<1> QED BY <1>2, <1>6, Zenon

(* A page that is read-only is shared.                                     *)
LEMMA ReadOnlyShared ==
  ASSUME SetFacts, NEW t, NEW nx, NEW mp, NEW fr, NEW sp, Good(t, nx, mp, fr, sp), NEW s \in sp, NEW i \in Index,
         Pte(t, s, i).present = TRUE
  PROVE  /\ Pte(t, s, i).addr \in Pages \ fr
         /\ <<s, Va(i)>> \in mp[Pte(t, s, i).addr].aliases
         /\ Pte(t, s, i).rw = TRUE <=> mp[Pte(t, s, i).addr].refs = 1
         /\ Pte(t, s, i).rw # TRUE => mp[Pte(t, s, i).addr].refs > 1
<1>1. CountedAt(t, mp, fr, s, i)
  BY Zenon DEF Good, Counted
<1>2. /\ Pte(t, s, i).addr \in Pages \ fr
      /\ <<s, Va(i)>> \in mp[Pte(t, s, i).addr].aliases
      /\ Pte(t, s, i).rw = TRUE <=> mp[Pte(t, s, i).addr].refs = 1
  BY <1>1, Zenon DEF CountedAt
<1>3. AliasesOf(t, mp, sp, Pte(t, s, i).addr)
  BY <1>2, Zenon DEF Good, Counted
<1>4. mp[Pte(t, s, i).addr].refs \in Nat /\ mp[Pte(t, s, i).addr].refs >= 1
  BY <1>2, <1>3, AliasCount, Zenon
<1>5. Pte(t, s, i).rw # TRUE => mp[Pte(t, s, i).addr].refs > 1
  <2> SUFFICES ASSUME Pte(t, s, i).rw # TRUE PROVE mp[Pte(t, s, i).addr].refs > 1
    BY Zenon
  <2>1. mp[Pte(t, s, i).addr].refs # 1
    BY <1>2, Zenon
  <2> QED BY <1>4, <2>1
<1> QED BY <1>2, <1>5, Zenon

(* What unmap asserts of it holds.                                         *)
LEMMA UnmapAssertsHold ==
  ASSUME SetFacts, NEW t, NEW nx, NEW mp, NEW fr, NEW sp, Good(t, nx, mp, fr, sp), NEW s \in sp, NEW i \in Index,
         Pte(t, s, i).present = TRUE, mp[Pte(t, s, i).addr].refs > 1
  PROVE  UnmapAsserts(R(t, nx, mp), s, Va(i))
<1> DEFINE p == Pte(t, s, i).addr
<1>1. Shape(t, nx, sp) /\ p \in Pages /\ AliasesOf(t, mp, sp, p) /\ <<s, Va(i)>> \in mp[p].aliases
  <2>1. p \in Pages /\ <<s, Va(i)>> \in mp[p].aliases
    BY ReadOnlyShared, Zenon
  <2> QED BY <2>1, Zenon DEF Good, Counted
<1> HIDE DEF p
<1>2. \A l \in Leaf(t, s, Va(i)) : l.page = p
  BY <1>1, LeafIs, Zenon DEF p
<1>3. mp[p].refs >= 1 /\ mp[p].refs = Cardinality(mp[p].aliases)
  BY <1>1, AliasCount, Zenon DEF AliasesOf
<1>4. ASSUME NEW a \in mp[p].aliases
      PROVE  Leaf(t, a[1], Va(i)) # {}
  <2>1. PICK j \in Index : a[1] \in sp /\ a = <<a[1], Va(j)>> /\ Points(Pte(t, a[1], j), p)
    BY <1>1, Zenon DEF AliasesOf
  <2>2. a[2] = <<s, Va(i)>>[2]
    BY <1>1, Zenon DEF AliasesOf
  <2>3. Va(j) = Va(i)
    <3>1. <<a[1], Va(j)>>[2] = Va(j) /\ <<s, Va(i)>>[2] = Va(i)
      BY Pairs, Zenon
    <3> QED BY <2>1, <2>2, <3>1, Zenon
  <2>4. Pte(t, a[1], i).present = TRUE
    BY <2>1, <2>3, VaFacts, Zenon DEF Points
  <2> QED BY <1>1, <2>1, <2>4, LeafIs, Zenon
<1>5. R(t, nx, mp).tables = t /\ R(t, nx, mp).mapped = mp
  BY DEF R
<1>6. \A l \in Leaf(t, s, Va(i)) :
        /\ mp[l.page].refs >= 1
        /\ mp[l.page].refs > 1 => <<s, Va(i)>> \in mp[l.page].aliases
        /\ mp[l.page].refs = 2 => /\ Cardinality(mp[l.page].aliases) = 2
                                  /\ \A a \in mp[l.page].aliases : Leaf(t, a[1], Va(i)) # {}
  BY <1>1, <1>2, <1>3, <1>4, Zenon
<1> QED BY <1>5, <1>6, Zenon DEF UnmapAsserts

-----------------------------------------------------------------------------
(* What programs see: entry i of the page table of s, through memory me.   *)
SeenAt(t, me, s, i) == IF Pte(t, s, i).present = TRUE THEN me[Pte(t, s, i).addr] ELSE Unmapped

SeenBut(t, u, me, mf, sp, s, i) ==
  \A r \in sp, j \in Index : ~(r = s /\ j = i) => SeenAt(u, mf, r, j) = SeenAt(t, me, r, j)

SameSeen(t, u, me, mf, sp) == \A r \in sp, j \in Index : SeenAt(u, mf, r, j) = SeenAt(t, me, r, j)

(* A page taken from the allocator is seen nowhere.                        *)
LEMMA FreeUnseen ==
  ASSUME SetFacts, NEW t, NEW nx, NEW mp, NEW fr, NEW sp, Good(t, nx, mp, fr, sp),
         NEW me \in [Pages -> Values], NEW p \in fr, NEW x, NEW mf, mf = [me EXCEPT ![p] = x]
  PROVE  SameSeen(t, t, me, mf, sp)
<1> SUFFICES ASSUME NEW r \in sp, NEW j \in Index PROVE SeenAt(t, mf, r, j) = SeenAt(t, me, r, j)
  BY Zenon DEF SameSeen
<1>1. Pte(t, r, j).present = TRUE => Pte(t, r, j).addr \in Pages \ fr
  BY ReadOnlyShared, Zenon
<1>2. \A q \in Pages \ fr : mf[q] = me[q]
  OBVIOUS
<1> QED BY <1>1, <1>2, Zenon DEF SeenAt

(* Entries that have not moved read as before.                             *)
PlacedBut(t, u, me, sp, s, i, p) == SeenBut(t, u, me, me, sp, s, i) /\ SeenAt(u, me, s, i) = me[p]

(* The entry that was placed reads as its page.                            *)
LEMMA PlacedSeen ==
  ASSUME NEW t, NEW u, NEW sp, NEW s, NEW i, NEW p, Placed(t, u, sp, s, i, p), NEW me
  PROVE  PlacedBut(t, u, me, sp, s, i, p)
BY Zenon DEF PlacedBut, SeenBut, SeenAt, Placed, SameBut, Points

-----------------------------------------------------------------------------
(* What a step does, as programs see it: nothing; one address of the       *)
(* address space in use comes into being, or is written; fork; switch.     *)
Stays == spaces' = spaces /\ cr3' = cr3
Quiet == Stays /\ SameSeen(tables, tables', mem, mem', spaces)

Changes(i) ==
  /\ Stays /\ Va(i) \in UserPages
  /\ SeenBut(tables, tables', mem, mem', spaces, cr3, i)
  /\ SeenAt(tables', mem', cr3, i) \in Values

Maps == \E i \in Index : SeenAt(tables, mem, cr3, i) = Unmapped /\ Changes(i)
Writes == tables' = tables /\ \E i \in Index : SeenAt(tables, mem, cr3, i) # Unmapped /\ Changes(i)

Forks ==
  /\ cr3' = cr3 /\ mem' = mem
  /\ spaces' = spaces \cup {next} /\ next \in 0 .. MaxTables /\ next \notin spaces
  /\ SameForked(tables, tables', next, spaces, cr3)

Switches == UNCHANGED <<tables, mem, spaces>> /\ cr3' \in spaces

(* What a step writes back.                                                *)
LEMMA UpdateIs ==
  ASSUME NEW u, NEW n, NEW m, Update(R(u, n, m))
  PROVE  tables' = u /\ next' = n /\ mapped_pages' = m
BY DEF Update, R

(* A step that stops the system, or that leaves everything but `free`.     *)
LEMMA StopStep ==
  ASSUME IInv, NEW why, why # "assert", Stop(why)
  PROVE  IInv' /\ Quiet
BY Zenon DEF Stop, IInv, Quiet, Stays, SameSeen

(* A fault on a page that is not present maps one, or loses one.           *)
LEMMA FaultNotPresentStep ==
  ASSUME SetFacts, OnePageTable, IInv, NEW v \in UserPages, NEW aligned, FaultNotPresent(v, aligned)
  PROVE  IInv' /\ (Quiet \/ Maps)
<1>1. CASE Stop("memory")
  BY <1>1, StopStep
<1>2. CASE free # {} /\ free' = free \ {Lowest(free)} /\ ~aligned
           /\ UNCHANGED <<tables, next, mapped_pages, mem, cr3, spaces, stopped>>
  <2>1. Good(tables, next, mapped_pages, free \ {Lowest(free)}, spaces)
    BY FewerFree, Zenon DEF IInv
  <2> QED BY <1>2, <2>1, Zenon DEF IInv, Quiet, Stays, SameSeen
<1>3. CASE free # {} /\ free' = free \ {Lowest(free)} /\ Leaf(tables, cr3, v) = {}
           /\ Update(Map(State, cr3, Lowest(free), v)) /\ UNCHANGED <<mem, cr3, spaces, stopped>>
  <2> DEFINE p == Lowest(free)
  <2>1. p \in free /\ p \in Pages
    BY <1>3, LowestIn, Zenon DEF IInv
  <2> HIDE DEF p
  <2>2. PICK i \in Index : v = Va(i)
    BY UserVa, Zenon
  <2>3. Good(tables, next, mapped_pages, free, spaces) /\ Shape(tables, next, spaces) /\ cr3 \in spaces
    BY Zenon DEF IInv, Good
  <2>4. Pte(tables, cr3, i).present = FALSE
    BY <1>3, <2>2, <2>3, LeafIs, Zenon
  <2>5. PICK u, m : /\ Map(R(tables, next, mapped_pages), cr3, p, Va(i)) = R(u, next, m)
                    /\ Good(u, next, m, free \ {p}, spaces) /\ Placed(tables, u, spaces, cr3, i, p)
    BY <2>1, <2>2, <2>3, <2>4, MapEffect, Zenon
  <2>6. Update(R(u, next, m))
    BY <1>3, <2>2, <2>5, StateIs, Zenon DEF p
  <2>7. tables' = u /\ next' = next /\ mapped_pages' = m
    BY <2>6, UpdateIs, Zenon
  <2>8. IInv'
    BY <1>3, <2>5, <2>7, Zenon DEF IInv, p
  <2>9. SeenBut(tables, u, mem, mem, spaces, cr3, i) /\ SeenAt(u, mem, cr3, i) = mem[p]
    <3>1. PlacedBut(tables, u, mem, spaces, cr3, i, p)
      BY <2>5, PlacedSeen, Zenon
    <3> QED BY <3>1, Zenon DEF PlacedBut
  <2>10. mem[p] \in Values
    BY <2>1, Zenon DEF IInv
  <2>11. SeenAt(tables, mem, cr3, i) = Unmapped
    BY <2>4, Zenon DEF SeenAt
  <2>12. Changes(i)
    BY <1>3, <2>2, <2>7, <2>9, <2>10, Zenon DEF Changes, Stays
  <2> QED BY <2>8, <2>11, <2>12, Zenon DEF Maps
<1> QED BY <1>1, <1>2, <1>3, Zenon DEF FaultNotPresent

(* Copy-on-write is not seen.                                              *)
LEMMA CowStep ==
  ASSUME SetFacts, IInv, NEW i \in Index, NEW leaf \in Leaf(tables, cr3, Va(i)),
         mapped_pages[leaf.page].refs > 1, free # {}, next + 2 <= MaxTables, Cow(Va(i), leaf)
  PROVE  IInv' /\ Quiet
<1> DEFINE p == Lowest(free)
           q == leaf.page
<1>1. p \in free /\ p \in Pages
  BY LowestIn, Zenon DEF IInv
<1>2. Good(tables, next, mapped_pages, free, spaces) /\ Shape(tables, next, spaces) /\ cr3 \in spaces
  BY Zenon DEF IInv, Good
<1>3. Pte(tables, cr3, i).present = TRUE /\ q = Pte(tables, cr3, i).addr
  BY <1>2, LeafIs, Zenon
<1> HIDE DEF p, q
<1>4. PICK u, nu, m : Cowed(CowMap(R(tables, next, mapped_pages), cr3, p, Va(i)),
                            tables, free, spaces, cr3, i, p, u, nu, m)
  <2>1. mapped_pages[Pte(tables, cr3, i).addr].refs > 1
    BY <1>3, Zenon DEF q
  <2> QED BY <1>1, <1>2, <1>3, <2>1, CowEffect, Zenon
<1>40. /\ CowMap(R(tables, next, mapped_pages), cr3, p, Va(i)) = R(u, nu, m)
       /\ Good(u, nu, m, free \ {p}, spaces) /\ Placed(tables, u, spaces, cr3, i, p)
  BY <1>4, Zenon DEF Cowed
<1>5. /\ Update(R(u, nu, m)) /\ mem' = [mem EXCEPT ![p] = mem[q]] /\ free' = free \ {p}
      /\ UNCHANGED <<cr3, spaces, stopped>>
  BY <1>40, StateIs, Zenon DEF Cow, CowMap, p, q
<1>6. tables' = u /\ next' = nu /\ mapped_pages' = m
  BY <1>5, UpdateIs, Zenon
<1>7. mem \in [Pages -> Values] /\ q \in Pages
  BY <1>2, <1>3, ReadOnlyShared, Zenon DEF IInv
<1>8. mem' \in [Pages -> Values] /\ mem'[p] = mem[q]
  BY <1>1, <1>5, <1>7
<1>9. IInv'
  BY <1>40, <1>5, <1>6, <1>8, Zenon DEF IInv
<1>10. SeenBut(tables, u, mem', mem', spaces, cr3, i) /\ SeenAt(u, mem', cr3, i) = mem'[p]
  <2>1. PlacedBut(tables, u, mem', spaces, cr3, i, p)
    BY <1>40, PlacedSeen, Zenon
  <2> QED BY <2>1, Zenon DEF PlacedBut
<1>11. \A r \in spaces, j \in Index : SeenAt(tables, mem', r, j) = SeenAt(tables, mem, r, j)
  <2>1. SameSeen(tables, tables, mem, mem', spaces)
    BY <1>1, <1>2, <1>5, <1>7, FreeUnseen, Zenon
  <2> QED BY <2>1, Zenon DEF SameSeen
<1>12. SeenAt(tables, mem, cr3, i) = mem[q]
  BY <1>3, Zenon DEF SeenAt
<1>13. SameSeen(tables, u, mem, mem', spaces)
  BY <1>8, <1>10, <1>11, <1>12, Zenon DEF SameSeen, SeenBut
<1> QED BY <1>5, <1>6, <1>9, <1>13, Zenon DEF Quiet, Stays

(* Nor is the one that fails.                                              *)
LEMMA CowInsideStep ==
  ASSUME SetFacts, IInv, NEW v, free # {}, next + 2 <= MaxTables, CowInside(v)
  PROVE  IInv' /\ Quiet
<1>1. CASE Stop("hang")
  BY <1>1, StopStep
<1>2. ASSUME Update(Map(State, cr3, Lowest(free), Scratch)), free' = free \ {Lowest(free)},
             NEW x \in Values, mem' = [mem EXCEPT ![Lowest(free)] = x], UNCHANGED <<cr3, spaces, stopped>>
      PROVE  IInv' /\ Quiet
  <2> DEFINE p == Lowest(free)
  <2>1. p \in free /\ p \in Pages
    BY LowestIn, Zenon DEF IInv
  <2> HIDE DEF p
  <2>2. Good(tables, next, mapped_pages, free, spaces) /\ cr3 \in spaces /\ mem \in [Pages -> Values]
    BY Zenon DEF IInv
  <2>3. PICK u, nu : /\ Map(R(tables, next, mapped_pages), cr3, p, Scratch) = R(u, nu, mapped_pages)
                     /\ Good(u, nu, mapped_pages, free, spaces) /\ ScratchAdded(tables, u, spaces)
    BY <2>1, <2>2, ScratchEffect, ZenonT(30)
  <2>4. Update(R(u, nu, mapped_pages))
    BY <1>2, <2>3, StateIs, Zenon DEF p
  <2>5. tables' = u /\ next' = nu /\ mapped_pages' = mapped_pages
    BY <2>4, UpdateIs, Zenon
  <2>6. Good(u, nu, mapped_pages, free \ {p}, spaces)
    BY <2>3, FewerFree, Zenon
  <2>7. mem' = [mem EXCEPT ![p] = x]
    BY <1>2, Zenon DEF p
  <2>8. mem' \in [Pages -> Values]
    BY <2>1, <2>2, <2>7, <1>2
  <2>9. IInv'
    BY <1>2, <2>5, <2>6, <2>8, Zenon DEF IInv, p
  <2>10. \A r \in spaces, j \in Index : SeenAt(tables, mem', r, j) = SeenAt(tables, mem, r, j)
    <3>1. SameSeen(tables, tables, mem, mem', spaces)
      BY <2>1, <2>2, <2>7, FreeUnseen, Zenon
    <3> QED BY <3>1, Zenon DEF SameSeen
  <2>11. \A r \in spaces, j \in Index : Pte(u, r, j) = Pte(tables, r, j)
    BY <2>3, Zenon DEF ScratchAdded, SameRows, Pte
  <2>12. SameSeen(tables, u, mem, mem', spaces)
    BY <2>10, <2>11, Zenon DEF SameSeen, SeenAt
  <2> QED BY <1>2, <2>5, <2>9, <2>12, Zenon DEF Quiet, Stays
<1> QED BY <1>1, <1>2, Zenon DEF CowInside

(* A fault on a read-only page is not seen, and trips no assertion.        *)
LEMMA FaultReadOnlyStep ==
  ASSUME SetFacts, OnePageTable, IInv, NEW v \in UserPages, NEW aligned, FaultReadOnly(v, aligned)
  PROVE  IInv' /\ Quiet
<1>1. PICK leaf \in Leaf(tables, cr3, v) :
        /\ ~leaf.rw
        /\ IF mapped_pages[leaf.page].refs <= 1 \/ ~UnmapAsserts(State, cr3, v)
           THEN Stop("assert")
           ELSE \/ /\ free = {}
                   /\ Stop("memory")
                \/ /\ free # {}
                   /\ next + 2 <= MaxTables
                   /\ IF aligned THEN Cow(v, leaf) ELSE CowInside(v)
  BY Zenon DEF FaultReadOnly
<1>2. PICK i \in Index : v = Va(i)
  BY UserVa, Zenon
<1>3. Good(tables, next, mapped_pages, free, spaces) /\ Shape(tables, next, spaces) /\ cr3 \in spaces
  BY Zenon DEF IInv, Good
<1>4. /\ Pte(tables, cr3, i).present = TRUE /\ leaf.page = Pte(tables, cr3, i).addr
      /\ leaf.rw = Pte(tables, cr3, i).rw
  BY <1>2, <1>3, LeafIs, Zenon
<1>5. mapped_pages[leaf.page].refs > 1
  <2>1. Pte(tables, cr3, i).rw # TRUE
    BY <1>1, <1>4, Zenon
  <2>2. mapped_pages[Pte(tables, cr3, i).addr].refs > 1
    BY <1>3, <1>4, <2>1, ReadOnlyShared, Zenon
  <2> QED BY <1>4, <2>2, Zenon
<1>6. UnmapAsserts(State, cr3, v)
  <2>1. UnmapAsserts(R(tables, next, mapped_pages), cr3, Va(i))
    BY <1>3, <1>4, <1>5, UnmapAssertsHold, Zenon
  <2> QED BY <1>2, <2>1, StateIs, Zenon
<1>7. ~(mapped_pages[leaf.page].refs <= 1)
  <2>1. mapped_pages \in [Pages -> Counts(spaces)] /\ leaf.page \in Pages
    BY <1>3, <1>4, ReadOnlyShared, Zenon DEF Good
  <2>2. mapped_pages[leaf.page].refs \in Nat
    BY <2>1 DEF Counts
  <2> QED BY <1>5, <2>2
<1>8. CASE Stop("memory")
  BY <1>8, StopStep
<1>9. CASE free # {} /\ next + 2 <= MaxTables /\ Cow(v, leaf)
  BY <1>2, <1>5, <1>9, CowStep, Zenon
<1>10. CASE free # {} /\ next + 2 <= MaxTables /\ CowInside(v)
  BY <1>10, CowInsideStep, Zenon
<1> QED BY <1>1, <1>6, <1>7, <1>8, <1>9, <1>10, Zenon

(* A write changes one address of one address space.                       *)
LEMMA WriteStep ==
  ASSUME SetFacts, OnePageTable, IInv, NEW v \in UserPages, Write(v)
  PROVE  IInv' /\ Writes
<1>1. PICK leaf \in Leaf(tables, cr3, v), x \in Values :
        leaf.rw /\ leaf.page \in Pages /\ mem' = [mem EXCEPT ![leaf.page] = x]
  BY Zenon DEF Write
<1>2. UNCHANGED <<tables, next, mapped_pages, free, cr3, spaces, stopped>>
  BY Zenon DEF Write
<1>3. PICK i \in Index : v = Va(i)
  BY UserVa, Zenon
<1>4. /\ Good(tables, next, mapped_pages, free, spaces) /\ Shape(tables, next, spaces)
      /\ cr3 \in spaces /\ mem \in [Pages -> Values]
  BY Zenon DEF IInv, Good
<1> DEFINE q == Pte(tables, cr3, i).addr
<1>5. Pte(tables, cr3, i).present = TRUE /\ leaf.page = q /\ leaf.rw = Pte(tables, cr3, i).rw
  BY <1>3, <1>4, LeafIs, Zenon
<1>6. Pte(tables, cr3, i).rw = TRUE
  <2>1. Pte(tables, cr3, i) \in Entry
    BY <1>4, PteIn, Zenon
  <2>2. Pte(tables, cr3, i).rw \in BOOLEAN
    BY <2>1 DEF Entry
  <2> QED BY <1>1, <1>5, <2>2, Zenon
<1>7. q \in Pages /\ <<cr3, Va(i)>> \in mapped_pages[q].aliases /\ mapped_pages[q].refs = 1
  <2>1. CountedAt(tables, mapped_pages, free, cr3, i)
    BY <1>4, Zenon DEF Good, Counted
  <2> QED BY <1>5, <1>6, <2>1, Zenon DEF CountedAt
<1> HIDE DEF q
<1>8. mapped_pages[q].aliases = {<<cr3, Va(i)>>}
  <2> DEFINE a == <<cr3, Va(i)>>
  <2>1. AliasesOf(tables, mapped_pages, spaces, q)
    BY <1>4, <1>7, Zenon DEF Good, Counted
  <2>2. a \in mapped_pages[q].aliases
    BY <1>7, Zenon
  <2> HIDE DEF a
  <2>3. mapped_pages[q].refs = 1 => mapped_pages[q].aliases = {a}
    BY <2>1, <2>2, AliasCount
  <2> QED BY <1>7, <2>3, Zenon DEF a
<1>9. mem' = [mem EXCEPT ![q] = x] /\ x \in Values
  BY <1>1, <1>5, Zenon
<1>10. mem' \in [Pages -> Values] /\ mem'[q] = x /\ \A p \in Pages : p # q => mem'[p] = mem[p]
  BY <1>4, <1>7, <1>9
<1>11. IInv'
  BY <1>2, <1>10, Zenon DEF IInv
<1>12. ASSUME NEW r \in spaces, NEW j \in Index, ~(r = cr3 /\ j = i)
       PROVE  SeenAt(tables, mem', r, j) = SeenAt(tables, mem, r, j)
  <2>1. CASE Pte(tables, r, j).present = TRUE
    <3>1. Pte(tables, r, j).addr \in Pages /\ <<r, Va(j)>> \in mapped_pages[Pte(tables, r, j).addr].aliases
      BY <1>4, <2>1, ReadOnlyShared, Zenon
    <3>2. <<r, Va(j)>> # <<cr3, Va(i)>>
      BY <1>12, Pairs, VaFacts, Zenon
    <3>3. Pte(tables, r, j).addr # q
      BY <1>8, <3>1, <3>2, Zenon
    <3> QED BY <1>10, <3>1, <3>3, Zenon DEF SeenAt
  <2> QED BY <2>1, Zenon DEF SeenAt
<1>13. SeenAt(tables, mem', cr3, i) = x /\ SeenAt(tables, mem, cr3, i) = mem[q]
  BY <1>5, <1>10, Zenon DEF SeenAt, q
<1>14. \A y \in Values : y # Unmapped
  BY DEF Values, Unmapped
<1>15. SeenAt(tables, mem, cr3, i) # Unmapped
  BY <1>4, <1>7, <1>13, <1>14, Zenon
<1>16. Changes(i)
  BY <1>2, <1>3, <1>9, <1>12, <1>13, Zenon DEF Changes, Stays, SeenBut
<1> QED BY <1>2, <1>11, <1>15, <1>16, Zenon DEF Writes

(* fork makes an address space that reads as the one in use.               *)
LEMMA ForkStep ==
  ASSUME SetFacts, IInv, Fork
  PROVE  IInv' /\ Forks
<1>1. Good(tables, next, mapped_pages, free, spaces) /\ cr3 \in spaces /\ next \in Nat
  BY Zenon DEF IInv, Good, Shape
<1>2. PICK u, m :
        /\ CloneSpace(R(tables, next, mapped_pages), cr3) = R(u, next + 4, m)
        /\ next + 4 <= MaxTables =>
             /\ Good(u, next + 4, m, free, spaces \cup {next}) /\ next \notin spaces
             /\ SameForked(tables, u, next, spaces, cr3)
  BY <1>1, ForkEffect, Zenon
<1>3. R(u, next + 4, m).next = next + 4
  BY DEF R
<1>4. next + 4 <= MaxTables /\ Update(R(u, next + 4, m)) /\ spaces' = spaces \cup {next}
      /\ UNCHANGED <<free, mem, cr3, stopped>>
  BY <1>2, <1>3, StateIs, Zenon DEF Fork
<1>5. tables' = u /\ next' = next + 4 /\ mapped_pages' = m
  BY <1>4, UpdateIs, Zenon
<1>6. IInv'
  BY <1>1, <1>2, <1>4, <1>5, Zenon DEF IInv
<1>7. next \in 0 .. MaxTables
  BY <1>1, <1>4, MapperAssumption
<1> QED BY <1>2, <1>4, <1>5, <1>6, <1>7, Zenon DEF Forks

(* A switch changes cr3 only.                                              *)
LEMMA SwitchStep ==
  ASSUME IInv, Switch
  PROVE  IInv' /\ Switches
BY Zenon DEF IInv, Switch, Switches

-----------------------------------------------------------------------------
(* init_mm.  The tables before and after those of the first page are made. *)
Region == [k \in Tables |-> [i \in Index |-> Null]]
Booted == Put(Region, 0, 1, Fresh(1))
Chained(n) == Put(Put(Put(Booted, 0, 0, Fresh(n)), n, 0, Fresh(n + 1)), n + 1, 0, Fresh(n + 2))
NoCounts == [p \in Pages |-> NotMapped]

ChainedIs(u, n) ==
  /\ u \in [Tables -> [Index -> Entry]]
  /\ \A m \in Tables : m # 0 /\ m # n /\ m # n + 1 => u[m] = [i \in Index |-> Null]
  /\ Points(u[0][0], n) /\ Points(u[0][1], 1)
  /\ Points(u[n][0], n + 1) /\ Points(u[n + 1][0], n + 2)
  /\ \A i \in Index \ {0} : u[n][i] = Null /\ u[n + 1][i] = Null

(* The empty entry.                                                        *)
LEMMA NullIs == Null \in Entry /\ Null.present = FALSE
BY DEF Null, Entry

(* The state of a new Mapper.                                              *)
LEMMA BootStateIs ==
  ASSUME NEW n
  PROVE  BootState(n) = R(Booted, n, NoCounts)
BY DEF BootState, R, Booted, Region, NoCounts, Put, Fresh, Tables

Makes(t, nx, mp, n, i) == WalkOrCreate(R(t, nx, mp), n, i) = R(Put(t, n, i, Fresh(nx)), nx + 1, mp)

(* walk_or_create_table where there is no table.                           *)
LEMMA WalkMakes ==
  ASSUME NEW t, NEW nx, NEW mp, NEW n, NEW i, t[n][i].present = FALSE
  PROVE  Makes(t, nx, mp, n, i)
<1>1. R(t, nx, mp).tables = t /\ R(t, nx, mp).next = nx
  BY DEF R
<1>2. WalkOrCreate(R(t, nx, mp), n, i) = TakeTable(R(t, nx, mp), n, i, Fresh(nx))
  BY <1>1, Zenon DEF WalkOrCreate, Fresh
<1> QED BY <1>2, TakeTableIs DEF Makes

(* The tables that map makes for the first page.                           *)
LEMMA BootTables ==
  ASSUME NEW n \in FirstTables
  PROVE  /\ ChainedIs(Chained(n), n)
         /\ MakeTables(BootState(n), 0, Va(0)) = [state |-> R(Chained(n), n + 3, NoCounts), pt |-> n + 2]
<1> DEFINE k == n + 1
           t1 == Put(Booted, 0, 0, Fresh(n))
           t2 == Put(t1, n, 0, Fresh(k))
           t3 == Put(t2, k, 0, Fresh(n + 2))
<1>1. /\ n \in Nat /\ n > 1 /\ n \in Tables /\ n + 1 \in Tables /\ n # 0 /\ n + 1 # 0 /\ n # n + 1
      /\ n # 1 /\ n + 1 # 1
  BY MapperAssumption DEF Tables, Slack
<1>2. 0 \in Tables /\ 1 \in Tables /\ 0 \in Index /\ 1 \in Index /\ 0 # 1
  BY Sizes
<1>3. Fresh(1) \in Entry /\ Fresh(n) \in Entry /\ Fresh(k) \in Entry /\ Fresh(n + 2) \in Entry
  BY <1>1 DEF Fresh, Entry
<1>4. \A m : Points(Fresh(m), m)
  BY DEF Fresh, Points
<1>5. Region \in [Tables -> [Index -> Entry]] /\ \A m \in Tables : Region[m] = [i \in Index |-> Null]
  BY NullIs DEF Region
<1>6. /\ \A i \in Index : [j \in Index |-> Null][i] = Null
  BY Zenon
<1>7. Wrote(Region, Booted, 0, 1, Fresh(1))
  BY <1>2, <1>3, <1>5, PutWrites, Zenon DEF Booted
<1>8. Wrote(Booted, t1, 0, 0, Fresh(n))
  <2>1. Booted \in [Tables -> [Index -> Entry]]
    BY <1>7, Zenon DEF Wrote
  <2> QED BY <1>2, <1>3, <2>1, PutWrites, Zenon
<1> HIDE DEF t1
<1>9. Wrote(t1, t2, n, 0, Fresh(k))
  <2>1. t1 \in [Tables -> [Index -> Entry]]
    BY <1>8, Zenon DEF Wrote
  <2> QED BY <1>1, <1>2, <1>3, <2>1, PutWrites, Zenon
<1> HIDE DEF t2
<1>10. k \in Tables /\ k # 0 /\ k # n /\ k # 1
  BY <1>1
<1> HIDE DEF k
<1>11. Wrote(t2, t3, k, 0, Fresh(n + 2))
  <2>1. t2 \in [Tables -> [Index -> Entry]]
    BY <1>9, Zenon DEF Wrote
  <2> QED BY <1>2, <1>3, <1>10, <2>1, PutWrites, Zenon
<1>12. t3 = Chained(n)
  BY Zenon DEF t1, t2, t3, k, Chained
<1> HIDE DEF t3
<1>13. \A m \in Tables : m # 0 /\ m # n /\ m # k => t3[m] = [i \in Index |-> Null]
  <2>1. \A m \in Tables : m # 0 => t1[m] = [i \in Index |-> Null]
    BY <1>5, <1>7, <1>8 DEF Wrote
  <2>2. \A m \in Tables : m # n /\ m # k => t3[m] = t1[m]
    BY <1>9, <1>11 DEF Wrote
  <2> QED BY <2>1, <2>2
<1>14. t3[0] = t1[0] /\ t3[n] = t2[n]
  BY <1>1, <1>2, <1>9, <1>10, <1>11, Zenon DEF Wrote
<1>15. t1[0][0] = Fresh(n) /\ t1[0][1] = Fresh(1) /\ t2[n][0] = Fresh(k) /\ t3[k][0] = Fresh(n + 2)
  BY <1>2, <1>7, <1>8, <1>9, <1>11, Zenon DEF Wrote
<1>16. t1[n] = [i \in Index |-> Null] /\ t2[k] = [i \in Index |-> Null] /\ t1[n][0] = Null /\ t2[k][0] = Null
  <2>1. \A m \in Tables : m # 0 => t1[m] = [i \in Index |-> Null]
    BY <1>5, <1>7, <1>8 DEF Wrote
  <2>2. t2[k] = t1[k]
    BY <1>9, <1>10, Zenon DEF Wrote
  <2> QED BY <1>1, <1>2, <1>6, <1>10, <2>1, <2>2, Zenon
<1>17. \A i \in Index \ {0} : t2[n][i] = Null /\ t3[k][i] = Null
  BY <1>9, <1>11, <1>16, Zenon DEF Wrote
<1>18. ChainedIs(t3, n)
  <2>1. t3 \in [Tables -> [Index -> Entry]]
    BY <1>11, Zenon DEF Wrote
  <2> QED BY <1>4, <1>13, <1>14, <1>15, <1>17, <2>1, Zenon DEF ChainedIs, k
<1>19. Booted[0][0] = Null
  BY <1>2, <1>5, <1>7, Zenon DEF Wrote
<1>20. WalkOrCreate(R(Booted, n, NoCounts), 0, 0) = R(t1, k, NoCounts)
  <2>1. Booted[0][0].present = FALSE
    BY <1>19, NullIs, Zenon
  <2>2. Makes(Booted, n, NoCounts, 0, 0)
    BY <2>1, WalkMakes, Zenon
  <2> QED BY <2>2, Zenon DEF Makes, t1, k
<1>21. WalkOrCreate(R(t1, k, NoCounts), n, 0) = R(t2, k + 1, NoCounts)
  <2>1. t1[n][0].present = FALSE
    BY <1>16, NullIs, Zenon
  <2>2. Makes(t1, k, NoCounts, n, 0)
    BY <2>1, WalkMakes, Zenon
  <2> QED BY <2>2, Zenon DEF Makes, t2
<1>22. k + 1 = n + 2 /\ n + 2 + 1 = n + 3
  BY <1>1 DEF k
<1>23. WalkOrCreate(R(t2, n + 2, NoCounts), k, 0) = R(t3, n + 3, NoCounts)
  <2>0. t2[k][0].present = FALSE
    BY <1>16, NullIs, Zenon
  <2>1. WalkOrCreate(R(t2, n + 2, NoCounts), k, 0) = R(t3, n + 2 + 1, NoCounts)
    <3>1. Makes(t2, n + 2, NoCounts, k, 0)
      BY <2>0, WalkMakes, Zenon
    <3> QED BY <3>1, Zenon DEF Makes, t3
  <2> QED BY <1>22, <2>1, Zenon
<1>24. Va(0)[1] = 0 /\ Va(0)[2] = 0 /\ Va(0)[3] = 0
  BY VaFacts, Zenon
<1>25. \A t, m : R(t, m, NoCounts).tables = t
  BY DEF R
<1>26. t1[0][0].addr = n /\ t2[n][0].addr = k /\ t3[k][0].addr = n + 2
  BY <1>4, <1>15, Zenon DEF Points
<1> DEFINE s0 == R(Booted, n, NoCounts)
           s1 == R(t1, k, NoCounts)
           s2 == R(t2, n + 2, NoCounts)
           s3 == R(t3, n + 3, NoCounts)
<1>28. s1.tables = t1 /\ s2.tables = t2 /\ s3.tables = t3
  BY <1>25, Zenon
<1>29. WalkOrCreate(s0, 0, 0) = s1 /\ WalkOrCreate(s1, n, 0) = s2 /\ WalkOrCreate(s2, k, 0) = s3
  BY <1>20, <1>21, <1>22, <1>23, ZenonT(30)
<1> HIDE DEF s0, s1, s2, s3
<1>27. MakeTables(s0, 0, Va(0)) = [state |-> s3, pt |-> n + 2]
  BY <1>24, <1>26, <1>28, <1>29 DEF MakeTables
<1> QED BY <1>12, <1>18, <1>27, BootStateIs, Zenon DEF s0, s3

(* They have the shape.                                                    *)
LEMMA BootShape ==
  ASSUME NEW n \in FirstTables, NEW u, ChainedIs(u, n)
  PROVE  Shape(u, n + 3, {0}) /\ Pt(u, 0) = n + 2
<1>1. /\ n \in Nat /\ n > 1 /\ n <= MaxTables /\ MaxTables \in Nat
  BY MapperAssumption
<1>2. Pdpt(u, 0) = n /\ Pd(u, 0) = n + 1 /\ Pt(u, 0) = n + 2
  BY Zenon DEF ChainedIs, Points, Pdpt, Pd, Pt
<1>3. Space(u, n + 3, 0)
  <2>1. 0 \in Nat /\ n \in Nat /\ 0 < n /\ n + 2 < n + 3 /\ (n + (n + 3)) % 2 = 1
    BY <1>1
  <2>2. u[0][0].present = TRUE /\ Points(u[0][1], 1) /\ Points(u[n][0], n + 1) /\ Points(u[n + 1][0], n + 2)
    BY Zenon DEF ChainedIs, Points
  <2>3. \A i \in Index \ {0} : u[n][i].present = FALSE /\ u[n + 1][i].present = FALSE
    BY NullIs, Zenon DEF ChainedIs
  <2> QED BY <1>2, <2>1, <2>2, <2>3, Zenon DEF Space
<1>4. 1 \in Tables /\ 1 \in Index /\ 1 # 0 /\ 1 # n /\ 1 # n + 1 /\ 1 # n + 2
  BY <1>1, Sizes
<1>5. ~Scratched(u)
  <2>1. u[1] = [i \in Index |-> Null]
    BY <1>4, Zenon DEF ChainedIs
  <2>2. u[1][1] = Null
    BY <1>4, <2>1, Zenon
  <2> QED BY <2>2, NullIs, Zenon DEF Scratched
<1>6. KernelShape(u, n + 3) /\ Kernel(u) = {1}
  BY <1>5, Zenon DEF KernelShape, Kernel
<1>7. Chain(u, 0) = {0, n, n + 1, n + 2}
  BY <1>2, Zenon DEF Chain
<1>8. Apart(u, {0})
  BY <1>4, <1>6, <1>7, Zenon DEF Apart
<1>9. \A m \in Tables : m >= n + 3 => m # 0 /\ m # n /\ m # n + 1
  BY <1>1, Sizes
<1>10. n + 3 \in Nat /\ n + 3 > 1 /\ n + 3 <= MaxTables + 3
  BY <1>1
<1>11. \A m \in Tables : m >= n + 3 => u[m] = [i \in Index |-> Null]
  BY <1>9, Zenon DEF ChainedIs
<1>12. u \in [Tables -> [Index -> Entry]]
  BY Zenon DEF ChainedIs
<1> QED BY <1>2, <1>3, <1>6, <1>8, <1>10, <1>11, <1>12, Zenon DEF Shape

(* Nothing is mapped in them yet.                                          *)
LEMMA BootGood ==
  ASSUME SetFacts, NEW n \in FirstTables
  PROVE  Good(Chained(n), n + 3, NoCounts, Pages, {0}) /\ Pte(Chained(n), 0, 0).present = FALSE
<1>1. ChainedIs(Chained(n), n)
  BY BootTables, Zenon
<1>2. Shape(Chained(n), n + 3, {0}) /\ Pt(Chained(n), 0) = n + 2
  BY <1>1, BootShape, Zenon
<1>3. n + 2 \in Tables /\ n + 2 # 0 /\ n + 2 # n /\ n + 2 # n + 1
  BY MapperAssumption DEF Tables, Slack
<1>4. \A i \in Index : Pte(Chained(n), 0, i).present = FALSE
  <2>1. Chained(n)[n + 2] = [i \in Index |-> Null]
    BY <1>1, <1>3, Zenon DEF ChainedIs
  <2>2. \A i \in Index : Chained(n)[n + 2][i] = Null
    BY <2>1, Zenon
  <2> QED BY <1>2, <2>2, NullIs, Zenon DEF Pte
<1>5. \A i \in Index : CountedAt(Chained(n), NoCounts, Pages, 0, i)
  BY <1>4, Zenon DEF CountedAt
<1>6. \A p \in Pages : NoCounts[p].refs = 0 /\ NoCounts[p].aliases = {}
  BY DEF NoCounts, NotMapped
<1>7. \A p \in Pages : AliasesOf(Chained(n), NoCounts, {0}, p)
  <2>1. IsFiniteSet({}) /\ Cardinality({}) = 0
    BY Zenon DEF SetFacts, SizeFact
  <2> QED BY <1>6, <2>1, Zenon DEF AliasesOf
<1>8. NoCounts \in [Pages -> Counts({0})]
  BY DEF NoCounts, NotMapped, Counts
<1>9. 0 \in Index
  BY Sizes, Zenon
<1> QED BY <1>2, <1>4, <1>5, <1>7, <1>8, <1>9, Zenon DEF Good, Counted

(* The first page is mapped.                                               *)
LEMMA BootEffect ==
  ASSUME SetFacts, NEW n \in FirstTables, NEW p \in Pages
  PROVE  \E u, m : Map(BootState(n), 0, p, BootPage) = R(u, n + 3, m) /\ Good(u, n + 3, m, Pages \ {p}, {0})
<1> DEFINE c == Chained(n)
           st == R(c, n + 3, NoCounts)
<1>1. BootPage = Va(0) /\ Va(0) \in UserPages /\ 0 \in Index
  BY MapperAssumption, Sizes, Zenon DEF BootPage, Va
<1>2. Good(c, n + 3, NoCounts, Pages, {0}) /\ Pte(c, 0, 0).present = FALSE
  BY BootGood, Zenon
<1>3. ChainedIs(c, n) /\ MakeTables(BootState(n), 0, Va(0)) = [state |-> st, pt |-> n + 2]
  BY BootTables, Zenon
<1>4. st.tables = c
  BY DEF R
<1> HIDE DEF st, c
<1>5. MakeTables(BootState(n), 0, Va(0)).state = st /\ MakeTables(BootState(n), 0, Va(0)).pt = n + 2
  BY <1>3
<1>6. LeadsTo(st.tables, 0, Va(0), n, n + 1, n + 2)
  <2>1. Va(0)[1] = 0 /\ Va(0)[2] = 0 /\ Va(0)[3] = 0
    BY VaFacts, Zenon
  <2> QED BY <1>3, <1>4, <2>1, Zenon DEF LeadsTo, ChainedIs
<1>7. MakeTables(st, 0, Va(0)).state = st /\ MakeTables(st, 0, Va(0)).pt = n + 2
  <2> DEFINE v == Va(0)
             n1 == n + 1
             n2 == n + 2
             s == 0
  <2>1. LeadsTo(st.tables, s, v, n, n1, n2)
    BY <1>6, Zenon
  <2> HIDE DEF v, n1, n2, s
  <2>2. MakeTables(st, s, v).state = st /\ MakeTables(st, s, v).pt = n2
    BY <2>1, NoneMade
  <2> QED BY <2>2, Zenon DEF v, n2, s
<1>8. Map(BootState(n), 0, p, Va(0)) = Map(st, 0, p, Va(0))
  BY <1>5, <1>7, Zenon DEF Map
<1>9. \E u, m : /\ Map(R(c, n + 3, NoCounts), 0, p, Va(0)) = R(u, n + 3, m)
                /\ Good(u, n + 3, m, Pages \ {p}, {0}) /\ Placed(c, u, {0}, 0, 0, p)
  <2> DEFINE nx == n + 3
             sp == {0}
             s == 0
             fr == Pages
  <2>1. s \in sp /\ s \in Index /\ Good(c, nx, NoCounts, fr, sp) /\ Pte(c, s, s).present = FALSE
        /\ Va(s) \in UserPages /\ p \in fr
    BY <1>1, <1>2, Zenon
  <2> HIDE DEF nx, sp, s, fr
  <2>2. \E u, m : /\ Map(R(c, nx, NoCounts), s, p, Va(s)) = R(u, nx, m)
                  /\ Good(u, nx, m, fr \ {p}, sp) /\ Placed(c, u, sp, s, s, p)
    BY <2>1, MapEffect, Zenon
  <2> QED BY <2>2, Zenon DEF nx, sp, s, fr
<1> QED BY <1>1, <1>8, <1>9, Zenon DEF st

(* The invariant holds after init_mm.                                      *)
LEMMA InitInv == ASSUME SetFacts PROVE Init => IInv
<1> SUFFICES ASSUME Init PROVE IInv
  OBVIOUS
<1> DEFINE p == Lowest(Pages)
<1>1. p \in Pages
  <2>1. Pages \in SUBSET Pages /\ Pages # {}
    BY MapperAssumption, Zenon
  <2> QED BY <2>1, LowestIn, Zenon
<1>2. PICK n \in FirstTables :
        LET st == Map(BootState(n), 0, p, BootPage) IN
          tables = st.tables /\ next = st.next /\ mapped_pages = st.mapped
  BY Zenon DEF Init
<1>3. free = Pages \ {p} /\ mem = [q \in Pages |-> 0] /\ cr3 = 0 /\ spaces = {0} /\ stopped = "no"
  BY Zenon DEF Init
<1> HIDE DEF p
<1>4. PICK u, m : Map(BootState(n), 0, p, BootPage) = R(u, n + 3, m) /\ Good(u, n + 3, m, Pages \ {p}, {0})
  BY <1>1, BootEffect, Zenon
<1>5. R(u, n + 3, m).tables = u /\ R(u, n + 3, m).next = n + 3 /\ R(u, n + 3, m).mapped = m
  BY DEF R
<1>6. tables = u /\ next = n + 3 /\ mapped_pages = m
  BY <1>2, <1>4, <1>5, Zenon
<1>7. mem \in [Pages -> Values] /\ stopped # "assert"
  BY <1>3 DEF Values
<1> QED BY <1>3, <1>4, <1>6, <1>7, Zenon DEF IInv

(* Each step keeps it, and does one of the five things.                    *)
LEMMA StepInv ==
  ASSUME SetFacts, OnePageTable, IInv, [Next]_vars
  PROVE  IInv' /\ (Quiet \/ Maps \/ Writes \/ Forks \/ Switches)
<1>1. CASE UNCHANGED vars
  <2>1. UNCHANGED <<tables, next, mapped_pages, free, mem, cr3, spaces, stopped>>
    BY <1>1 DEF vars
  <2> QED BY <2>1, Zenon DEF IInv, Quiet, Stays, SameSeen
<1>2. ASSUME NEW v \in UserPages, NEW aligned \in BOOLEAN, FaultNotPresent(v, aligned)
      PROVE  IInv' /\ (Quiet \/ Maps)
  BY <1>2, FaultNotPresentStep, Zenon
<1>3. ASSUME NEW v \in UserPages, NEW aligned \in BOOLEAN, FaultReadOnly(v, aligned)
      PROVE  IInv' /\ Quiet
  BY <1>3, FaultReadOnlyStep, Zenon
<1>4. ASSUME NEW v \in UserPages, Write(v)
      PROVE  IInv' /\ Writes
  BY <1>4, WriteStep, Zenon
<1>5. CASE Fork
  BY <1>5, ForkStep, Zenon
<1>6. CASE Switch
  BY <1>6, SwitchStep, Zenon
<1> QED BY <1>1, <1>2, <1>3, <1>4, <1>5, <1>6, Zenon DEF Next

-----------------------------------------------------------------------------
(* The safety properties.                                                  *)

(* The counts are exact.                                                   *)
LEMMA InvAliases ==
  ASSUME SetFacts, OnePageTable, IInv
  PROVE  AliasesExact
<1>1. Good(tables, next, mapped_pages, free, spaces) /\ Shape(tables, next, spaces)
  BY Zenon DEF IInv, Good
<1>2. ASSUME NEW p \in Pages
      PROVE  mapped_pages[p].aliases = {a \in spaces \X UserPages : p \in PagesAt(tables, a[1], a[2])}
  <2>1. AliasesOf(tables, mapped_pages, spaces, p) /\ mapped_pages[p].aliases \subseteq spaces \X UserPages
    BY <1>1, <1>2, AliasesIn, Zenon DEF Good, Counted
  <2>2. ASSUME NEW a \in mapped_pages[p].aliases
        PROVE  p \in PagesAt(tables, a[1], a[2])
    <3>1. PICK i \in Index : a[1] \in spaces /\ a = <<a[1], Va(i)>> /\ Points(Pte(tables, a[1], i), p)
      BY <2>1, Zenon DEF AliasesOf
    <3>2. a[2] = Va(i)
      BY <3>1, Pairs
    <3>3. PagesAt(tables, a[1], Va(i)) =
            {q \in {Pte(tables, a[1], i).addr} : Pte(tables, a[1], i).present = TRUE}
      BY <1>1, <3>1, LeafIs, Zenon
    <3> QED BY <3>1, <3>2, <3>3, Zenon DEF Points
  <2>3. ASSUME NEW s \in spaces, NEW v \in UserPages, p \in PagesAt(tables, s, v)
        PROVE  <<s, v>> \in mapped_pages[p].aliases
    <3>1. PICK i \in Index : v = Va(i)
      BY UserVa, Zenon
    <3>2. PagesAt(tables, s, Va(i)) =
            {q \in {Pte(tables, s, i).addr} : Pte(tables, s, i).present = TRUE}
      BY <1>1, <3>1, LeafIs, Zenon
    <3>3. Pte(tables, s, i).present = TRUE /\ Pte(tables, s, i).addr = p
      BY <2>3, <3>1, <3>2, Zenon
    <3>4. <<s, Va(i)>> \in mapped_pages[Pte(tables, s, i).addr].aliases
      BY <1>1, <3>3, ReadOnlyShared, Zenon
    <3> QED BY <3>1, <3>3, <3>4, Zenon
  <2>4. \A a \in spaces \X UserPages : a[1] \in spaces /\ a[2] \in UserPages /\ a = <<a[1], a[2]>>
    OBVIOUS
  <2>5. \A a \in spaces \X UserPages : p \in PagesAt(tables, a[1], a[2]) => a \in mapped_pages[p].aliases
    <3> TAKE a \in spaces \X UserPages
    <3>1. a[1] \in spaces /\ a[2] \in UserPages /\ a = <<a[1], a[2]>>
      BY <2>4, Zenon
    <3> HAVE p \in PagesAt(tables, a[1], a[2])
    <3>2. <<a[1], a[2]>> \in mapped_pages[p].aliases
      BY <2>3, <3>1, Zenon
    <3> QED BY <3>1, <3>2, Zenon
  <2> QED BY <2>1, <2>2, <2>5, Zenon
<1>3. \A p \in Pages : mapped_pages[p].refs = Cardinality(mapped_pages[p].aliases)
  BY <1>1, Zenon DEF Good, Counted, AliasesOf
<1> QED BY <1>2, <1>3, Zenon DEF AliasesExact

(* The writable bits are right.                                            *)
LEMMA InvWritable ==
  ASSUME OnePageTable, IInv
  PROVE  WritableIffUnshared
<1> SUFFICES ASSUME NEW s \in spaces, NEW v \in UserPages, NEW l \in Leaf(tables, s, v)
             PROVE  l.rw <=> mapped_pages[l.page].refs = 1
  BY Zenon DEF WritableIffUnshared
<1>1. Good(tables, next, mapped_pages, free, spaces) /\ Shape(tables, next, spaces)
  BY Zenon DEF IInv, Good
<1>2. PICK i \in Index : v = Va(i)
  BY UserVa, Zenon
<1>3. Pte(tables, s, i).present = TRUE /\ l.page = Pte(tables, s, i).addr /\ l.rw = Pte(tables, s, i).rw
  BY <1>1, <1>2, LeafIs, Zenon
<1>4. CountedAt(tables, mapped_pages, free, s, i)
  BY <1>1, Zenon DEF Good, Counted
<1>5. Pte(tables, s, i).rw \in BOOLEAN
  <2>1. Pte(tables, s, i) \in Entry
    BY <1>1, PteIn, Zenon
  <2> QED BY <2>1 DEF Entry
<1> QED BY <1>3, <1>4, <1>5, Zenon DEF CountedAt

(* What View shows.                                                        *)
Shown(t, me, s, v) ==
  LET pages == PagesAt(t, s, v)
  IN  IF pages = {} THEN Unmapped ELSE me[CHOOSE p \in pages : TRUE]

(* It is what the page table entry gives.                                  *)
LEMMA ShownIs ==
  ASSUME NEW t, NEW nx, NEW sp, Shape(t, nx, sp), NEW s \in sp, NEW i \in Index, NEW me
  PROVE  Shown(t, me, s, Va(i)) = SeenAt(t, me, s, i)
<1>1. PagesAt(t, s, Va(i)) = {p \in {Pte(t, s, i).addr} : Pte(t, s, i).present = TRUE}
  BY LeafIs, Zenon
<1>2. CASE Pte(t, s, i).present = TRUE
  <2>1. PagesAt(t, s, Va(i)) = {Pte(t, s, i).addr}
    BY <1>1, <1>2, Zenon
  <2>2. (CHOOSE p \in PagesAt(t, s, Va(i)) : TRUE) = Pte(t, s, i).addr
    BY <2>1, ChooseOnly, Zenon
  <2> QED BY <1>2, <2>1, <2>2, Zenon DEF Shown, SeenAt
<1>3. CASE Pte(t, s, i).present # TRUE
  <2>1. PagesAt(t, s, Va(i)) = {}
    BY <1>1, <1>3, Zenon
  <2> QED BY <1>3, <2>1, Zenon DEF Shown, SeenAt
<1> QED BY <1>2, <1>3, Zenon

ViewOf(t, me, sp) == [s \in sp |-> [v \in UserPages |-> Shown(t, me, s, v)]]

(* View, for these tables and this memory.                                 *)
LEMMA ViewIs == View = ViewOf(tables, mem, spaces) /\ View' = ViewOf(tables', mem', spaces')
BY Zenon DEF View, ViewOf, Shown

Rows(V, S, U) == V = [r \in S |-> [v \in U |-> V[r][v]]]
Differ(V, W, S, U, s, a) == \A r \in S, v \in U : ~(r = s /\ v = a) => W[r][v] = V[r][v]

(* A change in one place.                                                  *)
LEMMA Update2 ==
  ASSUME NEW S, NEW U, NEW V, NEW W, NEW s \in S, NEW a \in U, Rows(V, S, U), Rows(W, S, U),
         Differ(V, W, S, U, s, a)
  PROVE  W = [V EXCEPT ![s][a] = W[s][a]]
<1> USE DEF Rows, Differ
<1> DEFINE x == W[s][a]
<1> HIDE DEF x
<1>0. W[s][a] = x
  BY DEF x
<1>1. V[s] = [v \in U |-> V[s][v]] /\ W[s] = [v \in U |-> W[s][v]]
  BY Zenon
<1>2. W[s] = [V[s] EXCEPT ![a] = x]
  BY <1>0, <1>1
<1>3. \A r \in S : r # s => W[r] = V[r]
  <2> TAKE r \in S
  <2> HAVE r # s
  <2>1. V[r] = [v \in U |-> V[r][v]] /\ W[r] = [v \in U |-> W[r][v]]
    BY Zenon
  <2> QED BY <2>1
<1>4. W = [V EXCEPT ![s][a] = x]
  BY <1>2, <1>3, Zenon
<1> QED BY <1>4, Zenon DEF x

Shows(V, t, me, sp) ==
  /\ Rows(V, sp, UserPages)
  /\ \A s \in sp, i \in Index : Va(i) \in UserPages => V[s][Va(i)] = SeenAt(t, me, s, i)

(* The view of a good region, by its page tables.                          *)
LEMMA ViewShape ==
  ASSUME OnePageTable, NEW t, NEW nx, NEW sp, Shape(t, nx, sp), NEW me
  PROVE  Shows(ViewOf(t, me, sp), t, me, sp)
<1>1. \A s \in sp, v \in UserPages : ViewOf(t, me, sp)[s][v] = Shown(t, me, s, v)
  BY Zenon DEF ViewOf
<1>2. ViewOf(t, me, sp) = [r \in sp |-> [v \in UserPages |-> ViewOf(t, me, sp)[r][v]]]
  BY Zenon DEF ViewOf
<1>3. ASSUME NEW s \in sp, NEW i \in Index, Va(i) \in UserPages
      PROVE  ViewOf(t, me, sp)[s][Va(i)] = SeenAt(t, me, s, i)
  <2>1. Shown(t, me, s, Va(i)) = SeenAt(t, me, s, i)
    BY ShownIs, Zenon
  <2> QED BY <1>1, <1>3, <2>1, Zenon
<1> QED BY <1>2, <1>3, Zenon DEF Shows, Rows

OneView(t, u, me, mf, sp, s, i) ==
  ViewOf(u, mf, sp) = [ViewOf(t, me, sp) EXCEPT ![s][Va(i)] = SeenAt(u, mf, s, i)]

(* A view that changes in one place.                                       *)
LEMMA ViewBut ==
  ASSUME OnePageTable, NEW t, NEW nx, NEW u, NEW nu, NEW sp, Shape(t, nx, sp), Shape(u, nu, sp),
         NEW me, NEW mf, NEW s \in sp, NEW i \in Index, Va(i) \in UserPages,
         SeenBut(t, u, me, mf, sp, s, i)
  PROVE  OneView(t, u, me, mf, sp, s, i)
<1> DEFINE V == ViewOf(t, me, sp)
           W == ViewOf(u, mf, sp)
           a == Va(i)
           x == SeenAt(u, mf, s, i)
<1>1. Shows(V, t, me, sp)
  BY ViewShape, Zenon
<1>2. Shows(W, u, mf, sp)
  BY ViewShape, Zenon
<1> HIDE DEF V, W
<1>3. a \in UserPages /\ W[s][a] = x
  BY <1>2, Zenon DEF Shows
<1>4. ASSUME NEW r \in sp, NEW v \in UserPages, ~(r = s /\ v = a)
      PROVE  W[r][v] = V[r][v]
  <2>1. PICK j \in Index : v = Va(j)
    BY UserVa, Zenon
  <2>2. W[r][v] = SeenAt(u, mf, r, j) /\ V[r][v] = SeenAt(t, me, r, j)
    BY <1>1, <1>2, <2>1, Zenon DEF Shows
  <2> QED BY <1>4, <2>1, <2>2, Zenon DEF SeenBut
<1> HIDE DEF a, x
<1>5. Differ(V, W, sp, UserPages, s, a)
  BY <1>4, Zenon DEF Differ
<1>6. Rows(V, sp, UserPages) /\ Rows(W, sp, UserPages)
  BY <1>1, <1>2, Zenon DEF Shows
<1>7. W = [V EXCEPT ![s][a] = W[s][a]]
  BY <1>3, <1>5, <1>6, Update2
<1> QED BY <1>3, <1>7, Zenon DEF OneView, V, W, a, x

SameView(t, u, me, mf, sp) == ViewOf(u, mf, sp) = ViewOf(t, me, sp)

(* One that does not change.                                               *)
LEMMA ViewSame ==
  ASSUME OnePageTable, NEW t, NEW nx, NEW u, NEW nu, NEW sp, Shape(t, nx, sp), Shape(u, nu, sp),
         NEW me, NEW mf, SameSeen(t, u, me, mf, sp)
  PROVE  SameView(t, u, me, mf, sp)
<1> SUFFICES ASSUME NEW r \in sp, NEW v \in UserPages
             PROVE  Shown(u, mf, r, v) = Shown(t, me, r, v)
  BY Zenon DEF ViewOf, SameView
<1>1. PICK j \in Index : v = Va(j)
  BY UserVa, Zenon
<1>2. Shown(u, mf, r, Va(j)) = SeenAt(u, mf, r, j) /\ Shown(t, me, r, Va(j)) = SeenAt(t, me, r, j)
  BY ShownIs, Zenon
<1> QED BY <1>1, <1>2, Zenon DEF SameSeen

ForkedView(t, u, me, sp, n, s) ==
  ViewOf(u, me, sp \cup {n}) =
    [r \in sp \cup {n} |-> IF r = n THEN ViewOf(t, me, sp)[s] ELSE ViewOf(t, me, sp)[r]]

(* One that has another address space.                                     *)
LEMMA ViewForked ==
  ASSUME OnePageTable, NEW t, NEW nx, NEW u, NEW nu, NEW sp, NEW n, Shape(t, nx, sp), Shape(u, nu, sp \cup {n}),
         NEW me, NEW s \in sp, SameForked(t, u, n, sp, s)
  PROVE  ForkedView(t, u, me, sp, n, s)
<1> DEFINE At1(r) == IF r = n THEN s ELSE r
<1>1. ASSUME NEW r \in sp \cup {n}, NEW v \in UserPages
      PROVE  Shown(u, me, r, v) = Shown(t, me, At1(r), v)
  <2>1. PICK j \in Index : v = Va(j)
    BY UserVa, Zenon
  <2>2. At1(r) \in sp
    BY Zenon
  <2>3. Shown(u, me, r, Va(j)) = SeenAt(u, me, r, j)
    BY ShownIs, Zenon
  <2>4. SeenAt(u, me, r, j) = SeenAt(t, me, At1(r), j)
    <3>1. /\ Pte(u, r, j).present = Pte(t, At1(r), j).present
          /\ Pte(t, At1(r), j).present = TRUE => Pte(u, r, j).addr = Pte(t, At1(r), j).addr
      <4>1. CASE r = n
        BY <4>1, Zenon DEF SameForked
      <4>2. CASE r # n
        BY <4>2, Zenon DEF SameForked
      <4> QED BY <4>1, <4>2, Zenon
    <3> QED BY <3>1, Zenon DEF SeenAt
  <2>5. \A q \in sp : Shown(t, me, q, Va(j)) = SeenAt(t, me, q, j)
    BY ShownIs, Zenon
  <2> QED BY <2>1, <2>2, <2>3, <2>4, <2>5, Zenon
<1>2. \A r \in sp : ViewOf(t, me, sp)[r] = [v \in UserPages |-> Shown(t, me, r, v)]
  BY Zenon DEF ViewOf
<1>3. ASSUME NEW r \in sp \cup {n}
      PROVE  [v \in UserPages |-> Shown(u, me, r, v)] =
               IF r = n THEN ViewOf(t, me, sp)[s] ELSE ViewOf(t, me, sp)[r]
  <2>1. [v \in UserPages |-> Shown(u, me, r, v)] = [v \in UserPages |-> Shown(t, me, At1(r), v)]
    BY <1>1, Zenon
  <2> QED BY <1>2, <2>1, Zenon
<1> QED BY <1>3, Zenon DEF ViewOf, ForkedView

-----------------------------------------------------------------------------
(* Steps of the address spaces that programs see.                          *)

(* The shape before and after a step.                                      *)
LEMMA BothGood ==
  ASSUME IInv, IInv'
  PROVE  /\ Shape(tables, next, spaces) /\ Shape(tables', next', spaces')
         /\ cr3 \in spaces /\ cr3' \in spaces'
BY Zenon DEF IInv, Good

(* A quiet step leaves the view.                                           *)
LEMMA QuietView ==
  ASSUME OnePageTable, IInv, IInv', Quiet
  PROVE  View' = View
<1>1. Shape(tables, next, spaces) /\ Shape(tables', next', spaces)
      /\ SameSeen(tables, tables', mem, mem', spaces) /\ spaces' = spaces
  BY BothGood, Zenon DEF Quiet, Stays
<1>2. ViewOf(tables', mem', spaces) = ViewOf(tables, mem, spaces)
  <2>1. SameView(tables, tables', mem, mem', spaces)
    BY <1>1, ViewSame, Zenon
  <2> QED BY <2>1, Zenon DEF SameView
<1> QED BY <1>1, <1>2, ViewIs, Zenon

(* A page that is mapped or written changes it in one place.               *)
LEMMA ChangesView ==
  ASSUME OnePageTable, IInv, IInv', NEW i \in Index, Changes(i)
  PROVE  /\ Va(i) \in UserPages /\ cr3 \in spaces /\ cr3' = cr3
         /\ View[cr3][Va(i)] = SeenAt(tables, mem, cr3, i)
         /\ \E x \in Values : View' = [View EXCEPT ![cr3][Va(i)] = x]
<1>1. /\ Shape(tables, next, spaces) /\ Shape(tables', next', spaces) /\ cr3 \in spaces /\ cr3' = cr3
      /\ SeenBut(tables, tables', mem, mem', spaces, cr3, i) /\ spaces' = spaces
      /\ Va(i) \in UserPages /\ SeenAt(tables', mem', cr3, i) \in Values
  BY BothGood, Zenon DEF Changes, Stays
<1>2. ViewOf(tables', mem', spaces) = [ViewOf(tables, mem, spaces) EXCEPT ![cr3][Va(i)] = SeenAt(tables', mem', cr3, i)]
  <2>1. OneView(tables, tables', mem, mem', spaces, cr3, i)
    BY <1>1, ViewBut, Zenon
  <2> QED BY <2>1, Zenon DEF OneView
<1>3. Shows(ViewOf(tables, mem, spaces), tables, mem, spaces)
  BY <1>1, ViewShape, Zenon
<1>4. ViewOf(tables, mem, spaces)[cr3][Va(i)] = SeenAt(tables, mem, cr3, i)
  BY <1>1, <1>3, Zenon DEF Shows
<1> QED BY <1>1, <1>2, <1>4, ViewIs, Zenon

(* fork adds a copy of the address space in use.                           *)
LEMMA ForksView ==
  ASSUME OnePageTable, IInv, IInv', Forks
  PROVE  /\ cr3' = cr3 /\ DOMAIN View = spaces /\ next \in (0 .. MaxTables) \ spaces
         /\ View' = [r \in DOMAIN View \cup {next} |-> IF r = next THEN View[cr3] ELSE View[r]]
<1>1. /\ Shape(tables, next, spaces) /\ Shape(tables', next', spaces \cup {next}) /\ cr3 \in spaces
      /\ SameForked(tables, tables', next, spaces, cr3)
      /\ spaces' = spaces \cup {next} /\ cr3' = cr3 /\ mem' = mem
  BY BothGood, Zenon DEF Forks
<1>2. ViewOf(tables', mem, spaces \cup {next}) =
        [r \in spaces \cup {next} |-> IF r = next THEN ViewOf(tables, mem, spaces)[cr3]
                                                  ELSE ViewOf(tables, mem, spaces)[r]]
  <2>1. ForkedView(tables, tables', mem, spaces, next, cr3)
    BY <1>1, ViewForked, Zenon
  <2> QED BY <2>1, Zenon DEF ForkedView
<1>3. DOMAIN ViewOf(tables, mem, spaces) = spaces
  BY Zenon DEF ViewOf
<1>4. DOMAIN View = spaces
  BY <1>3, ViewIs, Zenon
<1>5. View' = [r \in spaces \cup {next} |-> IF r = next THEN View[cr3] ELSE View[r]]
  BY <1>1, <1>2, ViewIs, Zenon
<1> QED BY <1>1, <1>4, <1>5, Zenon DEF Forks

(* Initial states are initial states of AddressSpaces.                     *)
LEMMA AbstractInit == ASSUME SetFacts, OnePageTable, Init, IInv PROVE AS!Init
<1>1. cr3 = 0 /\ spaces = {0}
  BY Zenon DEF Init
<1>2. Good(tables, next, mapped_pages, free, spaces) /\ Shape(tables, next, spaces) /\ mem \in [Pages -> Values]
  BY Zenon DEF IInv, Good
<1> DEFINE V == ViewOf(tables, mem, spaces)
<1>6. Shows(V, tables, mem, spaces)
  BY <1>2, ViewShape, Zenon
<1> HIDE DEF V
<1>3. ASSUME NEW s \in spaces, NEW v \in UserPages
      PROVE  V[s][v] \in Values \cup {Unmapped}
  <2>1. PICK i \in Index : v = Va(i)
    BY UserVa, Zenon
  <2>2. V[s][v] = SeenAt(tables, mem, s, i)
    BY <1>6, <2>1, Zenon DEF Shows
  <2>3. Pte(tables, s, i).present = TRUE => mem[Pte(tables, s, i).addr] \in Values
    <3>1. Pte(tables, s, i).present = TRUE => Pte(tables, s, i).addr \in Pages \ free
      BY <1>2, ReadOnlyShared, Zenon
    <3> QED BY <1>2, <3>1, Zenon
  <2> QED BY <2>2, <2>3, Zenon DEF SeenAt
<1>4. V \in [spaces -> [UserPages -> Values \cup {Unmapped}]]
  BY <1>3, <1>6 DEF Shows, Rows
<1>5. View \in [{0} -> [UserPages -> Values \cup {Unmapped}]]
  BY <1>1, <1>4, ViewIs, Zenon DEF V
<1> QED BY <1>1, <1>5, Zenon DEF AS!Init

(* Steps are steps of AddressSpaces, or leave its state.                   *)
LEMMA AbstractStep ==
  ASSUME SetFacts, OnePageTable, IInv, [Next]_vars
  PROVE  [AS!Next]_<<View, cr3>>
<1>1. IInv' /\ (Quiet \/ Maps \/ Writes \/ Forks \/ Switches)
  BY StepInv, Zenon
<1>2. CASE Quiet
  <2>1. View' = View /\ cr3' = cr3
    BY <1>1, <1>2, QuietView, Zenon DEF Quiet, Stays
  <2> QED BY <2>1, Zenon
<1>3. CASE Maps
  <2>1. PICK i \in Index : SeenAt(tables, mem, cr3, i) = Unmapped /\ Changes(i)
    BY <1>3, Zenon DEF Maps
  <2>2. /\ Va(i) \in UserPages /\ cr3' = cr3 /\ View[cr3][Va(i)] = Unmapped
        /\ \E x \in Values : View' = [View EXCEPT ![cr3][Va(i)] = x]
    BY <1>1, <2>1, ChangesView, Zenon
  <2>3. AS!Map
    BY <2>2, Zenon DEF AS!Map
  <2> QED BY <2>3, Zenon DEF AS!Next
<1>4. CASE Writes
  <2>1. PICK i \in Index : SeenAt(tables, mem, cr3, i) # Unmapped /\ Changes(i)
    BY <1>4, Zenon DEF Writes
  <2>2. /\ Va(i) \in UserPages /\ cr3' = cr3 /\ View[cr3][Va(i)] # Unmapped
        /\ \E x \in Values : View' = [View EXCEPT ![cr3][Va(i)] = x]
    BY <1>1, <2>1, ChangesView, Zenon
  <2>3. AS!Write
    BY <2>2, Zenon DEF AS!Write
  <2> QED BY <2>3, Zenon DEF AS!Next
<1>5. CASE Forks
  <2>1. /\ cr3' = cr3 /\ DOMAIN View = spaces /\ next \in (0 .. MaxTables) \ spaces
        /\ View' = [r \in DOMAIN View \cup {next} |-> IF r = next THEN View[cr3] ELSE View[r]]
    BY <1>1, <1>5, ForksView, Zenon
  <2>2. AS!Fork
    BY <2>1, Zenon DEF AS!Fork
  <2> QED BY <2>2, Zenon DEF AS!Next
<1>6. CASE Switches
  <2>1. View' = View
    BY <1>6, ViewIs, Zenon DEF Switches
  <2>2. DOMAIN View = spaces
    <3>1. DOMAIN ViewOf(tables, mem, spaces) = spaces
      BY Zenon DEF ViewOf
    <3> QED BY <3>1, ViewIs, Zenon
  <2>3. AS!Switch
    BY <1>6, <2>1, <2>2, Zenon DEF AS!Switch, Switches
  <2> QED BY <2>3, Zenon DEF AS!Next
<1> QED BY <1>1, <1>2, <1>3, <1>4, <1>5, <1>6, Zenon

(* A step that changes the tables and makes no address space keeps what    *)
(* can be read.                                                            *)
LEMMA KeepStep ==
  ASSUME SetFacts, OnePageTable, IInv, [Next]_vars, tables' # tables, spaces' = spaces,
         NEW s \in spaces, NEW v \in UserPages, View[s][v] # Unmapped
  PROVE  View'[s][v] = View[s][v]
<1>1. IInv' /\ (Quiet \/ Maps \/ Writes \/ Forks \/ Switches)
  BY StepInv, Zenon
<1>2. CASE Quiet
  BY <1>1, <1>2, QuietView, Zenon
<1>3. CASE Maps
  <2>1. PICK i \in Index : SeenAt(tables, mem, cr3, i) = Unmapped /\ Changes(i)
    BY <1>3, Zenon DEF Maps
  <2>2. /\ Va(i) \in UserPages /\ View[cr3][Va(i)] = Unmapped
        /\ \E x \in Values : View' = [View EXCEPT ![cr3][Va(i)] = x]
    BY <1>1, <2>1, ChangesView, Zenon
  <2>3. PICK x \in Values : View' = [View EXCEPT ![cr3][Va(i)] = x]
    BY <2>2, Zenon
  <2>4. ~(s = cr3 /\ v = Va(i))
    BY <2>2, Zenon
  <2>5. View = [r \in spaces |-> View[r]] /\ View[s] = [w \in UserPages |-> View[s][w]]
    BY ViewIs, Zenon DEF ViewOf
  <2> DEFINE V == View
             W == View'
             a == Va(i)
  <2>6. W = [V EXCEPT ![cr3][a] = x] /\ V = [r \in spaces |-> V[r]] /\ V[s] = [w \in UserPages |-> V[s][w]]
        /\ ~(s = cr3 /\ v = a)
    BY <2>3, <2>4, <2>5, Zenon
  <2> HIDE DEF V, W, a
  <2>7. W[s][v] = V[s][v]
    BY <2>6
  <2> QED BY <2>7, Zenon DEF V, W
<1>4. ~Writes /\ ~Switches /\ ~Forks
  BY Zenon DEF Writes, Switches, Forks
<1> QED BY <1>1, <1>2, <1>3, <1>4, Zenon

(* The pages that the new address space of fork maps.                      *)
LEMMA CloneStep ==
  ASSUME SetFacts, OnePageTable, IInv, [Next]_vars, NEW s \in spaces' \ spaces, NEW v \in UserPages
  PROVE  PagesAt(tables', s, v) = PagesAt(tables, cr3, v)
<1>1. IInv' /\ (Quiet \/ Maps \/ Writes \/ Forks \/ Switches)
  BY StepInv, Zenon
<1>2. Forks /\ s = next /\ s \in spaces'
  BY <1>1, Zenon DEF Quiet, Maps, Writes, Changes, Stays, Switches, Forks
<1>3. /\ Shape(tables, next, spaces) /\ Shape(tables', next', spaces') /\ cr3 \in spaces
      /\ SameForked(tables, tables', next, spaces, cr3)
  BY <1>1, <1>2, BothGood, Zenon DEF Forks
<1>4. PICK i \in Index : v = Va(i)
  BY UserVa, Zenon
<1>5. PagesAt(tables, cr3, Va(i)) = {p \in {Pte(tables, cr3, i).addr} : Pte(tables, cr3, i).present = TRUE}
  BY <1>3, LeafIs, Zenon
<1>6. PagesAt(tables', s, Va(i)) = {p \in {Pte(tables', s, i).addr} : Pte(tables', s, i).present = TRUE}
  BY <1>2, <1>3, LeafIs, ZenonT(30)
<1>7. /\ Pte(tables', s, i).present = Pte(tables, cr3, i).present
      /\ Pte(tables, cr3, i).present = TRUE => Pte(tables', s, i).addr = Pte(tables, cr3, i).addr
  BY <1>2, <1>3, Zenon DEF SameForked
<1> QED BY <1>4, <1>5, <1>6, <1>7, Zenon

-----------------------------------------------------------------------------
(* What was assumed above about numbers and finite sets holds.             *)

INSTANCE FiniteSetTheorems

(* A non-empty set of numbers has a least one.                             *)
LEMMA LeastNumber ==
  ASSUME NEW S \in SUBSET Nat, S # {}
  PROVE  \E x \in S : \A y \in S : x <= y
<1> DEFINE L == OpToRel(<, Nat)
<1>1. IsWellFoundedOn(L, Nat)
  BY NatLessThanWellFounded, Zenon
<1>2. \A x, y \in Nat : y < x => <<y, x>> \in L
  BY DEF OpToRel
<1> HIDE DEF L
<1>3. PICK x \in S : \A y \in S : ~(<<y, x>> \in L)
  BY <1>1, WFMin, ZenonT(60)
<1>4. \A y \in S : ~(y < x)
  BY <1>2, <1>3
<1> QED BY <1>4

(* What MapperProofs assumes about numbers and finite sets.                *)
LEMMA SetFactsHold == SetFacts
<1>1. LeastFact
  BY LeastNumber, Zenon DEF LeastFact
<1>2. SizeFact
  <2>1. IsFiniteSet({}) /\ Cardinality({}) = 0
    BY FS_EmptySet, Zenon
  <2>2. \A x : IsFiniteSet({x}) /\ Cardinality({x}) = 1
    BY FS_Singleton, Zenon
  <2>3. \A S : IsFiniteSet(S) => Cardinality(S) \in Nat
    BY FS_CardinalityType, Zenon
  <2>4. \A S : IsFiniteSet(S) => (Cardinality(S) = 0 <=> S = {})
    BY FS_EmptySet, Zenon
  <2>5. \A S : IsFiniteSet(S) => (Cardinality(S) = 1 <=> \E x : S = {x})
    BY FS_Singleton, Zenon
  <2> QED BY <2>1, <2>2, <2>3, <2>4, <2>5, Zenon DEF SizeFact
<1>3. ChangeFact
  <2> SUFFICES ASSUME NEW S, NEW x, IsFiniteSet(S)
               PROVE  /\ IsFiniteSet(S \cup {x}) /\ IsFiniteSet(S \ {x})
                      /\ Cardinality(S \cup {x}) = IF x \in S THEN Cardinality(S) ELSE Cardinality(S) + 1
                      /\ Cardinality(S \ {x}) = IF x \in S THEN Cardinality(S) - 1 ELSE Cardinality(S)
    BY Zenon DEF ChangeFact
  <2> QED BY FS_AddElement, FS_RemoveElement, Zenon
<1> QED BY <1>1, <1>2, <1>3, Zenon DEF SetFacts

-----------------------------------------------------------------------------
(* The invariant is inductive.                                             *)
LEMMA Inductive == ASSUME OnePageTable PROVE Spec => []IInv
<1>1. Init => IInv
  BY InitInv, SetFactsHold
<1>2. IInv /\ [Next]_vars => IInv'
  BY StepInv, SetFactsHold, Zenon
<1> QED BY <1>1, <1>2, PTL DEF Spec

(* For any number of tables, pages and address spaces, mapped_pages agrees *)
(* with the paging structures after any faults, writes and forks (map,     *)
(* unmap, recursively_clone).                                              *)
THEOREM AliasesTheorem == ASSUME OnePageTable PROVE Spec => []AliasesExact
<1>1. IInv => AliasesExact
  BY InvAliases, SetFactsHold
<1> QED BY <1>1, Inductive, PTL

(* For any number of them, a page is writable exactly where nobody shares  *)
(* it (recursively_clone clears the bit, unmap sets it again).             *)
THEOREM WritableTheorem == ASSUME OnePageTable PROVE Spec => []WritableIffUnshared
<1>1. IInv => WritableIffUnshared
  BY InvWritable
<1> QED BY <1>1, Inductive, PTL

(* No assertion of cow or of unmap fails.                                  *)
THEOREM AssertTheorem == ASSUME OnePageTable PROVE Spec => []NeverAsserts
<1>1. IInv => NeverAsserts
  BY Zenon DEF IInv, NeverAsserts
<1> QED BY <1>1, Inductive, PTL

(* A page fault changes nothing that a program can read.                   *)
THEOREM FaultTheorem == ASSUME OnePageTable PROVE Spec => FaultsKeepData
<1>1. IInv /\ [Next]_vars =>
        [tables' # tables /\ spaces' = spaces =>
           \A s \in spaces, v \in UserPages :
             View[s][v] # Unmapped => View'[s][v] = View[s][v]]_vars
  BY KeepStep, SetFactsHold, Zenon
<1> QED BY <1>1, Inductive, PTL DEF Spec, FaultsKeepData

(* Where the pages of userland lie in one page table, fork gives the new   *)
(* address space exactly the pages of the old one.                         *)
THEOREM ForkTheorem == ASSUME OnePageTable PROVE Spec => ForkClones
<1>1. IInv /\ [Next]_vars =>
        [\A s \in spaces' \ spaces : \A v \in UserPages :
           PagesAt(tables', s, v) = PagesAt(tables, cr3, v)]_vars
  BY CloneStep, SetFactsHold, Zenon
<1> QED BY <1>1, Inductive, PTL DEF Spec, ForkClones

(* For any number of them, fork and copy-on-write implement address spaces *)
(* that do not see each other's writes.                                    *)
THEOREM MapperRefinement == ASSUME OnePageTable PROVE Spec => ImplementsAddressSpaces
<1>1. Init => AS!Init
  BY InitInv, AbstractInit, SetFactsHold
<1>2. IInv /\ [Next]_vars => [AS!Next]_<<View, cr3>>
  BY AbstractStep, SetFactsHold
<1> QED BY <1>1, <1>2, Inductive, PTL DEF Spec, ImplementsAddressSpaces, AS!Spec

=============================================================================
