------------------------------- MODULE Mapper -------------------------------
(***************************************************************************)
(* The Mapper (src/arch/x86_64/src/paging/mapping.rs, table.rs) and the    *)
(* page fault handler that calls it (src/src/arch/x86_64/mm.rs): paging    *)
(* structures, fork and copy-on-write.                                     *)
(*                                                                         *)
(* Paging structures are kept as the four levels of tables they are; a     *)
(* virtual page is the quadruple of its indices, and the first is 0 in the *)
(* userland half, 1 in the kernel's.  Table number n lies in the n-th      *)
(* page of the region at physical 0x200000, so the lowest bit of n is bit  *)
(* 12 of its address.  MAPPER's lock keeps interrupts off: a call is a     *)
(* step.  The TLB is left out: accesses go by the tables.                  *)
(***************************************************************************)
EXTENDS Naturals, Sequences, FiniteSets

CONSTANTS
  Entries,      \* entries of a table
  MaxTables,    \* bound: tables in the region
  FirstTables,  \* possible values of `next` when userland gets its first page
  Pages,        \* physical pages the allocator has, numbered above the tables
  UserPages,    \* virtual pages programs use
  MaxSpaces     \* bound: address spaces

Slack == 7   \* tables kept above the bound, for a fork that is then not taken
Index == 0 .. Entries - 1
Scratch == <<1, 1, 0, 0>>
BootPage == <<0, 0, 0, 0>>   \* 0x1000, which init_mm maps
IsUser(v) == v[1] = 0
Values == {0, 1}

ASSUME MapperAssumption ==
  /\ Entries \in Nat /\ Entries >= 2
  /\ MaxTables \in Nat /\ MaxSpaces \in Nat
  /\ FirstTables \subseteq 2 .. MaxTables
  /\ Pages \subseteq Nat /\ Pages # {} /\ \A p \in Pages : p > MaxTables + Slack
  /\ BootPage \in UserPages
  /\ \A v \in UserPages : v \in {0} \X Index \X Index \X Index

VARIABLES
  tables,        \* the region of paging structures
  next,          \* Mapper.next
  mapped_pages,  \* Mapper.mapped_pages; refs is 0 where there is no entry
  free,          \* pages left in the page allocator
  mem,           \* what the physical pages hold
  cr3,           \* the PML4 in use
  spaces,        \* the PML4s there are
  stopped        \* "no", or what ended the run: "memory", "assert", "hang"

vars == <<tables, next, mapped_pages, free, mem, cr3, spaces, stopped>>

Null == [addr |-> 0, present |-> FALSE, rw |-> FALSE]
NotMapped == [refs |-> 0, aliases |-> {}]

-----------------------------------------------------------------------------
(* walk and walk_to_leaf.  Memory that is no table reads as not present.   *)

At(t, n, i) == IF n \in DOMAIN t THEN t[n][i] ELSE Null

(* The number of the page table of v, or {}.                               *)
PageTable(t, pml4, v) ==
  LET pml4e == At(t, pml4, v[1])
      pdpte == At(t, pml4e.addr, v[2])
      pde   == At(t, pdpte.addr, v[3])
  IN  IF pml4e.present /\ pdpte.present /\ pde.present THEN {pde.addr} ELSE {}

(* The leaf entry of v as {[table, page, rw]}, or {}.                      *)
Leaf(t, pml4, v) ==
  {[table |-> n, page |-> At(t, n, v[4]).addr, rw |-> At(t, n, v[4]).rw] :
     n \in {m \in PageTable(t, pml4, v) : At(t, m, v[4]).present}}

(* A table is taken from the region, and entry e written at index i of     *)
(* table n.                                                                *)
TakeTable(st, n, i, e) ==
  LET s1 == [st EXCEPT !.tables[n][i] = e] IN [s1 EXCEPT !.next = @ + 1]

(* walk_or_create_table, for the table below table n at index i.           *)
WalkOrCreate(st, n, i) ==
  IF st.tables[n][i].present THEN st
  ELSE TakeTable(st, n, i, [addr |-> st.next, present |-> TRUE, rw |-> TRUE])

(* set_flags(RW_FLAG, on) on the leaf of v in each of the given PML4s.     *)
SetRw(t, pml4s, v, on) ==
  LET leaves == {n \in UNION {PageTable(t, p, v) : p \in pml4s} : n \in DOMAIN t}
  IN  [n \in DOMAIN t |-> IF n \in leaves THEN [t[n] EXCEPT ![v[4]].rw = on] ELSE t[n]]

State == [tables |-> tables, next |-> next, mapped |-> mapped_pages]

-----------------------------------------------------------------------------
(* map, of an aligned address.  First the tables are made: the state after *)
(* that and the number of the page table.                                  *)
MakeTables(st, pml4, v) ==
  LET s1 == WalkOrCreate(st, pml4, v[1])
      n1 == s1.tables[pml4][v[1]].addr
      s2 == WalkOrCreate(s1, n1, v[2])
      n2 == s2.tables[n1][v[2]].addr
      s3 == WalkOrCreate(s2, n2, v[3])
  IN  [state |-> s3, pt |-> s3.tables[n2][v[3]].addr]

(* Then the entry is written, and for userland the page is counted, and    *)
(* write-protected if it was mapped already.                               *)
Enter(st, pt, pml4, page, v) ==
  LET s4 == [st EXCEPT !.tables[pt][v[4]] = [addr |-> page, present |-> TRUE, rw |-> TRUE]]
      mp == [refs |-> st.mapped[page].refs + 1,
             aliases |-> st.mapped[page].aliases \cup {<<pml4, v>>}]
      s5 == [s4 EXCEPT !.mapped[page] = mp]
  IN  IF ~IsUser(v) THEN s4
      ELSE IF mp.refs = 1 THEN s5
      ELSE [s5 EXCEPT !.tables = SetRw(@, {a[1] : a \in mp.aliases}, v, FALSE)]

Map(st, pml4, page, v) ==
  LET made == MakeTables(st, pml4, v) IN Enter(made.state, made.pt, pml4, page, v)

(* Faulty variants: the alias is left in the list; the entry of the one    *)
(* that is left stays read-only.                                           *)
UnmapKeepsAlias(st, pml4, v) ==
  LET leaf == CHOOSE l \in Leaf(st.tables, pml4, v) : TRUE
      s1   == [st EXCEPT !.tables[leaf.table][v[4]] = Null]
      old  == st.mapped[leaf.page]
  IN  IF ~IsUser(v) THEN s1
      ELSE CASE old.refs <= 1 -> [s1 EXCEPT !.mapped[leaf.page] = NotMapped]
             [] OTHER         -> [s1 EXCEPT !.mapped[leaf.page].refs = @ - 1]

UnmapKeepsReadOnly(st, pml4, v) ==
  LET leaf == CHOOSE l \in Leaf(st.tables, pml4, v) : TRUE
      s1   == [st EXCEPT !.tables[leaf.table][v[4]] = Null]
      old  == st.mapped[leaf.page]
      mp   == [refs |-> old.refs - 1, aliases |-> old.aliases \ {<<pml4, v>>}]
  IN  IF ~IsUser(v) THEN s1
      ELSE CASE old.refs <= 1 -> [s1 EXCEPT !.mapped[leaf.page] = NotMapped]
             [] OTHER         -> [s1 EXCEPT !.mapped[leaf.page] = mp]

(* unmap, of an aligned address that is mapped.  Where one reference is    *)
(* left, its entry becomes writable again.                                 *)
Unmap(st, pml4, v) ==
  LET leaf == CHOOSE l \in Leaf(st.tables, pml4, v) : TRUE
      s1   == [st EXCEPT !.tables[leaf.table][v[4]] = Null]
      old  == st.mapped[leaf.page]
      mp   == [refs |-> old.refs - 1, aliases |-> old.aliases \ {<<pml4, v>>}]
      s2   == [s1 EXCEPT !.mapped[leaf.page] = mp]
  IN  IF ~IsUser(v) THEN s1
      ELSE CASE old.refs <= 1 -> [s1 EXCEPT !.mapped[leaf.page] = NotMapped]
             [] old.refs = 2  -> [s2 EXCEPT !.tables = SetRw(@, {a[1] : a \in mp.aliases}, v, TRUE)]
             [] OTHER         -> s2

(* The assertions and expectations of unmap.                               *)
UnmapAsserts(st, pml4, v) ==
  \A leaf \in Leaf(st.tables, pml4, v) :
    LET old == st.mapped[leaf.page] IN
      /\ old.refs >= 1
      /\ old.refs > 1 => <<pml4, v>> \in old.aliases
      /\ old.refs = 2 => /\ Cardinality(old.aliases) = 2
                         /\ \A a \in old.aliases : Leaf(st.tables, a[1], v) # {}

-----------------------------------------------------------------------------
(* set_addr(addr), then set_flags(flags, true), where flags are those of   *)
(* `src` under ALL_FLAGS.  PAT_FLAG is bit 12: the lowest bit of the       *)
(* address of src is or-ed into the address.                               *)
WithFlags(addr, src) ==
  [src EXCEPT !.addr = IF src.addr % 2 = 1 /\ addr % 2 = 0 THEN addr + 1 ELSE addr]

(* recursively_clone, by its levels.  Level 1, a page table: an entry that *)
(* is present is shared, read-only on both sides.  Its own flags leave its *)
(* address as it is.  The first is a faulty variant: the source is left    *)
(* writable.                                                               *)
ClonePtSrcWritable(st, src, dst, dst_cr3, v) ==
  LET e == st.tables[src]
      Shared(p) == {i \in Index : e[i].present /\ e[i].addr = p}
      Entry(n, i) == IF e[i].present THEN [e[i] EXCEPT !.rw = FALSE] ELSE st.tables[n][i]
  IN  [st EXCEPT
         !.tables = [@ EXCEPT ![dst] = [i \in Index |-> Entry(dst, i)]],
         !.mapped = [p \in Pages |->
           [refs |-> st.mapped[p].refs + Cardinality(Shared(p)),
            aliases |-> st.mapped[p].aliases \cup {<<dst_cr3, Append(v, i)>> : i \in Shared(p)}]]]

ClonePt(st, src, dst, dst_cr3, v) ==
  LET e == st.tables[src]
      Shared(p) == {i \in Index : e[i].present /\ e[i].addr = p}
      Entry(n, i) == IF e[i].present THEN [e[i] EXCEPT !.rw = FALSE] ELSE st.tables[n][i]
  IN  [st EXCEPT
         !.tables = [@ EXCEPT ![src] = [i \in Index |-> Entry(src, i)],
                              ![dst] = [i \in Index |-> Entry(dst, i)]],
         !.mapped = [p \in Pages |->
           [refs |-> st.mapped[p].refs + Cardinality(Shared(p)),
            aliases |-> st.mapped[p].aliases \cup {<<dst_cr3, Append(v, i)>> : i \in Shared(p)}]]]

(* A new table for entry e, at index i of table dst.                       *)
CloneTable(st, dst, i, e) ==
  TakeTable(st, dst, i, [WithFlags(st.next, e) EXCEPT !.rw = TRUE])

(* Level 2, a page directory.                                              *)
ClonePd(st, src, dst, dst_cr3, v) ==
  LET Entry(s, i) ==
        LET e == s.tables[src][i] IN
        IF ~e.present THEN s
        ELSE ClonePt(CloneTable(s, dst, i, e), e.addr, s.next, dst_cr3, Append(v, i))
      done[k \in 0 .. Entries] == IF k = 0 THEN st ELSE Entry(done[k - 1], k - 1)
  IN  done[Entries]

(* Level 3, a PDPT.                                                        *)
recursively_clone(st, src, dst, dst_cr3, v) ==
  LET Entry(s, i) ==
        LET e == s.tables[src][i] IN
        IF ~e.present THEN s
        ELSE ClonePd(CloneTable(s, dst, i, e), e.addr, s.next, dst_cr3, Append(v, i))
      done[k \in 0 .. Entries] == IF k = 0 THEN st ELSE Entry(done[k - 1], k - 1)
  IN  done[Entries]

(* fork: the kernel half is shared, the userland half is cloned.  Here     *)
(* the address is set after the flags.                                     *)
CloneSpace(st, src) ==
  LET dst == st.next
      s1  == TakeTable(st, dst, 1, st.tables[src][1])
      e   == st.tables[src][0]
      s2  == TakeTable(s1, dst, 0, [e EXCEPT !.addr = s1.next])
  IN  IF ~e.present THEN s1 ELSE recursively_clone(s2, e.addr, s1.next, dst, <<0>>)

-----------------------------------------------------------------------------
Lowest(S) == CHOOSE p \in S : \A q \in S : p <= q

Update(st) ==
  /\ tables' = st.tables
  /\ next' = st.next
  /\ mapped_pages' = st.mapped

Stop(why) ==
  /\ stopped' = why
  /\ UNCHANGED <<tables, next, mapped_pages, free, mem, cr3, spaces>>

(* page_fault_handler on a page that is not present: alloc_page_at.  map   *)
(* refuses an address inside the page; the page taken is then lost.        *)
FaultNotPresent(v, aligned) ==
  /\ stopped = "no"
  /\ Leaf(tables, cr3, v) = {}
  /\ \/ /\ free = {}
        /\ Stop("memory")
     \/ /\ free # {}
        /\ next + 3 <= MaxTables
        /\ free' = free \ {Lowest(free)}
        /\ IF aligned THEN Update(Map(State, cr3, Lowest(free), v))
                      ELSE UNCHANGED <<tables, next, mapped_pages>>
        /\ UNCHANGED <<mem, cr3, spaces, stopped>>

(* The page after v, which a copy that does not start at a page's start    *)
(* also reads.                                                             *)
After(v) ==
  CASE v[4] + 1 \in Index -> {<<v[1], v[2], v[3], v[4] + 1>>}
    [] v[4] + 1 \notin Index /\ v[3] + 1 \in Index -> {<<v[1], v[2], v[3] + 1, 0>>}
    [] v[4] + 1 \notin Index /\ v[3] + 1 \notin Index /\ v[2] + 1 \in Index ->
         {<<v[1], v[2] + 1, 0, 0>>}
    [] OTHER -> {}

RunsOver(v) == \A w \in After(v) : Leaf(tables, cr3, w) = {}

(* Faulty variants: the page is not copied; it is copied the wrong way.    *)
CowNoCopy(v, leaf) ==
  LET page == Lowest(free)
      s1   == Map(State, cr3, page, Scratch)
      s2   == Unmap(s1, cr3, v)
      s3   == Unmap(s2, cr3, Scratch)
  IN  /\ Update(Map(s3, cr3, page, v))
      /\ free' = free \ {page}
      /\ UNCHANGED <<mem, cr3, spaces, stopped>>

CowCopiesBack(v, leaf) ==
  LET page == Lowest(free)
      s1   == Map(State, cr3, page, Scratch)
      s2   == Unmap(s1, cr3, v)
      s3   == Unmap(s2, cr3, Scratch)
  IN  /\ Update(Map(s3, cr3, page, v))
      /\ mem' = [mem EXCEPT ![leaf.page] = mem[page]]
      /\ free' = free \ {page}
      /\ UNCHANGED <<cr3, spaces, stopped>>

(* cow: the new page is mapped at the scratch address and filled, then     *)
(* takes the place of the shared one.                                      *)
Cow(v, leaf) ==
  LET page == Lowest(free)
      s1   == Map(State, cr3, page, Scratch)
      s2   == Unmap(s1, cr3, v)
      s3   == Unmap(s2, cr3, Scratch)
  IN  /\ Update(Map(s3, cr3, page, v))
      /\ mem' = [mem EXCEPT ![page] = mem[leaf.page]]
      /\ free' = free \ {page}
      /\ UNCHANGED <<cr3, spaces, stopped>>

(* cow of an address inside the page: the copy faults on the next page, if *)
(* that is not mapped, and the nested handler waits for MAPPER's lock; or  *)
(* the copy ends and unmap refuses, with the scratch address left mapped.  *)
CowInside(v) ==
  \/ /\ RunsOver(v)
     /\ Stop("hang")
  \/ /\ ~RunsOver(v)
     /\ Update(Map(State, cr3, Lowest(free), Scratch))
     /\ free' = free \ {Lowest(free)}
     /\ \E x \in Values : mem' = [mem EXCEPT ![Lowest(free)] = x]
     /\ UNCHANGED <<cr3, spaces, stopped>>

(* page_fault_handler on a write to a page that is present and read-only.  *)
FaultReadOnly(v, aligned) ==
  /\ stopped = "no"
  /\ \E leaf \in Leaf(tables, cr3, v) :
       /\ ~leaf.rw
       /\ IF mapped_pages[leaf.page].refs <= 1 \/ ~UnmapAsserts(State, cr3, v)
          THEN Stop("assert")
          ELSE \/ /\ free = {}
                  /\ Stop("memory")
               \/ /\ free # {}
                  /\ next + 2 <= MaxTables
                  /\ IF aligned THEN Cow(v, leaf) ELSE CowInside(v)

(* A write that the tables allow.                                          *)
Write(v) ==
  /\ stopped = "no"
  /\ \E leaf \in Leaf(tables, cr3, v), x \in Values :
       /\ leaf.rw /\ leaf.page \in Pages
       /\ mem' = [mem EXCEPT ![leaf.page] = x]
  /\ UNCHANGED <<tables, next, mapped_pages, free, cr3, spaces, stopped>>

(* fork of the address space in use.                                       *)
Fork ==
  /\ stopped = "no"
  /\ Cardinality(spaces) < MaxSpaces
  /\ CloneSpace(State, cr3).next <= MaxTables
  /\ Update(CloneSpace(State, cr3))
  /\ spaces' = spaces \cup {next}
  /\ UNCHANGED <<free, mem, cr3, stopped>>

(* Another address space is put into cr3.                                  *)
Switch ==
  /\ stopped = "no"
  /\ \E s \in spaces \ {cr3} : cr3' = s
  /\ UNCHANGED <<tables, next, mapped_pages, free, mem, spaces, stopped>>

(* Mapper::new and the rest of init_mm: the PML4 is table 0, with the      *)
(* kernel half in table 1, and userland has one page.                      *)
BootState(n) ==
  [tables |-> [[k \in 0 .. MaxTables + Slack |-> [i \in Index |-> Null]]
                 EXCEPT ![0][1] = [addr |-> 1, present |-> TRUE, rw |-> TRUE]],
   next |-> n,
   mapped |-> [p \in Pages |-> NotMapped]]

Init ==
  /\ \E n \in FirstTables :
       LET st == Map(BootState(n), 0, Lowest(Pages), BootPage) IN
         tables = st.tables /\ next = st.next /\ mapped_pages = st.mapped
  /\ free = Pages \ {Lowest(Pages)}
  /\ mem = [p \in Pages |-> 0]
  /\ cr3 = 0
  /\ spaces = {0}
  /\ stopped = "no"

Next ==
  \/ \E v \in UserPages, aligned \in BOOLEAN :
       FaultNotPresent(v, aligned) \/ FaultReadOnly(v, aligned)
  \/ \E v \in UserPages : Write(v)
  \/ Fork
  \/ Switch

Spec == Init /\ [][Next]_vars

-----------------------------------------------------------------------------
(* Properties.                                                             *)

PagesAt(t, s, v) == {l.page : l \in Leaf(t, s, v)}

(* mapped_pages agrees with the paging structures: a page's aliases are    *)
(* the places that map it, and refs is their number.                       *)
AliasesExact ==
  \A p \in Pages :
    /\ mapped_pages[p].aliases = {a \in spaces \X UserPages : p \in PagesAt(tables, a[1], a[2])}
    /\ mapped_pages[p].refs = Cardinality(mapped_pages[p].aliases)

(* A page is writable in the one address space that has it, and read-only  *)
(* in all that share it.                                                   *)
WritableIffUnshared ==
  \A s \in spaces, v \in UserPages : \A l \in Leaf(tables, s, v) :
    l.rw <=> mapped_pages[l.page].refs = 1

(* No page fault trips an assertion or expectation of cow or unmap, e.g.   *)
(* "Mapped page ref count should be greater than 1".                       *)
NeverAsserts == stopped # "assert"

Unmapped == 2

View ==
  [s \in spaces |-> [v \in UserPages |->
     LET pages == PagesAt(tables, s, v)
     IN  IF pages = {} THEN Unmapped ELSE mem[CHOOSE p \in pages : TRUE]]]

AS == INSTANCE AddressSpaces WITH
        Spaces <- 0 .. MaxTables, Addrs <- UserPages, First <- 0,
        view <- View, cur <- cr3

(* fork and copy-on-write implement address spaces that do not see each    *)
(* other's writes, with faults inside pages and running out of memory too. *)
ImplementsAddressSpaces == AS!Spec

(* A page fault changes nothing that a program can read: it may map a page *)
(* and may copy one, but every mapped address reads as before.             *)
FaultsKeepData ==
  [][tables' # tables /\ spaces' = spaces =>
       \A s \in spaces, v \in UserPages :
         View[s][v] # Unmapped => View'[s][v] = View[s][v]]_vars

(* mapping/test/fork.rs:133, "Dest leaf PTE must point at the same         *)
(* physical page": after fork the new address space maps what the old one  *)
(* maps.                                                                   *)
ForkClones ==
  [][\A s \in spaces' \ spaces : \A v \in UserPages :
       PagesAt(tables', s, v) = PagesAt(tables, cr3, v)]_vars

=============================================================================
