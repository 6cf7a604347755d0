------------------------ MODULE PageAllocatorProofs ------------------------
(***************************************************************************)
(* The buddy allocator of module PageAllocator, for memory of any size,    *)
(* any memory map and any number of lists: every page has one owner, free  *)
(* merges as far as it can, and only pairs of largest blocks are lost.     *)
(***************************************************************************)
EXTENDS PageAllocator, WellFoundedInduction, TLAPS

(* The pages of a descriptor.                                              *)
Piece(r) == r[1] .. r[1] + r[2] - 1

Aligned(a, k) == a % 2^k = 0

PagesOf(b) == Pages(b[1], b[2])

TypeOK ==
  /\ free_lists \in [Lists -> SUBSET Nat]
  /\ memory_map \in Seq(Nat \X Nat) /\ todo \in Seq(Nat \X Nat)
  /\ given \subseteq Excluded .. MaxPage - 1
  /\ allocated \subseteq Nat \X Lists
  /\ panicked \subseteq Lists

(* The blocks in B are aligned, lie in the usable memory and are disjoint. *)
Sound(B) ==
  \A b \in B :
    /\ Aligned(b[1], b[2])
    /\ PagesOf(b) \subseteq given
    /\ \A c \in B : b # c => PagesOf(b) \cap PagesOf(c) = {}

Owned == Sound(FreeBlks \cup allocated) /\ FreeBlks \cap allocated = {}

(* What init has still to look at is usable, disjoint and owned by nobody. *)
Untouched ==
  \A i \in 1 .. Len(todo) :
    /\ todo[i][2] >= 1
    /\ Piece(todo[i]) \subseteq given
    /\ \A j \in 1 .. Len(todo) : i # j => Piece(todo[i]) \cap Piece(todo[j]) = {}
    /\ \A j \in 1 .. Len(memory_map) : Piece(todo[i]) \cap Piece(memory_map[j]) = {}
    /\ \A b \in FreeBlks \cup allocated : Piece(todo[i]) \cap PagesOf(b) = {}

(* The descriptors init_mm has not cut yet; until it has cut them all      *)
(* there are no blocks.                                                    *)
Uncut ==
  /\ \A i \in 1 .. Len(memory_map) :
       /\ memory_map[i][2] >= 1
       /\ \A p \in Piece(memory_map[i]) : p >= Excluded => p \in given
       /\ \A j \in 1 .. Len(memory_map) :
            i # j => Piece(memory_map[i]) \cap Piece(memory_map[j]) = {}
  /\ memory_map # <<>> => FreeBlks \cup allocated = {}

(* The page p lies in an aligned pair of largest blocks, all of it usable. *)
InPair(p) == Pages(Up(p, BLOCK_ORDER_COUNT + 1), BLOCK_ORDER_COUNT + 1) \subseteq given

(* Every usable page is somewhere, or in such a pair.                      *)
Accounted ==
  \A p \in given :
    \/ \E b \in FreeBlks \cup allocated : p \in PagesOf(b)
    \/ \E i \in 1 .. Len(todo) : p \in Piece(todo[i])
    \/ \E i \in 1 .. Len(memory_map) : p \in Piece(memory_map[i])
    \/ InPair(p)

MergedIn(fl) ==
  \A i \in 0 .. BLOCK_ORDER_COUNT - 1 : \A a \in fl[i] : Buddy(a, i) \notin fl[i]

IInv == /\ TypeOK /\ Owned /\ Untouched /\ Uncut /\ Accounted
        /\ MergedIn(free_lists)

-----------------------------------------------------------------------------
(* Arithmetic, for the sizes there are: lists are fewer than the bits of a *)
(* page offset, so a size is one of twelve numbers.                        *)
LEMMA Halves ==
  ASSUME NEW k \in 0 .. 10, NEW a \in Nat
  PROVE  /\ 2^k \in Nat /\ 2^k >= 1 /\ 2^(k + 1) = 2 * 2^k
         /\ a % 2^k \in 0 .. 2^k - 1
         /\ a - (a % 2^k) \in Nat
         /\ (a - (a % 2^k)) % 2^k = 0
         /\ a % 2^k = 0 =>
              IF (a \div 2^k) % 2 = 0
              THEN a % 2^(k + 1) = 0 /\ (a + 2^k) % 2^k = 0 /\ ((a + 2^k) \div 2^k) % 2 # 0
              ELSE a >= 2^k /\ (a - 2^k) % 2^k = 0 /\ ((a - 2^k) \div 2^k) % 2 = 0
         /\ a - (a % 2^(k + 1)) =
              IF ((a - (a % 2^k)) \div 2^k) % 2 = 0 THEN a - (a % 2^k) ELSE a - (a % 2^k) - 2^k
<1>1. CASE k = 0
  BY <1>1
<1>2. CASE k = 1
  BY <1>2
<1>3. CASE k = 2
  BY <1>3
<1>4. CASE k = 3
  BY <1>4
<1>5. CASE k = 4
  BY <1>5
<1>6. CASE k = 5
  BY <1>6
<1>7. CASE k = 6
  BY <1>7
<1>8. CASE k = 7
  BY <1>8
<1>9. CASE k = 8
  BY <1>9
<1>10. CASE k = 9
  BY <1>10
<1>11. CASE k = 10
  BY <1>11
<1> QED BY <1>1, <1>2, <1>3, <1>4, <1>5, <1>6, <1>7, <1>8, <1>9, <1>10, <1>11

(* The lists, and the size after the last.                                 *)
LEMMA ListRange ==
  /\ BLOCK_ORDER_COUNT \in 0 .. 10 /\ Lists \subseteq 0 .. 10 /\ Lists \subseteq Nat
  /\ \A k \in Lists : k <= BLOCK_ORDER_COUNT
BY AllocatorAssumption DEF Lists, PAGE_SIZE_ORDER

(* A block has its first page, and pages are numbers.                      *)
LEMMA PageFacts ==
  ASSUME NEW k \in 0 .. 11, NEW a \in Nat
  PROVE  a \in Pages(a, k) /\ Pages(a, k) \subseteq Nat
<1>1. CASE k <= 10
  <2>1. k \in 0 .. 10
    BY <1>1
  <2>2. 2^k \in Nat /\ 2^k >= 1
    BY <2>1, Halves, Zenon
  <2> DEFINE s == 2^k
  <2> HIDE DEF s
  <2>3. s \in Nat /\ s >= 1
    BY <2>2 DEF s
  <2>4. a \in a .. a + s - 1 /\ a .. a + s - 1 \subseteq Nat
    BY <2>3
  <2> QED BY <2>4 DEF Pages, s
<1>2. CASE k = 11
  BY <1>2 DEF Pages
<1> QED BY <1>1, <1>2

(* Up(a, k) is the start of the aligned block of 2^k pages that a is in.   *)
LEMMA UpFacts ==
  ASSUME NEW k \in 0 .. 11, NEW a \in Nat
  PROVE  /\ Up(a, k) \in Nat /\ Aligned(Up(a, k), k)
         /\ a \in Pages(Up(a, k), k)
         /\ Aligned(a, k) => Up(a, k) = a
         /\ \A p \in Pages(Up(a, k), k) : Up(p, k) = Up(a, k)
<1>1. CASE k = 0
  BY <1>1 DEF Up, Aligned, Pages
<1>2. CASE k = 1
  BY <1>2 DEF Up, Aligned, Pages
<1>3. CASE k = 2
  BY <1>3 DEF Up, Aligned, Pages
<1>4. CASE k = 3
  BY <1>4 DEF Up, Aligned, Pages
<1>5. CASE k = 4
  BY <1>5 DEF Up, Aligned, Pages
<1>6. CASE k = 5
  BY <1>6 DEF Up, Aligned, Pages
<1>7. CASE k = 6
  BY <1>7 DEF Up, Aligned, Pages
<1>8. CASE k = 7
  BY <1>8 DEF Up, Aligned, Pages
<1>9. CASE k = 8
  BY <1>9 DEF Up, Aligned, Pages
<1>10. CASE k = 9
  BY <1>10 DEF Up, Aligned, Pages
<1>11. CASE k = 10
  BY <1>11 DEF Up, Aligned, Pages
<1>12. CASE k = 11
  BY <1>12 DEF Up, Aligned, Pages
<1> QED BY <1>1, <1>2, <1>3, <1>4, <1>5, <1>6, <1>7, <1>8, <1>9, <1>10, <1>11, <1>12

(* A block and its buddy make up the block of the next size.               *)
LEMMA BuddyFacts ==
  ASSUME NEW k \in 0 .. 10, NEW a \in Nat
  PROVE  LET u == Up(a, k)
             b == Buddy(u, k)
         IN  /\ b \in Nat /\ Aligned(b, k) /\ b # u /\ Buddy(b, k) = u
             /\ Pages(Up(a, k + 1), k + 1) = Pages(u, k) \cup Pages(b, k)
<1> DEFINE s == 2^k
           u == a - (a % s)
           b == IF (u \div s) % 2 = 0 THEN u + s ELSE u - s
           t == 2^(k + 1)
           w == a - (a % t)
<1>1. /\ s \in Nat /\ s >= 1 /\ t = 2 * s
      /\ u \in Nat /\ u % s = 0
      /\ w = IF (u \div s) % 2 = 0 THEN u ELSE u - s
  BY Halves, Zenon
<1>2. IF (u \div s) % 2 = 0
      THEN (u + s) % s = 0 /\ ((u + s) \div s) % 2 # 0
      ELSE u >= s /\ (u - s) % s = 0 /\ ((u - s) \div s) % 2 = 0
  BY <1>1, Halves, Zenon
<1>3. Up(a, k) = u /\ Up(a, k + 1) = w /\ Buddy(u, k) = b
  BY DEF Up, Buddy
<1>4. Buddy(b, k) = IF (b \div s) % 2 = 0 THEN b + s ELSE b - s
  BY DEF Buddy
<1>5. Pages(w, k + 1) = w .. w + t - 1 /\ Pages(u, k) = u .. u + s - 1 /\ Pages(b, k) = b .. b + s - 1
  BY DEF Pages
<1>6. CASE (u \div s) % 2 = 0
  <2>1. b = u + s /\ w = u /\ (b % s) = 0 /\ (b \div s) % 2 # 0
    BY <1>1, <1>2, <1>6
  <2> HIDE DEF s, u, b, t, w
  <2>2. b \in Nat /\ b # u /\ b - s = u
    BY <1>1, <2>1
  <2>3. Buddy(b, k) = u
    BY <1>4, <2>1, <2>2
  <2>4. w .. w + t - 1 = (u .. u + s - 1) \cup (b .. b + s - 1)
    BY <1>1, <2>1
  <2>5. Aligned(b, k)
    BY <2>1 DEF Aligned, s
  <2> QED BY <1>3, <1>5, <2>2, <2>3, <2>4, <2>5, Zenon
<1>7. CASE (u \div s) % 2 # 0
  <2>1. b = u - s /\ w = b /\ u >= s /\ (b % s) = 0 /\ (b \div s) % 2 = 0
    BY <1>1, <1>2, <1>7
  <2> HIDE DEF s, u, b, t, w
  <2>2. b \in Nat /\ b # u /\ b + s = u
    BY <1>1, <2>1
  <2>3. Buddy(b, k) = u
    BY <1>4, <2>1, <2>2
  <2>4. w .. w + t - 1 = (u .. u + s - 1) \cup (b .. b + s - 1)
    BY <1>1, <2>1
  <2>5. Aligned(b, k)
    BY <2>1 DEF Aligned, s
  <2> QED BY <1>3, <1>5, <2>2, <2>3, <2>4, <2>5, Zenon
<1> QED BY <1>6, <1>7

-----------------------------------------------------------------------------
(* A set of numbers that is not empty has a least element.                 *)
LEMMA LeastNumber ==
  ASSUME NEW S \in SUBSET Nat, S # {}
  PROVE  \E x \in S : \A y \in S : x <= y
<1> DEFINE R == OpToRel(<, Nat)
<1>1. IsWellFoundedOn(R, Nat)
  BY NatLessThanWellFounded, Zenon
<1>2. \A x, y \in Nat : y < x => <<y, x>> \in R
  BY DEF OpToRel
<1> HIDE DEF R
<1>3. PICK x \in S : \A y \in S : ~(<<y, x>> \in R)
  BY <1>1, WFMin, ZenonT(60)
<1>4. \A y \in S : ~(y < x)
  BY <1>2, <1>3, Zenon
<1> QED BY <1>4

(* Where merging stops.                                                    *)
LEMMA MergeFacts ==
  ASSUME NEW fl, NEW addr, NEW i \in Lists
  PROVE  LET top == MergeTo(fl, addr, i)
         IN  /\ top \in i .. BLOCK_ORDER_COUNT
             /\ top = BLOCK_ORDER_COUNT \/ ~HasBuddy(fl, addr, top)
             /\ \A k \in i .. top - 1 : HasBuddy(fl, addr, k)
<1> DEFINE S == {k \in i .. BLOCK_ORDER_COUNT : k = BLOCK_ORDER_COUNT \/ ~HasBuddy(fl, addr, k)}
<1>1. BLOCK_ORDER_COUNT \in Nat /\ i \in Nat /\ i <= BLOCK_ORDER_COUNT
  BY ListRange
<1>2. S \in SUBSET Nat /\ BLOCK_ORDER_COUNT \in S
  BY <1>1
<1>3. PICK j \in S : \A k \in S : j <= k
  BY <1>2, LeastNumber, Zenon
<1>4. j \in i .. BLOCK_ORDER_COUNT /\ (j = BLOCK_ORDER_COUNT \/ ~HasBuddy(fl, addr, j))
  OBVIOUS
<1>5. \A k \in i .. j - 1 : HasBuddy(fl, addr, k)
  <2> SUFFICES ASSUME NEW k \in i .. j - 1, ~HasBuddy(fl, addr, k) PROVE FALSE
    OBVIOUS
  <2>1. k \in i .. BLOCK_ORDER_COUNT /\ k < j
    BY <1>1, <1>4
  <2>2. k \in S
    BY <2>1
  <2> QED BY <1>3, <2>1, <2>2
<1>6. \E m \in i .. BLOCK_ORDER_COUNT :
        /\ m = BLOCK_ORDER_COUNT \/ ~HasBuddy(fl, addr, m)
        /\ \A k \in i .. m - 1 : HasBuddy(fl, addr, k)
  BY <1>4, <1>5, Zenon
<1> QED BY <1>6, Zenon DEF MergeTo

(* A block of a free list.                                                 *)
LEMMA FreeOfFacts ==
  ASSUME NEW fl \in [Lists -> SUBSET Nat]
  PROVE  /\ FreeOf(fl) \subseteq Nat \X Lists
         /\ \A a \in Nat, i \in Lists : <<a, i>> \in FreeOf(fl) <=> a \in fl[i]
<1>1. \A b \in FreeOf(fl) : \E i \in Lists : \E a \in fl[i] : b = <<a, i>>
  BY DEF FreeOf
<1>2. \A i \in Lists : \A a \in fl[i] : <<a, i>> \in FreeOf(fl)
  <2> SUFFICES ASSUME NEW i \in Lists, NEW a \in fl[i] PROVE <<a, i>> \in FreeOf(fl)
    BY Zenon
  <2>1. <<a, i>> \in {<<x, i>> : x \in fl[i]}
    OBVIOUS
  <2> QED BY <2>1, Zenon DEF FreeOf
<1> QED BY <1>1, <1>2

(* Merging up to list k makes one block of the block that is freed and the *)
(* buddies met on the way.                                                 *)
LEMMA MergedBlock ==
  ASSUME NEW addr \in Nat, NEW i \in Lists, Aligned(addr, i), NEW k \in i .. BLOCK_ORDER_COUNT
  PROVE  /\ Pages(addr, i) \subseteq Pages(Up(addr, k), k)
         /\ \A j \in i .. k - 1 : Pages(Buddy(Up(addr, j), j), j) \subseteq Pages(Up(addr, k), k)
         /\ \A p \in Pages(Up(addr, k), k) :
              \/ p \in Pages(addr, i)
              \/ \E j \in i .. k - 1 : p \in Pages(Buddy(Up(addr, j), j), j)
<1> DEFINE D(m) == Pages(Up(addr, m), m)
           E(m) == Pages(Buddy(Up(addr, m), m), m)
           Good(m) == /\ D(i) \subseteq D(m)
                      /\ \A j \in i .. m - 1 : E(j) \subseteq D(m)
                      /\ \A p \in D(m) : p \in D(i) \/ \E j \in i .. m - 1 : p \in E(j)
           S == {m \in i .. BLOCK_ORDER_COUNT : ~Good(m)}
<1>1. BLOCK_ORDER_COUNT \in Nat /\ i \in Nat /\ i <= BLOCK_ORDER_COUNT /\ BLOCK_ORDER_COUNT <= 10
  BY ListRange
<1>2. Up(addr, i) = addr
  <2>1. i \in 0 .. 11
    BY <1>1
  <2> QED BY <2>1, UpFacts, Zenon
<1>3. \A m \in i .. BLOCK_ORDER_COUNT : D(m + 1) = D(m) \cup E(m)
  <2>1. \A m \in i .. BLOCK_ORDER_COUNT : m \in 0 .. 10
    BY <1>1
  <2> QED BY <2>1, BuddyFacts, Zenon
<1>4. Good(k)
  <2> HIDE DEF D, E
  <2>1. ASSUME S # {} PROVE FALSE
    <3>1. S \in SUBSET Nat
      BY <1>1
    <3>2. PICK m \in S : \A n \in S : m <= n
      BY <2>1, <3>1, LeastNumber, Zenon
    <3>3. m \in i .. BLOCK_ORDER_COUNT /\ ~Good(m)
      OBVIOUS
    <3>4. m # i
      <4>1. Good(i)
        BY <1>1
      <4> QED BY <3>3, <4>1
    <3>5. m - 1 \in i .. BLOCK_ORDER_COUNT /\ m - 1 < m /\ (m - 1) + 1 = m
      BY <1>1, <3>3, <3>4
    <3>6. Good(m - 1)
      BY <1>1, <3>2, <3>5
    <3>7. D(m) = D(m - 1) \cup E(m - 1)
      BY <1>3, <3>5
    <3>8. i .. m - 1 = (i .. (m - 1) - 1) \cup {m - 1}
      BY <1>1, <3>3, <3>5
    <3>9. Good(m)
      BY <3>6, <3>7, <3>8, Zenon
    <3> QED BY <3>3, <3>9
  <2> QED BY <2>1
<1> QED BY <1>2, <1>4

-----------------------------------------------------------------------------
(* free takes the buddies it merges with out of their lists, with one more *)
(* at the last list, and puts one block in.                                *)
TakenOut(fl, addr, i) ==
  {b \in FreeOf(fl) : /\ b[2] \in i .. MergeTo(fl, addr, i)
                      /\ b[1] = Buddy(Up(addr, b[2]), b[2])}
PutIn(fl, addr, i) == <<Up(addr, MergeTo(fl, addr, i)), MergeTo(fl, addr, i)>>

LEMMA FreeLists ==
  ASSUME NEW fl \in [Lists -> SUBSET Nat], NEW addr \in Nat, NEW i \in Lists
  PROVE  /\ Free(fl, addr, i) \in [Lists -> SUBSET Nat]
         /\ PutIn(fl, addr, i) \in Nat \X Lists
         /\ Aligned(PutIn(fl, addr, i)[1], PutIn(fl, addr, i)[2])
         /\ FreeOf(Free(fl, addr, i)) =
              (FreeOf(fl) \ TakenOut(fl, addr, i)) \cup {PutIn(fl, addr, i)}
<1> DEFINE top == MergeTo(fl, addr, i)
           u == Up(addr, top)
           new == Free(fl, addr, i)
<1>1. top \in i .. BLOCK_ORDER_COUNT
  BY MergeFacts, Zenon
<1>2. top \in Lists /\ top \in 0 .. 11
  BY <1>1, ListRange DEF Lists
<1>3. u \in Nat /\ Aligned(u, top)
  BY <1>2, UpFacts, Zenon
<1>4. new = [j \in Lists |-> IF j \in i .. top
               THEN (fl[j] \ {Buddy(Up(addr, j), j)}) \cup (IF j = top THEN {u} ELSE {})
               ELSE fl[j]]
  BY Zenon DEF Free
<1> HIDE DEF top, u, new
<1>5. new \in [Lists -> SUBSET Nat]
  BY <1>3, <1>4
<1>6. \A a \in Nat, j \in Lists :
        a \in new[j] <=> \/ a \in fl[j] /\ ~(j \in i .. top /\ a = Buddy(Up(addr, j), j))
                         \/ a = u /\ j = top
  <2>1. top \in i .. top
    BY <1>1, ListRange
  <2> SUFFICES ASSUME NEW a \in Nat, NEW j \in Lists
               PROVE  a \in new[j] <=> \/ a \in fl[j] /\ ~(j \in i .. top /\ a = Buddy(Up(addr, j), j))
                                       \/ a = u /\ j = top
    OBVIOUS
  <2>2. new[j] = IF j \in i .. top
               THEN (fl[j] \ {Buddy(Up(addr, j), j)}) \cup (IF j = top THEN {u} ELSE {})
               ELSE fl[j]
    BY <1>4, Zenon
  <2>3. CASE j = top
    BY <2>1, <2>2, <2>3, Zenon
  <2>4. CASE j # top
    BY <2>2, <2>4, Zenon
  <2> QED BY <2>3, <2>4
<1>7. TakenOut(fl, addr, i) = {b \in FreeOf(fl) : b[2] \in i .. top /\ b[1] = Buddy(Up(addr, b[2]), b[2])}
  BY Zenon DEF TakenOut, top
<1>8. FreeOf(new) = (FreeOf(fl) \ TakenOut(fl, addr, i)) \cup {<<u, top>>}
  <2> DEFINE F == FreeOf(fl)
             T == TakenOut(fl, addr, i)
             G == FreeOf(new)
  <2>1. F \subseteq Nat \X Lists /\ G \subseteq Nat \X Lists
    BY <1>5, FreeOfFacts, Zenon
  <2>2. \A a \in Nat, j \in Lists : <<a, j>> \in G <=> <<a, j>> \in (F \ T) \cup {<<u, top>>}
    <3> SUFFICES ASSUME NEW a \in Nat, NEW j \in Lists
                 PROVE  <<a, j>> \in G <=> <<a, j>> \in (F \ T) \cup {<<u, top>>}
      BY Zenon
    <3>1. <<a, j>> \in G <=> a \in new[j]
      BY <1>5, FreeOfFacts, Zenon
    <3>2. <<a, j>> \in F <=> a \in fl[j]
      BY FreeOfFacts, Zenon
    <3>3. <<a, j>> \in T <=> <<a, j>> \in F /\ j \in i .. top /\ a = Buddy(Up(addr, j), j)
      BY <1>7
    <3>4. <<a, j>> = <<u, top>> <=> a = u /\ j = top
      OBVIOUS
    <3> HIDE DEF F, T, G
    <3> QED BY <1>6, <3>1, <3>2, <3>3, <3>4, Zenon
  <2>3. \A b \in Nat \X Lists : b = <<b[1], b[2]>> /\ b[1] \in Nat /\ b[2] \in Lists
    OBVIOUS
  <2>4. <<u, top>> \in Nat \X Lists
    BY <1>2, <1>3
  <2> HIDE DEF F, T, G
  <2>5. \A b \in Nat \X Lists : b \in G <=> b \in (F \ T) \cup {<<u, top>>}
    BY <2>2, <2>3
  <2>6. G = (F \ T) \cup {<<u, top>>}
    BY <2>1, <2>4, <2>5, Zenon
  <2> QED BY <2>6, Zenon DEF F, T, G
<1>9. PutIn(fl, addr, i) = <<u, top>>
  BY Zenon DEF PutIn, u, top
<1> QED BY <1>2, <1>3, <1>5, <1>8, <1>9 DEF new

(* No page is added, and none lost but those of a buddy at the last list.  *)
LEMMA FreePages ==
  ASSUME NEW fl \in [Lists -> SUBSET Nat], NEW addr \in Nat, NEW i \in Lists, Aligned(addr, i)
  PROVE  LET new == PutIn(fl, addr, i)
             old == TakenOut(fl, addr, i)
         IN  /\ Pages(addr, i) \subseteq PagesOf(new)
             /\ \A p \in PagesOf(new) : p \in Pages(addr, i) \/ \E c \in old : p \in PagesOf(c)
             /\ \A c \in old :
                  \/ PagesOf(c) \subseteq PagesOf(new)
                  \/ Pages(Up(addr, BLOCK_ORDER_COUNT + 1), BLOCK_ORDER_COUNT + 1) =
                       PagesOf(new) \cup PagesOf(c)
<1> DEFINE top == MergeTo(fl, addr, i)
           u == Up(addr, top)
           b(k) == Buddy(Up(addr, k), k)
           old == TakenOut(fl, addr, i)
<1>1. /\ top \in i .. BLOCK_ORDER_COUNT
      /\ top = BLOCK_ORDER_COUNT \/ ~HasBuddy(fl, addr, top)
      /\ \A k \in i .. top - 1 : HasBuddy(fl, addr, k)
  BY MergeFacts, Zenon
<1>2. PagesOf(PutIn(fl, addr, i)) = Pages(u, top)
  BY DEF PagesOf, PutIn
<1>3. /\ Pages(addr, i) \subseteq Pages(u, top)
      /\ \A j \in i .. top - 1 : Pages(b(j), j) \subseteq Pages(u, top)
      /\ \A p \in Pages(u, top) : p \in Pages(addr, i) \/ \E j \in i .. top - 1 : p \in Pages(b(j), j)
  BY <1>1, MergedBlock, Zenon
<1>4. BLOCK_ORDER_COUNT \in 0 .. 10 /\ Lists = 0 .. BLOCK_ORDER_COUNT /\ i \in Nat
  BY ListRange DEF Lists
<1>5. \A k \in i .. top - 1 : <<b(k), k>> \in old /\ PagesOf(<<b(k), k>>) = Pages(b(k), k)
  <2> SUFFICES ASSUME NEW k \in i .. top - 1
               PROVE  <<b(k), k>> \in old /\ PagesOf(<<b(k), k>>) = Pages(b(k), k)
    OBVIOUS
  <2>1. k \in Lists /\ k \in i .. top
    BY <1>1, <1>4
  <2>2. b(k) \in fl[k] /\ b(k) \in Nat
    BY <1>1, <2>1 DEF HasBuddy
  <2>3. <<b(k), k>> \in FreeOf(fl)
    BY <2>1, <2>2, FreeOfFacts, Zenon
  <2>4. <<b(k), k>>[1] = b(k) /\ <<b(k), k>>[2] = k
    OBVIOUS
  <2> HIDE DEF b
  <2> QED BY <2>1, <2>3, <2>4, Zenon DEF TakenOut, PagesOf, b, top
<1>6. \A c \in old : /\ c[2] \in i .. top /\ PagesOf(c) = Pages(b(c[2]), c[2])
                     /\ c[2] \in Lists /\ c[1] \in fl[c[2]] /\ c[1] = b(c[2])
  <2> SUFFICES ASSUME NEW c \in old
               PROVE  /\ c[2] \in i .. top /\ PagesOf(c) = Pages(b(c[2]), c[2])
                      /\ c[2] \in Lists /\ c[1] \in fl[c[2]] /\ c[1] = b(c[2])
    OBVIOUS
  <2>1. c \in FreeOf(fl) /\ c[2] \in i .. top /\ c[1] = b(c[2])
    BY Zenon DEF TakenOut
  <2>2. c \in Nat \X Lists
    BY <2>1, FreeOfFacts, Zenon
  <2>3. c[1] \in Nat /\ c[2] \in Lists /\ c = <<c[1], c[2]>>
    BY <2>2
  <2>4. c[1] \in fl[c[2]]
    BY <2>1, <2>3, FreeOfFacts, Zenon
  <2> QED BY <2>1, <2>3, <2>4, Zenon DEF PagesOf
<1>7. ASSUME NEW c \in old, ~(PagesOf(c) \subseteq Pages(u, top))
      PROVE  Pages(Up(addr, BLOCK_ORDER_COUNT + 1), BLOCK_ORDER_COUNT + 1) = Pages(u, top) \cup PagesOf(c)
  <2> DEFINE k == c[2]
  <2>1. k \in i .. top /\ PagesOf(c) = Pages(b(k), k) /\ b(k) \in fl[k]
    BY <1>6, Zenon
  <2>2. k \notin i .. top - 1
    BY <1>3, <1>7, <2>1, Zenon
  <2>3. k = top
    BY <1>1, <1>4, <2>1, <2>2
  <2>4. HasBuddy(fl, addr, top)
    BY <2>1, <2>3 DEF HasBuddy
  <2>5. top = BLOCK_ORDER_COUNT
    BY <1>1, <2>4
  <2>6. Pages(Up(addr, top + 1), top + 1) = Pages(u, top) \cup Pages(b(top), top)
    BY <1>4, <2>5, BuddyFacts, Zenon
  <2> QED BY <2>1, <2>3, <2>5, <2>6, Zenon
<1>8. \A p \in Pages(u, top) : p \in Pages(addr, i) \/ \E c \in old : p \in PagesOf(c)
  <2> HIDE DEF old, top, u, b
  <2> QED BY <1>3, <1>5, Zenon
<1> QED BY <1>2, <1>3, <1>7, <1>8, Zenon

(* The block is disjoint from the blocks there are, free or in A.          *)
Freeable(fl, addr, i, A) ==
  /\ Aligned(addr, i) /\ Pages(addr, i) \subseteq given
  /\ Sound(FreeOf(fl) \cup A) /\ FreeOf(fl) \cap A = {}
  /\ \A b \in FreeOf(fl) \cup A : Pages(addr, i) \cap PagesOf(b) = {}

(* What free leaves, with lists nl: sound blocks on the same pages, but    *)
(* for a lost pair.                                                        *)
Freed(fl, nl, addr, i, A) ==
  /\ Sound(FreeOf(nl) \cup A) /\ FreeOf(nl) \cap A = {}
  /\ \A b \in FreeOf(nl) \cup A : \A p \in PagesOf(b) :
       p \in Pages(addr, i) \/ \E c \in FreeOf(fl) \cup A : p \in PagesOf(c)
  /\ \A p : p \in Pages(addr, i) \/ (\E c \in FreeOf(fl) \cup A : p \in PagesOf(c)) =>
       InPair(p) \/ \E b \in FreeOf(nl) \cup A : p \in PagesOf(b)

(* free of a block that is disjoint from the blocks there are leaves sound *)
(* blocks on the same pages, but for a lost pair.                          *)
LEMMA FreeSound ==
  ASSUME NEW fl \in [Lists -> SUBSET Nat], NEW addr \in Nat, NEW i \in Lists, NEW A,
         Freeable(fl, addr, i, A)
  PROVE  Freed(fl, Free(fl, addr, i), addr, i, A)
<1> SUFFICES ASSUME Aligned(addr, i), Pages(addr, i) \subseteq given,
                    Sound(FreeOf(fl) \cup A), FreeOf(fl) \cap A = {},
                    \A b \in FreeOf(fl) \cup A : Pages(addr, i) \cap PagesOf(b) = {}
             PROVE  Freed(fl, Free(fl, addr, i), addr, i, A)
  BY Zenon DEF Freeable
<1> DEFINE n == PutIn(fl, addr, i)
           T == TakenOut(fl, addr, i)
           F == FreeOf(fl)
           new == FreeOf(Free(fl, addr, i))
           last == BLOCK_ORDER_COUNT + 1
<1>1. new = (F \ T) \cup {n} /\ n \in Nat \X Lists /\ Aligned(n[1], n[2])
  BY FreeLists, Zenon
<1>2. T \subseteq F
  BY Zenon DEF TakenOut
<1>3. /\ Pages(addr, i) \subseteq PagesOf(n)
      /\ \A p \in PagesOf(n) : p \in Pages(addr, i) \/ \E c \in T : p \in PagesOf(c)
      /\ \A c \in T : \/ PagesOf(c) \subseteq PagesOf(n)
                      \/ Pages(Up(addr, last), last) = PagesOf(n) \cup PagesOf(c)
  BY FreePages, Zenon
<1>4. \A b \in F \cup A : /\ Aligned(b[1], b[2]) /\ PagesOf(b) \subseteq given
                          /\ \A c \in F \cup A : b # c => PagesOf(b) \cap PagesOf(c) = {}
  BY Zenon DEF Sound
<1>5. n[1] \in PagesOf(n)
  <2>1. n[1] \in Nat /\ n[2] \in Lists
    BY <1>1
  <2>2. \A k \in Lists : k \in 0 .. 11
    BY ListRange
  <2> QED BY <2>1, <2>2, PageFacts, Zenon DEF PagesOf
<1> HIDE DEF n, T, F, new, last
<1>6. PagesOf(n) \subseteq given
  BY <1>2, <1>3, <1>4, Zenon
<1>7. \A b \in (F \ T) \cup A : PagesOf(n) \cap PagesOf(b) = {}
  <2> SUFFICES ASSUME NEW b \in (F \ T) \cup A, NEW p \in PagesOf(n), p \in PagesOf(b)
               PROVE  FALSE
    BY Zenon
  <2>1. b \in F \cup A /\ b \notin T
    BY <1>2 DEF F
  <2>2. p \notin Pages(addr, i)
    BY <2>1, Zenon DEF F
  <2>3. PICK c \in T : p \in PagesOf(c)
    BY <1>3, <2>2, Zenon
  <2>4. c \in F \cup A /\ c # b
    BY <1>2, <2>1, <2>3, Zenon
  <2> QED BY <1>4, <2>1, <2>3, <2>4, Zenon
<1>8. n \notin (F \ T) \cup A
  BY <1>5, <1>7, Zenon
<1>9. Sound(new \cup A)
  <2> SUFFICES ASSUME NEW b \in new \cup A
               PROVE  /\ Aligned(b[1], b[2]) /\ PagesOf(b) \subseteq given
                      /\ \A c \in new \cup A : b # c => PagesOf(b) \cap PagesOf(c) = {}
    BY Zenon DEF Sound
  <2>1. \A c \in new \cup A : c = n \/ c \in (F \ T) \cup A
    BY <1>1, Zenon
  <2>2. \A c \in (F \ T) \cup A : c \in F \cup A
    BY Zenon
  <2>3. CASE b = n
    BY <1>1, <1>6, <1>7, <2>1, <2>3, Zenon
  <2>4. CASE b # n
    <3>1. b \in (F \ T) \cup A /\ b \in F \cup A
      BY <2>1, <2>2, <2>4, Zenon
    <3>2. PagesOf(b) \cap PagesOf(n) = {}
      BY <1>7, <3>1, Zenon
    <3>3. \A c \in (F \ T) \cup A : b # c => PagesOf(b) \cap PagesOf(c) = {}
      BY <1>4, <2>2, <3>1, Zenon
    <3>4. \A c \in new \cup A : b # c => PagesOf(b) \cap PagesOf(c) = {}
      BY <2>1, <3>2, <3>3, Zenon
    <3> QED BY <1>4, <3>1, <3>4, Zenon
  <2> QED BY <2>3, <2>4
<1>10. new \cap A = {}
  BY <1>1, <1>8, Zenon DEF F
<1>11. \A b \in new \cup A : \A p \in PagesOf(b) :
         p \in Pages(addr, i) \/ \E c \in F \cup A : p \in PagesOf(c)
  BY <1>1, <1>2, <1>3, Zenon
<1>12. ASSUME NEW p, p \in Pages(addr, i) \/ (\E c \in F \cup A : p \in PagesOf(c)),
              \A b \in new \cup A : p \notin PagesOf(b)
       PROVE  InPair(p)
  <2>1. p \notin PagesOf(n) /\ \A b \in (F \ T) \cup A : p \notin PagesOf(b)
    BY <1>1, <1>12, Zenon
  <2>2. PICK c \in T : p \in PagesOf(c)
    BY <1>3, <1>12, <2>1, Zenon
  <2>3. Pages(Up(addr, last), last) = PagesOf(n) \cup PagesOf(c)
    BY <1>3, <2>1, <2>2, Zenon
  <2>4. p \in Pages(Up(addr, last), last) /\ Pages(Up(addr, last), last) \subseteq given
    BY <1>2, <1>4, <1>6, <2>2, <2>3, Zenon
  <2>5. last \in 0 .. 11
    BY ListRange DEF last
  <2>6. Up(p, last) = Up(addr, last)
    BY <2>4, <2>5, UpFacts, Zenon
  <2> QED BY <2>4, <2>6, Zenon DEF InPair, last
<1> QED BY <1>9, <1>10, <1>11, <1>12, Zenon DEF Freed, new, F

(* free leaves no block with its buddy in a list below the last.           *)
LEMMA FreeMerged ==
  ASSUME NEW fl \in [Lists -> SUBSET Nat], NEW addr \in Nat, NEW i \in Lists,
         \A k \in Lists : \A a \in fl[k] : Aligned(a, k), MergedIn(fl)
  PROVE  MergedIn(Free(fl, addr, i))
<1> DEFINE top == MergeTo(fl, addr, i)
           u == Up(addr, top)
           new == Free(fl, addr, i)
<1> SUFFICES ASSUME NEW k \in 0 .. BLOCK_ORDER_COUNT - 1, NEW a \in new[k], Buddy(a, k) \in new[k]
             PROVE  FALSE
  BY Zenon DEF MergedIn
<1>1. /\ top \in i .. BLOCK_ORDER_COUNT
      /\ top = BLOCK_ORDER_COUNT \/ ~HasBuddy(fl, addr, top)
  BY MergeFacts, Zenon
<1>2. k \in Lists /\ k \in 0 .. 10 /\ k \in 0 .. 11 /\ k # BLOCK_ORDER_COUNT
  BY ListRange DEF Lists
<1>3. new[k] \subseteq fl[k] \/ (k = top /\ new[k] \subseteq fl[k] \cup {u})
  BY <1>2, Zenon DEF Free
<1>4. \A x \in fl[k] : x \in Nat /\ Buddy(x, k) \notin fl[k] /\ Aligned(x, k)
  BY <1>2, Zenon DEF MergedIn
<1>5. k = top /\ (a = u \/ Buddy(a, k) = u)
  <2> HIDE DEF new, top, u
  <2> QED BY <1>3, <1>4, Zenon
<1>6. ~HasBuddy(fl, addr, k)
  BY <1>1, <1>2, <1>5
<1>7. Buddy(Up(addr, k), k) \notin fl[k]
  BY <1>6 DEF HasBuddy
<1>8. Buddy(u, k) # u /\ u = Up(addr, k)
  BY <1>2, <1>5, BuddyFacts, Zenon
<1>9. CASE a = u
  <2> HIDE DEF new, top, u
  <2>1. Buddy(a, k) \in fl[k]
    BY <1>3, <1>8, <1>9, Zenon
  <2> QED BY <1>7, <1>8, <1>9, <2>1, Zenon
<1>10. CASE a # u
  <2> HIDE DEF new, top, u
  <2>1. a \in fl[k] /\ Buddy(a, k) = u
    BY <1>3, <1>5, <1>10, Zenon
  <2>2. Up(a, k) = a
    BY <1>2, <1>4, <2>1, UpFacts, Zenon
  <2>3. Buddy(Buddy(Up(a, k), k), k) = Up(a, k)
    BY <1>2, <1>4, <2>1, BuddyFacts, Zenon
  <2>4. Buddy(u, k) = a
    BY <2>1, <2>2, <2>3, Zenon
  <2> QED BY <1>7, <1>8, <2>1, <2>4, Zenon
<1> QED BY <1>9, <1>10

-----------------------------------------------------------------------------
(* init.                                                                   *)

(* exclude_range keeps the pages of a descriptor from Excluded on.         *)
LEMMA ExcludeFacts ==
  ASSUME NEW b \in Nat \X Nat, b[2] >= 1
  PROVE  \/ ExcludeRange(b) = <<>> /\ \A p \in Piece(b) : p < Excluded
         \/ \E r \in Nat \X Nat :
              /\ ExcludeRange(b) = <<r>> /\ r[2] >= 1
              /\ Piece(r) = {p \in Piece(b) : p >= Excluded}
<1> DEFINE end == b[1] + b[2]
<1>0. Excluded \in Nat /\ b[1] \in Nat /\ b[2] \in Nat /\ Piece(b) = b[1] .. end - 1
  BY AllocatorAssumption DEF Piece
<1>1. CASE b[1] < Excluded /\ end <= Excluded
  <2>1. ExcludeRange(b) = <<>>
    BY <1>0, <1>1 DEF ExcludeRange
  <2> QED BY <1>0, <1>1, <2>1
<1>2. CASE b[1] < Excluded /\ end > Excluded
  <2> DEFINE r == <<Excluded, end - Excluded>>
  <2>1. ExcludeRange(b) = <<r>>
    BY <1>0, <1>2 DEF ExcludeRange
  <2>2. r \in Nat \X Nat /\ r[1] = Excluded /\ r[2] = end - Excluded /\ r[2] >= 1
    BY <1>0, <1>2
  <2>3. Piece(r) = Excluded .. end - 1
    <3>1. Piece(r) = r[1] .. r[1] + r[2] - 1
      BY Zenon DEF Piece
    <3> QED BY <1>0, <2>2, <3>1
  <2>4. Piece(r) = {p \in Piece(b) : p >= Excluded}
    BY <1>0, <1>2, <2>3
  <2> QED BY <2>1, <2>2, <2>4, Zenon
<1>3. CASE b[1] >= Excluded
  <2>1. ExcludeRange(b) = <<b>>
    BY <1>0, <1>3 DEF ExcludeRange
  <2>2. Piece(b) = {p \in Piece(b) : p >= Excluded}
    BY <1>0, <1>3
  <2> QED BY <2>1, <2>2, Zenon
<1> QED BY <1>0, <1>1, <1>2, <1>3

(* A range whose buddies up to list i - 1 lie in it starts at a multiple   *)
(* of 2^i and has as many pages.                                           *)
LEMMA RangeFacts ==
  ASSUME NEW start \in Nat, NEW size \in Nat, size >= 1, NEW i \in 0 .. 11,
         \A k \in 0 .. i - 1 : BuddyInRange(start, k, size)
  PROVE  Aligned(start, i) /\ 2^i <= size
<1> DEFINE Good(m) == Aligned(start, m) /\ 2^m <= size
           S == {m \in 0 .. i : ~Good(m)}
<1>1. Good(0)
  BY DEF Aligned
<1>2. ASSUME NEW m \in 0 .. i - 1, Good(m) PROVE Good(m + 1)
  <2> DEFINE z == 2^m
             b == Buddy(start, m)
  <2>0. m \in 0 .. 10 /\ 0 \in 0 .. m /\ m \in 0 .. m
    OBVIOUS
  <2>1. /\ z \in Nat /\ z >= 1 /\ 2^(m + 1) = 2 * z
        /\ (start \div z) % 2 = 0 => start % 2^(m + 1) = 0
    BY <1>2, <2>0, Halves, Zenon DEF Aligned
  <2>2. \A k \in 0 .. m : b + z - 2^k \in start .. start + size - 1
    BY <1>2, Zenon DEF BuddyInRange
  <2>3. b + z - z \in start .. start + size - 1 /\ b + z - 1 \in start .. start + size - 1
    <3>1. 2^0 = 1
      OBVIOUS
    <3> QED BY <2>0, <2>2, <3>1, Zenon
  <2>4. b = IF (start \div z) % 2 = 0 THEN start + z ELSE start - z
    BY DEF Buddy
  <2> HIDE DEF z, b
  <2>5. (start \div z) % 2 = 0
    BY <2>1, <2>3, <2>4
  <2>6. b = start + z
    BY <2>4, <2>5
  <2>7. 2 * z <= size
    BY <2>1, <2>3, <2>6
  <2>8. start % 2^(m + 1) = 0
    BY <2>1, <2>5
  <2> QED BY <2>1, <2>7, <2>8 DEF Aligned
<1> HIDE DEF Good
<1>3. ASSUME S # {} PROVE FALSE
  <2>1. S \in SUBSET Nat
    OBVIOUS
  <2>2. PICK m \in S : \A n \in S : m <= n
    BY <1>3, <2>1, LeastNumber, Zenon
  <2>3. m \in 0 .. i /\ ~Good(m)
    OBVIOUS
  <2>4. m # 0
    BY <1>1, <2>3
  <2>5. m - 1 \in 0 .. i - 1 /\ m - 1 \in 0 .. i /\ ~(m <= m - 1) /\ (m - 1) + 1 = m
    BY <2>3, <2>4
  <2>6. Good(m - 1)
    BY <2>2, <2>5
  <2>7. Good((m - 1) + 1)
    BY <1>2, <2>5, <2>6, Zenon
  <2> QED BY <2>3, <2>5, <2>7
<1>4. i \in 0 .. i
  OBVIOUS
<1>5. Good(i)
  BY <1>3, <1>4
<1> QED BY <1>5 DEF Good

(* The list init frees a block of, if there is one.                        *)
Fits(start, size) ==
  {i \in Lists : /\ ~BuddyInRange(start, i, size)
                 /\ \A k \in 0 .. i - 1 : BuddyInRange(start, k, size)}

LEMMA FitsFacts ==
  ASSUME NEW start, NEW size, Fits(start, size) = {}
  PROVE  \A k \in 0 .. BLOCK_ORDER_COUNT : BuddyInRange(start, k, size)
<1> DEFINE S == {k \in Lists : ~BuddyInRange(start, k, size)}
<1> SUFFICES ASSUME S # {} PROVE FALSE
  BY DEF Lists
<1>1. S \in SUBSET Nat
  BY ListRange, Zenon
<1>2. PICK m \in S : \A n \in S : m <= n
  BY <1>1, LeastNumber, Zenon
<1>3. \A k \in 0 .. m - 1 : k \in Lists /\ ~(m <= k)
  BY <1>1, ListRange DEF Lists
<1>4. \A k \in 0 .. m - 1 : BuddyInRange(start, k, size)
  BY <1>2, <1>3, Zenon
<1> QED BY <1>4, Zenon DEF Fits

(* What is left of the ranges once the first `shift` pages are dealt with. *)
Rest(t, shift) ==
  IF t[1][2] = shift THEN Tail(t) ELSE <<<<t[1][1] + shift, t[1][2] - shift>>>> \o Tail(t)

(* The ranges t have pages, and no page is in two of them.                 *)
Apart(t) ==
  \A i \in 1 .. Len(t) :
    t[i][2] >= 1 /\ \A j \in 1 .. Len(t) : i # j => Piece(t[i]) \cap Piece(t[j]) = {}

(* The ranges r are the ranges t without the pages of `done`.              *)
Remains(r, t, done) ==
  /\ r \in Seq(Nat \X Nat) /\ Apart(r)
  /\ \A i \in 1 .. Len(r) : /\ \E m \in 1 .. Len(t) : Piece(r[i]) \subseteq Piece(t[m])
                            /\ Piece(r[i]) \cap done = {}
  /\ \A m \in 1 .. Len(t) : \A p \in Piece(t[m]) :
       p \in done \/ \E i \in 1 .. Len(r) : p \in Piece(r[i])

LEMMA RestFacts ==
  ASSUME NEW t \in Seq(Nat \X Nat), t # <<>>, NEW shift \in Nat, shift >= 1, shift <= t[1][2],
         Apart(t)
  PROVE  Remains(Rest(t, shift), t, t[1][1] .. t[1][1] + shift - 1)
<1>0. \A i \in 1 .. Len(t) :
        t[i][2] >= 1 /\ \A j \in 1 .. Len(t) : i # j => Piece(t[i]) \cap Piece(t[j]) = {}
  BY Zenon DEF Apart
<1> USE <1>0
<1> DEFINE r == Rest(t, shift)
           a == t[1][1]
           n == t[1][2]
           done == a .. a + shift - 1
           x == <<a + shift, n - shift>>
<1>1. Len(t) \in Nat /\ Len(t) >= 1 /\ \A i \in 1 .. Len(t) : t[i] \in Nat \X Nat
  OBVIOUS
<1>2. 1 \in 1 .. Len(t) /\ a \in Nat /\ n \in Nat
  BY <1>1
<1>3. Piece(t[1]) = a .. a + n - 1 /\ done \subseteq Piece(t[1])
  BY <1>2 DEF Piece
<1>4. \A m \in 2 .. Len(t) : m \in 1 .. Len(t) /\ Piece(t[m]) \cap Piece(t[1]) = {}
  <2>1. \A m \in 2 .. Len(t) : m \in 1 .. Len(t) /\ m # 1
    BY <1>1
  <2> QED BY <1>2, <2>1, Zenon
<1>5. CASE n = shift
  <2>1. r = Tail(t)
    BY <1>5 DEF Rest
  <2>2. r \in Seq(Nat \X Nat) /\ Len(r) = Len(t) - 1 /\ \A i \in 1 .. Len(r) : r[i] = t[i + 1]
    BY <2>1
  <2>3. Piece(t[1]) = done
    BY <1>3, <1>5
  <2>4. \A i \in 1 .. Len(r) : i + 1 \in 2 .. Len(t) /\ i + 1 \in 1 .. Len(t)
    BY <1>1, <2>2
  <2> HIDE DEF r, done, a, n
  <2>5. \A i \in 1 .. Len(r) : /\ r[i][2] >= 1 /\ Piece(r[i]) = Piece(t[i + 1])
                               /\ Piece(r[i]) \cap done = {}
    BY <1>4, <2>2, <2>3, <2>4, Zenon
  <2>6. \A i, j \in 1 .. Len(r) : i # j => Piece(r[i]) \cap Piece(r[j]) = {}
    <3>1. \A i, j \in 1 .. Len(r) : i # j => i + 1 # j + 1
      BY <1>1, <2>2
    <3> QED BY <2>4, <2>5, <3>1, Zenon
  <2>7. ASSUME NEW m \in 1 .. Len(t), NEW p \in Piece(t[m]), p \notin done
        PROVE  \E i \in 1 .. Len(r) : p \in Piece(r[i])
    <3>1. m # 1
      BY <2>3, <2>7
    <3>2. m - 1 \in 1 .. Len(r) /\ (m - 1) + 1 = m
      BY <1>1, <2>2, <3>1
    <3> QED BY <2>5, <2>7, <3>2, Zenon
  <2>8. \A i \in 1 .. Len(r) : \E m \in 1 .. Len(t) : Piece(r[i]) \subseteq Piece(t[m])
    BY <2>4, <2>5, Zenon
  <2>9. Apart(r)
    BY <2>5, <2>6, Zenon DEF Apart
  <2> QED BY <2>2, <2>5, <2>7, <2>8, <2>9, Zenon DEF Remains, r, done, a
<1>6. CASE n # shift
  <2>1. r = <<x>> \o Tail(t)
    BY <1>6 DEF Rest
  <2>2. x \in Nat \X Nat /\ x[1] = a + shift /\ x[2] = n - shift /\ x[2] >= 1
    BY <1>2, <1>6
  <2>3. Piece(x) = a + shift .. a + n - 1
    <3>1. Piece(x) = x[1] .. x[1] + x[2] - 1
      BY Zenon DEF Piece
    <3> QED BY <1>2, <2>2, <3>1
  <2>4. Piece(x) \subseteq Piece(t[1]) /\ Piece(x) \cap done = {} /\ Piece(t[1]) = done \cup Piece(x)
    <3>1. a \in Nat /\ n \in Nat /\ shift \in Nat /\ shift < n
      BY <1>2, <1>6
    <3> HIDE DEF a, n, x
    <3>2. done = a .. a + shift - 1
      OBVIOUS
    <3> QED BY <1>3, <2>3, <3>1, <3>2
  <2>5. r \in Seq(Nat \X Nat) /\ Len(r) = Len(t) /\ r[1] = x /\ \A i \in 2 .. Len(r) : r[i] = t[i]
    <3> HIDE DEF x, r
    <3>1. r \in Seq(Nat \X Nat) /\ Len(r) = Len(t) /\ r[1] = x
      BY <2>1, <2>2
    <3>2. \A i \in 2 .. Len(r) : r[i] = t[i]
      BY <2>1, <2>2, <3>1
    <3> QED BY <3>1, <3>2, Zenon
  <2> HIDE DEF r, done, a, n, x
  <2>6. \A i \in 1 .. Len(r) : i = 1 \/ i \in 2 .. Len(r)
    BY <1>1, <2>5
  <2>7. \A i \in 1 .. Len(r) : Piece(r[i]) \subseteq Piece(t[i])
    BY <2>4, <2>5, <2>6, Zenon
  <2>8. \A i \in 1 .. Len(r) : r[i][2] >= 1 /\ Piece(r[i]) \cap done = {}
    <3>1. \A i \in 2 .. Len(r) : r[i][2] >= 1
      BY <1>4, <2>5, Zenon
    <3>2. \A i \in 2 .. Len(r) : Piece(r[i]) \cap done = {}
      BY <1>3, <1>4, <2>5, Zenon
    <3> QED BY <2>2, <2>4, <2>5, <2>6, <3>1, <3>2, Zenon
  <2>9. \A i, j \in 1 .. Len(r) : i # j => Piece(r[i]) \cap Piece(r[j]) = {}
    BY <2>5, <2>7, Zenon
  <2>10. ASSUME NEW m \in 1 .. Len(t), NEW p \in Piece(t[m]), p \notin done
         PROVE  \E i \in 1 .. Len(r) : p \in Piece(r[i])
    BY <2>4, <2>5, <2>6, <2>10, Zenon
  <2>11. Apart(r)
    BY <2>8, <2>9, Zenon DEF Apart
  <2> QED BY <2>5, <2>7, <2>8, <2>10, <2>11, Zenon DEF Remains, r, done, a
<1> QED BY <1>5, <1>6, Zenon

(* An iteration of init's loop: the list and the pages dealt with.         *)
LEMMA InitStepFacts ==
  ASSUME TypeOK, Untouched, InitStep
  PROVE  \E k \in 0 .. 11 :
           /\ todo' = Rest(todo, 2^k)
           /\ 2^k \in Nat /\ 2^k >= 1 /\ 2^k <= todo[1][2] /\ Aligned(todo[1][1], k)
           /\ \/ k \in Lists /\ free_lists' = Free(free_lists, todo[1][1], k)
              \/ k = BLOCK_ORDER_COUNT + 1 /\ free_lists' = free_lists
<1> DEFINE start == todo[1][1]
           size == todo[1][2]
           fits == Fits(start, size)
           last == BLOCK_ORDER_COUNT + 1
<1>1. todo \in Seq(Nat \X Nat) /\ todo # <<>>
  BY DEF TypeOK, InitStep
<1>2. 1 \in 1 .. Len(todo) /\ start \in Nat /\ size \in Nat
  BY <1>1
<1>3. size >= 1
  BY <1>2 DEF Untouched
<1>4. LET shift == IF fits = {} THEN 2^last ELSE 2^(CHOOSE i \in fits : TRUE)
      IN  /\ free_lists' = IF fits = {} THEN free_lists
                           ELSE Free(free_lists, start, CHOOSE i \in fits : TRUE)
          /\ todo' = IF size = shift THEN Tail(todo)
                     ELSE <<<<start + shift, size - shift>>>> \o Tail(todo)
  BY Zenon DEF InitStep, Fits
<1>5. \A k \in 0 .. 11 : 2^k \in Nat /\ 2^k >= 1
  <2> SUFFICES ASSUME NEW k \in 0 .. 11 PROVE 2^k \in Nat /\ 2^k >= 1
    BY Zenon
  <2>1. CASE k = 11
    BY <2>1
  <2>2. CASE k # 11
    <3>1. k \in 0 .. 10
      BY <2>2
    <3> QED BY <3>1, Halves, Zenon
  <2> QED BY <2>1, <2>2
<1>6. BLOCK_ORDER_COUNT \in 0 .. 10 /\ last \in 0 .. 11 /\ 0 .. last - 1 = 0 .. BLOCK_ORDER_COUNT
  BY ListRange
<1> HIDE DEF start, size, fits
<1>7. CASE fits = {}
  <2>1. \A k \in 0 .. last - 1 : BuddyInRange(start, k, size)
    BY <1>6, <1>7, FitsFacts, Zenon DEF fits
  <2>2. Aligned(start, last) /\ 2^last <= size
    BY <1>2, <1>3, <1>6, <2>1, RangeFacts, Zenon
  <2>3. free_lists' = free_lists /\ todo' = Rest(todo, 2^last)
    BY <1>4, <1>7, Zenon DEF Rest, start, size
  <2> QED BY <1>5, <1>6, <2>2, <2>3, Zenon DEF start, size
<1>8. CASE fits # {}
  <2> DEFINE i == CHOOSE j \in fits : TRUE
  <2>1. i \in fits
    BY <1>8, Zenon
  <2>2. free_lists' = Free(free_lists, start, i) /\ todo' = Rest(todo, 2^i)
    BY <1>4, <1>8, Zenon DEF Rest, start, size
  <2> HIDE DEF i
  <2>3. i \in Lists /\ \A k \in 0 .. i - 1 : BuddyInRange(start, k, size)
    BY <2>1, Zenon DEF fits, Fits
  <2>4. i \in 0 .. 11
    BY <2>3, ListRange
  <2>5. Aligned(start, i) /\ 2^i <= size
    BY <1>2, <1>3, <2>3, <2>4, RangeFacts, Zenon
  <2> QED BY <1>5, <2>2, <2>3, <2>4, <2>5, Zenon DEF start, size
<1> QED BY <1>7, <1>8

-----------------------------------------------------------------------------
(* The inductive invariant.                                                *)

LEMMA InitIInv == Init => IInv
<1> SUFFICES ASSUME Init PROVE IInv
  OBVIOUS
<1>1. /\ free_lists = [i \in Lists |-> {}] /\ memory_map \in MemoryMaps /\ given = Usable(memory_map)
      /\ todo = <<>> /\ allocated = {} /\ panicked = {}
  BY DEF Init
<1>2. FreeBlks = {}
  BY <1>1 DEF FreeBlks, FreeOf
<1>3. /\ memory_map \in Seq(Nat \X Nat)
      /\ \A i \in 1 .. Len(memory_map) :
           /\ memory_map[i][1] \in 0 .. MaxPage - 1 /\ memory_map[i][2] \in 1 .. MaxPage - memory_map[i][1]
           /\ \A j \in 1 .. Len(memory_map) : i < j =>
                \/ memory_map[i][1] + memory_map[i][2] <= memory_map[j][1]
                \/ memory_map[j][1] + memory_map[j][2] <= memory_map[i][1]
  BY <1>1, AllocatorAssumption
<1>4. \A i \in 1 .. Len(memory_map) : /\ memory_map[i][2] >= 1
                                      /\ Piece(memory_map[i]) \subseteq 0 .. MaxPage - 1
  BY <1>3, AllocatorAssumption, SMTT(30) DEF Piece
<1>5. \A i, j \in 1 .. Len(memory_map) : i # j => Piece(memory_map[i]) \cap Piece(memory_map[j]) = {}
  <2>1. \A i, j \in 1 .. Len(memory_map) : i < j => Piece(memory_map[i]) \cap Piece(memory_map[j]) = {}
    <3> SUFFICES ASSUME NEW i \in 1 .. Len(memory_map), NEW j \in 1 .. Len(memory_map), i < j
                 PROVE  Piece(memory_map[i]) \cap Piece(memory_map[j]) = {}
      OBVIOUS
    <3>1. \/ memory_map[i][1] + memory_map[i][2] <= memory_map[j][1]
          \/ memory_map[j][1] + memory_map[j][2] <= memory_map[i][1]
      BY <1>3, Zenon
    <3>2. /\ memory_map[i][1] \in Nat /\ memory_map[i][2] \in Nat
          /\ memory_map[j][1] \in Nat /\ memory_map[j][2] \in Nat
      BY <1>3, SMTT(30)
    <3>3. \A a, b, c, d \in Nat :
            a + b <= c \/ c + d <= a => (a .. a + b - 1) \cap (c .. c + d - 1) = {}
      OBVIOUS
    <3> QED BY <3>1, <3>2, <3>3, Zenon DEF Piece
  <2>2. \A i, j \in 1 .. Len(memory_map) : i # j => i < j \/ j < i
    BY <1>3
  <2> QED BY <2>1, <2>2, Zenon
<1>6. \A p : p \in given <=> p >= Excluded /\ \E i \in 1 .. Len(memory_map) : p \in Piece(memory_map[i])
  BY <1>1 DEF Usable, Covered, Piece
<1>7. TypeOK
  BY <1>1, <1>3, <1>4, <1>6 DEF TypeOK
<1>8. Owned
  BY <1>1, <1>2 DEF Owned, Sound
<1>9. Untouched
  BY <1>1 DEF Untouched
<1>10. Uncut
  BY <1>1, <1>2, <1>4, <1>5, <1>6, Zenon DEF Uncut
<1>11. Accounted
  BY <1>6, Zenon DEF Accounted
<1>12. MergedIn(free_lists)
  BY <1>1, ListRange DEF MergedIn, Lists
<1> QED BY <1>7, <1>8, <1>9, <1>10, <1>11, <1>12 DEF IInv

(* Steps that leave the blocks alone.                                      *)
LEMMA SameBlocks ==
  ASSUME UNCHANGED <<free_lists, given, allocated>>
  PROVE  /\ FreeBlks' = FreeBlks /\ (Owned => Owned') /\ \A p : InPair(p)' <=> InPair(p)
         /\ MergedIn(free_lists) => MergedIn(free_lists)'
<1>1. FreeBlks' = FreeBlks
  BY DEF FreeBlks
<1> QED BY <1>1 DEF Owned, Sound, InPair, MergedIn

(* init_mm cuts a descriptor: no blocks exist yet.                         *)
LEMMA CollectKeeps == IInv /\ Collect => IInv'
<1> SUFFICES ASSUME IInv, Collect PROVE IInv'
  OBVIOUS
<1> DEFINE h == memory_map[1]
           er == ExcludeRange(h)
<1>1. TypeOK /\ Owned /\ Untouched /\ Uncut /\ Accounted /\ MergedIn(free_lists)
  BY DEF IInv
<1>2. /\ memory_map # <<>> /\ todo' = todo \o ExcludeRange(Head(memory_map))
      /\ memory_map' = Tail(memory_map)
      /\ UNCHANGED <<free_lists, given, allocated, panicked>>
  BY DEF Collect
<1>3. /\ memory_map \in Seq(Nat \X Nat) /\ todo \in Seq(Nat \X Nat)
      /\ \A p \in given : p >= Excluded
  BY <1>1, AllocatorAssumption DEF TypeOK
<1>4. /\ memory_map' \in Seq(Nat \X Nat) /\ Len(memory_map') = Len(memory_map) - 1
      /\ Len(memory_map) \in Nat /\ Len(memory_map) >= 1 /\ Len(todo) \in Nat
      /\ \A i \in 1 .. Len(memory_map') : memory_map'[i] = memory_map[i + 1]
      /\ Head(memory_map) = h /\ h \in Nat \X Nat /\ 1 \in 1 .. Len(memory_map)
  BY <1>2, <1>3
<1>5. /\ FreeBlks \cup allocated = {} /\ FreeBlks' \cup allocated' = {}
  BY <1>1, <1>2, SameBlocks, Zenon DEF Uncut
<1>6. \A i \in 1 .. Len(memory_map') : i + 1 \in 1 .. Len(memory_map) /\ i + 1 # 1
  BY <1>4
<1>7. \A i \in 1 .. Len(memory_map) :
        /\ memory_map[i][2] >= 1
        /\ \A p \in Piece(memory_map[i]) : p >= Excluded => p \in given
        /\ \A j \in 1 .. Len(memory_map) : i # j => Piece(memory_map[i]) \cap Piece(memory_map[j]) = {}
  BY <1>1, Zenon DEF Uncut
<1>8. Uncut'
  <2>1. \A i \in 1 .. Len(memory_map') :
          memory_map'[i][2] >= 1 /\ \A p \in Piece(memory_map'[i]) : p >= Excluded => p \in given'
    BY <1>2, <1>4, <1>6, <1>7, Zenon
  <2>2. \A i, j \in 1 .. Len(memory_map') : i # j => i + 1 # j + 1
    BY <1>4
  <2>3. \A i, j \in 1 .. Len(memory_map') :
          i # j => Piece(memory_map'[i]) \cap Piece(memory_map'[j]) = {}
    BY <1>4, <1>6, <1>7, <2>2, Zenon
  <2> QED BY <1>5, <2>1, <2>3, Zenon DEF Uncut
<1>9. \A i \in 1 .. Len(todo) :
        /\ todo[i][2] >= 1 /\ Piece(todo[i]) \subseteq given
        /\ \A j \in 1 .. Len(todo) : i # j => Piece(todo[i]) \cap Piece(todo[j]) = {}
        /\ \A j \in 1 .. Len(memory_map) : Piece(todo[i]) \cap Piece(memory_map[j]) = {}
  BY <1>1, Zenon DEF Untouched
<1>10. h[2] >= 1
  BY <1>4, <1>7, Zenon
<1>11. \A p \in given : \/ \E i \in 1 .. Len(todo) : p \in Piece(todo[i])
                        \/ \E i \in 1 .. Len(memory_map) : p \in Piece(memory_map[i])
                        \/ InPair(p)
  BY <1>1, <1>5, Zenon DEF Accounted
<1>12. ASSUME NEW i \in 1 .. Len(memory_map), i # 1
       PROVE  \E j \in 1 .. Len(memory_map') : memory_map'[j] = memory_map[i]
  <2>1. i - 1 \in 1 .. Len(memory_map') /\ (i - 1) + 1 = i
    BY <1>4, <1>12
  <2> QED BY <1>4, <2>1, Zenon
<1>13. \A p \in Piece(h) : p >= Excluded => p \in given
  BY <1>4, <1>7, Zenon
<1> DEFINE Good(t) ==
             /\ t \in Seq(Nat \X Nat)
             /\ \A i \in 1 .. Len(t) :
                  /\ t[i][2] >= 1 /\ Piece(t[i]) \subseteq given
                  /\ \A j \in 1 .. Len(t) : i # j => Piece(t[i]) \cap Piece(t[j]) = {}
                  /\ \A j \in 1 .. Len(memory_map) : j # 1 => Piece(t[i]) \cap Piece(memory_map[j]) = {}
             /\ \A i \in 1 .. Len(todo) : \E j \in 1 .. Len(t) : t[j] = todo[i]
             /\ \A p \in Piece(h) : p >= Excluded => \E j \in 1 .. Len(t) : p \in Piece(t[j])
<1>14. Good(todo')
  <2>1. CASE er = <<>> /\ \A p \in Piece(h) : p < Excluded
    <3>1. todo' = todo
      BY <1>2, <1>3, <1>4, <2>1
    <3>2. \A p \in Piece(h) : ~(p >= Excluded)
      <4>1. \A p \in Piece(h) : p \in Int
        BY <1>4 DEF Piece
      <4> QED BY <2>1, <4>1, AllocatorAssumption
    <3> QED BY <1>3, <1>9, <3>1, <3>2, Zenon
  <2>2. ASSUME NEW r \in Nat \X Nat, er = <<r>>, r[2] >= 1,
               Piece(r) = {p \in Piece(h) : p >= Excluded}
        PROVE  Good(todo')
    <3>1. /\ todo' \in Seq(Nat \X Nat) /\ Len(todo') = Len(todo) + 1 /\ todo'[Len(todo) + 1] = r
          /\ \A i \in 1 .. Len(todo) : todo'[i] = todo[i]
      <4>1. todo' = todo \o <<r>>
        BY <1>2, <1>4, <2>2, Zenon
      <4> QED BY <1>3, <4>1
    <3> DEFINE l == Len(todo) + 1
    <3>2. /\ l \in 1 .. Len(todo') /\ l \notin 1 .. Len(todo)
          /\ \A i \in 1 .. Len(todo) : i \in 1 .. Len(todo')
          /\ \A i \in 1 .. Len(todo') : i = l \/ i \in 1 .. Len(todo)
      BY <1>4, <3>1
    <3> HIDE DEF l, h, er
    <3>3. todo'[l] = r
      BY <3>1 DEF l
    <3>4. /\ Piece(r) \subseteq given
          /\ \A i \in 1 .. Len(todo) : Piece(r) \cap Piece(todo[i]) = {}
          /\ \A j \in 1 .. Len(memory_map) : j # 1 => Piece(r) \cap Piece(memory_map[j]) = {}
      <4>1. Piece(r) \subseteq Piece(memory_map[1]) /\ Piece(r) \subseteq given
        BY <1>13, <2>2, Zenon DEF h
      <4>2. \A i \in 1 .. Len(todo) : Piece(r) \cap Piece(todo[i]) = {}
        BY <1>4, <1>9, <4>1, Zenon
      <4>3. \A j \in 1 .. Len(memory_map) : j # 1 => Piece(r) \cap Piece(memory_map[j]) = {}
        BY <1>4, <1>7, <4>1, Zenon
      <4> QED BY <4>1, <4>2, <4>3
    <3>5. \A i \in 1 .. Len(todo') : /\ todo'[i][2] >= 1 /\ Piece(todo'[i]) \subseteq given
            /\ \A j \in 1 .. Len(memory_map) : j # 1 => Piece(todo'[i]) \cap Piece(memory_map[j]) = {}
      BY <1>9, <2>2, <3>1, <3>2, <3>3, <3>4, Zenon
    <3>6. \A i, j \in 1 .. Len(todo') : i # j => Piece(todo'[i]) \cap Piece(todo'[j]) = {}
      <4>1. \A j \in 1 .. Len(todo) : Piece(todo'[l]) \cap Piece(todo'[j]) = {}
        BY <3>1, <3>3, <3>4, Zenon
      <4>2. \A i, j \in 1 .. Len(todo) : i # j => Piece(todo'[i]) \cap Piece(todo'[j]) = {}
        BY <1>9, <3>1, Zenon
      <4> QED BY <3>2, <4>1, <4>2, Zenon
    <3>7. \A p \in Piece(h) : p >= Excluded => p \in Piece(todo'[l])
      BY <2>2, <3>3, Zenon
    <3> QED BY <3>1, <3>2, <3>5, <3>6, <3>7, Zenon
  <2>3. \/ er = <<>> /\ \A p \in Piece(h) : p < Excluded
        \/ \E r \in Nat \X Nat :
             er = <<r>> /\ r[2] >= 1 /\ Piece(r) = {p \in Piece(h) : p >= Excluded}
    BY <1>4, <1>10, ExcludeFacts, Zenon
  <2> HIDE DEF Good, er, h
  <2> QED BY <2>1, <2>2, <2>3, Zenon
<1> HIDE DEF h, er
<1>15. Untouched'
  <2>1. \A i \in 1 .. Len(todo'), j \in 1 .. Len(memory_map') :
          Piece(todo'[i]) \cap Piece(memory_map'[j]) = {}
    BY <1>4, <1>6, <1>14, ZenonT(40)
  <2> QED BY <1>2, <1>5, <1>14, <2>1, Zenon DEF Untouched
<1>16. Accounted'
  <2> SUFFICES ASSUME NEW p \in given
               PROVE  \/ \E i \in 1 .. Len(todo') : p \in Piece(todo'[i])
                      \/ \E i \in 1 .. Len(memory_map') : p \in Piece(memory_map'[i])
                      \/ InPair(p)'
    BY <1>2, Zenon DEF Accounted
  <2>1. CASE \E i \in 1 .. Len(todo) : p \in Piece(todo[i])
    BY <1>14, <2>1, Zenon
  <2>2. ASSUME NEW i \in 1 .. Len(memory_map), p \in Piece(memory_map[i])
        PROVE  \/ \E j \in 1 .. Len(todo') : p \in Piece(todo'[j])
               \/ \E j \in 1 .. Len(memory_map') : p \in Piece(memory_map'[j])
    <3>1. CASE i = 1
      BY <1>3, <1>14, <2>2, <3>1, Zenon DEF h
    <3>2. CASE i # 1
      BY <1>12, <2>2, <3>2, Zenon
    <3> QED BY <3>1, <3>2
  <2>3. CASE InPair(p)
    BY <1>2, <2>3, SameBlocks, Zenon
  <2> QED BY <1>11, <2>1, <2>2, <2>3, Zenon
<1>17. TypeOK'
  BY <1>1, <1>2, <1>4, <1>14, Zenon DEF TypeOK
<1>18. Owned' /\ MergedIn(free_lists)'
  BY <1>1, <1>2, SameBlocks, Zenon
<1> QED BY <1>8, <1>15, <1>16, <1>17, <1>18, Zenon DEF IInv

LEMMA FreeAligned ==
  ASSUME free_lists \in [Lists -> SUBSET Nat], Owned
  PROVE  \A i \in Lists : \A a \in free_lists[i] : Aligned(a, i)
<1> SUFFICES ASSUME NEW i \in Lists, NEW a \in free_lists[i] PROVE Aligned(a, i)
  OBVIOUS
<1>1. <<a, i>> \in FreeBlks /\ <<a, i>>[1] = a /\ <<a, i>>[2] = i
  <2>1. a \in Nat
    OBVIOUS
  <2>2. <<a, i>> \in FreeBlks
    BY <2>1, FreeOfFacts, Zenon DEF FreeBlks
  <2> QED BY <2>2
<1> QED BY <1>1, Zenon DEF Owned, Sound

(* An iteration of init's loop: a block is freed, or a pair passed over.   *)
LEMMA InitStepKeeps == IInv /\ InitStep => IInv'
<1> SUFFICES ASSUME IInv, InitStep PROVE IInv'
  OBVIOUS
<1>1. TypeOK /\ Owned /\ Untouched /\ Uncut /\ Accounted /\ MergedIn(free_lists)
  BY DEF IInv
<1>2. memory_map = <<>> /\ todo # <<>> /\ UNCHANGED <<memory_map, given, allocated, panicked>>
  BY DEF InitStep
<1>3. /\ todo \in Seq(Nat \X Nat) /\ free_lists \in [Lists -> SUBSET Nat]
      /\ given \subseteq Excluded .. MaxPage - 1 /\ allocated \subseteq Nat \X Lists
      /\ panicked \subseteq Lists
  BY <1>1 DEF TypeOK
<1> DEFINE start == todo[1][1]
<1>4. PICK k \in 0 .. 11 :
        /\ todo' = Rest(todo, 2^k)
        /\ 2^k \in Nat /\ 2^k >= 1 /\ 2^k <= todo[1][2] /\ Aligned(start, k)
        /\ \/ k \in Lists /\ free_lists' = Free(free_lists, start, k)
           \/ k = BLOCK_ORDER_COUNT + 1 /\ free_lists' = free_lists
  BY <1>1, InitStepFacts, Zenon
<1>5. 1 \in 1 .. Len(todo) /\ start \in Nat /\ todo[1][2] \in Nat
  BY <1>2, <1>3
<1> DEFINE done == Pages(start, k)
           old == FreeBlks \cup allocated
<1>6. done = start .. start + 2^k - 1 /\ done \subseteq Piece(todo[1])
  <2>1. \A a, m, n \in Nat : m <= n => a .. a + m - 1 \subseteq a .. a + n - 1
    OBVIOUS
  <2> QED BY <1>4, <1>5, <2>1, Zenon DEF Pages, Piece
<1>7. \A i \in 1 .. Len(todo) :
        /\ todo[i][2] >= 1 /\ Piece(todo[i]) \subseteq given
        /\ \A j \in 1 .. Len(todo) : i # j => Piece(todo[i]) \cap Piece(todo[j]) = {}
        /\ \A b \in old : Piece(todo[i]) \cap PagesOf(b) = {}
  BY <1>1, Zenon DEF Untouched
<1>8. /\ todo' \in Seq(Nat \X Nat)
      /\ \A i \in 1 .. Len(todo') :
           /\ todo'[i][2] >= 1
           /\ \E m \in 1 .. Len(todo) : Piece(todo'[i]) \subseteq Piece(todo[m])
           /\ Piece(todo'[i]) \cap done = {}
           /\ \A j \in 1 .. Len(todo') : i # j => Piece(todo'[i]) \cap Piece(todo'[j]) = {}
      /\ \A m \in 1 .. Len(todo) : \A p \in Piece(todo[m]) :
           p \in done \/ \E i \in 1 .. Len(todo') : p \in Piece(todo'[i])
  <2>1. Apart(todo)
    BY <1>7, Zenon DEF Apart
  <2>2. Remains(Rest(todo, 2^k), todo, start .. start + 2^k - 1)
    BY <1>2, <1>3, <1>4, <2>1, RestFacts, Zenon
  <2>3. Remains(todo', todo, done)
    BY <1>4, <1>6, <2>2, Zenon
  <2> HIDE DEF done
  <2> QED BY <2>3, Zenon DEF Remains, Apart
<1>9. done \subseteq given /\ \A b \in old : done \cap PagesOf(b) = {}
  BY <1>5, <1>6, <1>7, Zenon
<1> DEFINE new == FreeBlks' \cup allocated'
(* What either kind of iteration does to the blocks.                       *)
<1>10. /\ free_lists' \in [Lists -> SUBSET Nat] /\ MergedIn(free_lists)' /\ Owned'
       /\ \A b \in new : \A p \in PagesOf(b) : p \in done \/ \E c \in old : p \in PagesOf(c)
       /\ \A p : p \in done \/ (\E c \in old : p \in PagesOf(c)) =>
            InPair(p) \/ \E b \in new : p \in PagesOf(b)
  <2>1. CASE k \in Lists /\ free_lists' = Free(free_lists, start, k)
    <3>1. Sound(FreeOf(free_lists) \cup allocated) /\ FreeOf(free_lists) \cap allocated = {}
      BY <1>1, Zenon DEF Owned, FreeBlks
    <3> DEFINE nb == FreeOf(Free(free_lists, start, k))
    <3>2. /\ Sound(nb \cup allocated) /\ nb \cap allocated = {}
          /\ \A b \in nb \cup allocated : \A p \in PagesOf(b) : p \in done \/ \E c \in old : p \in PagesOf(c)
          /\ \A p : p \in done \/ (\E c \in old : p \in PagesOf(c)) =>
               InPair(p) \/ \E b \in nb \cup allocated : p \in PagesOf(b)
      <4>1. /\ Aligned(start, k) /\ Pages(start, k) \subseteq given
            /\ \A b \in FreeOf(free_lists) \cup allocated : Pages(start, k) \cap PagesOf(b) = {}
        BY <1>4, <1>9, Zenon DEF FreeBlks
      <4>2. old = FreeOf(free_lists) \cup allocated
        BY Zenon DEF FreeBlks
      <4> HIDE DEF old, start
      <4>3. Freeable(free_lists, start, k, allocated)
        BY <3>1, <4>1, Zenon DEF Freeable
      <4>4. Freed(free_lists, Free(free_lists, start, k), start, k, allocated)
        BY <1>3, <1>5, <2>1, <4>3, FreeSound, Zenon
      <4> QED BY <4>2, <4>4, Zenon DEF Freed
    <3>3. FreeBlks' = nb /\ allocated' = allocated
      BY <1>2, <2>1, Zenon DEF FreeBlks
    <3>4. Owned'
      <4>1. \A b \in FreeBlks' \cup allocated' :
              /\ Aligned(b[1], b[2]) /\ PagesOf(b) \subseteq given'
              /\ \A c \in FreeBlks' \cup allocated' : b # c => PagesOf(b) \cap PagesOf(c) = {}
        BY <1>2, <3>2, <3>3, Zenon DEF Sound
      <4>2. FreeBlks' \cap allocated' = {}
        BY <3>2, <3>3, Zenon
      <4> QED BY <4>1, <4>2, Zenon DEF Owned, Sound
    <3>5. free_lists' \in [Lists -> SUBSET Nat]
      BY <1>3, <1>5, <2>1, FreeLists, Zenon
    <3>6. MergedIn(free_lists)'
      <4>1. \A i \in Lists : \A a \in free_lists[i] : Aligned(a, i)
        BY <1>1, <1>3, FreeAligned, Zenon
      <4>2. MergedIn(Free(free_lists, start, k))
        BY <1>1, <1>3, <1>5, <2>1, <4>1, FreeMerged, Zenon
      <4> QED BY <2>1, <4>2, Zenon DEF MergedIn
    <3> HIDE DEF nb
    <3> QED BY <3>2, <3>3, <3>4, <3>5, <3>6, Zenon
  <2>2. CASE k = BLOCK_ORDER_COUNT + 1 /\ free_lists' = free_lists
    <3>1. UNCHANGED <<free_lists, given, allocated>>
      BY <1>2, <2>2
    <3>2. FreeBlks' = FreeBlks /\ Owned' /\ MergedIn(free_lists)'
      BY <1>1, <3>1, SameBlocks, Zenon
    <3>3. \A p \in done : InPair(p)
      <4>1. Up(start, k) = start
        BY <1>4, <1>5, UpFacts, Zenon
      <4>2. \A p \in done : Up(p, k) = start
        BY <1>5, <4>1, UpFacts, Zenon
      <4> QED BY <1>9, <2>2, <4>2, Zenon DEF InPair
    <3> QED BY <1>2, <1>3, <3>1, <3>2, <3>3, Zenon
  <2> QED BY <1>4, <2>1, <2>2, Zenon
<1> HIDE DEF old, new, done, start
<1>11. Untouched'
  <2>1. \A i \in 1 .. Len(todo') : Piece(todo'[i]) \subseteq given
    BY <1>7, <1>8, Zenon
  <2>2. \A i \in 1 .. Len(todo'), b \in new : Piece(todo'[i]) \cap PagesOf(b) = {}
    <3> SUFFICES ASSUME NEW i \in 1 .. Len(todo'), NEW b \in new, NEW p \in PagesOf(b),
                        p \in Piece(todo'[i])
                 PROVE  FALSE
      BY Zenon
    <3>1. p \notin done
      BY <1>8, Zenon
    <3>2. PICK c \in old : p \in PagesOf(c)
      BY <1>10, <3>1, Zenon
    <3>3. PICK m \in 1 .. Len(todo) : p \in Piece(todo[m])
      BY <1>8, Zenon
    <3> QED BY <1>7, <3>2, <3>3, Zenon
  <2>3. \A i \in 1 .. Len(todo'), j \in 1 .. Len(memory_map') : Piece(todo'[i]) \cap Piece(memory_map'[j]) = {}
    BY <1>2
  <2> QED BY <1>2, <1>8, <2>1, <2>2, <2>3, Zenon DEF Untouched, new
<1>12. Accounted'
  <2> SUFFICES ASSUME NEW p \in given
               PROVE  \/ \E b \in new : p \in PagesOf(b)
                      \/ \E i \in 1 .. Len(todo') : p \in Piece(todo'[i])
                      \/ InPair(p)
    BY <1>2, Zenon DEF Accounted, InPair, new
  <2>1. \/ \E b \in old : p \in PagesOf(b)
        \/ \E i \in 1 .. Len(todo) : p \in Piece(todo[i])
        \/ InPair(p)
    <3>1. 1 .. Len(memory_map) = {}
      BY <1>2
    <3> QED BY <1>1, <3>1, Zenon DEF Accounted, old
  <2> QED BY <1>8, <1>10, <2>1, Zenon
<1>13. TypeOK'
  BY <1>2, <1>3, <1>8, <1>10 DEF TypeOK
<1>14. Uncut'
  BY <1>2 DEF Uncut
<1> QED BY <1>10, <1>11, <1>12, <1>13, <1>14, Zenon DEF IInv

(* allocate hands a free block over.                                       *)
LEMMA AllocateKeeps == ASSUME IInv, NEW i \in Lists, Allocate(i) PROVE IInv'
<1> DEFINE addr == Lowest(free_lists[i])
<1>1. TypeOK /\ Owned /\ Untouched /\ Uncut /\ Accounted /\ MergedIn(free_lists)
  BY DEF IInv
<1>2. /\ memory_map = <<>> /\ todo = <<>> /\ free_lists[i] # {}
      /\ free_lists' = [free_lists EXCEPT ![i] = @ \ {addr}]
      /\ allocated' = allocated \cup {<<addr, i>>}
      /\ UNCHANGED <<memory_map, todo, given, panicked>>
  BY DEF Allocate, Ready
<1>3. /\ free_lists \in [Lists -> SUBSET Nat] /\ allocated \subseteq Nat \X Lists
  BY <1>1 DEF TypeOK
<1>4. addr \in free_lists[i]
  <2>1. free_lists[i] \in SUBSET Nat
    BY <1>3
  <2>2. \E a \in free_lists[i] : \A b \in free_lists[i] : a <= b
    BY <1>2, <2>1, LeastNumber, Zenon
  <2> QED BY <2>2, Zenon DEF Lowest
<1> HIDE DEF addr
<1>5. addr \in Nat
  BY <1>3, <1>4
<1>6. free_lists' \in [Lists -> SUBSET Nat] /\ allocated' \subseteq Nat \X Lists
  BY <1>2, <1>3, <1>5
<1>7. FreeBlks' = FreeBlks \ {<<addr, i>>}
  <2>1. FreeBlks' = FreeOf(free_lists') /\ FreeBlks = FreeOf(free_lists)
    BY Zenon DEF FreeBlks
  <2>2. \A a \in Nat, j \in Lists : a \in free_lists'[j] <=> a \in free_lists[j] /\ <<a, j>> # <<addr, i>>
    BY <1>2, <1>3
  <2>3. \A a \in Nat, j \in Lists : /\ <<a, j>> \in FreeBlks' <=> a \in free_lists'[j]
                                    /\ <<a, j>> \in FreeBlks <=> a \in free_lists[j]
    BY <1>3, <1>6, <2>1, FreeOfFacts, Zenon
  <2>4. FreeBlks \subseteq Nat \X Lists /\ FreeBlks' \subseteq Nat \X Lists
    BY <1>3, <1>6, <2>1, FreeOfFacts, Zenon
  <2>5. \A b \in Nat \X Lists : \E a \in Nat, j \in Lists : b = <<a, j>>
    OBVIOUS
  <2>6. \A b \in Nat \X Lists : b \in FreeBlks' <=> b \in FreeBlks /\ b # <<addr, i>>
    <3> SUFFICES ASSUME NEW b \in Nat \X Lists PROVE b \in FreeBlks' <=> b \in FreeBlks /\ b # <<addr, i>>
      BY Zenon
    <3>1. PICK a \in Nat, j \in Lists : b = <<a, j>>
      BY <2>5, Zenon
    <3>2. <<a, j>> \in FreeBlks' <=> <<a, j>> \in FreeBlks /\ <<a, j>> # <<addr, i>>
      BY <2>2, <2>3, Zenon
    <3> QED BY <3>1, <3>2, Zenon
  <2> QED BY <2>4, <2>6, Zenon
<1>8. <<addr, i>> \in FreeBlks
  BY <1>3, <1>4, <1>5, FreeOfFacts, Zenon DEF FreeBlks
<1>9. FreeBlks' \cup allocated' = FreeBlks \cup allocated
  BY <1>2, <1>7, <1>8, Zenon
<1>10. Owned'
  <2>1. FreeBlks' \cap allocated' = {}
    BY <1>1, <1>2, <1>7, Zenon DEF Owned
  <2> QED BY <1>1, <1>2, <1>9, <2>1, Zenon DEF Owned, Sound
<1>11. Accounted'
  BY <1>1, <1>2, <1>9, Zenon DEF Accounted, InPair
<1>12. Untouched' /\ Uncut'
  BY <1>2 DEF Untouched, Uncut
<1>13. TypeOK'
  BY <1>1, <1>2, <1>6, Zenon DEF TypeOK
<1>14. MergedIn(free_lists)'
  <2>1. \A j \in 0 .. BLOCK_ORDER_COUNT - 1 : free_lists'[j] \subseteq free_lists[j]
    <3>1. \A j \in 0 .. BLOCK_ORDER_COUNT - 1 : j \in Lists
      BY ListRange DEF Lists
    <3> QED BY <1>2, <1>3, <3>1
  <2> QED BY <1>1, <2>1, Zenon DEF MergedIn
<1> QED BY <1>10, <1>11, <1>12, <1>13, <1>14, Zenon DEF IInv

(* free takes a block back.                                                *)
LEMMA FreeBlockKeeps == IInv /\ FreeBlock => IInv'
<1> SUFFICES ASSUME IInv, FreeBlock PROVE IInv'
  OBVIOUS
<1>1. TypeOK /\ Owned /\ Untouched /\ Uncut /\ Accounted /\ MergedIn(free_lists)
  BY DEF IInv
<1>2. PICK b \in allocated : /\ free_lists' = Free(free_lists, b[1], b[2])
                             /\ allocated' = allocated \ {b}
  BY DEF FreeBlock
<1>3. /\ memory_map = <<>> /\ todo = <<>> /\ UNCHANGED <<memory_map, todo, given, panicked>>
  BY DEF FreeBlock, Ready
<1>4. /\ free_lists \in [Lists -> SUBSET Nat] /\ allocated \subseteq Nat \X Lists
  BY <1>1 DEF TypeOK
<1>5. b[1] \in Nat /\ b[2] \in Lists
  BY <1>4
<1> DEFINE F == FreeOf(free_lists)
           A == allocated \ {b}
           N == FreeOf(Free(free_lists, b[1], b[2]))
<1>6. /\ F = FreeBlks /\ FreeBlks' = N /\ allocated' = A
  BY <1>2, Zenon DEF FreeBlks
<1>7. /\ \A x \in F \cup allocated :
           /\ Aligned(x[1], x[2]) /\ PagesOf(x) \subseteq given
           /\ \A c \in F \cup allocated : x # c => PagesOf(x) \cap PagesOf(c) = {}
      /\ F \cap allocated = {}
  BY <1>1, <1>6, Zenon DEF Owned, Sound
<1>8. /\ \A c \in F \cup A : c \in F \cup allocated /\ c # b
      /\ b \in F \cup allocated
  BY <1>7, Zenon
<1>9. PagesOf(b) = Pages(b[1], b[2])
  BY Zenon DEF PagesOf
<1> HIDE DEF F, A, N
<1>10. /\ Aligned(b[1], b[2]) /\ Pages(b[1], b[2]) \subseteq given
       /\ \A c \in F \cup A : Pages(b[1], b[2]) \cap PagesOf(c) = {}
  BY <1>7, <1>8, <1>9, Zenon
<1>11. Sound(F \cup A) /\ F \cap A = {}
  <2>1. F \cap A = {}
    BY <1>7, Zenon DEF A
  <2> QED BY <1>7, <1>8, <2>1, Zenon DEF Sound
<1>12. /\ Sound(N \cup A) /\ N \cap A = {}
       /\ \A p : p \in PagesOf(b) \/ (\E c \in F \cup A : p \in PagesOf(c)) =>
            InPair(p) \/ \E c \in N \cup A : p \in PagesOf(c)
  <2>1. Freeable(free_lists, b[1], b[2], A)
    BY <1>10, <1>11, Zenon DEF Freeable, F
  <2>2. Freed(free_lists, Free(free_lists, b[1], b[2]), b[1], b[2], A)
    BY <1>4, <1>5, <2>1, FreeSound, Zenon
  <2> QED BY <1>9, <2>2, Zenon DEF Freed, F, N
<1>13. Owned'
  <2>1. \A x \in FreeBlks' \cup allocated' :
          /\ Aligned(x[1], x[2]) /\ PagesOf(x) \subseteq given'
          /\ \A c \in FreeBlks' \cup allocated' : x # c => PagesOf(x) \cap PagesOf(c) = {}
    BY <1>3, <1>6, <1>12, Zenon DEF Sound
  <2>2. FreeBlks' \cap allocated' = {}
    BY <1>6, <1>12, Zenon
  <2> QED BY <2>1, <2>2, Zenon DEF Owned, Sound
<1>14. Accounted'
  <2> SUFFICES ASSUME NEW p \in given PROVE InPair(p) \/ \E c \in N \cup A : p \in PagesOf(c)
    BY <1>3, <1>6, Zenon DEF Accounted, InPair
  <2>1. InPair(p) \/ \E c \in F \cup allocated : p \in PagesOf(c)
    <3>1. 1 .. Len(memory_map) = {} /\ 1 .. Len(todo) = {}
      BY <1>3
    <3> QED BY <1>1, <1>6, <3>1, Zenon DEF Accounted
  <2>2. \A c \in F \cup allocated : c = b \/ c \in F \cup A
    BY Zenon DEF A
  <2> QED BY <1>12, <2>1, <2>2, Zenon
<1>15. free_lists' \in [Lists -> SUBSET Nat]
  BY <1>2, <1>4, <1>5, FreeLists, Zenon
<1>16. allocated' \subseteq Nat \X Lists
  BY <1>2, <1>4, Zenon
<1>17. TypeOK'
  BY <1>1, <1>3, <1>15, <1>16, Zenon DEF TypeOK
<1>18. Untouched' /\ Uncut'
  BY <1>3 DEF Untouched, Uncut
<1>19. MergedIn(free_lists)'
  <2>1. \A k \in Lists : \A a \in free_lists[k] : Aligned(a, k)
    BY <1>1, <1>4, FreeAligned, Zenon
  <2>2. MergedIn(Free(free_lists, b[1], b[2]))
    BY <1>1, <1>4, <1>5, <2>1, FreeMerged, Zenon
  <2> QED BY <1>2, <2>2, Zenon DEF MergedIn
<1> QED BY <1>13, <1>14, <1>17, <1>18, <1>19, Zenon DEF IInv

(* Steps that change at most `panicked`.                                   *)
LEMMA OtherKeeps ==
  ASSUME IInv, UNCHANGED <<free_lists, memory_map, todo, given, allocated>>, panicked' \subseteq Lists
  PROVE  IInv'
<1>1. FreeBlks' = FreeBlks
  BY Zenon DEF FreeBlks
<1>2. TypeOK'
  BY Zenon DEF IInv, TypeOK
<1>3. Owned' /\ MergedIn(free_lists)'
  BY SameBlocks, Zenon DEF IInv
<1>4. Untouched' /\ Uncut'
  BY <1>1, Zenon DEF IInv, Untouched, Uncut
<1>5. Accounted'
  BY <1>1, Zenon DEF IInv, Accounted, InPair
<1> QED BY <1>2, <1>3, <1>4, <1>5, Zenon DEF IInv

LEMMA NextIInv == IInv /\ [Next]_vars => IInv'
<1> SUFFICES ASSUME IInv, [Next]_vars PROVE IInv'
  OBVIOUS
<1>1. CASE Collect
  BY <1>1, CollectKeeps, Zenon
<1>2. CASE InitStep
  BY <1>2, InitStepKeeps, Zenon
<1>3. ASSUME NEW i \in Lists, Allocate(i) PROVE IInv'
  BY <1>3, AllocateKeeps, Zenon
<1>4. ASSUME NEW i \in Lists, AllocateSplit(i) PROVE IInv'
  <2>1. /\ UNCHANGED <<free_lists, memory_map, todo, given, allocated>>
        /\ panicked' \subseteq Lists
    BY <1>4 DEF AllocateSplit
  <2> QED BY <2>1, OtherKeeps, Zenon
<1>5. CASE FreeBlock
  BY <1>5, FreeBlockKeeps, Zenon
<1>6. CASE UNCHANGED vars
  <2>1. /\ UNCHANGED <<free_lists, memory_map, todo, given, allocated>>
        /\ panicked' \subseteq Lists
    BY <1>6 DEF vars, IInv, TypeOK
  <2> QED BY <2>1, OtherKeeps, Zenon
<1> QED BY <1>1, <1>2, <1>3, <1>4, <1>5, <1>6, Zenon DEF Next

(* It is an invariant.                                                     *)
THEOREM Invariance == Spec => []IInv
<1> QED BY InitIInv, NextIInv, PTL DEF Spec

(* PagesOwnedOnce of module PageAllocator: for every memory map, whatever  *)
(* init and free merge and whatever is allocated in between, each page is  *)
(* in at most one block, free or handed out, and only usable pages are.    *)
THEOREM OwnershipTheorem == Spec => []PagesOwnedOnce
<1>1. IInv => PagesOwnedOnce
  BY Zenon DEF IInv, Owned, Sound, PagesOf, Aligned, PagesOwnedOnce
<1> QED BY <1>1, Invariance, PTL

(* BuddiesMerged: below the last list no block is free together with its   *)
(* buddy, for any sequence of calls of allocate and free.                  *)
THEOREM MergingTheorem == Spec => []BuddiesMerged
<1>1. IInv => BuddiesMerged
  BY Zenon DEF IInv, MergedIn, BuddiesMerged
<1> QED BY <1>1, Invariance, PTL

(* LosesOnlyPairs: once init is done, a usable page that is neither free   *)
(* nor handed out lies in a usable pair of largest blocks.                 *)
THEOREM LossTheorem == Spec => []LosesOnlyPairs
<1>1. IInv => LosesOnlyPairs
  <2> SUFFICES ASSUME IInv, memory_map = <<>>, todo = <<>>,
                      NEW p \in given, \A b \in FreeBlks \cup allocated : p \notin Pages(b[1], b[2])
               PROVE  Pages(p - (p % 2^(BLOCK_ORDER_COUNT + 1)), BLOCK_ORDER_COUNT + 1) \subseteq given
    BY DEF LosesOnlyPairs
  <2>1. 1 .. Len(memory_map) = {} /\ 1 .. Len(todo) = {}
    OBVIOUS
  <2>2. InPair(p)
    BY <2>1, Zenon DEF IInv, Accounted, PagesOf
  <2> QED BY <2>2, Zenon DEF InPair, Up
<1> QED BY <1>1, Invariance, PTL

=============================================================================
