--------------------------- MODULE PageAllocator ---------------------------
(***************************************************************************)
(* The buddy allocator for physical pages (src/paging/src/physical.rs) and *)
(* the choice of the memory it is given (exclude_range in                  *)
(* src/src/arch/x86_64/mm.rs).                                             *)
(*                                                                         *)
(* Addresses count pages, so a block of list i covers 2^i of them; its     *)
(* order in the code is i + PAGE_SIZE_ORDER.  init runs alone, before      *)
(* anything is allocated; one iteration of its inner loop is one step.     *)
(***************************************************************************)
EXTENDS Naturals, Sequences

CONSTANTS
  BLOCK_ORDER_COUNT,  \* the last list; 7 in the code
  MaxPage,            \* physical pages are 0 .. MaxPage - 1
  Excluded,           \* pages 0 .. Excluded - 1 are kept out (mm.rs: 0..0x800000)
  MemoryMaps          \* memory maps: sequences of <<first page, page count>>

PAGE_SIZE_ORDER == 12

(* The lists are fewer than the bits of a page offset, and memory maps     *)
(* list disjoint, non-empty pieces of memory.                              *)
ASSUME AllocatorAssumption ==
  /\ BLOCK_ORDER_COUNT \in Nat /\ BLOCK_ORDER_COUNT + 1 < PAGE_SIZE_ORDER
  /\ MaxPage \in Nat /\ Excluded \in Nat
  /\ MemoryMaps \subseteq Seq(Nat \X Nat)
  /\ \A m \in MemoryMaps : \A i \in 1 .. Len(m) :
       /\ m[i][1] \in 0 .. MaxPage - 1 /\ m[i][2] \in 1 .. MaxPage - m[i][1]
       /\ \A j \in 1 .. Len(m) : i < j =>
            \/ m[i][1] + m[i][2] <= m[j][1]
            \/ m[j][1] + m[j][2] <= m[i][1]

VARIABLES
  free_lists,  \* PageAllocator.free_lists
  memory_map,  \* the descriptors init_mm has not looked at yet
  todo,        \* free_blocks of init_mm; then what init has not looked at yet
  given,       \* the usable pages of the memory map (history)
  allocated,   \* the blocks handed out: <<address, list>>
  panicked     \* {} or {the list the failing call was for}

vars == <<free_lists, memory_map, todo, given, allocated, panicked>>

Lists == 0 .. BLOCK_ORDER_COUNT
Pages(addr, i) == addr .. addr + 2^i - 1
Buddy(addr, i) == IF (addr \div 2^i) % 2 = 0 THEN addr + 2^i ELSE addr - 2^i

-----------------------------------------------------------------------------
(* exclude_range on 0..Excluded: range.contains of the start and of the    *)
(* end (which is one past the block).                                      *)
ExcludeRange(b) ==
  LET end == b[1] + b[2]
  IN  CASE b[1] < Excluded /\ end < Excluded   -> <<>>
        [] b[1] < Excluded /\ end >= Excluded  ->
             IF end = Excluded THEN <<>> ELSE <<<<Excluded, end - Excluded>>>>
        [] OTHER                               -> <<b>>

(* init_mm: the loop over the descriptors of usable memory, which cuts and *)
(* collects them.                                                          *)
Collect ==
  /\ memory_map # <<>>
  /\ todo' = todo \o ExcludeRange(Head(memory_map))
  /\ memory_map' = Tail(memory_map)
  /\ UNCHANGED <<free_lists, given, allocated, panicked>>

Covered(m) == UNION {m[i][1] .. m[i][1] + m[i][2] - 1 : i \in 1 .. Len(m)}
Usable(m) == {p \in Covered(m) : p >= Excluded}

-----------------------------------------------------------------------------
(* free: merge with the free buddy as long as there is one and a larger    *)
(* list.  At the last list the buddy is taken out all the same.            *)

Up(addr, i) == addr - (addr % 2^i)

HasBuddy(fl, addr, i) == Buddy(Up(addr, i), i) \in fl[i]

(* The list at which merging stops.                                        *)
MergeTo(fl, addr, i) ==
  CHOOSE j \in i .. BLOCK_ORDER_COUNT :
    /\ j = BLOCK_ORDER_COUNT \/ ~HasBuddy(fl, addr, j)
    /\ \A k \in i .. j - 1 : HasBuddy(fl, addr, k)

(* Faulty variants: the buddy is taken out and nothing is merged with it;  *)
(* the buddy is not taken out of its list; no merging.                    *)
FreeDropsBuddy(fl, addr, i) ==
  [fl EXCEPT ![i] = (@ \ {Buddy(addr, i)}) \cup {addr}]

FreeKeepsBuddy(fl, addr, i) ==
  LET top == MergeTo(fl, addr, i)
  IN  [fl EXCEPT ![top] = @ \cup {Up(addr, top)}]

FreeNoMerge(fl, addr, i) == [fl EXCEPT ![i] = @ \cup {addr}]

Free(fl, addr, i) ==
  LET top == MergeTo(fl, addr, i)
  IN  [j \in Lists |->
         IF j \in i .. top
         THEN (fl[j] \ {Buddy(Up(addr, j), j)})
                \cup (IF j = top THEN {Up(addr, top)} ELSE {})
         ELSE fl[j]]

(* is_buddy_in_range(start, 2^i pages, start, size): the buddy lies in the *)
(* range, and so does its own last page.                                   *)
BuddyInRange(start, i, size) ==
  LET range == start .. start + size - 1
      buddy == Buddy(start, i)
  IN  \A k \in 0 .. i : buddy + 2^i - 2^k \in range

(* One iteration of the inner loop of init.  `fit` is the list whose block *)
(* is freed; if every buddy is in range nothing is freed, and the largest  *)
(* block and its buddy are passed over.                                    *)
InitStep ==
  /\ memory_map = <<>> /\ todo # <<>>
  /\ LET start == todo[1][1]
         size  == todo[1][2]
         fits  == {i \in Lists : /\ ~BuddyInRange(start, i, size)
                                 /\ \A k \in 0 .. i - 1 : BuddyInRange(start, k, size)}
         shift == IF fits = {} THEN 2^(BLOCK_ORDER_COUNT + 1)
                  ELSE 2^(CHOOSE i \in fits : TRUE)
     IN  /\ free_lists' = IF fits = {} THEN free_lists
                          ELSE Free(free_lists, start, CHOOSE i \in fits : TRUE)
         /\ todo' = IF size = shift THEN Tail(todo)
                    ELSE <<<<start + shift, size - shift>>>> \o Tail(todo)
  /\ UNCHANGED <<memory_map, given, allocated, panicked>>

-----------------------------------------------------------------------------
Lowest(S) == CHOOSE a \in S : \A b \in S : a <= b

Ready == memory_map = <<>> /\ todo = <<>> /\ panicked = {}

(* allocate, with a block in the list asked for: the lowest is taken.      *)
Allocate(i) ==
  /\ Ready
  /\ free_lists[i] # {}
  /\ LET addr == Lowest(free_lists[i]) IN
       /\ free_lists' = [free_lists EXCEPT ![i] = @ \ {addr}]
       /\ allocated' = allocated \cup {<<addr, i>>}
  /\ UNCHANGED <<memory_map, todo, given, panicked>>

(* allocate, with the list empty: the recursive call gets a list index,    *)
(* not an order, and its `order - PAGE_SIZE_ORDER` underflows, which       *)
(* panics in the debug build.                                              *)
AllocateSplit(i) ==
  /\ Ready
  /\ free_lists[i] = {}
  /\ i + 1 < PAGE_SIZE_ORDER
  /\ panicked' = {i}
  /\ UNCHANGED <<free_lists, memory_map, todo, given, allocated>>

(* free, of a block that allocate returned.                                *)
FreeBlock ==
  /\ Ready
  /\ \E b \in allocated :
       /\ free_lists' = Free(free_lists, b[1], b[2])
       /\ allocated' = allocated \ {b}
  /\ UNCHANGED <<memory_map, todo, given, panicked>>

Init ==
  /\ free_lists = [i \in Lists |-> {}]
  /\ memory_map \in MemoryMaps /\ given = Usable(memory_map)
  /\ todo = <<>>
  /\ allocated = {}
  /\ panicked = {}

Next ==
  \/ Collect \/ InitStep
  \/ \E i \in Lists : Allocate(i) \/ AllocateSplit(i)
  \/ FreeBlock

Spec == Init /\ [][Next]_vars

-----------------------------------------------------------------------------
(* Properties.                                                             *)

FreeOf(fl) == UNION {{<<a, i>> : a \in fl[i]} : i \in Lists}
FreeBlks == FreeOf(free_lists)

(* Blocks are aligned to their size, lie in the usable memory of the map,  *)
(* none of what exclude_range must keep out (the kernel and its tables)    *)
(* included, and no page is in two of them, free or handed out, whatever   *)
(* was merged and in whatever order init saw the memory.                   *)
PagesOwnedOnce ==
  /\ FreeBlks \cap allocated = {}
  /\ \A b \in FreeBlks \cup allocated :
       /\ b[1] % 2^b[2] = 0
       /\ Pages(b[1], b[2]) \subseteq given
       /\ \A c \in FreeBlks \cup allocated :
            b # c => Pages(b[1], b[2]) \cap Pages(c[1], c[2]) = {}

(* Below the last list no block and its buddy are both free: free always   *)
(* merges as far as it can.                                                *)
BuddiesMerged ==
  \A i \in 0 .. BLOCK_ORDER_COUNT - 1 :
    \A a \in free_lists[i] : Buddy(a, i) \notin free_lists[i]

(* What init and free lose is bounded: a usable page that is neither free  *)
(* nor handed out lies in an aligned pair of largest blocks, all of it     *)
(* usable.  init passes over such a pair when it is in one range, and free *)
(* takes the buddy out of the last list without merging it.  Everything    *)
(* else that exclude_range leaves is kept through any allocations.         *)
LosesOnlyPairs ==
  (memory_map = <<>> /\ todo = <<>>) =>
    LET pair == 2^(BLOCK_ORDER_COUNT + 1)
        held == UNION {Pages(b[1], b[2]) : b \in FreeBlks \cup allocated}
    IN  \A p \in given \ held :
          Pages(p - (p % pair), BLOCK_ORDER_COUNT + 1) \subseteq given

(* physical.rs:65, "Split larger block": an allocation fails only when no  *)
(* larger block is free.                                                   *)
SplitsLargerBlock ==
  \A i \in panicked : \A j \in i .. BLOCK_ORDER_COUNT : free_lists[j] = {}

=============================================================================
