-------------------------- MODULE MCPageAllocator --------------------------
(***************************************************************************)
(* Memory maps for the model checker: all maps of one or two disjoint      *)
(* pieces of a small memory, in either order.  It holds some excluded      *)
(* pages, an aligned piece of two of the largest blocks, and pieces that   *)
(* merge across the border of two descriptors.                             *)
(***************************************************************************)
EXTENDS PageAllocator

MCFirst == 3
MCPages == 16

Pieces == {p \in (MCFirst .. MCPages - 1) \X (1 .. MCPages) : p[1] + p[2] <= MCPages}

MCMaps ==
  {<<p>> : p \in Pieces} \cup
  {<<p, q>> : <<p, q>> \in {r \in Pieces \X Pieces :
                 r[1][1] + r[1][2] <= r[2][1] \/ r[2][1] + r[2][2] <= r[1][1]}}

=============================================================================
