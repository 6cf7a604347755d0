------------------------------ MODULE MCMapper ------------------------------
(***************************************************************************)
(* Virtual pages for the model checker: the two that main.rs touches lie   *)
(* in one page table; two far enough apart lie in two.                     *)
(***************************************************************************)
EXTENDS Mapper

MCSameTable == {<<0, 0, 0, 0>>, <<0, 0, 0, 1>>}
MCTwoTables == {<<0, 0, 0, 0>>, <<0, 0, 1, 0>>}

=============================================================================
