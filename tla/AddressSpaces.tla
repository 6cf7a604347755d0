---------------------------- MODULE AddressSpaces ----------------------------
(***************************************************************************)
(* What the Mapper (src/arch/x86_64/src/paging/mapping.rs) promises to the *)
(* programs that run on it: address spaces that do not see each other's    *)
(* writes.  A fork starts with the memory of its parent; sharing pages and *)
(* copying them on a write is not to be seen.                              *)
(***************************************************************************)
EXTENDS Naturals

CONSTANTS
  Spaces, Addrs, Values, Unmapped,
  First    \* the address space the system starts with

VARIABLES
  view,   \* for each address space that exists, what its addresses read as
  cur     \* the one in use

Init ==
  /\ view \in [{First} -> [Addrs -> Values \cup {Unmapped}]]
  /\ cur = First

(* A page comes into being at its first use, with any content.             *)
Map ==
  /\ \E a \in Addrs, x \in Values :
       /\ view[cur][a] = Unmapped
       /\ view' = [view EXCEPT ![cur][a] = x]
  /\ UNCHANGED cur

Write ==
  /\ \E a \in Addrs, x \in Values :
       /\ view[cur][a] # Unmapped
       /\ view' = [view EXCEPT ![cur][a] = x]
  /\ UNCHANGED cur

Fork ==
  /\ \E s \in Spaces \ DOMAIN view :
       view' = [t \in DOMAIN view \cup {s} |-> IF t = s THEN view[cur] ELSE view[t]]
  /\ UNCHANGED cur

Switch ==
  /\ cur' \in DOMAIN view
  /\ UNCHANGED view

Next == Map \/ Write \/ Fork \/ Switch

Spec == Init /\ [][Next]_<<view, cur>>

=============================================================================
