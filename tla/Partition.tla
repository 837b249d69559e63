----------------------------- MODULE Partition -----------------------------
(***************************************************************************)
(* What linking buckets by artifacts promises: the buckets are a partition *)
(* that only gets coarser, two blocks at a time, each time because some    *)
(* link touches both and they are together within the bound.               *)
(***************************************************************************)
EXTENDS Naturals, FiniteSets

CONSTANT Bound

VARIABLES
  links,    \* sets of keys that belong together
  blocks    \* the partition

vars == <<links, blocks>>

Init == blocks = {{k} : k \in UNION blocks} /\ \A L \in links : L \subseteq UNION blocks

Merge(A, B) ==
  /\ A # B
  /\ \E L \in links : A \cap L # {} /\ B \cap L # {}
  /\ Cardinality(A) + Cardinality(B) <= Bound
  /\ blocks' = (blocks \ {A, B}) \cup {A \cup B}
  /\ UNCHANGED links

Next == \E A, B \in blocks : Merge(A, B)

Spec == Init /\ [][Next]_vars
=============================================================================
