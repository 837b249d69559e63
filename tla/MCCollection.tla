--------------------------- MODULE MCCollection ---------------------------
(* Instances of Collection for TLC. *)
EXTENDS Collection

(* Two jobs of each of two sources. *)
TwoByTwo == {"a1", "a2", "b1", "b2"}
TwoByTwoSources == [j \in TwoByTwo |-> IF j \in {"b1", "b2"} THEN "B" ELSE "A"]
=============================================================================
