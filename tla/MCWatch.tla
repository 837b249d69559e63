------------------------------ MODULE MCWatch ------------------------------
(* Instances of Watch for TLC. *)
EXTENDS Watch

(* One group inside another, and one group alone. *)
NestedClusters == {{1}, {1, 2}}
OneCluster == {{1, 2}}

(* Every event in every version, or only the first one in both. *)
AllItems == Events \X Versions
FirstEdited == ({1} \X Versions) \cup (Events \X Hot)
=============================================================================
