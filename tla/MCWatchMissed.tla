--------------------------- MODULE MCWatchMissed ---------------------------
(* Instances of WatchMissed for TLC. *)
EXTENDS WatchMissed

(* Two groups with an event in common, which is found in both versions. *)
WideClusters == {{1, 2, 3}, {3, 4}}
SharedEdited == ({3} \X Versions) \cup (Events \X Hot)
=============================================================================
