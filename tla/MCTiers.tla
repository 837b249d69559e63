------------------------------ MODULE MCTiers ------------------------------
(* Instances of Tiers for TLC. *)
EXTENDS Tiers

Says(key, time, handle, platform, context, parent, acts, refs) ==
  [key |-> key, time |-> time, handle |-> handle, platform |-> platform,
   context |-> context, parent |-> parent, acts |-> acts, refs |-> refs]

(* Four messages of up to three handles: who acknowledges, in which context, as
   a reply to which message and with which reference varies. *)
Threads ==
  {<<Says(4, 0, "boss", "gh", "a", 0, {"delegation"}, {"task"}),
     Says(2, 1, h, IF c = "b" THEN "reddit" ELSE "gh", c, q, {"ack", "state_out"}, s),
     Says(3, 2, "worker", "gh", c, 4, {"ack", "delegation"}, t),
     Says(1, 3, g, "gh", d, u, {"result", "state_in"}, {"task", "run"})>> :
   h \in {"other", "boss"}, c \in {"a", "b"}, q \in {0, 4},
   s \in {{}, {"task"}}, t \in {{"run"}, {"task"}}, g \in {"worker", "other"}, d \in {"a", "b"},
   u \in {0, 2, 3}}

(* Findings of the other detectors, at scores they may have. *)
OtherSignals ==
  <<Plain("protocol", 60), [Plain("identity", 88) EXCEPT !.exceptional = TRUE],
    Plain("identity", 97), [Plain("temporal", 90) EXCEPT !.depends = {"artifact"}],
    Plain("benign", 40), Plain("benign", 85),
    [Plain("behavior", 84) EXCEPT !.longitudinal = TRUE], Plain("commit", 85)>>
=============================================================================
