---------------------------- MODULE MCGHArchive ----------------------------
(* Instances of GHArchive for TLC. *)
EXTENDS GHArchive

(* More candidates and more samples than the budgets of 4 and 1 admit. *)
Mixed == <<"candidate", "sampled", "other", "candidate", "candidate",
           "sampled", "candidate", "candidate">>
=============================================================================
