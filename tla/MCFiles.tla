------------------------------ MODULE MCFiles ------------------------------
(* Instances of Files for TLC. *)
EXTENDS Files

TwoProcs == {"watch", "shell"}
OneRepo == {"repo"}
SomeEvents == {"issue", "code", "post"}
OfRepo == [issue |-> "repo", code |-> "repo", post |-> "r/x"]
TwoReports == <<"md", "html">>
SomeNames == {<<"repo", "json">>, <<"md", "out">>, <<"md", "tmp">>, <<"html", "out">>, <<"html", "tmp">>}
SomeInodes == 1 .. 7
SomePolicies == {[names |-> {}, stale |-> FALSE], [names |-> {}, stale |-> TRUE],
                 [names |-> {"repo"}, stale |-> FALSE]}
Scope(es, f, once, always, k) ==
  [events |-> es, findings |-> f, once |-> once, always |-> always, kills |-> k]
SomeScopes ==
  {Scope({"issue", "code"}, 0, {"campaign"}, {}, 1),
   Scope({"issue", "code"}, 0, {}, {"export-ledger"}, 1),
   Scope({}, 2, {"export-findings"}, {}, 1),
   Scope({}, 2, {}, {"rescore-findings"}, 1),
   Scope({"code"}, 1, {"export-findings"}, {}, 0),
   Scope({"code"}, 1, {}, {"campaign", "export-ledger"}, 0),
   Scope({"code", "post"}, 0, {}, {}, 1)}
=============================================================================
