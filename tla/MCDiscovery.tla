---------------------------- MODULE MCDiscovery ----------------------------
(* Instances of Discovery for TLC. *)
EXTENDS Discovery

ThreadAndCode == <<"github-thread", "github-code">>
CodeAndGrep == <<"github-code", "grep">>
(* Limits that are whole pages; page 2 of one setting is not page 2 of the
   other.  And a limit of one page and a half. *)
WholePages == {[limit |-> 2, threads |-> 1], [limit |-> 1, threads |-> 2]}
HalfPage == {[limit |-> 3, threads |-> 1]}
(* How many results there are. *)
Few == [s \in SourceNames |-> [q \in 0 .. 1 |->
          CASE s = "github-code" -> 3 - 2 * q [] s # "github-code" -> 2 * q]]
Eight == [s \in SourceNames |-> [q \in {0} |-> 8]]

CodeOnly == <<"github-code">>
=============================================================================
