------------------------------ MODULE Discovery ------------------------------
(***************************************************************************)
(* How the watcher works its way through the queries and through the       *)
(* result pages of every source: the query cursor, the page cursors, and   *)
(* what a collector asks for from the page it starts at.                   *)
(*                                                                         *)
(* The results of a query at a source are numbered from 1 in the order      *)
(* in which the source lists them, and do not change.  A page cursor is    *)
(* committed before the results of its page are claimed one by one; the    *)
(* process may be killed anywhere.  What happens to a claimed result is    *)
(* the business of module Watch.                                           *)
(***************************************************************************)
EXTENDS Naturals, Sequences, FiniteSets, FiniteSetsExt

CONSTANTS
  NumQueries,   \* queries of the query file
  BatchSize,    \* --query-batch-size
  Sources,      \* --sources, in their order
  Total,        \* results each source has for each query
  Options,      \* settings of --limit (code hits per query and source) and
                \* --threads (issues per query) the watcher is started with,
                \* as the collectors accept them (1 to 1000 and 1 to 100)
  CodePage,     \* results the code search gives per page at most (100)
  GrepPage,     \* hits grep.app gives per page (10)
  SearchCap,    \* results GitHub's search gives at all (1000)
  GrepPages,    \* pages of grep.app the watcher uses (100)
  MaxCrashes,   \* bound: kills in a behaviour
  MaxChanges    \* bound: restarts with other options

SourceNames == {"github-thread", "github-code", "grep"}

ASSUME DiscoveryAssumption ==
  /\ NumQueries \in Nat \ {0} /\ BatchSize \in Nat \ {0}
  /\ Sources \in Seq(SourceNames) /\ Sources # << >>
  /\ \A i, j \in DOMAIN Sources : Sources[i] = Sources[j] => i = j
  /\ Total \in [SourceNames -> [0 .. NumQueries - 1 -> 0 .. SearchCap]]
  /\ {MaxCrashes, MaxChanges} \subseteq Nat
  /\ Options \subseteq [limit : Nat \ {0}, threads : Nat \ {0}]
  /\ {CodePage, GrepPage, SearchCap, GrepPages} \subseteq Nat \ {0}

VARIABLES
  options,   \* of the running process; the page cursors do not record them
  query,     \* query_cursor: where the next batch starts
  page,      \* discovery_cursors: the next page of each source and query
  claimed,   \* the results whose fingerprints were claimed
  dpc, batch,   \* of the running campaign: its queries, in order
  answers,   \* what its jobs returned and is not yet worked through
  hand,      \* results of the current job, to be claimed
  crashes,   \* kills so far
  changes    \* restarts with other options so far

vars == <<options, query, page, claimed, dpc, batch, answers, hand, crashes, changes>>

Limit == options.limit
Threads == options.threads

Queries == 0 .. NumQueries - 1
SourceSet == {Sources[k] : k \in DOMAIN Sources}
Results ==
  {r \in [source : SourceSet, query : Queries, pos : 1 .. SearchCap] :
     r.pos <= Total[r.source][r.query]}

-----------------------------------------------------------------------------
(* Pages.                                                                  *)

AtLeastOne(n) == Max({1, n})
Ceiling(n, d) == (n + d - 1) \div d

PageLimit(s) ==
  CASE s = "github-thread" -> AtLeastOne(SearchCap \div Threads)
    [] s = "github-code" -> AtLeastOne(SearchCap \div Min({CodePage, Limit}))
    [] s = "grep" -> GrepPages

PageStep(s) ==
  CASE s = "github-thread" -> 1
    [] s = "github-code" -> Ceiling(Limit, CodePage)
    [] s = "grep" -> Ceiling(Limit, GrepPage)

(* The results on page p of a list that is asked for in pages of that size. *)
OnPage(total, p, size) ==
  LET before == (p - 1) * size
      count == IF total > before THEN Min({size, total - before}) ELSE 0
  IN [i \in 1 .. count |-> before + i]

(* collect(): what a collector yields from its start page on, and whether it
   met the end of the list. *)
End(met) == [items |-> << >>, exhausted |-> met]
Then(taken, rest) == [items |-> taken \o rest.items, exhausted |-> rest.exhausted]

(* Where a collector is: the page it asks for next, and its hits so far. *)
Places == [page : Nat, fetched : Nat]
After(at, taken) == [page |-> at.page + 1, fetched |-> at.fetched + Len(taken)]

(* One page of issues. *)
ThreadSearch(total, start) ==
  LET reply == OnPage(total, start, Threads) IN [End(reply = << >>) EXCEPT !.items = reply]

(* Pages of code hits; the last one is asked for with what is still wanted
   as its page size. *)
CodeSearch(total, start) ==
  LET from[at \in Places] ==
        LET reply == OnPage(total, at.page, Min({CodePage, Limit - at.fetched}))
        IN IF at.fetched >= Limit THEN End(FALSE)
           ELSE IF reply = << >> THEN End(TRUE)
           ELSE Then(reply, from[After(at, reply)])
  IN from[[page |-> start, fetched |-> 0]]

(* Pages of hits of a fixed size; what is above the limit is dropped. *)
GrepSearch(total, start) ==
  LET from[at \in Places] ==
        LET reply == OnPage(total, at.page, GrepPage)
            taken == SubSeq(reply, 1, Min({Len(reply), Limit - at.fetched}))
        IN IF at.fetched >= Limit THEN End(FALSE)
           ELSE IF reply = << >> THEN End(TRUE)
           ELSE Then(taken, from[After(at, taken)])
  IN from[[page |-> start, fetched |-> 0]]

Collected(s, q, start) ==
  LET total == Total[s][q] IN
  CASE s = "github-thread" -> ThreadSearch(total, start)
    [] s = "github-code" -> CodeSearch(total, start)
    [] s = "grep" -> GrepSearch(total, start)

(* discovery_page: a cursor beyond the limit counts as page 1. *)
StartPage(s, q) == IF page[s][q] \in 1 .. PageLimit(s) THEN page[s][q] ELSE 1

-----------------------------------------------------------------------------
TypeOK ==
  /\ query \in Queries
  /\ page \in [SourceSet -> [Queries -> Nat \ {0}]]
  /\ claimed \subseteq Results
  /\ dpc \in {"idle", "gather", "ingest"}
  /\ batch \in Seq(Queries)
  /\ \A k \in DOMAIN answers :
       /\ answers[k].source \in SourceSet /\ answers[k].query \in Queries
       /\ answers[k].items \in Seq(1 .. SearchCap)
       /\ answers[k].end \in {"error", "exhausted", "more"}
  /\ hand \in Seq(Results)
  /\ crashes \in 0 .. MaxCrashes
  /\ options \in Options /\ changes \in 0 .. MaxChanges

Init ==
  /\ options \in Options /\ changes = 0
  /\ query = 0
  /\ page = [s \in SourceSet |-> [q \in Queries |-> 1]]
  /\ claimed = {}
  /\ dpc = "idle" /\ batch = << >> /\ answers = << >> /\ hand = << >>
  /\ crashes = 0

(* A wrong form of TakeQueryBatch: the cursor does not wrap. *)
TakeQueryBatchOnly ==
  LET size == Min({NumQueries, BatchSize})
  IN /\ dpc = "idle"
     /\ batch' = [k \in 1 .. size |-> (query + k - 1) % NumQueries]
     /\ query' = query + size
     /\ dpc' = "gather"
     /\ UNCHANGED <<options, page, claimed, answers, hand, crashes, changes>>

(* take_query_batch: the cursor is committed before anything is asked. *)
TakeQueryBatch ==
  LET size == Min({NumQueries, BatchSize})
  IN /\ dpc = "idle"
     /\ batch' = [k \in 1 .. size |-> (query + k - 1) % NumQueries]
     /\ query' = (query + size) % NumQueries
     /\ dpc' = "gather"
     /\ UNCHANGED <<options, page, claimed, answers, hand, crashes, changes>>

(* The jobs of the campaign: every query of the batch at every source. *)
JobCount == Len(batch) * Len(Sources)
JobQuery(k) == batch[((k - 1) \div Len(Sources)) + 1]
JobSource(k) == Sources[((k - 1) % Len(Sources)) + 1]

(* A job that ends with an error keeps what its collector had yielded:
   cut[k] is how much of it, for the jobs that fail. *)
Answer(k, cut) ==
  LET c == Collected(JobSource(k), JobQuery(k), StartPage(JobSource(k), JobQuery(k)))
      failed == k \in DOMAIN cut
  IN [source |-> JobSource(k), query |-> JobQuery(k),
      items |-> IF failed THEN SubSeq(c.items, 1, Min({cut[k], Len(c.items)}))
                          ELSE c.items,
      end |-> IF failed THEN "error" ELSE
              IF c.exhausted THEN "exhausted" ELSE "more"]

Cuts == UNION {[failed -> 0 .. Max({Limit, Threads})] : failed \in SUBSET (1 .. JobCount)}

(* asyncio.gather: all jobs have returned, some of them with an error. *)
GatherWith(cut) ==
  /\ dpc = "gather"
  /\ answers' = [k \in 1 .. JobCount |-> Answer(k, cut)]
  /\ dpc' = "ingest"
  /\ UNCHANGED <<options, query, page, claimed, batch, hand, crashes, changes>>

Gather == \E cut \in Cuts : GatherWith(cut)

(* advance_discovery_page *)
NextPage(s, q) == ((StartPage(s, q) - 1 + PageStep(s)) % PageLimit(s)) + 1

(* Wrong forms of CursorAfter: an error advances the cursor too; an
   exhausted list is not started again. *)
CursorAfterAny(a) ==
  IF a.end = "exhausted" THEN 1 ELSE NextPage(a.source, a.query)

CursorStays(a) ==
  IF a.end = "more" THEN NextPage(a.source, a.query) ELSE page[a.source][a.query]

(* The next cursor of a source and query, given how their job ended. *)
CursorAfter(a) ==
  CASE a.end = "error" -> page[a.source][a.query]
    [] a.end = "exhausted" -> 1
    [] a.end = "more" -> NextPage(a.source, a.query)

(* The cursor moves, one commit, before any result is claimed. *)
MoveCursor ==
  /\ dpc = "ingest" /\ hand = << >> /\ answers # << >>
  /\ LET a == Head(answers)
     IN /\ page' = [page EXCEPT ![a.source][a.query] = CursorAfter(a)]
        /\ hand' = [k \in DOMAIN a.items |->
                      [source |-> a.source, query |-> a.query, pos |-> a.items[k]]]
  /\ answers' = Tail(answers)
  /\ UNCHANGED <<options, query, claimed, dpc, batch, crashes, changes>>

(* claim_fingerprint, one commit for each result, in their order. *)
ClaimNext ==
  /\ hand # << >>
  /\ claimed' = claimed \cup {Head(hand)}
  /\ hand' = Tail(hand)
  /\ UNCHANGED <<options, query, page, dpc, batch, answers, crashes, changes>>

EndCampaign ==
  /\ dpc = "ingest" /\ hand = << >> /\ answers = << >>
  /\ dpc' = "idle" /\ batch' = << >>
  /\ UNCHANGED <<options, query, page, claimed, answers, hand, crashes, changes>>

Crash ==
  /\ dpc # "idle" /\ crashes < MaxCrashes
  /\ crashes' = crashes + 1
  /\ dpc' = "idle" /\ batch' = << >> /\ answers' = << >> /\ hand' = << >>
  /\ UNCHANGED <<options, query, page, claimed, changes>>

(* Between campaigns the watcher is stopped and started again with another
   --limit or --threads. *)
Restart ==
  /\ dpc = "idle" /\ changes < MaxChanges
  /\ options' \in Options \ {options}
  /\ changes' = changes + 1
  /\ UNCHANGED <<query, page, claimed, dpc, batch, answers, hand, crashes>>

Work == TakeQueryBatch \/ Gather \/ MoveCursor \/ ClaimNext \/ EndCampaign

Next == Work \/ Crash \/ Restart

Spec == Init /\ [][Next]_vars

-----------------------------------------------------------------------------
(* Properties.                                                             *)

(* Results on a page that a cursor counts, and in the answer of a job. *)
PageSize(s) ==
  CASE s = "github-thread" -> Threads
    [] s = "github-code" -> Min({CodePage, Limit})
    [] s = "grep" -> GrepPage
AnswerSize(s) == IF s = "github-thread" THEN Threads ELSE Limit

(* The results on the pages before the cursor of their source and query. *)
Behind == {r \in Results :
             r.pos <= (page[r.source][r.query] - 1) * PageSize(r.source)}

InHand == {hand[k] : k \in DOMAIN hand}

(* The cursor of a page is committed before its results are claimed, so a
   kill can cost the results of one page, and nothing else does: neither an
   error of a job nor the order in which the jobs of a campaign are worked
   through makes the cursor pass a result nobody has claimed. *)
SkipsBoundedByCrashes ==
  changes = 0 =>
  Cardinality(Behind \ (claimed \cup InHand))
    <= crashes * Max({AnswerSize(s) : s \in SourceSet})

(* "progressively explores deeper GitHub and grep.app results": every result
   is claimed in the end, also those a kill had made the cursor pass, if
   only the requests of every source and query keep succeeding now and then. *)
EverythingFound == <>(claimed = Results)

-----------------------------------------------------------------------------
(* The watcher goes on; a job that is asked again and again for the same
   source and query sometimes succeeds. *)
Succeeds(s, q) ==
  /\ dpc = "gather"
  /\ \E cut \in Cuts :
       /\ \E k \in (1 .. JobCount) \ DOMAIN cut : JobSource(k) = s /\ JobQuery(k) = q
       /\ GatherWith(cut)

FairSpec ==
  /\ Spec /\ WF_vars(Work)
  /\ \A s \in SourceSet, q \in Queries : SF_vars(Succeeds(s, q))

=============================================================================
