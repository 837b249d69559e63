------------------------------- MODULE Watch -------------------------------
(***************************************************************************)
(* The watch loop of AgentTrace over its SQLite store.                     *)
(*                                                                         *)
(* One watcher repeats watch_cycle; `agenttrace campaign` processes may    *)
(* ingest into the same database meanwhile; an analyst may resolve an      *)
(* alert at any moment; any process may be killed at any moment.  Every    *)
(* commit of the code is a step of its own, because a crash, another       *)
(* process or the analyst can come between two of them.                    *)
(*                                                                         *)
(* A public item is an event together with one version of its text (the    *)
(* claimed fingerprint is URL + content hash); an event is the row it has  *)
(* in `observations`.  What the detectors compute is abstracted to: a      *)
(* group of events is reviewable when at least HotSize of its stored       *)
(* versions are Hot.                                                       *)
(***************************************************************************)
EXTENDS Naturals, Sequences, FiniteSets

CONSTANTS
  Events,         \* event keys, numbered by event_time (one URL each)
  Versions,       \* content hashes an event can be found with
  Items,          \* events with a version, as the sources ever return them
  Hot,            \* the versions that count towards a reviewable bundle
  Clusters,       \* groups of events the correlator puts together
  HotSize,        \* hot events a bundle needs to be reviewable
  HistoryLimit,   \* --history-limit: newest stored events that are analysed
  Watcher,        \* the one `agenttrace watch` process
  Campaigns,      \* `agenttrace campaign` processes on the same database
  Modes,          \* subset of {"manual", "auto"}: with or without --auto-review
  HumanStatuses,  \* what the analyst may resolve an alert to
  Verdicts,       \* subset of {"ok", "error"}: what the review provider may do
  MaxBatch,       \* bound: items one collection returns
  MaxCrashes      \* bound: kills in a behaviour

Procs == {Watcher} \cup Campaigns
None == "none"

ASSUME WatchAssumption ==
  /\ IsFiniteSet(Events) /\ Events \subseteq Nat
  /\ IsFiniteSet(Versions) /\ Hot \subseteq Versions
  /\ None \notin Versions
  /\ Items \subseteq Events \X Versions
  /\ Clusters \subseteq SUBSET Events
  /\ HotSize \in Nat \ {0} /\ HistoryLimit \in Nat \ {0}
  /\ IsFiniteSet(Campaigns) /\ Watcher \notin Campaigns
  /\ Modes \subseteq {"manual", "auto"}
  /\ HumanStatuses \subseteq {"reviewed", "false-positive", "escalated"}
  /\ Verdicts \subseteq {"ok", "error"}
  /\ MaxBatch \in Nat /\ MaxCrashes \in Nat

VARIABLES
  book,        \* monitor_alerts
  review,      \* monitor_reviews: the classification of each alert, or None
  report,      \* the classifications shown by the findings report
  claimed,     \* discovery_fingerprints
  stored,      \* observations: the version in each event's row, or None
  everStored,  \* history: items that were written to their row at some time
  pc, todo, item,   \* per process: run_campaign (item: claimed, not yet stored)
  fresh,            \* the watcher's: events stored by its campaign
  mode, batch, phase, cands, cur,   \* of the watcher
  result,           \* what the watcher's last cycle returned
  crashes      \* kills so far

ingestVars == <<claimed, stored, everStored>>
bookVars == <<book, review, report>>
watchVars == <<mode, batch, phase, cands, cur, result>>
procVars == <<pc, todo, item, fresh>>
vars == <<bookVars, ingestVars, procVars, watchVars, crashes>>

Alerts == INSTANCE AlertBook WITH Fingerprints <- SUBSET Events

-----------------------------------------------------------------------------
TypeOK ==
  /\ Alerts!BookType
  /\ review \in Seq({"ok", "error", None}) /\ Len(review) = Len(book)
  /\ report \in Seq({"ok", "error", None})
  /\ claimed \subseteq Items /\ everStored \subseteq claimed
  /\ stored \in [Events -> Versions \cup {None}]
  /\ pc \in [Procs -> {"idle", "begin", "collect", "ingest", "store",
                       "analyze", "alert", "review", "resolve", "report"}]
  /\ \A p \in Campaigns : pc[p] \in {"idle", "collect", "ingest", "store"}
  /\ todo \in [Procs -> SUBSET Items]
  /\ item \in [Procs -> SUBSET Items] /\ \A p \in Procs : item[p] \subseteq claimed
  /\ fresh \subseteq Events
  /\ mode \in {"manual", "auto"} /\ batch \in BOOLEAN
  /\ phase \in {"backlog", "found"}
  /\ cands \in SUBSET SUBSET Events
  /\ cur \in 0 .. Len(book)
  /\ result \in [state : {"watching", "paused"}, alert : 0 .. Len(book)]
  /\ crashes \in 0 .. MaxCrashes

Watching == [state |-> "watching", alert |-> 0]

Init ==
  /\ Alerts!Init /\ review = << >> /\ report = << >>
  /\ claimed = {} /\ everStored = {} /\ stored = [e \in Events |-> None]
  /\ pc = [p \in Procs |-> "idle"]
  /\ todo = [p \in Procs |-> {}] /\ item = [p \in Procs |-> {}]
  /\ fresh = {}
  /\ mode \in Modes /\ batch = FALSE /\ phase = "found"
  /\ cands = {} /\ cur = 0 /\ result = Watching
  /\ crashes = 0

Goto(p, l) == pc' = [pc EXCEPT ![p] = l]
At(p, l) == pc[p] = l

-----------------------------------------------------------------------------
(* run_campaign, shared by the watcher and the campaign command.           *)

(* The jobs of a campaign have all returned.  What the sources return, in
   which order and from which page, is not this module's business. *)
Collect(p) ==
  /\ At(p, "collect")
  /\ \E found \in SUBSET Items :
       /\ Cardinality(found) <= MaxBatch
       /\ p = Watcher /\ ~batch => found = {}
       /\ todo' = [todo EXCEPT ![p] = found]
  /\ fresh' = IF p = Watcher THEN {} ELSE fresh
  /\ Goto(p, "ingest")
  /\ UNCHANGED <<item, bookVars, ingestVars, watchVars, crashes>>

(* Wrong forms of ClaimItem: all items of a campaign claimed at once and
   then stored one by one; and a claim that does not look at the earlier ones. *)
ClaimAll(p) ==
  /\ At(p, "ingest")
  /\ \E i \in todo[p] :
       /\ todo' = [todo EXCEPT ![p] = @ \ {i}]
       /\ claimed' = claimed \cup todo[p]
       /\ item' = [item EXCEPT ![p] = {i}]
  /\ Goto(p, "store")
  /\ UNCHANGED <<stored, everStored, fresh, bookVars, watchVars, crashes>>

ClaimAgain(p) ==
  /\ At(p, "ingest")
  /\ \E i \in todo[p] :
       /\ todo' = [todo EXCEPT ![p] = @ \ {i}]
       /\ claimed' = claimed \cup {i}
       /\ item' = [item EXCEPT ![p] = {i}]
  /\ Goto(p, "store")
  /\ UNCHANGED <<stored, everStored, fresh, bookVars, watchVars, crashes>>

(* claim_fingerprint: its own commit; an item claimed before is skipped. *)
ClaimItem(p) ==
  /\ At(p, "ingest")
  /\ \E i \in todo[p] :
       /\ todo' = [todo EXCEPT ![p] = @ \ {i}]
       /\ claimed' = claimed \cup {i}
       /\ IF i \in claimed
            THEN UNCHANGED <<item, pc>>
            ELSE item' = [item EXCEPT ![p] = {i}] /\ Goto(p, "store")
  /\ UNCHANGED <<stored, everStored, fresh, bookVars, watchVars, crashes>>

(* upsert_observation: the next commit, and the observation becomes new. *)
StoreItem(p) ==
  /\ At(p, "store")
  /\ \E e \in Events, v \in Versions :
       /\ item[p] = {<<e, v>>}
       /\ stored' = [stored EXCEPT ![e] = v]
       /\ everStored' = everStored \cup {<<e, v>>}
       /\ fresh' = IF p = Watcher THEN fresh \cup {e} ELSE fresh
  /\ item' = [item EXCEPT ![p] = {}]
  /\ Goto(p, "ingest")
  /\ UNCHANGED <<claimed, todo, bookVars, watchVars, crashes>>

EndIngest(p) ==
  /\ At(p, "ingest") /\ todo[p] = {}
  /\ Goto(p, IF p = Watcher THEN "analyze" ELSE "idle")
  /\ UNCHANGED <<todo, item, fresh, bookVars, ingestVars, watchVars, crashes>>

StartCampaign(p) ==
  /\ p \in Campaigns /\ At(p, "idle")
  /\ Goto(p, "collect")
  /\ UNCHANGED <<todo, item, fresh, bookVars, ingestVars, watchVars, crashes>>

Ingest(p) == Collect(p) \/ ClaimItem(p) \/ StoreItem(p) \/ EndIngest(p)

-----------------------------------------------------------------------------
(* analyze_observations over the recent history.                           *)

InStore == {e \in Events : stored[e] # None}
History == {e \in InStore : Cardinality({f \in InStore : f > e}) < HistoryLimit}
Bundles == {c \cap History : c \in Clusters}
Reviewable(b) == Cardinality({e \in b : stored[e] \in Hot}) >= HotSize
Candidates == {b \in Bundles : Reviewable(b) /\ b \cap fresh # {}}

-----------------------------------------------------------------------------
(* watch_cycle.                                                            *)

(* A wrong form of TakeBatch: queries are taken whatever is pending. *)
TakeBatchAnyway ==
  /\ At(Watcher, "idle")
  /\ batch' = TRUE
  /\ result' = Watching
  /\ Goto(Watcher, "begin")
  /\ UNCHANGED <<todo, item, fresh, bookVars, ingestVars,
                 mode, phase, cands, cur, crashes>>

(* take_watch_query_batch: no query is taken while an alert is pending. *)
TakeBatch ==
  /\ At(Watcher, "idle")
  /\ batch' = (Alerts!Pending = {})
  /\ result' = Watching
  /\ Goto(Watcher, "begin")
  /\ UNCHANGED <<todo, item, fresh, bookVars, ingestVars,
                 mode, phase, cands, cur, crashes>>

(* The second look at the pending alert, at the head of watch_cycle. *)
ReportPause ==
  /\ At(Watcher, "begin") /\ mode = "manual" /\ Alerts!Pending # {}
  /\ result' = [state |-> "paused", alert |-> Alerts!FirstPending]
  /\ Goto(Watcher, "idle")
  /\ UNCHANGED <<todo, item, fresh, bookVars, ingestVars,
                 mode, batch, phase, cands, cur, crashes>>

TakeBacklog ==
  /\ At(Watcher, "begin") /\ mode = "auto" /\ Alerts!Pending # {}
  /\ cur' = Alerts!FirstPending /\ phase' = "backlog"
  /\ Goto(Watcher, "review")
  /\ UNCHANGED <<todo, item, fresh, bookVars, ingestVars,
                 mode, batch, cands, result, crashes>>

BeginCampaign ==
  /\ At(Watcher, "begin") /\ Alerts!Pending = {}
  /\ Goto(Watcher, "collect")
  /\ UNCHANGED <<todo, item, fresh, bookVars, ingestVars, watchVars, crashes>>

Analyze ==
  /\ At(Watcher, "analyze")
  /\ cands' = Candidates
  /\ fresh' = {}
  /\ IF Candidates = {}
       THEN result' = Watching /\ Goto(Watcher, "idle")
       ELSE Goto(Watcher, "alert") /\ UNCHANGED result
  /\ UNCHANGED <<todo, item, bookVars, ingestVars,
                 mode, batch, phase, cur, crashes>>

(* A wrong form of OpenOne: a review record for every CreateAlert. *)
OpenOneAgain(f) == Alerts!CreateAlert(f) /\ review' = Append(review, None)

(* _create_alert of one candidate, and the id the table answers with. *)
OpenOne(f) ==
  /\ Alerts!CreateAlert(f)
  /\ review' = IF f \in Alerts!Opened THEN review ELSE Append(review, None)

IdAfter(f) == IF f \in Alerts!Opened THEN Alerts!IdOf(f) ELSE Len(book) + 1

(* Without a reviewer only the best-scored candidate becomes an alert, and
   the cycle reports a pause on its id. *)
AlertAndPause ==
  /\ At(Watcher, "alert") /\ mode = "manual"
  /\ \E f \in cands :
       OpenOne(f) /\ result' = [state |-> "paused", alert |-> IdAfter(f)]
  /\ cands' = {}
  /\ Goto(Watcher, "idle")
  /\ UNCHANGED <<todo, item, fresh, report, ingestVars,
                 mode, batch, phase, cur, crashes>>

(* A wrong form of AlertAndReview: one candidate stands for all of them. *)
AlertBestOnly ==
  /\ At(Watcher, "alert") /\ mode = "auto"
  /\ \E f \in cands : OpenOne(f) /\ cur' = IdAfter(f)
  /\ cands' = {}
  /\ Goto(Watcher, "review")
  /\ UNCHANGED <<todo, item, fresh, report, ingestVars,
                 mode, batch, phase, result, crashes>>

(* With a reviewer every candidate gets an alert and a classification. *)
AlertAndReview ==
  /\ At(Watcher, "alert") /\ mode = "auto"
  /\ \E f \in cands :
       OpenOne(f) /\ cur' = IdAfter(f) /\ cands' = cands \ {f}
  /\ Goto(Watcher, "review")
  /\ UNCHANGED <<todo, item, fresh, report, ingestVars,
                 mode, batch, phase, result, crashes>>

(* A wrong form of SaveReview: a failed classification leaves no record. *)
SaveReviewIfOk ==
  /\ At(Watcher, "review")
  /\ \E v \in Verdicts :
       review' = IF v = "ok" THEN [review EXCEPT ![cur] = v] ELSE review
  /\ Goto(Watcher, "resolve")
  /\ UNCHANGED <<book, report, todo, item, fresh, ingestVars, watchVars, crashes>>

(* _classify_alert: the provider answers or fails, and save_monitor_review
   replaces whatever classification the alert had. *)
SaveReview ==
  /\ At(Watcher, "review")
  /\ \E v \in Verdicts : review' = [review EXCEPT ![cur] = v]
  /\ Goto(Watcher, "resolve")
  /\ UNCHANGED <<book, report, todo, item, fresh, ingestVars, watchVars, crashes>>

StatusOf(v) == IF v = "ok" THEN "reviewed" ELSE "classification-error"

(* Wrong forms of ResolveReviewed: a failed classification leaves the alert
   pending; it ends the cycle without the reports. *)
ResolveIfOk ==
  /\ At(Watcher, "resolve")
  /\ IF review[cur] = "ok"
       THEN Alerts!ResolveAlert(cur, "reviewed") ELSE UNCHANGED book
  /\ Goto(Watcher, IF cands = {} THEN "report" ELSE "alert")
  /\ UNCHANGED <<review, report, todo, item, fresh, ingestVars, watchVars, crashes>>

ResolveAndStop ==
  /\ At(Watcher, "resolve")
  /\ Alerts!ResolveAlert(cur, StatusOf(review[cur]))
  /\ Goto(Watcher, CASE cands # {} -> "alert"
                     [] cands = {} /\ review[cur] = "ok" -> "report"
                     [] cands = {} /\ review[cur] # "ok" -> "idle")
  /\ UNCHANGED <<review, report, todo, item, fresh, ingestVars, watchVars, crashes>>

ResolveReviewed ==
  /\ At(Watcher, "resolve")
  /\ Alerts!ResolveAlert(cur, StatusOf(review[cur]))
  /\ Goto(Watcher, IF cands = {} THEN "report" ELSE "alert")
  /\ UNCHANGED <<review, report, todo, item, fresh, ingestVars, watchVars, crashes>>

(* write_findings_report and write_findings_html. *)
WriteReports ==
  /\ At(Watcher, "report")
  /\ report' = review
  /\ IF phase = "backlog"
       THEN Goto(Watcher, "collect") /\ UNCHANGED result
       ELSE Goto(Watcher, "idle") /\ result' = Watching
  /\ phase' = "found" /\ cur' = 0
  /\ UNCHANGED <<book, review, todo, item, fresh, ingestVars,
                 mode, batch, cands, crashes>>

Cycle ==
  \/ TakeBatch \/ ReportPause \/ TakeBacklog \/ BeginCampaign \/ Analyze
  \/ AlertAndPause \/ AlertAndReview \/ SaveReview \/ ResolveReviewed
  \/ WriteReports

-----------------------------------------------------------------------------
(* The world around the processes.                                         *)

(* `agenttrace review-alert`. *)
HumanReview ==
  /\ \E i \in Alerts!Ids, s \in HumanStatuses : Alerts!Resolve(i, s)
  /\ UNCHANGED <<review, report, procVars, ingestVars, watchVars, crashes>>

(* The watcher exits between cycles and is started again, possibly with
   another setting of --auto-review. *)
Restart ==
  /\ At(Watcher, "idle")
  /\ mode' \in Modes /\ mode' # mode
  /\ UNCHANGED <<bookVars, ingestVars, procVars,
                 batch, phase, cands, cur, result, crashes>>

(* A process is killed inside a cycle: what it had in memory is gone, what
   it had committed stays. *)
Crash(p) ==
  /\ ~At(p, "idle") /\ crashes < MaxCrashes
  /\ crashes' = crashes + 1
  /\ Goto(p, "idle")
  /\ todo' = [todo EXCEPT ![p] = {}]
  /\ item' = [item EXCEPT ![p] = {}]
  /\ IF p = Watcher
       THEN fresh' = {} /\ cands' = {} /\ cur' = 0 /\ phase' = "found"
       ELSE UNCHANGED <<fresh, cands, cur, phase>>
  /\ UNCHANGED <<bookVars, ingestVars, mode, batch, result>>

Next ==
  \/ Cycle
  \/ \E p \in Procs : Ingest(p) \/ StartCampaign(p) \/ Crash(p)
  \/ HumanReview \/ Restart

Spec == Init /\ [][Next]_vars

-----------------------------------------------------------------------------
(* Properties.                                                             *)

NoPending == Alerts!Pending = {}

(* A killed process loses at most the one item it had claimed and not yet
   stored: the claim and the upsert of run_campaign are two commits, and a
   claimed item is never collected again. *)
Lost == claimed \ (everStored \cup UNION {item[p] : p \in Procs})
LossBoundedByCrashes == Cardinality(Lost) <= crashes

(* At most one alert ever waits for review, in either mode and across
   crashes and restarts: take_watch_query_batch and the head of watch_cycle
   together keep the watcher from opening a second one. *)
AtMostOnePending == Alerts!AtMostOnePending

(* The watcher takes queries, requests sources and works through what they
   return only while no alert waits for review. *)
NoCollectionWhilePending ==
  batch /\ pc[Watcher] \in {"begin", "collect", "ingest", "store", "analyze", "alert"}
    => NoPending

(* claim_fingerprint makes an item the business of one process: no other
   process holds it, and none has stored it before. *)
ClaimsExclusive ==
  \A p, q \in Procs :
    item[p] \cap everStored = {} /\ (p # q => item[p] \cap item[q] = {})

(* An alert carries the status classification-error only when a review
   record explains it: the review is committed before the status. *)
ErrorHasReview ==
  \A i \in Alerts!Ids :
    book[i].status = "classification-error" => review[i] # None

(* The watcher keeps the promise of the alert table, and opens an alert only
   while no other one is pending. *)
ImplementsAlertBook == Alerts!GatedSpec

(* Between cycles that were not killed the findings report shows the current
   classification of every alert that has one. *)
Shown(classes) == {<<i, classes[i]>> : i \in {k \in DOMAIN classes : classes[k] # None}}
ReportCurrent == At(Watcher, "idle") /\ crashes = 0 => Shown(report) = Shown(review)

(* An automatic reviewer never stays on a pending alert: unless the watcher
   is restarted without it, the alert gets resolved. *)
AutoResolves ==
  (~NoPending /\ mode = "auto") ~> (NoPending \/ mode # "auto")

(* A claim of the documents that the code does not keep. *)

(* A cycle that ends "paused" names an alert that is pending. *)
PauseNamesPending ==
  [][At(Watcher, "alert") /\ result'.state = "paused" =>
       result'.alert \in Alerts!Pending']_vars

-----------------------------------------------------------------------------
FairSpec == Spec /\ WF_vars(Cycle)

=============================================================================
