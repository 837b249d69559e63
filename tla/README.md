# AgentTrace in TLA+

AgentTrace collects public posts, issues, comments and code hits into a SQLite
store, groups them, scores the groups, and raises an alert for a human or an
automatic reviewer when a group looks like undisclosed coordination of agents.
This directory models the parts of it that keep state across steps: the watch
loop and its alert table, ingestion, the job scheduler with its rate governor,
the query and page cursors, the email notifier, the import of GH Archive hours,
and the files that processes share (repository ledger and findings reports). It
also models the algorithms of the analysis whose result depends on an order or on
a bound: the linking of observations, the search for exchanges, and the tiers of
the score. The modules are written from the code in `src/agenttrace/`; file and
line of every definition are in `PROJECT.json` under `map`.

To repeat a check: `tlc -config <run>.cfg <MC module>` and `tlapm <module>_proofs.tla`.

## 1. Inventory

| Part | State it keeps | Operations | Talks to |
|---|---|---|---|
| Watch loop (`monitor.py`, `cli.py` `_watch`) | nothing of its own between cycles; inside a cycle the new observations, the candidates, the alert it works on | `take_watch_query_batch`, `watch_cycle`, `_create_alert`, `_classify_alert` | store, campaign, analysis, reviewer |
| Alert table (`sqlite.py` `monitor_alerts`) | rows: fingerprint (set of URLs), status | `create_alert`, `pending_alert`, `resolve_alert` | watch loop, analyst, notifier |
| Reviews and reports (`monitor_reviews`, `reviewer.py`) | one review per alert, the report files | `save_monitor_review`, `monitor_findings`, `write_findings_*` | watch loop |
| Observations and fingerprints (`sqlite.py`) | row per event key; claimed fingerprints | `claim_fingerprint`, `upsert_observation`, `list_observations` | campaigns of every process |
| Campaign (`campaign.py`) | in memory: jobs, attempts, seen keys | `run_campaign`, `_collect_job` | collectors, governor, store |
| Rate governor (`rate.py`) | delay and failure count per source, for the life of the process | `acquire`, `record` | jobs |
| Query and page cursors (`sqlite.py`) | `query_cursor`; a page per source and query | `take_query_batch`, `discovery_page`, `advance_discovery_page`, `reset_discovery_page` | watch loop, campaign |
| Collectors (`collectors/`) | paging position | `collect` | public services |
| Notifier (`notifier.py`) | cursor per recipient | `notify_email_alerts` | alert table, mail script |
| GH Archive (`gharchive.py`, `cli.py` `_run_gharchive`, `parquet.py`) | partition row per hour, counters | start, collect in batches, finish | store |
| Correlation (`correlation/cluster.py`, `trajectories.py`, `graph.py`) | inside one call: union-find over buckets, groups, windows | `cluster_observations`, the coordination graph, longitudinal candidates | analysis |
| Exchange detector (`detectors/semantic.py`) | inside one call: reference index, paths found | `detect_coordination_exchange` | analysis |
| Other detectors (`detectors/`) | none | functions over one cluster | analysis |
| Scoring (`scoring.py`) | none | `score_cluster`: retained signals, components, tiers | analysis, `rescore-findings` |
| Ledger (`ledger.py`) | one JSON file per repository | `should_skip`, `write`, `update_ledger` | campaign, `export-ledger` |
| Report files (`reviewer.py`) | a file and a `.tmp` file beside it | `write_findings_report`, `write_findings_html` | watch loop, `export-findings`, `rescore-findings` |

What is hard about it:

- *Crashes between commits.* Every store method commits by itself, so a killed
  process leaves any prefix of a cycle behind: an item claimed and not stored, a
  page cursor moved and its results not claimed, an alert without a review, a
  review without its status, a mail without its cursor.
- *Interleaving.* Campaign commands write the same store as the watcher, an
  analyst resolves alerts at any moment, notifiers may overlap.
- *Feedback.* The governor's delay goes down only with requests that the delay
  itself keeps from starting.
- *Stale decisions.* The pending alert is read twice per cycle; `create_alert`
  may answer with a row that was resolved long ago; the notifier works on a
  snapshot.
- *Wrap-around.* Cursors wrap modulo numbers computed from command-line limits,
  and mean something else after a restart with other limits.
- *Files without locks.* Two processes may write one record or one temporary
  report file; a kill leaves a record cut in the middle.
- *Order at a bound.* Which buckets are joined, which exchanges are found and
  which signal of a family is kept depends on an order as soon as a bound is met.

What makes the parts correct is stated as the properties of section 4; the
`hazards` of `PROJECT.json` list every place where it could go wrong, also the ones
no property covers yet.

## 2. Plan

Modules, in their order of importance:

1. `AlertBook` (abstract specification of the alert table), `Watch` (the watch
   loop and ingestion over the store, a refinement of `AlertBook`). *Done.*
2. `Collection` (jobs, semaphore, governor). *Done.*
3. `Notifier` (composes with `AlertBook`). *Done.*
4. `Discovery` (query and page cursors, paging of the collectors, restarts with
   other limits). *Done.*
5. `GHArchive` (partitions, batches, broken and overlapping runs of one hour, the
   budgets). *Done.* Open: repeated runs with other options.
6. `Partition` (what linking promises) and `Linking` (the bounded union of artifact
   buckets and the cutting into windows, a refinement of `Partition`). *Done.*
7. `Exchange` (the bounded search against a declarative definition of a path),
   `Scoring` (operators), `Tiers` (their composition). *Done.* Open: a calibration
   profile.
8. `Disk` (names, inodes, open files) and `Files` (ledger and reports over it, the
   monitor beside an operator's commands). *Done.*
9. `WatchMissed` (what the watch loop never alerts on, over `Watch`). *Done.*

Open: the coordination graph and the longitudinal candidates of
`trajectories.py` (functions over all pairs of a list, to be held against a
definition of their own) and two watchers on one database.

## 3. Modules

**AlertBook** is the promise of the table `monitor_alerts`. A row's id is its
position in the sequence `book`. `Open` is the effective INSERT OR IGNORE, `Resolve`
the effective UPDATE; `CreateAlert` and `ResolveAlert` are the methods, which also
may change nothing. `Spec` is the table under any use; `GatedSpec` is the table as
the monitor uses it, opening a row only while none is pending.

**Watch** models `watch_cycle` as one process counter with a step per commit:

| Label of the watcher | Code |
|---|---|
| `idle` → `begin` | `take_watch_query_batch` looks at the pending alert (`TakeBatch`) |
| `begin` | head of `watch_cycle`: report a pause, classify the backlog, or collect |
| `collect`, `ingest`, `store` | `run_campaign`: gather, `claim_fingerprint`, `upsert_observation` |
| `analyze` | history, `analyze_observations`, the candidates with new events |
| `alert` | `_create_alert` of the best candidate (manual) or of the next one (automatic) |
| `review`, `resolve` | `_classify_alert`: `save_monitor_review`, then `resolve_alert` |
| `report` | the report files |

Campaign commands use the labels `collect`, `ingest`, `store` only. `Crash` may hit any
process at any label but `idle`; `Restart` starts the watcher in another mode;
`HumanReview` is the `review-alert` command. An item is an event with a version of its
text. What the detectors and the scorer compute is abstracted to `Reviewable`: enough
hot versions in a group; an edit can make a group reviewable or not. The fingerprint
of an alert is the set of events of its bundle.

**WatchMissed** extends `Watch` by one history variable, `overlooked`: the groups
with an event that was dropped by something known to drop it. Every action of `Watch`
is taken as it is; a kill of the watcher, an event stored by a campaign command, and
the manual mode add to the history, an analysis of a group with a new event takes
it out again.

**Collection** models `_collect_job` for all jobs of a campaign, the semaphore, the
governor, and the next campaign of the same process. A delay is counted in
halvings: the code halves a float of at least five seconds, which takes more than
a thousand halvings to become zero (`acquire` waits until it *is* zero), and
`DelaySteps` stands for that number. `Answers` is everything a request may end with;
which of them are retried, penalised or reported to the governor follows the
three `except` clauses.

**Discovery** models the cursors and the three searches that are paged. The
results of a query at a source are the numbers `1 .. Total`; page p of size n is
known to the services only (external). `ThreadSearch`, `CodeSearch` and `GrepSearch`
compute what a collector yields from a start page, `PageLimit` and `PageStep` are the
command line's numbers, which `Restart` may change between two campaigns while the
page cursors stay. A job may fail after any prefix of its results. A moved
cursor is a commit before the results of its page are claimed. The limits are
taken to be in the range the collectors accept (1 to 1000 hits, 1 to 100 threads).

**Notifier** extends `AlertBook`: reading the cursor, taking the snapshot, mailing
and committing are separate steps, and a run may end before any of them.

**GHArchive** models `_run_gharchive` as one counter per run: look at the partition
(`off`), set it to running (`start`), collect, analyze, finish, export. A line of the
hour is its worth (`candidate`, `sampled` or `other`), which all runs see alike: the
sample is a hash of the event's id. `ReadLine` is `_process_line` with the two
budgets, `Flush` and `EndStream` are the commits of `collect_to_store`; `observations` is
the list it returns, which the Parquet file is written from. `BreakOff` is any exception
inside the handler, `Kill` whatever the handler does not catch, an error of
`finish_ingestion_partition` included. `Selected` says, without running anything, what
one undisturbed run stores; it is the specification that the runs are held to. All
runs are given the same options: the partition's key has none of them, so after a run
with a small `--limit` a complete hour means that limit, as the README of the program
says. The Parquet file is replaced as a whole, by DuckDB.

**Partition** is the promise of linking: a partition of the bucket keys that only
gets coarser, two blocks at a time, each time for a link that touches both and
within the bound. **Linking** models `cluster_observations` as the sequential scan
it is: artifacts in the order in which they are met (those of one observation come
from a set, so in any order), `find` with path halving one turn of its loop at a
time, `union` with the bound, the gathering of groups, the cutting into windows. Keys,
handles and times are numbers; what an artifact is was decided before.

**Exchange** models the search of `detect_coordination_exchange`: right ends in
order, candidates from reply ancestry and from the bounded reference index,
acceptance up to the limit that both kinds of path share. What the patterns find
in a text is part of a message. **Scoring** is `score_cluster` as operators on a
list of signals, with integers for hundredths and their products, so thresholds are
compared exactly. **Tiers** composes both with `detect_cross_actor_reuse`, and lets the
other detectors add findings in their order; `verdict` is what `score_cluster` would
decide after each of them.

**Disk** has what a file system does with `write_text` and `replace`: names, inodes,
who has which inode open. A file is cut when it is opened, written in one step
later, and complete unless somebody else wrote in between; a name may be moved away
under an open file. **Files** adds the processes: the monitor (`watch`) and operator's
commands (`campaign`, `export-ledger`, `export-findings`, `rescore-findings`), one
counter each:

| Label | Code |
|---|---|
| `idle` | between cycles, or no command running |
| `ingest` | `run_campaign`: the next observation, and `should_skip` of its repository |
| `claim`, `store` | the observation in hand: `claim_fingerprint`, then `upsert_observation`, two commits |
| `record` | `update_ledger`: open and write one record after the other |
| `review` | a candidate or a pending alert, before its review is saved |
| `open`, `write`, `replace` | the `.tmp` file of a report, then `Path.replace` |

What a record says is only whether it is older than the `--recheck-stale` age; what a
report says is the number of findings it was rendered from. `Kill` may hit any process
at any label; between `claim` and `store` it loses the observation, which stays claimed
and is stored by nobody (`Lost`). `PublishFails` is the FileNotFoundError of a `.tmp` file that is gone.

`MCWatch`, `MCWatchMissed`, `MCCollection`, `MCNotifier`, `MCDiscovery`, `MCGHArchive`, `MCLinking`,
`MCTiers` and `MCFiles` only name the instances of the configurations. Operators
introduced as "a wrong form of" are not part of the specifications: they are the
mistakes each property is known to detect.

## 4. Runs

| Run | Instance | Result |
|---|---|---|
| `WatchSafety` | 2 events, one of them edited, nested groups, watcher and one campaign process, both modes, 1 kill | `TypeOK`, `LossBoundedByCrashes`, `ClaimsExclusive`, `AtMostOnePending`, `NoCollectionWhilePending`, `ErrorHasReview`, `ImplementsAlertBook` hold |
| `WatchMissed` | 4 events, one of them edited, two groups that overlap, a window of 3, both modes, a campaign process, 1 kill | `MissedIsExplained`, `ReportCurrent` and, with fairness, `AutoResolves` hold |
| `NotifierOne` | 1 notifier, 2 alerts, 2 aborted runs | `NoPendingSkipped`, `ResendsAreAborts`, `CursorMonotone`, `EveryPendingMailed` hold |
| `CollectJobs` | 2 sources with 2 jobs, 3 permits, 1 retry, every answer | `TypeOK`, `WedgedForGood`, `ThrottledForGood`, `EndsOrWedges`, `OthersEnd` hold |
| `Discovery` | 2 queries in turn, issues and code, up to 3 results each, two settings of the limits, 2 restarts with the other one, 1 kill | `TypeOK`, `SkipsBoundedByCrashes`, `EverythingFound` hold |
| `GHArchive` | 8 lines with more candidates and samples than their budgets of 4 and 1, batches of 2, 2 runs, one with `--reprocess`, 2 faults | `TypeOK`, `CompleteMeansStored`, `NothingBeyondSelection`, `LakeIsSelection`, `EventuallyComplete` hold |
| `Linking` | 6 observations in 5 buckets, every distribution of 3 artifacts over four of them, components of at most 3, artifacts in at most 3 buckets | `CapKept`, `LinksHaveReason`, `AllLinksUnlessFull`, `WindowsTight`, `Terminates`, `ImplementsPartition` hold |
| `Tiers` | 768 threads of 4 messages, at most 2 paths, an index of 2 holders, up to 2 further findings of 8 | `PathsExact`, `HighHasRoute`, `EvidenceMonotone` hold |
| `Files` | the monitor and one command at a time, some kinds without end, 1 repository, 2 reports, 3 policies, a kill at any step | `PublishedWhole`, `RunAllOrNothing`, `PublishedForward`, `EventuallyStored` hold |
| `CollectHangs` | 2 permits, no retries | `CampaignEnds` is violated |
| `WatchPauseStale` | manual mode, 1 group | `PauseNamesPending` is violated |
| `DiscoverySkips` | code and grep.app with a limit of one page and a half | `EverythingFound` is violated |

What the runs that hold say of the code, where it is not plain from the name:

- `MissedIsExplained`: a reviewable group of the recent history is left without an
  alert only when a kill, a campaign command that stored its events first, or
  the manual mode (which opens the best candidate of a cycle only) took its new
  events away. The window, edits and the gate never do.
- `AllLinksUnlessFull`: whatever order the hash of a set gives, groups come out the
  same unless the bound was met.
- `PathsExact`: an exchange that is not reported is hidden by one of the two
  bounds, and by which is said; the limit of paths hides only what comes after all
  that was reported, delegations before checkpoints.
- `HighHasRoute`: a high tier rests on two strong anchors no chain of declared
  dependencies connects, on an exceptional signal, or on a complete trajectory of
  messages; so evidence counted twice never opens an alert by itself.
- `EvidenceMonotone` is limited to findings of a family that has not fired: one signal
  is kept per family, and a stronger one without a flag hides a weaker one with it.
- `RunAllOrNothing`: a campaign never ingests half of a repository because of its own
  ledger record, only when another process wrote that record meanwhile or it
  became old.
- `EventuallyStored`: the ledger hides nothing for ever where there is no record to
  keep, where the monitor rechecks a repository by name, or, with `--recheck-stale`, once
  no command goes on writing records. What happens there is stored in the end or
  was lost by a kill between the two commits of its ingestion (`campaign.py:171-174`),
  which the ledger has no part in; `LossBoundedByCrashes` of `Watch` bounds that loss by
  the number of kills. Both conditions are needed: without `Lost`, or with
  `export-ledger` given without end under `--recheck-stale`, the property is violated.

What the violated runs show (details and quotations are in `findings`):

- `CollectHangs`: two rate-limit answers in a row throttle a source; then every job
  of that source waits for a delay of zero while it holds a permit, and nothing
  is left that could lower the delay. The campaign, and with it the watcher, stops
  for good. `EndsOrWedges` shows that this is the only way a campaign can hang;
  `WedgedForGood` that no later campaign of the process gets out of it.
- `WatchPauseStale`: `create_alert` of evidence that was resolved before answers with
  the old row, and the cycle reports it as a pending alert.
- `DiscoverySkips`: for a limit that is no multiple of the page size, some results
  are on no page of any sweep.

Disagreements met while modelling that no run is spent on: the report is written
once after the loop and not after each candidate (`README.md:247`), and is replaced
"atomically" (same line) only while one process writes it, because the name of the
temporary file is fixed; a notifier that ends between delivery and commit mails again,
though each alert is mailed "exactly once" (`notifier.py:32`, `README.md:261`); the
manual mode opens only the best candidate of a cycle
(`docs/operational-detection.md:113`); a failed classification of an alert that was
resolved before is not labelled as the error `README.md:219-220` describes; an alert
resolved before the next poll is never mailed; a final server error counts as a success
for the governor (`rate.py:65`); `--threads` above 100 is cut by the collector and not by
the page limit; `export-ledger`, which fetches nothing, renews the time of the last
check of every record (`ledger.py:104`).

### Bounds and why they are enough

- Two events, two versions, nested groups: the smallest store in which a text is
  edited after its group was alerted, one group can be reviewable without the
  other, and two candidates come out of one cycle. `MaxBatch` lets a collection return
  two or three items, so a kill may fall between the items of a batch.
- `WatchMissed` has four events for two groups that overlap in one, and a window of
  three, so the newest event pushes another out of it. Only the shared event has two
  versions. `MaxBatch` is 1 and the analyst does nothing there: batches and the
  analyst are in `WatchSafety`, and they lengthen behaviours without dropping
  an event.
- One kill: the properties that count kills are proved for any number of them; in
  the runs one kill reaches every label.
- `HistoryLimit` is the number of events in `WatchSafety` and `WatchPauseStale`; the
  window that hides events is the subject of `WatchMissed`.
- Two notifications and two aborts let the cursor lag behind by more than one mail.
  Overlapping notifiers are covered by the theorem, for any number of them.
- In `CollectJobs`, 3 permits for 2 + 2 jobs let one source be wedged and the other go
  on; four halvings are more than the permits, as in the code. `CollectHangs` has as
  many permits as a wedged source has jobs.
- In `Discovery` lists are exhausted and cursors wrap at a search cap of four; the two
  settings give page 2 of one and page 2 of the other different results, and two
  restarts change the setting and change it back. One kill falls inside a page.
  `SkipsBoundedByCrashes` is stated for behaviours without a restart, since a cursor
  counts pages of the size in force; `EverythingFound` is stated for all.
  In `DiscoverySkips`, pages of 2, a limit of 3 and four pages have the same
  proportions as 100, 150 and ten.
- In `GHArchive` both budgets are exceeded before the end of the file, the last batch is
  a partial one, and two faults can hit both runs or the same one twice. The scan
  limit is the length of the file here; the theorems hold for every limit.
- In `Linking` the observations have all three forms of bucket key, two share a bucket,
  and two share all times; one observation has a fixed artifact and one a second, so a
  chain of three artifacts can join all five buckets, which the bound of three forbids.
  The theorems hold for every input and bound.
- In `Tiers` a thread has a delegation, possible acknowledgements and a result; who says
  what, in which context, as a reply to what and with which reference varies. The
  bounds of two are small enough to hide a third holder and a third path. The other
  findings come in a fixed order, as the pipeline calls the detectors.
- In `Files`, `Scopes` lists what one behaviour may use up (events, findings, kills and
  commands to be given once) and the commands it may have without end. The seven scopes
  are two events of a repository with a `campaign` or with endless `export-ledger`, two
  findings with an `export-findings` or with `rescore-findings`, each with a kill; one
  event and a finding with an `export-findings`, or with endless `campaign` and
  `export-ledger`; and the events of a repository and of none with a kill. One repository is enough because records are separate
  files; two reports because the monitor reads the findings again between them.

### Fairness and why the code justifies it

- `Watch`: weak fairness of the watcher's cycle. `_watch` is a `while True` loop, and
  `MaxCrashes` kills are each followed by a new start, which is an assumption on
  the operator; nothing is assumed of the analyst or of campaign commands.
- `Collection`: weak fairness of every job: requests have timeouts, sleeps are
  finite, and asyncio hands the semaphore on in the order of arrival.
- `Notifier`: the LaunchAgent of `README.md:261` polls for ever; strong fairness of the snapshot, of
  the delivery and of the commit says that not every run fails at the same place.
- `Discovery`: weak fairness of the loop, strong fairness of a success for each
  source and query: a request that is repeated for ever is answered some time. It is
  an assumption on the services, not on the code; a page that never answers keeps
  its cursor by design.
- `WatchMissed`: weak fairness of the watcher's cycle, as in `Watch`.
- `Linking`: weak fairness of the scan, which is one thread.
- `Files`: weak fairness of the steps of each process (one that runs goes on until it
  ends or is killed), of the monitor's next campaign, for the same reason as in
  `Watch`, and of the passing of time. No command need ever be given, and none need stop
  being given, except where `EventuallyStored` says so.
- `GHArchive`: an operator repeats the hour until it is complete, and a run goes on while
  it can; nothing is assumed of runs with `--reprocess`.

## 5. Proofs

| Module | Theorem | For every |
|---|---|---|
| `Watch_proofs` | `WatchTyped`, `OneAlertAtATime`, `PendingAlertStopsCollection`, `WatchImplementsAlertBook`, `CrashesLoseOneItemEach`, `ClaimsAreExclusive`, `ErrorsAreExplained`, `ReportShowsReviews`; of `WatchMissed` `OnlyKnownReasonsMiss` | finite set of events, versions, processes, any groups, limits (of the history too) and number of kills |
| `Notifier_proofs` | of `AlertBook` `TableHasDistinctFingerprints`, `ResolutionsAreFinal`, `GateKeepsOnePending`; `NotifierTyped`, `CursorSkipsNoPendingAlert`; for one notifier `ResendsOnlyAfterAborts`, `CursorNeverMovesBack` | set of fingerprints and of notifiers |
| `Collection_proofs` | `CollectionTyped`, `WedgedSourceStaysWedged`; with more halvings than permits `ThrottledSourceStaysThrottled` | jobs, sources, permits, retries, thresholds |
| `Discovery_proofs` | `CursorsAreTyped`; with limits of whole pages `KillsBoundSkips` | queries, batch size, sources, numbers of results, settings, page sizes, number of kills and restarts |
| `GHArchive_proofs` | `ArchiveTyped`, `CompleteHourIsStored`, `RepeatedRunsStoreNoMore`, `ParquetHoldsSelection` | hour, budgets, scan limit, batch size, set of runs and number of faults |
| `Linking_proofs` | `LinkTyped`, `GroupsAreBounded`, `GroupsHaveReason`, `LinksLostOnlyWhenFull`, `LinkingImplementsPartition`, `ClustersAreTight` | list of observations, artifacts, bounds and window |
| `Files_proofs` | `ReportsAreWhole`, `ReportsGoForward`, `RunsTakeAllOrNothing` | repositories, reports, processes, policies, and number of events, findings, commands and kills |
| `Tiers_proofs` | `SearchIsExact`, `HighTierHasReason`, `EvidenceNeverHurts` | messages of a cluster with any acts, references and replies, bounds of the search, findings of the other detectors, threshold |

The assumptions are the named ASSUMEs of the modules (`WatchAssumption`,
`NotifierAssumption`, `CollectionAssumption`, `DiscoveryAssumption`, `ArchiveAssumption`, `LinkingAssumption`,
`DiskAssumption`, `FilesAssumption`, `ExchangeAssumption`, `TiersAssumption`), which every run evaluates, and
the conditions the theorems name themselves: `OneNotifier`, `ManyHalvings` and
`LimitsAreWholePages`. The last is true of the defaults (20 hits), of any `--limit` up
to 100 that is a multiple of 10, and of multiples of 100; without it
`SkipsBoundedByCrashes` is false, for the reason `DiscoverySkips` shows.
`DiscoveryAssumption` says that no source is listed twice, because `build_factories`
makes a dict of them.

Arguments:

- *One alert at a time.* `AtMostOnePending` is not inductive: when the watcher is
  about to open an alert nothing in it says that none is pending. `Gate` adds what the
  two looks establish: from the second look on, a watcher that works through a
  collection keeps the table free of pending alerts, and a watcher that classifies
  is working on the only pending alert there can be. The analyst only takes
  pending alerts away. `WatchInv` is `TypeOK` with `Gate`; from it every step is a step
  of `AlertBook!GatedNext` or leaves the table alone, which is the refinement.
- *What kills lose.* `LossInv` says that the items claimed, not stored and in nobody's
  hand are at most as many as the kills, that a process holds at most one item, and
  that no item in a hand is in another hand or was stored. Claiming moves an item to a
  hand, storing empties the hand, a kill drops at most one.
- *Notifier.* `SkipInv` covers, beside the cursor, what every running notifier has read:
  all pending unmailed alerts up to its `last`, and those in front of its queue, are
  accounted for, so that a commit of any id is harmless however runs overlap.
  `ResendInv` relates, for one notifier, the mails sent to the cursor and the aborts.
- *Collection.* `WedgedForGood` needs the typing only: a job of a wedged source cannot
  leave `acquire`. For `ThrottledForGood`, `ThrottleInv` says that a throttled source
  has fewer requests under way than its delay has halvings left: each request
  takes at most one halving, and no new one passes `acquire`.
- *Cursors.* `SkipsBoundedByCrashes` looks at cursors that have moved; `SkipInv` says of
  those that are about to move that the answers waiting to be worked through are for
  different sources and queries, fit the largest limit, and hold every result from the
  start page up to the next cursor, unless they end with an error (`Fits`). A cursor
  then passes only what is at hand or what it had passed before, and a kill loses one
  hand (`CursorPasses`, `CrashKeeps`). That an answer holds what the cursor will pass is
  a fact about the searches: each is unrolled along the distance to its limit, by
  minimal counterexample (`LoopCovers`), and `Apart` shows that no two jobs of a campaign
  are for the same source and query.
- *GH Archive.* That a complete hour is stored says nothing of a run that is under way.
  `ArchiveInv` adds, for every run that collects, that its list is exactly the part
  of `Selected` among the lines it has looked at, that the list is stored but for the
  batch in memory, and that a counter is the number of lines of its kind so far until
  it meets its budget (`Counts`); the last makes "has budget left" and "is selected"
  the same for the next line (`SelectedNext`). Behind the stream the list is `Selected`
  and stored, and the store never shrinks.
- *Reviews and reports.* `ReviewInv` says that the alert about to be resolved has a review,
  and that the report can lag behind the reviews only from `SaveReview` to
  `WriteReports`, which only a watcher with a reviewer goes through, or after a kill.
- *Missed groups.* `MissedInv` says of every reviewable part of the recent history of a
  group that it is covered, by an alert or by a candidate still to be opened, unless
  it holds an event that is new in this cycle. It has to speak of parts: the window
  may push the new event out and leave the others, which then must have been covered
  before. With `WatchInv` it is inductive; between cycles nothing is new and no
  candidate is left.
- *Linking.* `LinkInv` labels every key with its component and gives it a rank that falls
  along `parent`, so a walk stays in its component and the relabelling of a union
  is a merge of two labels. The size of a root is the number of keys of its label;
  every artifact that was passed has its keys in one component, or in two that are
  too large together, which growing components keep.
- *Linking implements Partition.* The sets of keys closed under `parent` and its inverse
  are a Boolean algebra and the components its atoms (`AtomsAround`). Halving leaves
  the closed sets as they are (`HalvedClosed`); a union keeps those that hold both
  roots or none, so two atoms become one (`JoinedAtoms`). An atom lies in a class of
  `LinkInv`'s labelling, which bounds it, and `Joined` says that the keys at hand come
  from one linking artifact.
- *Windows.* `WindowsTight` speaks of clusters that are cut; `CutInv` says of the one being
  cut that it is ordered, starts where the last one ended, and lies within a window of
  its first observation, and of those still to come that they are not earlier.
- *Search.* `PathsExact` is about a search that is over. `SearchInv` says of one under way
  what it has passed: every exchange the indexes offer of a kind that is through, or whose
  right end lies behind, or whose left end was taken out of the candidates, is found;
  and what is found lies before the rest, in the order of right ends and then of keys,
  which is why nothing is found twice and why the limit hides only what comes later. What
  is offered is what the definition asks for, unless the index left it out
  (`OfferedUnlessHidden`).
- *Tiers.* `TierInv` says that the verdict is that of the signals so far, and that a signal
  that verifies a trajectory is the one of the exchange detector; `SearchInv` then makes
  of it a trajectory among the messages. Two components of the fired families have
  nothing in common, because their intersection is closed and smaller
  (`ComponentsApart`), so two strong anchors are independent (`HighHasRoute`).
- *Evidence.* Of a family that had no signal the new one is retained and displaces nothing
  (`RetainedGrows`); if it is tied to none it is a component of its own
  (`ComponentsGrow`), which collapses no family, so the bonus does not fall. The ranks
  are values that a number of components reach and fewer exceed; they exist
  (`RankExists`) and do not fall when a component is added (`RankedGrows`). The
  priority is the greatest of its grounds, each of which has one at least as great
  afterwards; a decision asks only for what has grown (`DecisionMore`).
- *Files.* `ReportInv` says of a process that is alone with the reports that its draft is
  its own inode, empty until written and whole afterwards, and rendered from all
  findings there are; that no two names share an inode; and that nobody has a
  report open that is to be whole. `OpenFacts` needs an inode to be free, which is a
  counting argument on names and processes (`SpareInode`). `RunInv` says that, unless
  the record of a repository changed since the run began, `should_skip` would
  answer now as it did for every observation of it so far, the one in hand included;
  a run is not disturbed by
  reports, because records and drafts are never the same inode.

Only model-checked: everything under fairness (`AutoResolves`, `EveryPendingMailed`,
`EndsOrWedges`, `OthersEnd`, `EverythingFound`, `EventuallyComplete`, `Terminates`,
`EventuallyStored`), because the prover has no ENABLED. Every safety invariant and
action property of the passing runs is a theorem.

## 6. Not modelled

- The coordination graph and the longitudinal candidates: planned above. In `Tiers` a
  longitudinal finding is an input.
- The other detectors are stateless functions of regular expressions, counts and
  thresholds over one group; the watch loop keeps only whether a group is
  reviewable, `Tiers` takes their findings as inputs.
- A calibration profile, and the rounding of floats: `Scoring` is exact.
- Statistics in a ledger record, records that another clone brings in through Git,
  and spellings of one repository that differ in case.
- A text that is edited and edited back: its fingerprint is claimed, so the row keeps
  the middle version. `Watch` has the behaviour, no document says what is right.
- Saved evidence bundles (`evidence_bundles`) are written and never read by the loop.
- Migration of old databases runs once, in one transaction.
- Prompts, redaction and the rendering of reports are text; the model keeps when a
  report is written and from which reviews.
- HTTP clients, field mapping, expansion of comments, Reddit and JSONL collectors:
  I/O. Their outcomes are the inputs of `Collection` and `Discovery`.
- Results of a query are fixed in `Discovery`. New results at the head of a list
  shift the others to later pages, which a sweep sees twice; results that vanish
  shift them to earlier ones, which any paging by number may miss.
- Two watch processes on one database: the documents describe one monitor.
