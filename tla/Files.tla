------------------------------- MODULE Files -------------------------------
(***************************************************************************)
(* The files that the monitor and the commands share: the repository       *)
(* ledger, written in place, which decides what later runs ingest; and the *)
(* findings reports, each written beside its place and moved there.        *)
(*                                                                         *)
(* "watch" is the monitor with --auto-review; every other process is an    *)
(* operator's command at a time.  The services show all that happened to   *)
(* every run; which page is asked for is a matter of Discovery.            *)
(***************************************************************************)
EXTENDS Disk, Sequences

CONSTANTS
  Events, ThreadEvents,   \* those of the thread search, which looks at the ledger itself
  Repos, RepoOf,          \* GitHub repositories, in lower case, and who has none
  Reports,                \* the report files in the order they are written
  Policies,               \* repositories rechecked by name or owner, and --recheck-stale
  Scopes                  \* bounds: the events, findings, kills and commands (once, or
                          \* always) that one behaviour may have

Record(r) == <<r, "json">>
Report(f) == <<f, "out">>
Tmp(f) == <<f, "tmp">>

ASSUME FilesAssumption ==
  /\ Len(Reports) \in Nat \ {0} /\ DOMAIN Reports = 1 .. Len(Reports)
  /\ ThreadEvents \subseteq Events /\ "watch" \in Procs
  /\ Names = {Record(r) : r \in Repos} \cup
             {Report(Reports[n]) : n \in DOMAIN Reports} \cup {Tmp(Reports[n]) : n \in DOMAIN Reports}
  /\ Policies \subseteq [names : SUBSET Repos, stale : BOOLEAN]

VARIABLES
  left,               \* what of its scope a behaviour has not used yet
  happened,           \* events there are
  claimed, stored,    \* those with a fingerprint in the database, and those in it
  findings,           \* reviews and scores committed so far
  pc, policy,
  offers, news,       \* of a run: observations to ingest, and those ingested
  hand,               \* the observation being ingested
  refused,            \* repositories of which it refused an observation
  changed,            \* ghost: repositories whose record changed during a run
  todo,               \* repositories whose record is to be written
  seen,               \* the findings a report is rendered from
  at,                 \* the report being written
  together,           \* ghost: another process was writing reports meanwhile
  mixed               \* ghost: reports not last published by a process alone

db == <<claimed, stored>>
run == <<offers, news, hand, refused, todo>>
rep == <<seen, at, together, mixed>>
vars == <<disk, left, happened, db, findings, pc, policy, run, changed, rep>>

-----------------------------------------------------------------------------
NoOptions == [names |-> {}, stale |-> FALSE]

Init ==
  /\ DiskInit
  /\ happened = {} /\ claimed = {} /\ stored = {} /\ findings = 0
  /\ pc = [p \in Procs |-> "idle"]
  /\ \E c \in Policies : policy = [p \in Procs |-> IF p = "watch" THEN c ELSE NoOptions]
  /\ offers = [p \in Procs |-> {}] /\ news = [p \in Procs |-> {}]
  /\ hand = [p \in Procs |-> {}]
  /\ refused = [p \in Procs |-> {}] /\ todo = [p \in Procs |-> {}]
  /\ changed = [p \in Procs |-> {}]
  /\ seen = [p \in Procs |-> 0] /\ at = [p \in Procs |-> 1]
  /\ together = [p \in Procs |-> FALSE] /\ mixed = {}
  /\ left \in Scopes

(* The labels of the loop over the observations of a campaign. *)
Ingesting == {"ingest", "claim", "store"}

Goto(p, label) == pc[p] # label /\ pc' = [pc EXCEPT ![p] = label]
Changing(S) == changed' = [p \in Procs |-> IF pc[p] = "idle" THEN {} ELSE changed[p] \cup S]

(* What a run or a command knew is gone with it. *)
Forget(p, args) ==
  /\ offers' = [offers EXCEPT ![p] = {}] /\ news' = [news EXCEPT ![p] = {}]
  /\ hand' = [hand EXCEPT ![p] = {}]
  /\ refused' = [refused EXCEPT ![p] = {}] /\ todo' = [todo EXCEPT ![p] = {}]
  /\ changed' = [changed EXCEPT ![p] = {}]
  /\ seen' = [seen EXCEPT ![p] = 0] /\ at' = [at EXCEPT ![p] = 1]
  /\ together' = [together EXCEPT ![p] = FALSE]
  /\ policy' = [policy EXCEPT ![p] = args]

(* A wrong form of Recorded: the database stands for the ledger. *)
RecordedInStore(r) == \E e \in stored : RepoOf[e] = r

(* A record that cannot be read hides nothing; a whole one says whether it is
   older than --recheck-stale. *)
Recorded(r) == Content(Record(r)).whole
Old(r) == Content(Record(r)).says = 1

ShouldSkip(args, r) ==
  r \in Repos /\ Recorded(r) /\ r \notin args.names /\ ~(args.stale /\ Old(r))

-----------------------------------------------------------------------------
(* The monitor keeps its arguments while it lives; a command has its own. *)
Command(p, name) ==
  /\ pc[p] = "idle" /\ p # "watch"
  /\ \/ name \in left.always /\ UNCHANGED left
     \/ name \in left.once /\ left' = [left EXCEPT !.once = @ \ {name}]

NextCycle(p) == pc[p] = "idle" /\ p = "watch" /\ UNCHANGED left

(* A cycle of the monitor, or the command campaign. *)
Gather(p) ==
  /\ \/ NextCycle(p) /\ UNCHANGED policy
     \/ Command(p, "campaign") /\ \E c \in Policies : policy' = [policy EXCEPT ![p] = c]
  /\ offers' = [offers EXCEPT ![p] =
       {e \in happened : e \in ThreadEvents => ~ShouldSkip(policy'[p], RepoOf[e])}]
  /\ Goto(p, "ingest")
  /\ UNCHANGED <<disk, happened, db, findings, news, hand, refused, todo, changed, rep>>

Refuse(p, e) ==
  /\ ShouldSkip(policy[p], RepoOf[e])
  /\ refused' = [refused EXCEPT ![p] = @ \cup {RepoOf[e]}]
  /\ UNCHANGED <<hand, pc>>

Allow(p, e) ==
  /\ ~ShouldSkip(policy[p], RepoOf[e])
  /\ hand' = [hand EXCEPT ![p] = {e}]
  /\ Goto(p, "claim")
  /\ UNCHANGED refused

Look(p) ==
  /\ pc[p] = "ingest"
  /\ \E e \in offers[p] :
       /\ Refuse(p, e) \/ Allow(p, e)
       /\ offers' = [offers EXCEPT ![p] = @ \ {e}]
  /\ UNCHANGED <<disk, happened, db, findings, policy, news, todo, changed, rep, left>>

(* A commit of its own: of two processes with one observation, one claims it. *)
Claim(p) ==
  /\ pc[p] = "claim"
  /\ IF hand[p] \subseteq claimed
     THEN hand' = [hand EXCEPT ![p] = {}] /\ Goto(p, "ingest") /\ UNCHANGED claimed
     ELSE claimed' = claimed \cup hand[p] /\ Goto(p, "store") /\ UNCHANGED hand
  /\ UNCHANGED <<disk, happened, stored, findings, policy, offers, news, refused, todo,
                 changed, rep, left>>

(* A second commit: a process killed before it leaves a claim for nothing. *)
Store(p) ==
  /\ pc[p] = "store" /\ Goto(p, "ingest")
  /\ stored' = stored \cup hand[p]
  /\ news' = [news EXCEPT ![p] = @ \cup hand[p]]
  /\ hand' = [hand EXCEPT ![p] = {}]
  /\ UNCHANGED <<disk, happened, claimed, findings, policy, offers, refused, todo, changed,
                 rep, left>>

(* Records are for the repositories of what this run has ingested. *)
RecordsOf(S) == {RepoOf[e] : e \in S} \cap Repos

(* A wrong form of EndIngest: the history is recorded, not the campaign. *)
EndIngestAll(p) ==
  /\ pc[p] = "ingest" /\ offers[p] = {}
  /\ todo' = [todo EXCEPT ![p] = RecordsOf(stored)]
  /\ Goto(p, "record")
  /\ UNCHANGED <<disk, happened, db, findings, policy, offers, news, hand, refused, changed,
                 rep, left>>

EndIngest(p) ==
  /\ pc[p] = "ingest" /\ offers[p] = {}
  /\ todo' = [todo EXCEPT ![p] = RecordsOf(news[p])]
  /\ Goto(p, "record")
  /\ UNCHANGED <<disk, happened, db, findings, policy, offers, news, hand, refused, changed,
                 rep, left>>

(* export-ledger: records for all that is in the database. *)
ExportLedger(p) ==
  /\ Command(p, "export-ledger") /\ Goto(p, "record")
  /\ todo' = [todo EXCEPT ![p] = RecordsOf(stored)]
  /\ UNCHANGED <<disk, happened, db, findings, policy, offers, news, hand, refused, changed, rep>>

OpenRecord(p) ==
  /\ pc[p] = "record" /\ fd[p] = 0
  /\ \E r \in todo[p] :
       /\ Open(p, Record(r)) /\ Changing({r})
       /\ todo' = [todo EXCEPT ![p] = @ \ {r}]
  /\ UNCHANGED <<happened, db, findings, pc, policy, offers, news, hand, refused, rep, left>>

(* The record says that the repository was checked now. *)
WriteRecord(p) ==
  /\ pc[p] = "record" /\ fd[p] # 0
  /\ Write(p, 0)
  /\ Changing({r \in Repos : dir[Record(r)] = fd[p]})
  /\ UNCHANGED <<happened, db, findings, pc, policy, run, rep, left>>

(* A run ends here, or finds candidates among what it has ingested. *)
EndRun(p) ==
  /\ pc[p] = "record" /\ fd[p] = 0 /\ todo[p] = {}
  /\ Goto(p, "idle") /\ Forget(p, IF p = "watch" THEN policy[p] ELSE NoOptions)
  /\ UNCHANGED <<disk, happened, db, findings, mixed, left>>

Room == Cardinality({q \in Procs : pc[q] = "review"}) < left.findings

FindCandidates(p) ==
  /\ pc[p] = "record" /\ fd[p] = 0 /\ todo[p] = {}
  /\ p = "watch" /\ news[p] # {} /\ Room /\ Goto(p, "review")
  /\ UNCHANGED <<disk, happened, db, findings, policy, run, changed, rep, left>>

-----------------------------------------------------------------------------
(* A pending alert is classified, and reports written, before the campaign of
   the same cycle, which is one more Gather here. *)
Backlog(p) ==
  /\ NextCycle(p) /\ Room /\ Goto(p, "review")
  /\ UNCHANGED <<disk, happened, db, findings, policy, run, changed, rep>>

(* rescore-findings *)
Rescore(p) ==
  /\ Command(p, "rescore-findings") /\ Room /\ Goto(p, "review")
  /\ UNCHANGED <<disk, happened, db, findings, policy, run, changed, rep>>

Reporting(p) == pc[p] \in {"open", "write", "replace"}

(* What is reported is read, and reports are begun. *)
BeginReports(p) ==
  /\ seen' = [seen EXCEPT ![p] = findings']
  /\ together' = [q \in Procs |->
       IF q = p THEN \E o \in Procs : Reporting(o)
       ELSE together[q] \/ Reporting(q)]
  /\ Goto(p, "open")
  /\ UNCHANGED <<at, mixed>>

Review(p) ==
  /\ pc[p] = "review"
  /\ findings' = findings + 1 /\ left' = [left EXCEPT !.findings = @ - 1]
  /\ BeginReports(p)
  /\ UNCHANGED <<disk, happened, db, policy, run, changed>>

(* export-findings *)
ExportFindings(p) ==
  /\ Command(p, "export-findings") /\ UNCHANGED findings
  /\ BeginReports(p)
  /\ UNCHANGED <<disk, happened, db, policy, run, changed>>

(* A wrong form of OpenTmp: what an earlier process left there is moved. *)
OpenTmpOnce(p) ==
  /\ pc[p] = "open"
  /\ IF Exists(Tmp(Reports[at[p]])) THEN UNCHANGED disk /\ Goto(p, "replace")
     ELSE Open(p, Tmp(Reports[at[p]])) /\ Goto(p, "write")
  /\ UNCHANGED <<happened, db, findings, policy, run, changed, rep, left>>

OpenTmp(p) ==
  /\ pc[p] = "open"
  /\ Open(p, Tmp(Reports[at[p]]))
  /\ Goto(p, "write")
  /\ UNCHANGED <<happened, db, findings, policy, run, changed, rep, left>>

WriteTmp(p) ==
  /\ pc[p] = "write"
  /\ Write(p, seen[p])
  /\ Goto(p, "replace")
  /\ UNCHANGED <<happened, db, findings, policy, run, changed, rep, left>>

(* The monitor reads the findings again for the next report. *)
Publish(p) ==
  /\ pc[p] = "replace"
  /\ Replace(Tmp(Reports[at[p]]), Report(Reports[at[p]]))
  /\ mixed' = IF together[p] THEN mixed \cup {Reports[at[p]]} ELSE mixed \ {Reports[at[p]]}
  /\ IF at[p] = Len(Reports) THEN Goto(p, "idle") /\ Forget(p, IF p = "watch" THEN policy[p] ELSE NoOptions)
     ELSE /\ Goto(p, "open") /\ at' = [at EXCEPT ![p] = @ + 1]
          /\ seen' = [seen EXCEPT ![p] = IF p = "watch" THEN findings ELSE @]
          /\ UNCHANGED <<policy, run, changed, together>>
  /\ UNCHANGED <<happened, db, findings, left>>

(* What was claimed and not yet stored is claimed for ever. *)
Stop(p) ==
  /\ Goto(p, "idle") /\ fd' = [fd EXCEPT ![p] = 0]
  /\ \E c \in Policies : Forget(p, IF p = "watch" THEN c ELSE NoOptions)
  /\ UNCHANGED <<dir, data, happened, db, findings, mixed>>

(* Another process has moved the file away: FileNotFoundError, which ends the
   process.  The monitor is started again, perhaps with other arguments. *)
PublishFails(p) ==
  /\ pc[p] = "replace" /\ ~Exists(Tmp(Reports[at[p]]))
  /\ Stop(p) /\ UNCHANGED left

Kill(p) ==
  /\ left.kills > 0 /\ left' = [left EXCEPT !.kills = @ - 1]
  /\ Stop(p)

-----------------------------------------------------------------------------
Happen ==
  /\ \E e \in left.events :
       happened' = happened \cup {e} /\ left' = [left EXCEPT !.events = @ \ {e}]
  /\ UNCHANGED <<disk, db, findings, pc, policy, run, changed, rep>>

(* Time passes: all records become old. *)
Tick ==
  LET fresh == {r \in Repos : Recorded(r) /\ ~Old(r)} IN
  /\ fresh # {}
  /\ data' = [i \in Inodes |->
       IF \E r \in fresh : dir[Record(r)] = i THEN [data[i] EXCEPT !.says = 1] ELSE data[i]]
  /\ Changing(fresh)
  /\ UNCHANGED <<dir, fd, happened, db, findings, pc, policy, run, rep, left>>

Step(p) ==
  \/ Look(p) \/ Claim(p) \/ Store(p) \/ EndIngest(p)
  \/ OpenRecord(p) \/ WriteRecord(p) \/ EndRun(p) \/ FindCandidates(p)
  \/ Review(p) \/ OpenTmp(p) \/ WriteTmp(p) \/ Publish(p) \/ PublishFails(p)

Begin(p) ==
  \/ Gather(p) \/ Backlog(p)
  \/ ExportLedger(p) \/ ExportFindings(p) \/ Rescore(p)

Next ==
  \/ \E p \in Procs : Begin(p) \/ Step(p) \/ Kill(p)
  \/ Happen \/ Tick

(* A process that runs goes on until it ends or is killed, the monitor begins
   cycles, and time passes; no command is ever given. *)
Spec ==
  /\ Init /\ [][Next]_vars
  /\ \A p \in Procs : WF_vars(Step(p))
  /\ WF_vars(Gather("watch")) /\ WF_vars(Tick)

-----------------------------------------------------------------------------
(* A report that is there is complete, also while it is written and after a
   kill at any point, unless two processes were writing reports at once
   (write_findings_report, write_findings_html). *)
PublishedWhole ==
  \A n \in DOMAIN Reports :
    (Exists(Report(Reports[n])) /\ Reports[n] \notin mixed) => Content(Report(Reports[n])).whole

(* A process that wrote its reports alone never replaces a report by one that
   was rendered from fewer findings. *)
PublishedForward ==
  [][\A p \in Procs, n \in DOMAIN Reports : (at[p] = n /\ ~together[p] /\ Publish(p)) =>
       Content(Report(Reports[n])).says <= Content(Report(Reports[n]))'.says]_vars

(* A run ingests all that it was given of a repository or nothing, unless
   another process wrote the record of that repository, or the record became
   old, while the run went on: its own record comes last. *)
RunAllOrNothing ==
  \A p \in Procs : pc[p] \in Ingesting =>
    refused[p] \cap {RepoOf[e] : e \in news[p]} \subseteq changed[p]

(* Claimed by a process that ended before it stored them: the second commit of
   campaign.py:171-174 did not follow the first. *)
Lost == claimed \ (stored \cup UNION {hand[p] : p \in {q \in Procs : pc[q] = "store"}})

(* No command is writing records. *)
OthersRecordNothing == \A p \in Procs \ {"watch"} : pc[p] # "record"

(* What the ledger hides is not hidden for ever: all that happens where there
   is no record to keep, where the monitor rechecks by name, or anywhere if it
   rechecks what is old and no command goes on writing records, is ingested in
   the end, whatever was recorded, exported or torn before; all but what a kill
   between the two commits of an observation has lost. *)
EventuallyStored ==
  \A e \in Events :
    (\/ <>[](RepoOf[e] \in policy["watch"].names \/ RepoOf[e] \notin Repos)
     \/ <>[](policy["watch"].stale /\ OthersRecordNothing)) =>
      ((e \in happened) ~> (e \in stored \cup Lost))
=============================================================================
