------------------------------ MODULE GHArchive ------------------------------
(***************************************************************************)
(* `agenttrace gharchive-hour`: one hour of GH Archive is streamed, a      *)
(* bounded selection of its events is stored in batches, and a partition   *)
(* row says how far the hour got.                                          *)
(*                                                                         *)
(* All runs are for the same hour with the same options; they may overlap, *)
(* their stream may break, they may be killed, and they may be repeated,   *)
(* with --reprocess or without.  The events of the hour are fixed, and so  *)
(* is which of them are sampled: that is a hash of their ids.  Empty and   *)
(* oversized lines, which are not even counted as scanned, are left out.   *)
(***************************************************************************)
EXTENDS Naturals, Sequences, FiniteSets

CONSTANTS
  Archive,          \* the lines of the hour's file, each as what it is worth
  MaxObservations,  \* --max-observations
  ScanLimit,        \* --limit: lines that are looked at
  BatchSize,        \* observations per commit (500)
  Runs,             \* processes
  Reprocessing,     \* the runs that are given --reprocess
  MaxFaults          \* bound: broken streams and kills in a behaviour

Worth == {"candidate",   \* its normalized text holds the vocabulary
          "sampled",     \* it does not, but its id is in the sample
          "other"}       \* filtered, malformed, or neither

BackgroundBudget == MaxObservations \div 5
CandidateBudget == MaxObservations - BackgroundBudget

ASSUME ArchiveAssumption ==
  /\ Archive \in Seq(Worth)
  /\ {BackgroundBudget, CandidateBudget, ScanLimit, MaxFaults} \subseteq Nat
  /\ BatchSize \in Nat \ {0} /\ Reprocessing \subseteq Runs

VARIABLES
  status,   \* of the hour in ingestion_partitions, "none" when it has no row
  stored,   \* the lines whose observation is in the store
  lake,     \* the lines in the Parquet file, when there is one
  rpc,      \* where each run is
  at,       \* lines it has looked at
  kept,     \* candidate_observations and sampled_observations
  pending,  \* observations of the batch that is being filled
  observations,   \* all observations of the run
  faults     \* broken streams and kills so far

runVars == <<at, kept, pending, observations>>
vars == <<status, stored, lake, rpc, runVars, faults>>

Lines == DOMAIN Archive

TypeOK ==
  /\ status \in {"none", "running", "complete", "failed"}
  /\ stored \subseteq Lines
  /\ lake \subseteq SUBSET Lines /\ Cardinality(lake) <= 1
  /\ rpc \in [Runs -> {"off", "start", "collect", "analyze", "fail",
                       "finish", "export"}]
  /\ at \in [Runs -> 0 .. Len(Archive)]
  /\ kept \in [Runs -> [candidate : 0 .. CandidateBudget,
                        sampled : 0 .. BackgroundBudget]]
  /\ pending \in [Runs -> SUBSET Lines]
  /\ \A r \in Runs : Cardinality(pending[r]) <= BatchSize
  /\ observations \in [Runs -> SUBSET Lines]
  /\ faults \in 0 .. MaxFaults

NothingKept == [candidate |-> 0, sampled |-> 0]

Init ==
  /\ status = "none" /\ stored = {} /\ lake = {}
  /\ rpc = [r \in Runs |-> "off"]
  /\ at = [r \in Runs |-> 0] /\ kept = [r \in Runs |-> NothingKept]
  /\ pending = [r \in Runs |-> {}] /\ observations = [r \in Runs |-> {}]
  /\ faults = 0

Goto(r, l) == rpc' = [rpc EXCEPT ![r] = l]

(* A wrong form of LookAtPartition: any earlier run makes this one skip. *)
LookAtRow(r) ==
  /\ rpc[r] = "off" /\ status = "none"
  /\ Goto(r, "start")
  /\ UNCHANGED <<status, stored, lake, runVars, faults>>

(* A complete hour is skipped, unless it is to be processed again. *)
LookAtPartition(r) ==
  /\ rpc[r] = "off"
  /\ status # "complete" \/ r \in Reprocessing
  /\ Goto(r, "start")
  /\ UNCHANGED <<status, stored, lake, runVars, faults>>

(* start_ingestion_partition, whatever became of the hour in the meantime. *)
StartPartition(r) ==
  /\ rpc[r] = "start"
  /\ status' = "running"
  /\ at' = [at EXCEPT ![r] = 0]
  /\ kept' = [kept EXCEPT ![r] = NothingKept]
  /\ pending' = [pending EXCEPT ![r] = {}]
  /\ observations' = [observations EXCEPT ![r] = {}]
  /\ Goto(r, "collect")
  /\ UNCHANGED <<stored, lake, faults>>

Scanned(r) == at[r] = Len(Archive) \/ at[r] >= ScanLimit
BatchFull(r) == Cardinality(pending[r]) >= BatchSize

Budget == [candidate |-> CandidateBudget, sampled |-> BackgroundBudget]

Keep(r, line, w) ==
  /\ kept' = [kept EXCEPT ![r][w] = @ + 1]
  /\ pending' = [pending EXCEPT ![r] = @ \cup {line}]
  /\ observations' = [observations EXCEPT ![r] = @ \cup {line}]

(* A wrong form of ReadLine: the budgets are not looked at. *)
ReadLineAlways(r) ==
  /\ rpc[r] = "collect" /\ ~Scanned(r) /\ ~BatchFull(r)
  /\ at' = [at EXCEPT ![r] = @ + 1]
  /\ LET line == at[r] + 1
         w == Archive[line]
     IN IF w # "other" THEN Keep(r, line, w)
                       ELSE UNCHANGED <<kept, pending, observations>>
  /\ UNCHANGED <<status, stored, lake, rpc, faults>>

(* _process_line: an event that is worth something is kept as long as there
   is budget for its kind. *)
ReadLine(r) ==
  /\ rpc[r] = "collect" /\ ~Scanned(r) /\ ~BatchFull(r)
  /\ at' = [at EXCEPT ![r] = @ + 1]
  /\ LET line == at[r] + 1
         w == Archive[line]
     IN IF w # "other" /\ kept[r][w] < Budget[w]
          THEN Keep(r, line, w)
          ELSE UNCHANGED <<kept, pending, observations>>
  /\ UNCHANGED <<status, stored, lake, rpc, faults>>

(* A wrong form of Flush: the batch and the list of the run are one object. *)
FlushBoth(r) ==
  /\ rpc[r] = "collect" /\ BatchFull(r)
  /\ stored' = stored \cup pending[r]
  /\ pending' = [pending EXCEPT ![r] = {}]
  /\ observations' = [observations EXCEPT ![r] = {}]
  /\ UNCHANGED <<status, lake, rpc, at, kept, faults>>

(* upsert_observations_batch: a full batch is one commit. *)
Flush(r) ==
  /\ rpc[r] = "collect" /\ BatchFull(r)
  /\ stored' = stored \cup pending[r]
  /\ pending' = [pending EXCEPT ![r] = {}]
  /\ UNCHANGED <<status, lake, rpc, at, kept, observations, faults>>

(* A wrong form of EndStream: the last, partial batch is forgotten. *)
EndStreamOnly(r) ==
  /\ rpc[r] = "collect" /\ Scanned(r) /\ ~BatchFull(r)
  /\ pending' = [pending EXCEPT ![r] = {}]
  /\ Goto(r, "analyze")
  /\ UNCHANGED <<status, stored, lake, at, kept, observations, faults>>

(* The end of the file or of the scan, and the commit of what is left. *)
EndStream(r) ==
  /\ rpc[r] = "collect" /\ Scanned(r) /\ ~BatchFull(r)
  /\ stored' = stored \cup pending[r]
  /\ pending' = [pending EXCEPT ![r] = {}]
  /\ Goto(r, "analyze")
  /\ UNCHANGED <<status, lake, at, kept, observations, faults>>

(* An HTTP error, a truncated or oversized stream, a failing commit, or an
   error of the analysis: the batch in memory is dropped. *)
BreakOff(r) ==
  /\ rpc[r] \in {"collect", "analyze"} /\ faults < MaxFaults
  /\ faults' = faults + 1
  /\ pending' = [pending EXCEPT ![r] = {}]
  /\ Goto(r, "fail")
  /\ UNCHANGED <<status, stored, lake, at, kept, observations>>

FinishFailed(r) ==
  /\ rpc[r] = "fail"
  /\ status' = "failed"
  /\ Goto(r, "off")
  /\ UNCHANGED <<stored, lake, runVars, faults>>

(* analyze_observations and _save_bounded_bundles, commits of their own. *)
SaveBundles(r) ==
  /\ rpc[r] = "analyze"
  /\ Goto(r, "finish")
  /\ UNCHANGED <<status, stored, lake, runVars, faults>>

FinishComplete(r) ==
  /\ rpc[r] = "finish"
  /\ status' = "complete"
  /\ \E next \in {"off", "export"} : Goto(r, next)
  /\ UNCHANGED <<stored, lake, runVars, faults>>

(* --parquet: the file is written after the hour was marked complete, and
   an error there changes nothing any more. *)
WriteParquet(r) ==
  /\ rpc[r] = "export"
  /\ lake' = {observations[r]}
  /\ Goto(r, "off")
  /\ UNCHANGED <<status, stored, runVars, faults>>

ExportFails(r) ==
  /\ rpc[r] = "export"
  /\ Goto(r, "off")
  /\ UNCHANGED <<status, stored, lake, runVars, faults>>

(* A kill, or a KeyboardInterrupt, which the handler does not catch. *)
Kill(r) ==
  /\ rpc[r] # "off" /\ faults < MaxFaults
  /\ faults' = faults + 1
  /\ Goto(r, "off")
  /\ UNCHANGED <<status, stored, lake, runVars>>

Work(r) ==
  \/ StartPartition(r) \/ ReadLine(r) \/ Flush(r) \/ EndStream(r)
  \/ FinishFailed(r) \/ SaveBundles(r) \/ FinishComplete(r) \/ WriteParquet(r)

Next == \E r \in Runs : \/ LookAtPartition(r) \/ Work(r) \/ BreakOff(r)
                       \/ ExportFails(r) \/ Kill(r)

Spec == Init /\ [][Next]_vars

-----------------------------------------------------------------------------
(* Properties.                                                             *)

(* What one undisturbed run selects, without running it: the first lines of
   each kind within the scan limit, as many as its budget admits. *)
Earlier(i) == {j \in 1 .. i - 1 : Archive[j] = Archive[i]}
Selected == {i \in Lines : /\ i <= ScanLimit /\ Archive[i] # "other"
                           /\ Cardinality(Earlier(i)) < Budget[Archive[i]]}

(* "A completed partition means the configured scan reached EOF or its
   explicit raw-event limit": whatever broke or overlapped before, the store
   then holds everything the run selects. *)
CompleteMeansStored == status = "complete" => Selected \subseteq stored

(* Repeated, broken and overlapping runs together store no more than one
   undisturbed run: upserts are idempotent and the sampling deterministic. *)
NothingBeyondSelection == stored \subseteq Selected

(* The Parquet file holds the selection, although it is written from the
   memory of a run and not from the store. *)
LakeIsSelection == lake \subseteq {Selected}

(* An hour that is tried again and again becomes complete, also when a run
   was killed and left the partition running. *)
EventuallyComplete == <>(status = "complete")

-----------------------------------------------------------------------------
(* The operator repeats the hour until it is complete, and a run goes on
   while it can; nothing is assumed of the runs with --reprocess. *)
FairSpec ==
  /\ Spec
  /\ \A r \in Runs \ Reprocessing :
       WF_vars(LookAtPartition(r)) /\ WF_vars(Work(r))

=============================================================================
