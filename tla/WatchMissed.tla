---------------------------- MODULE WatchMissed ----------------------------
(***************************************************************************)
(* What the watch loop never alerts on.                                    *)
(*                                                                         *)
(* An event counts for a candidate only in the cycle that stored it.  This *)
(* module adds to Watch a history of the groups whose new events were      *)
(* dropped by something that is known to drop them: a kill of the watcher, *)
(* a campaign command that stored them first, the manual mode, which keeps *)
(* one candidate of a cycle.  Nothing else may.                            *)
(***************************************************************************)
EXTENDS Watch

VARIABLE overlooked   \* history: groups with events nobody will call new again

mvars == <<vars, overlooked>>

Touching(events) == {c \in Clusters : c \cap events # {}}

(* A kill of the watcher: the events its campaign had stored and the
   candidates it had not come to are forgotten. *)
CrashForgets ==
  /\ Crash(Watcher)
  /\ overlooked' =
       overlooked \cup Touching(fresh) \cup UNION {Touching(b) : b \in cands}

(* A campaign command stores an event, which is not new to the watcher. *)
StoredElsewhere(p) ==
  /\ StoreItem(p)
  /\ overlooked' = overlooked \cup Touching({i[1] : i \in item[p]})

(* A group with a new event in the window is looked at as a whole. *)
AnalyzeAll ==
  /\ Analyze
  /\ overlooked' = overlooked \ Touching(fresh \cap History)

(* The manual mode drops what is neither its candidate nor alerted before. *)
KeepOneCandidate ==
  /\ AlertAndPause
  /\ overlooked' = overlooked \cup UNION {Touching(b) : b \in cands \ Alerts!Opened'}

(* Everything else overlooks nothing. *)
CycleOn ==
  TakeBatch \/ ReportPause \/ TakeBacklog \/ BeginCampaign
    \/ AlertAndReview \/ SaveReview \/ ResolveReviewed \/ WriteReports

MCycle == AnalyzeAll \/ KeepOneCandidate \/ (CycleOn /\ UNCHANGED overlooked)

Others ==
  \/ \E p \in Procs : Collect(p) \/ ClaimItem(p) \/ EndIngest(p) \/ StartCampaign(p)
  \/ StoreItem(Watcher)
  \/ \E p \in Campaigns : Crash(p)
  \/ HumanReview \/ Restart

MNext ==
  \/ MCycle
  \/ CrashForgets
  \/ \E p \in Campaigns : StoredElsewhere(p)
  \/ Others /\ UNCHANGED overlooked

MSpec == Init /\ overlooked = {} /\ [][MNext]_mvars

FairMSpec == MSpec /\ WF_mvars(MCycle)

-----------------------------------------------------------------------------
(* Between cycles a reviewable bundle of the recent history has an alert, or
   is part of one that had (the window may cut a bundle smaller), unless its
   group is one of those that were overlooked. *)
MissedIsExplained ==
  At(Watcher, "idle") =>
    \A c \in Clusters \ overlooked :
      Reviewable(c \cap History) =>
        \E f \in Alerts!Opened : c \cap History \subseteq f
=============================================================================
