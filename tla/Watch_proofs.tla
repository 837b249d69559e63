---------------------------- MODULE Watch_proofs ----------------------------
(***************************************************************************)
(* Proofs about the watch loop, for any events, versions, clusters and     *)
(* campaign processes, and any number of crashes; in the last part, that   *)
(* it leaves no reviewable group without an alert but for the reasons that *)
(* WatchMissed records, for any history limit as well.                     *)
(***************************************************************************)
EXTENDS WatchMissed, FiniteSetTheorems, TLAPS

(* The facts about the alert table, in the terms of this module. *)
LEMMA OpenStep ==
  ASSUME Alerts!BookType, NEW f \in SUBSET Events, Alerts!Open(f)
  PROVE  /\ Alerts!BookType'
         /\ Len(book) \in Nat /\ Len(book') = Len(book) + 1
         /\ Alerts!Ids' = Alerts!Ids \cup {Len(book) + 1}
         /\ Alerts!Pending' = Alerts!Pending \cup {Len(book) + 1}
<1>1. PICK row \in Alerts!Rows : row = [fp |-> f, status |-> "pending"]
  BY DEF Alerts!Rows, Alerts!Statuses
<1>2. book \in Seq(Alerts!Rows) /\ book' = Append(book, row)
  BY <1>1 DEF Alerts!BookType, Alerts!Open
<1>3. /\ book' \in Seq(Alerts!Rows)
      /\ Len(book) \in Nat /\ Len(book') = Len(book) + 1
      /\ \A i \in 1 .. Len(book) : book'[i] = book[i]
      /\ book'[Len(book) + 1] = row
  BY <1>2
<1>4. Alerts!Ids' = Alerts!Ids \cup {Len(book) + 1}
  BY <1>3 DEF Alerts!Ids
<1>5. Alerts!Pending' = Alerts!Pending \cup {Len(book) + 1}
  BY <1>1, <1>3, <1>4 DEF Alerts!Pending, Alerts!IsPending, Alerts!Ids
<1>6. QED BY <1>3, <1>4, <1>5 DEF Alerts!BookType

LEMMA ResolveStep ==
  ASSUME Alerts!BookType, NEW i, NEW s \in Alerts!Resolutions, Alerts!Resolve(i, s)
  PROVE  /\ Alerts!BookType' /\ i \in Alerts!Pending
         /\ Len(book) \in Nat /\ Len(book') = Len(book) /\ Alerts!Ids' = Alerts!Ids
         /\ Alerts!Pending' = Alerts!Pending \ {i}
<1>1. /\ i \in Alerts!Ids /\ i \in Alerts!Pending /\ book \in Seq(Alerts!Rows)
      /\ book' = [book EXCEPT ![i].status = s]
  BY DEF Alerts!BookType, Alerts!Resolve, Alerts!Pending
<1>2. book[i] \in Alerts!Rows /\ s \in Alerts!Statuses
  BY <1>1 DEF Alerts!Ids, Alerts!Statuses
<1>3. [book[i] EXCEPT !.status = s] \in Alerts!Rows
  BY <1>2 DEF Alerts!Rows
<1>4. book' = [book EXCEPT ![i] = [book[i] EXCEPT !.status = s]]
  BY <1>1
<1>5. /\ book' \in Seq(Alerts!Rows) /\ Len(book) \in Nat /\ Len(book') = Len(book)
      /\ \A j \in Alerts!Ids \ {i} : book'[j] = book[j]
      /\ book'[i] = [book[i] EXCEPT !.status = s]
  BY <1>1, <1>3, <1>4 DEF Alerts!Ids
<1>6. book'[i].status = s /\ s # "pending"
  BY <1>2, <1>5 DEF Alerts!Rows, Alerts!Resolutions
<1>7. Alerts!Ids' = Alerts!Ids
  BY <1>5 DEF Alerts!Ids
<1>8. Alerts!Pending' = Alerts!Pending \ {i}
  BY <1>1, <1>5, <1>6, <1>7 DEF Alerts!Pending, Alerts!IsPending
<1>9. QED BY <1>1, <1>5, <1>7, <1>8 DEF Alerts!BookType

LEMMA BookKept ==
  ASSUME UNCHANGED book
  PROVE  /\ Alerts!BookType' = Alerts!BookType /\ Len(book') = Len(book)
         /\ Alerts!Ids' = Alerts!Ids /\ Alerts!Pending' = Alerts!Pending
BY DEF Alerts!BookType, Alerts!Ids, Alerts!Pending, Alerts!IsPending

LEMMA BookFacts ==
  ASSUME Alerts!BookType
  PROVE  /\ Len(book) \in Nat /\ Alerts!Ids = 1 .. Len(book)
         /\ Alerts!Pending \subseteq Alerts!Ids
BY DEF Alerts!BookType, Alerts!Ids, Alerts!Pending

-----------------------------------------------------------------------------
(* The invariant.  An alert is opened only in "alert", which is reached     *)
(* only by a cycle that took queries, which it does only while no alert     *)
(* is pending; a cycle without queries ingests nothing and finds nothing.   *)

Scanning == {"begin", "collect", "ingest", "store", "analyze", "alert"}

Gate ==
  /\ AtMostOnePending
  /\ batch /\ pc[Watcher] \in Scanning => NoPending
  /\ ~batch /\ pc[Watcher] \in {"ingest", "store", "analyze"} =>
       todo[Watcher] = {} /\ fresh = {}
  /\ pc[Watcher] # "store" => item[Watcher] = {}
  /\ pc[Watcher] = "store" \/ pc[Watcher] = "alert" => batch
  /\ pc[Watcher] \in {"review", "resolve"} =>
       cur \in Alerts!Ids /\ Alerts!Pending \subseteq {cur}
  /\ pc[Watcher] \in {"review", "resolve"} /\ cands # {} => batch
  /\ pc[Watcher] = "report" => NoPending
  /\ pc[Watcher] \notin {"alert", "review", "resolve"} => cands = {}

WatchInv == TypeOK /\ Gate

LEMMA WatchInit == Init => WatchInv
<1> SUFFICES ASSUME Init PROVE WatchInv
  OBVIOUS
<1>1. book = << >> /\ Alerts!BookType /\ Alerts!Ids = {} /\ Alerts!Pending = {}
  BY DEF Init, Alerts!Init, Alerts!BookType, Alerts!Ids, Alerts!Pending
<1>2. TypeOK
  <2>1. review = << >> /\ report = << >> /\ crashes = 0 /\ cur = 0
    BY DEF Init
  <2>2. mode \in {"manual", "auto"} /\ MaxCrashes \in Nat
    BY WatchAssumption DEF Init
  <2>3. result \in [state : {"watching", "paused"}, alert : 0 .. Len(book)]
    BY <1>1 DEF Init, Watching
  <2>4. /\ claimed \subseteq Items /\ everStored \subseteq claimed
        /\ stored \in [Events -> Versions \cup {None}]
        /\ todo \in [Procs -> SUBSET Items] /\ fresh \subseteq Events
        /\ item \in [Procs -> SUBSET Items] /\ \A p \in Procs : item[p] \subseteq claimed
    BY DEF Init
  <2>5. /\ pc \in [Procs -> {"idle", "begin", "collect", "ingest", "store",
                           "analyze", "alert", "review", "resolve", "report"}]
        /\ \A p \in Campaigns : pc[p] \in {"idle", "collect", "ingest", "store"}
    BY DEF Init, Procs
  <2>6. /\ batch \in BOOLEAN /\ phase \in {"backlog", "found"}
        /\ cands \in SUBSET SUBSET Events
    BY DEF Init
  <2>7. /\ review \in Seq({"ok", "error", None}) /\ Len(review) = Len(book)
        /\ report \in Seq({"ok", "error", None})
        /\ cur \in 0 .. Len(book) /\ crashes \in 0 .. MaxCrashes
    BY <1>1, <2>1, <2>2
  <2> QED
    BY <1>1, <2>2, <2>3, <2>4, <2>5, <2>6, <2>7 DEF TypeOK
<1>3. Gate
  BY <1>1 DEF Init, Gate, AtMostOnePending, Alerts!AtMostOnePending, NoPending,
              Scanning, Procs
<1> QED
  BY <1>2, <1>3 DEF WatchInv

(* A step that leaves the table and the watcher's cycle alone keeps Gate. *)
LEMMA GateKept ==
  ASSUME Gate, UNCHANGED <<book, batch, cands, cur>>,
         pc'[Watcher] = pc[Watcher], todo'[Watcher] = todo[Watcher],
         item'[Watcher] = item[Watcher], fresh' = fresh
  PROVE  Gate'
BY BookKept DEF Gate, AtMostOnePending, Alerts!AtMostOnePending, NoPending

-----------------------------------------------------------------------------
(* run_campaign: the table is not touched. *)
LEMMA IngestTyped ==
  ASSUME TypeOK, NEW p \in Procs, Ingest(p) \/ StartCampaign(p)
  PROVE  TypeOK'
<1> USE BookKept DEF TypeOK, Goto, At, bookVars, ingestVars, watchVars
<1>1. CASE Collect(p)
  <2>1. PICK found \in SUBSET Items : todo' = [todo EXCEPT ![p] = found]
    BY <1>1 DEF Collect
  <2>2. todo' \in [Procs -> SUBSET Items] /\ fresh' \subseteq Events
    BY <1>1, <2>1 DEF Collect
  <2> QED
    BY <1>1, <2>2 DEF Collect
<1>2. CASE ClaimItem(p)
  <2>1. PICK i \in todo[p] :
          /\ todo' = [todo EXCEPT ![p] = @ \ {i}]
          /\ claimed' = claimed \cup {i}
          /\ \/ UNCHANGED <<item, pc>>
             \/ item' = [item EXCEPT ![p] = {i}] /\ pc' = [pc EXCEPT ![p] = "store"]
    BY <1>2 DEF ClaimItem
  <2>2. /\ claimed' \subseteq Items /\ everStored \subseteq claimed'
        /\ todo' \in [Procs -> SUBSET Items]
    BY <2>1
  <2>3. /\ item' \in [Procs -> SUBSET Items]
        /\ \A q \in Procs : item'[q] \subseteq claimed'
    BY <2>1
  <2> QED
    <3>1. UNCHANGED <<stored, everStored, fresh, bookVars, watchVars, crashes>>
      BY <1>2 DEF ClaimItem
    <3>2. /\ pc' \in [Procs -> {"idle", "begin", "collect", "ingest", "store",
                              "analyze", "alert", "review", "resolve", "report"}]
          /\ \A q \in Campaigns : pc'[q] \in {"idle", "collect", "ingest", "store"}
      BY <2>1 DEF Procs
    <3> QED
      BY <2>2, <2>3, <3>1, <3>2
<1>3. CASE StoreItem(p)
  <2>1. PICK e \in Events, v \in Versions :
          /\ item[p] = {<<e, v>>}
          /\ stored' = [stored EXCEPT ![e] = v]
          /\ everStored' = everStored \cup {<<e, v>>}
          /\ fresh' \in {fresh, fresh \cup {e}}
    BY <1>3 DEF StoreItem
  <2>2. /\ stored' \in [Events -> Versions \cup {None}]
        /\ fresh' \subseteq Events
    BY <2>1
  <2>3. everStored' \subseteq claimed
    BY <2>1
  <2>4. /\ item' \in [Procs -> SUBSET Items]
        /\ \A q \in Procs : item'[q] \subseteq claimed
    BY <1>3 DEF StoreItem
  <2> QED
    BY <1>3, <2>2, <2>3, <2>4 DEF StoreItem
<1>4. CASE EndIngest(p)
  BY <1>4, WatchAssumption DEF EndIngest, Procs
<1>5. CASE StartCampaign(p)
  BY <1>5 DEF StartCampaign
<1> QED
  BY <1>1, <1>2, <1>3, <1>4, <1>5 DEF Ingest

LEMMA IngestGate ==
  ASSUME WatchInv, NEW p \in Procs, Ingest(p) \/ StartCampaign(p)
  PROVE  Gate'
<1> USE DEF WatchInv
<1>1. CASE p # Watcher
  BY <1>1, GateKept
     DEF TypeOK, Ingest, Collect, ClaimItem, StoreItem, EndIngest, StartCampaign,
         Goto, bookVars, ingestVars, watchVars, Procs
<1>2. CASE p = Watcher
  <2> USE <1>2, WatchAssumption, BookKept
      DEF Gate, AtMostOnePending, Alerts!AtMostOnePending, NoPending, Scanning,
          TypeOK, Goto, At, bookVars, ingestVars, watchVars, Procs
  <2>1. CASE Collect(p)
    <3>1. ~batch => todo'[Watcher] = {}
      BY <2>1 DEF Collect
    <3>2. /\ pc[Watcher] = "collect" /\ pc'[Watcher] = "ingest"
          /\ fresh' = {} /\ UNCHANGED <<item, book, batch, cands, cur>>
      BY <2>1 DEF Collect
    <3> QED
      BY <3>1, <3>2
  <2>2. CASE ClaimItem(p)
    BY <2>2 DEF ClaimItem
  <2>3. CASE StoreItem(p)
    BY <2>3 DEF StoreItem
  <2>4. CASE EndIngest(p)
    BY <2>4 DEF EndIngest
  <2> QED
    BY <2>1, <2>2, <2>3, <2>4 DEF Ingest, StartCampaign
<1> QED
  BY <1>1, <1>2

-----------------------------------------------------------------------------
(* watch_cycle.                                                            *)

LEMMA FirstPendingFacts ==
  ASSUME Alerts!BookType, AtMostOnePending, ~NoPending
  PROVE  /\ Alerts!FirstPending \in Alerts!Pending
         /\ Alerts!FirstPending \in 0 .. Len(book)
         /\ Alerts!Pending = {Alerts!FirstPending}
<1>1. PICK i \in Alerts!Pending : \A j \in Alerts!Pending : i = j
  BY DEF NoPending, AtMostOnePending, Alerts!AtMostOnePending
<1>2. i \in 1 .. Len(book) /\ Len(book) \in Nat
  BY BookFacts
<1>3. \A j \in Alerts!Pending : i <= j
  BY <1>1, <1>2
<1>4. \E k \in Alerts!Pending : \A j \in Alerts!Pending : k <= j
  BY <1>3
<1>5. Alerts!FirstPending \in Alerts!Pending
  BY <1>4, Zenon DEF Alerts!FirstPending
<1>6. Alerts!FirstPending = i
  BY <1>1, <1>5
<1>7. Alerts!Pending = {Alerts!FirstPending}
  BY <1>1, <1>6
<1>8. Alerts!FirstPending \in 0 .. Len(book)
  BY <1>2, <1>6
<1> QED
  BY <1>5, <1>7, <1>8

LEMMA IdOfFacts ==
  ASSUME NEW f, f \in Alerts!Opened
  PROVE  Alerts!IdOf(f) \in Alerts!Ids
BY DEF Alerts!IdOf, Alerts!Opened

(* _create_alert: at most the new row is pending, if none was before. *)
LEMMA OpenOneFacts ==
  ASSUME TypeOK, NoPending, NEW f \in SUBSET Events, OpenOne(f)
  PROVE  /\ Alerts!BookType'
         /\ review' \in Seq({"ok", "error", None}) /\ Len(review') = Len(book')
         /\ Len(book') \in Nat /\ Len(book) <= Len(book')
         /\ IdAfter(f) \in Alerts!Ids' /\ IdAfter(f) \in 0 .. Len(book')
         /\ Alerts!Pending' \subseteq {IdAfter(f)}
<1>0. /\ Alerts!BookType /\ review \in Seq({"ok", "error", None})
      /\ Len(review) = Len(book) /\ Alerts!Pending = {}
      /\ Len(book) \in Nat /\ Alerts!Ids = 1 .. Len(book)
  BY BookFacts DEF TypeOK, NoPending
<1>1. CASE f \notin Alerts!Opened
  <2>1. Alerts!Open(f) /\ review' = Append(review, None) /\ IdAfter(f) = Len(book) + 1
    BY <1>1 DEF OpenOne, IdAfter, Alerts!CreateAlert, Alerts!Open
  <2>2. /\ Alerts!BookType' /\ Len(book') = Len(book) + 1
        /\ Alerts!Ids' = Alerts!Ids \cup {Len(book) + 1}
        /\ Alerts!Pending' = {Len(book) + 1}
    BY <1>0, <2>1, OpenStep
  <2>3. review' \in Seq({"ok", "error", None}) /\ Len(review') = Len(review) + 1
    BY <1>0, <2>1
  <2> QED
    BY <1>0, <2>1, <2>2, <2>3
<1>2. CASE f \in Alerts!Opened
  <2>1. UNCHANGED <<book, review>> /\ IdAfter(f) = Alerts!IdOf(f)
    BY <1>2 DEF OpenOne, IdAfter, Alerts!CreateAlert, Alerts!Open
  <2>2. IdAfter(f) \in Alerts!Ids
    BY <1>2, <2>1, IdOfFacts
  <2> QED
    BY <1>0, <2>1, <2>2, BookKept
<1> QED
  BY <1>1, <1>2

(* The resolution of the alert under review. *)
LEMMA ResolveAlertFacts ==
  ASSUME TypeOK, NEW i, NEW s \in Alerts!Resolutions, Alerts!ResolveAlert(i, s)
  PROVE  /\ Alerts!BookType' /\ Len(book') = Len(book)
         /\ Alerts!Ids' = Alerts!Ids
         /\ Alerts!Pending' = Alerts!Pending \ {i}
<1>1. CASE Alerts!Resolve(i, s)
  BY <1>1, ResolveStep DEF TypeOK
<1>2. CASE i \notin Alerts!Pending /\ UNCHANGED book
  BY <1>2, BookKept DEF TypeOK
<1> QED
  BY <1>1, <1>2 DEF Alerts!ResolveAlert

(* The steps of the cycle that only move the watcher on. *)
LEMMA MoveStep ==
  ASSUME WatchInv, TakeBatch \/ BeginCampaign \/ Analyze
  PROVE  WatchInv'
<1> USE DEF WatchInv
<1>1. UNCHANGED <<bookVars, ingestVars, mode, todo, item, crashes, phase, cur>>
  BY DEF TakeBatch, BeginCampaign, Analyze, bookVars, ingestVars, watchVars
<1>2. /\ pc' \in [Procs -> {"idle", "begin", "collect", "ingest", "store",
                          "analyze", "alert", "review", "resolve", "report"}]
      /\ \A p \in Campaigns : pc'[p] \in {"idle", "collect", "ingest", "store"}
  BY WatchAssumption DEF TakeBatch, BeginCampaign, Analyze, Goto, TypeOK, Procs
<1>3. /\ fresh' \subseteq Events /\ cands' \in SUBSET SUBSET Events
      /\ batch' \in BOOLEAN
      /\ result' \in [state : {"watching", "paused"}, alert : 0 .. Len(book)]
  <2>1. Candidates \in SUBSET SUBSET Events
    <3>1. \A c \in Clusters : c \cap History \subseteq Events
      BY WatchAssumption
    <3> QED
      BY <3>1 DEF Candidates, Bundles
  <2>2. Watching \in [state : {"watching", "paused"}, alert : 0 .. Len(book)]
    BY BookFacts DEF Watching, TypeOK
  <2>3. CASE Analyze
    BY <2>1, <2>2, <2>3 DEF Analyze, TypeOK
  <2>4. CASE TakeBatch
    BY <2>2, <2>4 DEF TakeBatch, TypeOK
  <2>5. CASE BeginCampaign
    BY <2>5 DEF BeginCampaign, TypeOK, watchVars
  <2> QED
    BY <2>3, <2>4, <2>5
<1>4. TypeOK'
  BY <1>1, <1>2, <1>3, BookKept DEF TypeOK, bookVars, ingestVars
<1>5. Gate'
  <2> USE <1>1, BookKept
      DEF Gate, AtMostOnePending, Alerts!AtMostOnePending, NoPending, Scanning,
          TypeOK, Goto, At, bookVars, ingestVars, watchVars, Procs
  <2>1. CASE TakeBatch
    BY <2>1 DEF TakeBatch
  <2>2. CASE BeginCampaign
    BY <2>2 DEF BeginCampaign
  <2>3. CASE Analyze
    <3>1. ~batch => Candidates = {}
      BY <2>3 DEF Analyze, Candidates
    <3> QED
      BY <2>3, <3>1 DEF Analyze
  <2> QED
    BY <2>1, <2>2, <2>3
<1> QED
  BY <1>4, <1>5

(* The steps that look at the pending alert at the head of a cycle. *)
LEMMA HeadStep ==
  ASSUME WatchInv, ReportPause \/ TakeBacklog
  PROVE  WatchInv'
<1> USE DEF WatchInv
<1>1. /\ UNCHANGED <<bookVars, ingestVars, mode, batch, cands, todo, item, fresh, crashes>>
      /\ pc[Watcher] = "begin" /\ ~NoPending
  BY DEF ReportPause, TakeBacklog, bookVars, ingestVars, At, NoPending
<1>2. /\ Alerts!FirstPending \in Alerts!Pending
      /\ Alerts!FirstPending \in 0 .. Len(book)
      /\ Alerts!Pending = {Alerts!FirstPending}
      /\ Alerts!Pending \subseteq Alerts!Ids
  BY <1>1, FirstPendingFacts, BookFacts DEF TypeOK, Gate
<1>3. CASE ReportPause
  <2>1. pc' = [pc EXCEPT ![Watcher] = "idle"] /\ UNCHANGED <<phase, cur>>
    BY <1>3 DEF ReportPause, Goto
  <2>2. result' \in [state : {"watching", "paused"}, alert : 0 .. Len(book)]
    BY <1>2, <1>3 DEF ReportPause
  <2>3. TypeOK'
    BY <1>1, <2>1, <2>2, BookKept, WatchAssumption DEF TypeOK, bookVars, ingestVars, Procs
  <2>4. Gate'
    BY <1>1, <2>1, BookKept
       DEF Gate, TypeOK, bookVars, ingestVars, Scanning, Procs, NoPending,
           AtMostOnePending, Alerts!AtMostOnePending
  <2> QED
    BY <2>3, <2>4
<1>4. CASE TakeBacklog
  <2>1. /\ pc' = [pc EXCEPT ![Watcher] = "review"] /\ phase' = "backlog"
        /\ cur' = Alerts!FirstPending /\ UNCHANGED result
    BY <1>4 DEF TakeBacklog, Goto
  <2>2. TypeOK'
    BY <1>1, <1>2, <2>1, BookKept, WatchAssumption
       DEF TypeOK, bookVars, ingestVars, Procs
  <2>3. cands = {}
    BY <1>1 DEF Gate
  <2>4. pc'[Watcher] = "review"
    BY <2>1 DEF TypeOK, Procs
  <2>5. Gate'
    BY <1>1, <1>2, <2>1, <2>3, <2>4, BookKept
       DEF Gate, bookVars, ingestVars, Scanning, NoPending,
           AtMostOnePending, Alerts!AtMostOnePending
  <2> QED
    BY <2>2, <2>5
<1> QED
  BY <1>3, <1>4

(* The steps that open an alert: they come from a cycle with a batch, so no
   alert is pending, and at most the new one is afterwards. *)
LEMMA AlertStep ==
  ASSUME WatchInv, AlertAndPause \/ AlertAndReview
  PROVE  WatchInv'
<1> USE DEF WatchInv
<1>1. PICK f \in cands : OpenOne(f)
  BY DEF AlertAndPause, AlertAndReview
<1>2. /\ pc[Watcher] = "alert" /\ batch /\ NoPending /\ f \in SUBSET Events
  BY <1>1 DEF AlertAndPause, AlertAndReview, At, Gate, Scanning, TypeOK
<1>3. /\ UNCHANGED <<report, ingestVars, mode, batch, phase, todo, item, fresh, crashes>>
      /\ cands' \in SUBSET SUBSET Events
  BY DEF AlertAndPause, AlertAndReview, ingestVars, TypeOK
<1>4. CASE AlertAndPause
  <2>1. PICK g \in cands :
          OpenOne(g) /\ result' = [state |-> "paused", alert |-> IdAfter(g)]
    BY <1>4 DEF AlertAndPause
  <2>2. /\ g \in SUBSET Events /\ UNCHANGED cur /\ cands' = {}
        /\ pc' = [pc EXCEPT ![Watcher] = "idle"]
    BY <1>4 DEF AlertAndPause, Goto, TypeOK
  <2>3. /\ Alerts!BookType'
        /\ review' \in Seq({"ok", "error", None}) /\ Len(review') = Len(book')
        /\ Len(book') \in Nat /\ Len(book) <= Len(book')
        /\ IdAfter(g) \in 0 .. Len(book')
        /\ Alerts!Pending' \subseteq {IdAfter(g)}
    BY <1>2, <2>1, <2>2, OpenOneFacts
  <2>4. cur' \in 0 .. Len(book')
    BY <2>2, <2>3, BookFacts DEF TypeOK
  <2>5. result' \in [state : {"watching", "paused"}, alert : 0 .. Len(book')]
    BY <2>1, <2>3
  <2>6. TypeOK'
    BY <1>3, <2>2, <2>3, <2>4, <2>5, WatchAssumption DEF TypeOK, ingestVars, Procs
  <2>7. pc'[Watcher] = "idle" /\ item[Watcher] = {}
    BY <1>2, <2>2 DEF TypeOK, Procs, Gate
  <2>8. Gate'
    BY <1>3, <2>2, <2>3, <2>7
       DEF Gate, Scanning, AtMostOnePending, Alerts!AtMostOnePending
  <2> QED
    BY <2>6, <2>8
<1>5. CASE AlertAndReview
  <2>1. PICK g \in cands : OpenOne(g) /\ cur' = IdAfter(g) /\ cands' = cands \ {g}
    BY <1>5 DEF AlertAndReview
  <2>2. /\ g \in SUBSET Events /\ UNCHANGED result
        /\ pc' = [pc EXCEPT ![Watcher] = "review"]
    BY <1>5 DEF AlertAndReview, Goto, TypeOK
  <2>3. /\ Alerts!BookType'
        /\ review' \in Seq({"ok", "error", None}) /\ Len(review') = Len(book')
        /\ Len(book') \in Nat /\ Len(book) <= Len(book')
        /\ IdAfter(g) \in Alerts!Ids' /\ IdAfter(g) \in 0 .. Len(book')
        /\ Alerts!Pending' \subseteq {IdAfter(g)}
    BY <1>2, <2>1, <2>2, OpenOneFacts
  <2>4. result' \in [state : {"watching", "paused"}, alert : 0 .. Len(book')]
    <3>1. result \in [state : {"watching", "paused"}, alert : 0 .. Len(book)]
      BY DEF TypeOK
    <3>2. 0 .. Len(book) \subseteq 0 .. Len(book')
      BY <2>3, BookFacts DEF TypeOK
    <3> QED
      BY <2>2, <3>1, <3>2
  <2>5. TypeOK'
    BY <1>3, <2>1, <2>2, <2>3, <2>4, WatchAssumption DEF TypeOK, ingestVars, Procs
  <2>6. pc'[Watcher] = "review" /\ item[Watcher] = {}
    BY <1>2, <2>2 DEF TypeOK, Procs, Gate
  <2>7. Gate'
    BY <1>2, <1>3, <2>1, <2>3, <2>6
       DEF Gate, Scanning, AtMostOnePending, Alerts!AtMostOnePending
  <2> QED
    BY <2>5, <2>7
<1> QED
  BY <1>4, <1>5

(* The review of the alert in hand: classification, status, reports. *)
LEMMA ReviewStep ==
  ASSUME WatchInv, SaveReview \/ ResolveReviewed \/ WriteReports
  PROVE  WatchInv'
<1> USE DEF WatchInv
<1>1. /\ UNCHANGED <<ingestVars, mode, batch, cands, todo, item, fresh, crashes>>
      /\ Len(book) \in Nat
  BY BookFacts DEF SaveReview, ResolveReviewed, WriteReports, ingestVars, watchVars, TypeOK
<1>2. CASE SaveReview
  <2>1. PICK v \in Verdicts : review' = [review EXCEPT ![cur] = v]
    BY <1>2 DEF SaveReview
  <2>2. /\ pc[Watcher] = "review" /\ pc' = [pc EXCEPT ![Watcher] = "resolve"]
        /\ UNCHANGED <<book, report, phase, cur, result>>
    BY <1>2 DEF SaveReview, Goto, At, watchVars
  <2>3. v \in {"ok", "error", None}
    BY WatchAssumption
  <2>4. review' \in Seq({"ok", "error", None}) /\ Len(review') = Len(review)
    <3>1. review \in Seq({"ok", "error", None}) /\ Len(review) \in Nat
      BY DEF TypeOK
    <3>2. review \in [1 .. Len(review) -> {"ok", "error", None}]
      BY <3>1
    <3>3. review' \in [1 .. Len(review) -> {"ok", "error", None}]
      BY <2>1, <2>3, <3>2
    <3> QED
      BY <3>1, <3>3
  <2>5. TypeOK'
    BY <1>1, <2>2, <2>4, BookKept, WatchAssumption DEF TypeOK, ingestVars, Procs
  <2>6. pc'[Watcher] = "resolve"
    BY <2>2 DEF TypeOK, Procs
  <2>7. Gate'
    BY <1>1, <2>2, <2>6, BookKept
       DEF Gate, Scanning, AtMostOnePending, Alerts!AtMostOnePending
  <2> QED
    BY <2>5, <2>7
<1>3. CASE ResolveReviewed
  <2>1. StatusOf(review[cur]) \in Alerts!Resolutions
    BY DEF StatusOf, Alerts!Resolutions
  <2>2. /\ pc[Watcher] = "resolve" /\ UNCHANGED <<review, report, phase, cur, result>>
        /\ pc' = [pc EXCEPT ![Watcher] = IF cands = {} THEN "report" ELSE "alert"]
        /\ Alerts!ResolveAlert(cur, StatusOf(review[cur]))
    BY <1>3 DEF ResolveReviewed, Goto, At, watchVars
  <2>3. /\ Alerts!BookType' /\ Len(book') = Len(book)
        /\ Alerts!Pending' = Alerts!Pending \ {cur}
    BY <2>1, <2>2, ResolveAlertFacts
  <2>4. Alerts!Pending' = {}
    BY <2>2, <2>3 DEF Gate
  <2>5. TypeOK'
    BY <1>1, <2>2, <2>3, WatchAssumption DEF TypeOK, ingestVars, Procs
  <2>6. pc'[Watcher] = IF cands = {} THEN "report" ELSE "alert"
    BY <2>2 DEF TypeOK, Procs
  <2>7. Gate'
    BY <1>1, <2>2, <2>4, <2>6
       DEF Gate, Scanning, NoPending, AtMostOnePending, Alerts!AtMostOnePending
  <2> QED
    BY <2>5, <2>7
<1>4. CASE WriteReports
  <2>1. /\ pc[Watcher] = "report" /\ UNCHANGED <<book, review>> /\ report' = review
        /\ phase' = "found" /\ cur' = 0
    BY <1>4 DEF WriteReports, At
  <2>2. PICK l \in {"collect", "idle"} : pc' = [pc EXCEPT ![Watcher] = l]
    BY <1>4 DEF WriteReports, Goto
  <2>3. result' \in [state : {"watching", "paused"}, alert : 0 .. Len(book)]
    BY <1>1, <1>4 DEF WriteReports, Watching, TypeOK
  <2>4. TypeOK'
    BY <1>1, <2>1, <2>2, <2>3, BookKept, WatchAssumption DEF TypeOK, ingestVars, Procs
  <2>5. pc'[Watcher] = l
    BY <2>2 DEF TypeOK, Procs
  <2>6. Gate'
    BY <1>1, <2>1, <2>5, BookKept
       DEF Gate, Scanning, NoPending, AtMostOnePending, Alerts!AtMostOnePending
  <2> QED
    BY <2>4, <2>6
<1> QED
  BY <1>2, <1>3, <1>4

-----------------------------------------------------------------------------
(* The world around the processes.                                         *)

LEMMA HumanStep ==
  ASSUME WatchInv, HumanReview
  PROVE  WatchInv'
<1> USE DEF WatchInv
<1>1. PICK i \in Alerts!Ids, s \in HumanStatuses : Alerts!Resolve(i, s)
  BY DEF HumanReview
<1>2. /\ s \in Alerts!Resolutions
      /\ UNCHANGED <<review, report, procVars, ingestVars, watchVars, crashes>>
  BY WatchAssumption DEF HumanReview, Alerts!Resolutions
<1>3. /\ Alerts!BookType' /\ Len(book') = Len(book) /\ Alerts!Ids' = Alerts!Ids
      /\ Alerts!Pending' = Alerts!Pending \ {i}
  BY <1>1, <1>2, ResolveStep DEF TypeOK
<1>4. TypeOK'
  BY <1>2, <1>3 DEF TypeOK, procVars, ingestVars, watchVars
<1>5. Gate'
  BY <1>2, <1>3
     DEF Gate, procVars, watchVars, NoPending, AtMostOnePending, Alerts!AtMostOnePending
<1> QED
  BY <1>4, <1>5

LEMMA OutsideStep ==
  ASSUME WatchInv, Restart \/ UNCHANGED vars \/ \E p \in Procs : Crash(p)
  PROVE  WatchInv'
<1> USE DEF WatchInv
<1>1. CASE Restart
  <2>1. /\ mode' \in {"manual", "auto"}
        /\ UNCHANGED <<bookVars, ingestVars, procVars, batch, phase, cands, cur,
                       result, crashes>>
    BY <1>1, WatchAssumption DEF Restart
  <2>2. TypeOK'
    BY <2>1, BookKept DEF TypeOK, bookVars, ingestVars, procVars
  <2>3. Gate'
    BY <2>1, GateKept DEF bookVars, procVars
  <2> QED
    BY <2>2, <2>3
<1>2. CASE UNCHANGED vars
  <2>1. TypeOK'
    BY <1>2, BookKept DEF TypeOK, vars, bookVars, ingestVars, procVars, watchVars
  <2>2. Gate'
    BY <1>2, GateKept DEF vars, bookVars, procVars, watchVars
  <2> QED
    BY <2>1, <2>2
<1>3. ASSUME NEW p \in Procs, Crash(p) PROVE WatchInv'
  <2>1. /\ UNCHANGED <<bookVars, ingestVars, mode, batch, result>>
        /\ pc' = [pc EXCEPT ![p] = "idle"] /\ crashes' = crashes + 1
        /\ crashes < MaxCrashes
        /\ todo' = [todo EXCEPT ![p] = {}] /\ item' = [item EXCEPT ![p] = {}]
    BY <1>3 DEF Crash, Goto
  <2>2. /\ cands' \in {cands, {}} /\ cur' \in {cur, 0} /\ phase' \in {phase, "found"}
        /\ fresh' \in {fresh, {}}
        /\ p = Watcher => cands' = {}
        /\ p # Watcher => UNCHANGED <<fresh, cands, cur>>
    BY <1>3 DEF Crash
  <2>3. crashes' \in 0 .. MaxCrashes /\ cur' \in 0 .. Len(book)
    BY <2>1, <2>2, WatchAssumption, BookFacts DEF TypeOK
  <2>4. TypeOK'
    BY <2>1, <2>2, <2>3, BookKept DEF TypeOK, bookVars, ingestVars
  <2>5. CASE p = Watcher
    <3>1. pc'[Watcher] = "idle" /\ item'[Watcher] = {}
      BY <2>1, <2>5 DEF TypeOK, Procs
    <3>2. Gate'
      BY <2>1, <2>2, <2>5, <3>1, BookKept
         DEF Gate, bookVars, Scanning, AtMostOnePending, Alerts!AtMostOnePending
    <3> QED
      BY <2>4, <3>2
  <2>6. CASE p # Watcher
    BY <2>1, <2>2, <2>4, <2>6, GateKept DEF bookVars, TypeOK, Procs
  <2> QED
    BY <2>5, <2>6
<1> QED
  BY <1>1, <1>2, <1>3

LEMMA WatchStep == WatchInv /\ [Next]_vars => WatchInv'
BY MoveStep, HeadStep, AlertStep, ReviewStep, HumanStep, OutsideStep,
   IngestTyped, IngestGate
   DEF Next, Cycle, WatchInv

LEMMA WatchAlways == Spec => []WatchInv
BY WatchInit, WatchStep, PTL DEF Spec

-----------------------------------------------------------------------------
(* The store and the watcher's variables keep their types. *)
THEOREM WatchTyped == Spec => []TypeOK
<1>1. WatchInv => TypeOK
  BY DEF WatchInv
<1> QED
  BY <1>1, WatchAlways, PTL

(* At most one alert waits for review, whatever is collected, whoever
   resolves, and wherever the watcher is killed and restarted. *)
THEOREM OneAlertAtATime == Spec => []AtMostOnePending
<1>1. WatchInv => AtMostOnePending
  BY DEF WatchInv, Gate
<1> QED
  BY <1>1, WatchAlways, PTL

(* A watcher that took queries works only while no alert is pending. *)
THEOREM PendingAlertStopsCollection == Spec => []NoCollectionWhilePending
<1>1. WatchInv => NoCollectionWhilePending
  BY DEF WatchInv, Gate, NoCollectionWhilePending, Scanning
<1> QED
  BY <1>1, WatchAlways, PTL

-----------------------------------------------------------------------------
(* Refinement: every step of the watch loop is a step of the gated alert    *)
(* table, or leaves the table alone.                                        *)
LEMMA TableStep ==
  ASSUME WatchInv, [Next]_vars
  PROVE  [Alerts!GatedNext]_book
<1> USE DEF WatchInv
<1>1. CASE AlertAndPause \/ AlertAndReview
  <2>1. PICK f \in cands : OpenOne(f)
    BY <1>1 DEF AlertAndPause, AlertAndReview
  <2>2. f \in SUBSET Events /\ Alerts!Pending = {}
    BY <1>1 DEF AlertAndPause, AlertAndReview, At, TypeOK, Gate, Scanning, NoPending
  <2>3. Alerts!Open(f) \/ UNCHANGED book
    BY <2>1 DEF OpenOne, Alerts!CreateAlert
  <2> QED
    BY <2>2, <2>3 DEF Alerts!GatedNext
<1>2. CASE ResolveReviewed
  <2>1. /\ StatusOf(review[cur]) \in Alerts!Resolutions
        /\ Alerts!ResolveAlert(cur, StatusOf(review[cur]))
    BY <1>2 DEF ResolveReviewed, StatusOf, Alerts!Resolutions
  <2>2. cur \in Alerts!Ids \/ UNCHANGED book
    BY <1>2 DEF ResolveReviewed, At, Gate
  <2> QED
    BY <2>1, <2>2 DEF Alerts!ResolveAlert, Alerts!GatedNext, Alerts!SomeResolve
<1>3. CASE HumanReview
  <2>1. HumanStatuses \subseteq Alerts!Resolutions
    BY WatchAssumption DEF Alerts!Resolutions
  <2> QED
    BY <1>3, <2>1 DEF HumanReview, Alerts!GatedNext, Alerts!SomeResolve
<1>4. CASE TakeBatch \/ ReportPause \/ TakeBacklog \/ BeginCampaign \/ Analyze
             \/ SaveReview \/ WriteReports \/ Restart \/ UNCHANGED vars
  BY <1>4 DEF TakeBatch, ReportPause, TakeBacklog, BeginCampaign, Analyze, SaveReview,
              WriteReports, Restart, vars, bookVars
<1>5. CASE \E p \in Procs : Ingest(p) \/ StartCampaign(p) \/ Crash(p)
  BY <1>5 DEF Ingest, Collect, ClaimItem, StoreItem, EndIngest, StartCampaign, Crash,
              bookVars
<1> QED
  BY <1>1, <1>2, <1>3, <1>4, <1>5 DEF Next, Cycle

(* The watch loop keeps the gated promise of the alert table. *)
THEOREM WatchImplementsAlertBook == Spec => ImplementsAlertBook
<1>1. Init => Alerts!Init
  BY DEF Init
<1>2. WatchInv /\ [Next]_vars => [Alerts!GatedNext]_book
  BY TableStep
<1> QED
  BY <1>1, <1>2, WatchAlways, PTL DEF Spec, ImplementsAlertBook, Alerts!GatedSpec

-----------------------------------------------------------------------------
(* The loss bound.  An item held by a process is not in the store; every    *)
(* claimed item is stored, held or lost; and only a crash lets go of a held *)
(* item, one per crash.                                                     *)
Held == UNION {item[p] : p \in Procs}

LossInv ==
  /\ ClaimsExclusive
  /\ \A p \in Procs : pc[p] # "store" => item[p] = {}
  /\ \A p \in Procs : item[p] = {} \/ \E i \in Items : item[p] = {i}
  /\ IsFiniteSet(Lost) /\ Cardinality(Lost) <= crashes

LEMMA LossInit == Init => LossInv
<1> SUFFICES ASSUME Init PROVE LossInv
  OBVIOUS
<1>1. Lost = {} /\ crashes = 0
  BY DEF Init, Lost
<1>2. IsFiniteSet(Lost) /\ Cardinality(Lost) = 0
  BY <1>1, FS_EmptySet
<1>3. \A p \in Procs : item[p] = {}
  BY DEF Init
<1> QED
  BY <1>1, <1>2, <1>3 DEF LossInv, ClaimsExclusive

(* Steps that leave the items alone leave the loss alone. *)
LEMMA LossKept ==
  ASSUME LossInv, UNCHANGED <<claimed, everStored, item, crashes>>,
         \A p \in Procs : pc[p] = "store" => pc'[p] = "store"
  PROVE  LossInv'
<1>1. Lost' = Lost
  BY DEF Lost
<1> QED
  BY <1>1 DEF LossInv, ClaimsExclusive

(* A claim moves a new item into one process's hands. *)
LEMMA ClaimLoss ==
  ASSUME TypeOK, LossInv, NEW p \in Procs, ClaimItem(p)
  PROVE  LossInv'
<1>1. PICK i \in todo[p] :
        /\ claimed' = claimed \cup {i}
        /\ \/ i \in claimed /\ UNCHANGED <<item, pc>>
           \/ /\ i \notin claimed /\ item' = [item EXCEPT ![p] = {i}]
              /\ pc' = [pc EXCEPT ![p] = "store"]
  BY DEF ClaimItem, Goto
<1>2. /\ UNCHANGED <<everStored, crashes>> /\ pc[p] = "ingest" /\ item[p] = {}
      /\ i \in Items
  BY DEF ClaimItem, At, TypeOK, LossInv
<1>3. CASE i \in claimed
  <2>1. claimed' = claimed
    BY <1>1, <1>3
  <2> QED
    BY <1>1, <1>2, <1>3, <2>1, LossKept
<1>4. CASE i \notin claimed
  <2>1. /\ item' = [item EXCEPT ![p] = {i}] /\ pc' = [pc EXCEPT ![p] = "store"]
        /\ claimed' = claimed \cup {i}
    BY <1>1, <1>4
  <2>2. /\ item'[p] = {i} /\ pc'[p] = "store"
        /\ \A q \in Procs \ {p} : item'[q] = item[q] /\ pc'[q] = pc[q]
    BY <2>1 DEF TypeOK
  <2>3. i \notin everStored /\ \A q \in Procs : i \notin item[q]
    BY <1>4 DEF TypeOK
  <2>4. Lost' = Lost
    <3>1. \A q \in Procs : item'[q] = IF q = p THEN {i} ELSE item[q]
      BY <2>2
    <3>2. \A x : x \in Held' <=> x \in Held \/ x = i
      BY <1>2, <3>1 DEF Held
    <3> QED
      <4>1. Lost = claimed \ (everStored \cup Held) /\ Lost' = claimed' \ (everStored' \cup Held')
        BY DEF Lost, Held
      <4>2. i \notin Held
        BY <2>3 DEF Held
      <4>3. \A x : x \in Lost' <=> x \in Lost
        BY <1>2, <1>4, <2>1, <3>2, <4>1, <4>2
      <4> QED
        BY <4>1, <4>3
  <2>5. ClaimsExclusive'
    BY <1>2, <2>2, <2>3 DEF LossInv, ClaimsExclusive
  <2> QED
    BY <1>2, <2>2, <2>4, <2>5 DEF LossInv
<1> QED
  BY <1>3, <1>4

(* A commit of the row moves it into the store. *)
LEMMA StoreLoss ==
  ASSUME TypeOK, LossInv, NEW p \in Procs, StoreItem(p)
  PROVE  LossInv'
<1>1. PICK i : item[p] = {i} /\ everStored' = everStored \cup {i}
  BY DEF StoreItem
<1>2. /\ UNCHANGED <<claimed, crashes>>
      /\ item' = [item EXCEPT ![p] = {}] /\ pc' = [pc EXCEPT ![p] = "ingest"]
  BY DEF StoreItem, Goto
<1>3. /\ item'[p] = {} /\ pc'[p] = "ingest"
      /\ \A q \in Procs \ {p} : item'[q] = item[q] /\ pc'[q] = pc[q]
  BY <1>2 DEF TypeOK
<1>4. \A q \in Procs \ {p} : i \notin item[q]
  BY <1>1 DEF LossInv, ClaimsExclusive
<1>5. Lost' = Lost
  BY <1>1, <1>2, <1>3 DEF Lost
<1>6. ClaimsExclusive'
  BY <1>1, <1>3, <1>4 DEF LossInv, ClaimsExclusive
<1> QED
  BY <1>2, <1>3, <1>5, <1>6 DEF LossInv

(* A crash lets go of at most one held item. *)
LEMMA CrashLoss ==
  ASSUME TypeOK, LossInv, NEW p \in Procs, Crash(p)
  PROVE  LossInv'
<1>1. /\ UNCHANGED <<claimed, everStored>> /\ crashes' = crashes + 1
      /\ item' = [item EXCEPT ![p] = {}] /\ pc' = [pc EXCEPT ![p] = "idle"]
  BY DEF Crash, Goto, ingestVars
<1>2. /\ item'[p] = {}
      /\ \A q \in Procs \ {p} : item'[q] = item[q] /\ pc'[q] = pc[q]
  BY <1>1 DEF TypeOK
<1>3. /\ IsFiniteSet(Lost) /\ Cardinality(Lost) \in Nat /\ crashes \in Nat
      /\ Cardinality(Lost) <= crashes
  BY FS_CardinalityType, WatchAssumption DEF LossInv, TypeOK
<1>4. IsFiniteSet(Lost') /\ Cardinality(Lost') <= crashes'
  <2>1. CASE item[p] = {}
    <3>1. \A q \in Procs : item'[q] = item[q]
      BY <1>2, <2>1
    <3>2. Lost' = Lost
      BY <1>1, <3>1 DEF Lost
    <3> QED
      BY <1>1, <1>3, <3>2
  <2>2. ASSUME NEW i \in Items, item[p] = {i}
        PROVE  IsFiniteSet(Lost') /\ Cardinality(Lost') <= crashes'
    <3>1. /\ i \in claimed /\ i \notin everStored
          /\ \A q \in Procs \ {p} : i \notin item[q]
      BY <2>2 DEF LossInv, ClaimsExclusive, TypeOK
    <3>2. Lost' = Lost \cup {i}
      BY <1>1, <1>2, <2>2, <3>1 DEF Lost
    <3>3. i \notin Lost
      BY <2>2 DEF Lost
    <3>4. IsFiniteSet(Lost \cup {i}) /\ Cardinality(Lost \cup {i}) = Cardinality(Lost) + 1
      BY <1>3, <3>3, FS_AddElement
    <3> QED
      BY <1>1, <1>3, <3>2, <3>4
  <2> QED
    BY <2>1, <2>2 DEF LossInv
<1>5. ClaimsExclusive'
  BY <1>1, <1>2 DEF LossInv, ClaimsExclusive
<1> QED
  BY <1>2, <1>4, <1>5 DEF LossInv

LEMMA LossStep ==
  ASSUME WatchInv, LossInv, [Next]_vars
  PROVE  LossInv'
<1> USE DEF WatchInv
<1>1. CASE Cycle
  <2>1. UNCHANGED <<ingestVars, item, crashes>>
    BY <1>1 DEF Cycle, TakeBatch, ReportPause, TakeBacklog, BeginCampaign, Analyze,
                AlertAndPause, AlertAndReview, SaveReview, ResolveReviewed, WriteReports
  <2>2. pc[Watcher] # "store" /\ \E l : pc' = [pc EXCEPT ![Watcher] = l]
    BY <1>1 DEF Cycle, TakeBatch, ReportPause, TakeBacklog, BeginCampaign, Analyze,
                AlertAndPause, AlertAndReview, SaveReview, ResolveReviewed, WriteReports,
                Goto, At
  <2>3. \A p \in Procs : pc[p] = "store" => pc'[p] = "store"
    BY <2>2 DEF TypeOK
  <2> QED
    BY <2>1, <2>3, LossKept DEF ingestVars
<1>2. ASSUME NEW p \in Procs, Collect(p) \/ EndIngest(p) \/ StartCampaign(p)
      PROVE  LossInv'
  <2>1. UNCHANGED <<ingestVars, item, crashes>>
    BY <1>2 DEF Collect, EndIngest, StartCampaign
  <2>2. pc[p] # "store" /\ \E l : pc' = [pc EXCEPT ![p] = l]
    BY <1>2 DEF Collect, EndIngest, StartCampaign, Goto, At
  <2>3. \A q \in Procs : pc[q] = "store" => pc'[q] = "store"
    BY <2>2 DEF TypeOK
  <2> QED
    BY <2>1, <2>3, LossKept DEF ingestVars
<1>3. CASE HumanReview \/ Restart \/ UNCHANGED vars
  BY <1>3, LossKept
     DEF HumanReview, Restart, vars, ingestVars, procVars
<1> QED
  BY <1>1, <1>2, <1>3, ClaimLoss, StoreLoss, CrashLoss DEF Next, Ingest

LEMMA LossAlways == Spec => []LossInv
BY LossInit, LossStep, WatchAlways, PTL DEF Spec

(* Kills lose at most one item each, for any number of events, campaign
   processes and crashes. *)
THEOREM CrashesLoseOneItemEach == Spec => []LossBoundedByCrashes
<1>1. LossInv => LossBoundedByCrashes
  BY DEF LossInv, LossBoundedByCrashes
<1> QED
  BY <1>1, LossAlways, PTL

(* Concurrent campaigns never ingest the same item twice. *)
THEOREM ClaimsAreExclusive == Spec => []ClaimsExclusive
<1>1. LossInv => ClaimsExclusive
  BY DEF LossInv
<1> QED
  BY <1>1, LossAlways, PTL

-----------------------------------------------------------------------------
(* What a classification leaves behind.  From SaveReview to WriteReports    *)
(* the report lags behind the reviews; an alert row never does.             *)
Caught ==
  \/ pc[Watcher] \in {"idle", "begin", "collect", "ingest", "store", "analyze"}
  \/ pc[Watcher] = "alert" /\ mode = "manual"

ReviewInv ==
  /\ ErrorHasReview
  /\ pc[Watcher] = "resolve" => review[cur] # None
  /\ pc[Watcher] \in {"review", "resolve", "report"} => mode = "auto"
  /\ crashes = 0 /\ Caught => Shown(report) = Shown(review)

LEMMA ReviewInit == Init => ReviewInv
<1> SUFFICES ASSUME Init PROVE ReviewInv
  OBVIOUS
<1>1. book = << >> /\ review = << >> /\ report = << >> /\ pc[Watcher] = "idle"
  BY DEF Init, Alerts!Init, Procs
<1>2. ErrorHasReview
  BY <1>1 DEF ErrorHasReview, Alerts!Ids
<1>3. Shown(report) = Shown(review)
  BY <1>1
<1> QED
  BY <1>1, <1>2, <1>3 DEF ReviewInv

(* A step of the watcher, or beside it, that leaves rows and reviews. *)
LEMMA ReviewKept ==
  ASSUME ReviewInv, UNCHANGED <<book, review, report>>,
         \/ crashes' = crashes /\ (Caught' => Caught)
         \/ crashes' # 0,
         \/ pc'[Watcher] \notin {"review", "resolve", "report"}
         \/ pc'[Watcher] = "review" /\ mode' = "auto"
         \/ pc'[Watcher] = pc[Watcher] /\ cur' = cur /\ mode' = mode
  PROVE  ReviewInv'
<1>1. ErrorHasReview'
  BY DEF ReviewInv, ErrorHasReview, Alerts!Ids
<1>2. /\ pc'[Watcher] = "resolve" => review[cur'] # None
      /\ pc'[Watcher] \in {"review", "resolve", "report"} => mode' = "auto"
  BY DEF ReviewInv
<1>3. crashes' = 0 /\ Caught' => Shown(report') = Shown(review')
  BY DEF ReviewInv
<1> QED
  BY <1>1, <1>2, <1>3 DEF ReviewInv, Shown

(* A new alert has no classification yet, so the report misses nothing. *)
LEMMA OpenOneReviews ==
  ASSUME WatchInv, NEW f \in SUBSET Events, OpenOne(f)
  PROVE  Shown(review') = Shown(review) /\ (ErrorHasReview => ErrorHasReview')
<1>0. /\ Alerts!BookType /\ review \in Seq({"ok", "error", None})
      /\ Len(review) = Len(book) /\ Len(book) \in Nat /\ Alerts!Ids = 1 .. Len(book)
  BY BookFacts DEF WatchInv, TypeOK
<1>1. CASE f \in Alerts!Opened
  <2>1. UNCHANGED <<book, review>>
    BY <1>1 DEF OpenOne, Alerts!CreateAlert, Alerts!Open
  <2> QED
    BY <2>1 DEF ErrorHasReview, Alerts!Ids
<1>2. CASE f \notin Alerts!Opened
  <2>1. /\ book' = Append(book, [fp |-> f, status |-> "pending"])
        /\ review' = Append(review, None)
    BY <1>2 DEF OpenOne, Alerts!CreateAlert, Alerts!Open
  <2>2. /\ DOMAIN review = 1 .. Len(review) /\ DOMAIN review' = 1 .. Len(review) + 1
        /\ \A k \in 1 .. Len(review) : review'[k] = review[k]
        /\ review'[Len(review) + 1] = None
    BY <1>0, <2>1
  <2>3. \A k : (k \in DOMAIN review' /\ review'[k] # None)
                 <=> (k \in DOMAIN review /\ review[k] # None)
    BY <1>0, <2>2
  <2>4. Shown(review') = Shown(review)
    BY <2>2, <2>3, Zenon DEF Shown
  <2>5. /\ Alerts!Ids' = 1 .. Len(book) + 1
        /\ \A k \in 1 .. Len(book) : book'[k] = book[k]
        /\ book'[Len(book) + 1].status = "pending"
    BY <1>0, <2>1 DEF Alerts!Ids, Alerts!BookType
  <2>6. ErrorHasReview => ErrorHasReview'
    BY <1>0, <2>2, <2>5 DEF ErrorHasReview
  <2> QED
    BY <2>4, <2>6
<1> QED
  BY <1>1, <1>2

LEMMA AlertReviews ==
  ASSUME WatchInv, ReviewInv, AlertAndPause \/ AlertAndReview
  PROVE  ReviewInv'
<1>1. PICK f \in cands : OpenOne(f)
  BY DEF AlertAndPause, AlertAndReview
<1>2. f \in SUBSET Events
  BY DEF WatchInv, TypeOK
<1>3. Shown(review') = Shown(review) /\ ErrorHasReview'
  BY <1>1, <1>2, OpenOneReviews DEF ReviewInv
<1>4. UNCHANGED <<report, mode, crashes>> /\ pc[Watcher] = "alert"
  BY DEF AlertAndPause, AlertAndReview, At
<1>5. CASE AlertAndPause
  <2>1. pc'[Watcher] = "idle" /\ mode = "manual"
    BY <1>5 DEF AlertAndPause, Goto, WatchInv, TypeOK, Procs
  <2> QED
    BY <1>3, <1>4, <2>1 DEF ReviewInv, Caught, Shown
<1>6. CASE AlertAndReview
  <2>1. pc'[Watcher] = "review" /\ mode = "auto"
    BY <1>6 DEF AlertAndReview, Goto, WatchInv, TypeOK, Procs
  <2> QED
    BY <1>3, <1>4, <2>1 DEF ReviewInv, Caught
<1> QED
  BY <1>5, <1>6

LEMMA ClassifyReviews ==
  ASSUME WatchInv, ReviewInv, SaveReview \/ ResolveReviewed
  PROVE  ReviewInv'
<1>0. /\ Alerts!BookType /\ review \in Seq({"ok", "error", None})
      /\ Len(review) = Len(book) /\ Len(book) \in Nat /\ Alerts!Ids = 1 .. Len(book)
      /\ cur \in Alerts!Ids /\ Watcher \in DOMAIN pc
  BY BookFacts DEF WatchInv, TypeOK, Gate, SaveReview, ResolveReviewed, At, Procs
<1>1. CASE SaveReview
  <2>1. PICK v \in Verdicts : review' = [review EXCEPT ![cur] = v]
    BY <1>1 DEF SaveReview
  <2>2. /\ pc[Watcher] = "review" /\ pc'[Watcher] = "resolve"
        /\ UNCHANGED <<book, cur, mode>> /\ v # None
    BY <1>0, <1>1, WatchAssumption DEF SaveReview, At, Goto, watchVars, None
  <2>3. review'[cur] = v /\ \A k \in Alerts!Ids \ {cur} : review'[k] = review[k]
    BY <1>0, <2>1
  <2>4. ErrorHasReview'
    BY <2>2, <2>3 DEF ReviewInv, ErrorHasReview, Alerts!Ids
  <2> QED
    BY <2>2, <2>3, <2>4 DEF ReviewInv, Caught
<1>2. CASE ResolveReviewed
  <2>1. /\ pc[Watcher] = "resolve" /\ pc'[Watcher] \in {"report", "alert"}
        /\ UNCHANGED <<review, mode>>
        /\ Alerts!ResolveAlert(cur, StatusOf(review[cur]))
    BY <1>0, <1>2 DEF ResolveReviewed, At, Goto, watchVars
  <2>2. Alerts!Ids' = Alerts!Ids /\ \A k \in Alerts!Ids \ {cur} : book'[k] = book[k]
    BY <1>0, <2>1 DEF Alerts!ResolveAlert, Alerts!Resolve, Alerts!Ids, Alerts!BookType
  <2>3. ErrorHasReview'
    BY <2>1, <2>2 DEF ReviewInv, ErrorHasReview
  <2> QED
    BY <2>1, <2>3 DEF ReviewInv, Caught
<1> QED
  BY <1>1, <1>2

LEMMA HumanReviews ==
  ASSUME WatchInv, ReviewInv, HumanReview
  PROVE  ReviewInv'
<1>0. Alerts!BookType /\ Len(book) \in Nat /\ Alerts!Ids = 1 .. Len(book)
  BY BookFacts DEF WatchInv, TypeOK
<1>1. PICK i \in Alerts!Ids, s \in HumanStatuses : Alerts!Resolve(i, s)
  BY DEF HumanReview
<1>2. s # "classification-error"
  BY WatchAssumption
<1>3. /\ Alerts!Ids' = Alerts!Ids /\ book'[i].status = s
      /\ \A k \in Alerts!Ids \ {i} : book'[k] = book[k]
  BY <1>0, <1>1 DEF Alerts!Resolve, Alerts!Ids, Alerts!BookType, Alerts!Rows
<1>4. UNCHANGED <<review, report, pc, cur, mode, crashes>>
  BY DEF HumanReview, procVars, watchVars
<1>5. ErrorHasReview'
  BY <1>2, <1>3, <1>4 DEF ReviewInv, ErrorHasReview
<1> QED
  BY <1>4, <1>5 DEF ReviewInv, Caught, Shown

LEMMA ReviewStepKept == WatchInv /\ ReviewInv /\ [Next]_vars => ReviewInv'
<1> SUFFICES ASSUME WatchInv, ReviewInv, [Next]_vars PROVE ReviewInv'
  OBVIOUS
<1>0. Watcher \in DOMAIN pc /\ crashes \in Nat
  BY WatchAssumption DEF WatchInv, TypeOK, Procs
<1>1. CASE TakeBatch \/ ReportPause \/ BeginCampaign \/ Analyze
  <2>1. /\ UNCHANGED <<book, review, report, mode, crashes>>
        /\ pc[Watcher] \in {"idle", "begin", "analyze"}
        /\ pc'[Watcher] \in {"begin", "idle", "collect", "alert"}
    BY <1>0, <1>1 DEF TakeBatch, ReportPause, BeginCampaign, Analyze, At, Goto,
                      bookVars, watchVars
  <2> QED
    BY <2>1, ReviewKept DEF Caught
<1>2. CASE TakeBacklog
  <2>1. /\ UNCHANGED <<book, review, report, mode, crashes>>
        /\ pc'[Watcher] = "review" /\ mode = "auto"
    BY <1>0, <1>2 DEF TakeBacklog, Goto, bookVars
  <2> QED
    BY <2>1, ReviewKept DEF Caught
<1>3. CASE AlertAndPause \/ AlertAndReview
  BY <1>3, AlertReviews
<1>4. CASE SaveReview \/ ResolveReviewed
  BY <1>4, ClassifyReviews
<1>5. CASE WriteReports
  <2>1. UNCHANGED <<book, review>> /\ report' = review /\ pc'[Watcher] \in {"collect", "idle"}
    BY <1>0, <1>5 DEF WriteReports, Goto
  <2> QED
    BY <2>1 DEF ReviewInv, ErrorHasReview, Alerts!Ids, Shown
<1>6. CASE HumanReview
  BY <1>6, HumanReviews
<1>7. CASE Restart
  <2>1. UNCHANGED <<book, review, report, crashes, pc>> /\ pc[Watcher] = "idle"
    BY <1>7 DEF Restart, At, bookVars, procVars
  <2> QED
    BY <2>1, ReviewKept DEF Caught
<1>8. ASSUME NEW p \in Procs, Ingest(p) \/ StartCampaign(p) PROVE ReviewInv'
  <2>1. UNCHANGED <<book, review, report, mode, cur, crashes>>
    BY <1>8 DEF Ingest, Collect, ClaimItem, StoreItem, EndIngest, StartCampaign,
                bookVars, watchVars
  <2>2. CASE p = Watcher
    <3>1. /\ pc[Watcher] \in {"collect", "ingest", "store"}
          /\ pc'[Watcher] \in {"ingest", "store", "analyze"}
      BY <1>0, <1>8, <2>2, WatchAssumption DEF Ingest, Collect, ClaimItem, StoreItem,
           EndIngest, StartCampaign, At, Goto
    <3> QED
      BY <2>1, <3>1, ReviewKept DEF Caught
  <2>3. CASE p # Watcher
    <3>1. pc'[Watcher] = pc[Watcher]
      BY <1>0, <1>8, <2>3 DEF Ingest, Collect, ClaimItem, StoreItem, EndIngest,
           StartCampaign, Goto
    <3> QED
      BY <2>1, <3>1, ReviewKept DEF Caught
  <2> QED
    BY <2>2, <2>3
<1>9. ASSUME NEW p \in Procs, Crash(p) PROVE ReviewInv'
  <2>1. /\ UNCHANGED <<book, review, report, mode>> /\ crashes' # 0
        /\ IF p = Watcher THEN pc'[Watcher] = "idle"
           ELSE pc'[Watcher] = pc[Watcher] /\ cur' = cur
    BY <1>0, <1>9 DEF Crash, Goto, bookVars
  <2> QED
    BY <2>1, ReviewKept
<1>10. CASE UNCHANGED vars
  <2>1. UNCHANGED <<book, review, report, mode, cur, crashes, pc>>
    BY <1>10 DEF vars, bookVars, procVars, watchVars
  <2> QED
    BY <2>1, ReviewKept DEF Caught
<1> QED
  BY <1>1, <1>2, <1>3, <1>4, <1>5, <1>6, <1>7, <1>8, <1>9, <1>10 DEF Next, Cycle

LEMMA ReviewAlways == Spec => []ReviewInv
BY ReviewInit, ReviewStepKept, WatchAlways, PTL DEF Spec

(* A row says classification-error only when a review record explains it,  *)
(* wherever the watcher is killed (_classify_alert).                       *)
THEOREM ErrorsAreExplained == Spec => []ErrorHasReview
<1>1. ReviewInv => ErrorHasReview
  BY DEF ReviewInv
<1> QED
  BY <1>1, ReviewAlways, PTL

(* Between the cycles of a watcher that was never killed the report shows  *)
(* every classification there is (watch_cycle, write_findings_report).     *)
THEOREM ReportShowsReviews == Spec => []ReportCurrent
<1>1. ReviewInv => ReportCurrent
  BY DEF ReviewInv, Caught, ReportCurrent, At
<1> QED
  BY <1>1, ReviewAlways, PTL

-----------------------------------------------------------------------------
(* Groups of events that a bundle covers: it has an alert, or the watcher is
   about to open one. *)
CoveredBy(events) ==
  \/ \E f \in Alerts!Opened : events \subseteq f
  \/ \E b \in cands : events \subseteq b

(* The events of a bundle that are not new to this cycle were covered before
   it; the new ones wait for Analyze.  The part of a bundle is taken as a set
   of its own, because a newer event may push the new one out of the window
   and leave the others behind. *)
PartsCovered ==
  \A c \in Clusters \ overlooked : \A part \in SUBSET (c \cap History) :
    part \cap fresh = {} /\ Reviewable(part) => CoveredBy(part)

NewOnlyInCampaign ==
  pc[Watcher] \notin {"ingest", "store", "analyze"} => fresh = {}

MissedInv == PartsCovered /\ NewOnlyInCampaign

-----------------------------------------------------------------------------
(* Facts about groups and the window. *)

LEMMA HotFinite ==
  ASSUME NEW events \in SUBSET Events
  PROVE  /\ IsFiniteSet({e \in events : stored[e] \in Hot})
         /\ Cardinality({e \in events : stored[e] \in Hot}) \in Nat
<1>1. IsFiniteSet(Events) /\ {e \in events : stored[e] \in Hot} \subseteq Events
  BY WatchAssumption
<1> QED
  BY <1>1, FS_Subset, FS_CardinalityType

(* A larger group is reviewable when a part of it is. *)
LEMMA ReviewableGrows ==
  ASSUME NEW whole \in SUBSET Events, NEW part \in SUBSET whole, Reviewable(part)
  PROVE  Reviewable(whole)
<1> DEFINE HotOf(events) == {e \in events : stored[e] \in Hot}
<1>1. /\ IsFiniteSet(HotOf(whole)) /\ Cardinality(HotOf(whole)) \in Nat
      /\ Cardinality(HotOf(part)) \in Nat
  BY HotFinite
<1>2. HotOf(part) \subseteq HotOf(whole)
  OBVIOUS
<1>3. Cardinality(HotOf(part)) <= Cardinality(HotOf(whole))
  BY <1>1, <1>2, FS_Subset
<1> QED
  BY <1>1, <1>3, WatchAssumption DEF Reviewable

(* A reviewable group is not empty. *)
LEMMA ReviewableNotEmpty ==
  ASSUME Reviewable({})
  PROVE  FALSE
<1>1. {e \in {} : stored[e] \in Hot} = {}
  OBVIOUS
<1> QED
  BY <1>1, FS_EmptySet, WatchAssumption DEF Reviewable

(* Storing one event only pushes others out of the window. *)
LEMMA WindowMoves ==
  ASSUME TypeOK, NEW e \in Events, NEW v \in Versions,
         stored' = [stored EXCEPT ![e] = v],
         NEW part \in SUBSET History', e \notin part
  PROVE  part \subseteq History /\ (Reviewable(part)' => Reviewable(part))
<1>1. /\ InStore' = InStore \cup {e} /\ InStore' \subseteq Events
      /\ History' \subseteq InStore'
  BY WatchAssumption DEF TypeOK, InStore, History
<1>2. ASSUME NEW f \in part
      PROVE  f \in History
  <2> DEFINE Later == {g \in InStore : g > f}
             LaterNow == {g \in InStore' : g > f}
  <2>1. f \in InStore /\ Cardinality(LaterNow) < HistoryLimit
    BY <1>1, <1>2 DEF History
  <2>2. IsFiniteSet(LaterNow) /\ Later \subseteq LaterNow
    BY <1>1, FS_Subset, WatchAssumption
  <2>3. /\ Cardinality(Later) <= Cardinality(LaterNow)
        /\ Cardinality(Later) \in Nat /\ Cardinality(LaterNow) \in Nat
    BY <2>2, FS_Subset, FS_CardinalityType
  <2>4. Cardinality(Later) < HistoryLimit
    BY <2>1, <2>3, WatchAssumption
  <2> QED
    BY <2>1, <2>4 DEF History
<1>3. {g \in part : stored'[g] \in Hot} = {g \in part : stored[g] \in Hot}
  BY <1>1 DEF TypeOK
<1> QED
  BY <1>2, <1>3 DEF Reviewable

(* Opening and resolving alerts keeps every fingerprint. *)
LEMMA OpenedGrows ==
  ASSUME TypeOK, NEW f \in SUBSET Events, OpenOne(f)
  PROVE  Alerts!Opened \cup {f} \subseteq Alerts!Opened'
<1>1. CASE f \in Alerts!Opened
  BY <1>1 DEF OpenOne, Alerts!CreateAlert, Alerts!Open, Alerts!Opened, Alerts!Ids
<1>2. CASE f \notin Alerts!Opened
  <2> DEFINE row == [fp |-> f, status |-> "pending"]
  <2>1. book' = Append(book, row) /\ Len(book) \in Nat /\ book \in Seq(Alerts!Rows)
    BY <1>2, BookFacts DEF OpenOne, Alerts!CreateAlert, Alerts!Open, TypeOK, Alerts!BookType
  <2>2. /\ Len(book') = Len(book) + 1 /\ book'[Len(book) + 1] = row
        /\ \A i \in 1 .. Len(book) : book'[i] = book[i]
    BY <2>1
  <2>3. row.fp = f
    OBVIOUS
  <2> QED
    BY <2>1, <2>2, <2>3 DEF Alerts!Opened, Alerts!Ids
<1> QED
  BY <1>1, <1>2

LEMMA ResolveKeepsOpened ==
  ASSUME TypeOK, NEW i, NEW s, Alerts!Resolve(i, s)
  PROVE  Alerts!Opened' = Alerts!Opened
<1>1. /\ i \in 1 .. Len(book) /\ book \in Seq(Alerts!Rows)
      /\ book' = [book EXCEPT ![i].status = s]
  BY DEF Alerts!Resolve, Alerts!Pending, Alerts!Ids, TypeOK, Alerts!BookType
<1>2. Len(book') = Len(book) /\ \A k \in 1 .. Len(book) : book'[k].fp = book[k].fp
  BY <1>1 DEF Alerts!Rows
<1> QED
  BY <1>2 DEF Alerts!Opened, Alerts!Ids

(* A step that leaves the store, the alerts' evidence and the watcher's
   memory alone. *)
LEMMA CoverageKept ==
  ASSUME PartsCovered, UNCHANGED <<stored, fresh>>,
         overlooked \subseteq overlooked', Alerts!Opened \subseteq Alerts!Opened',
         cands \subseteq cands'
  PROVE  PartsCovered'
<1>1. History' = History /\ \A part : Reviewable(part)' = Reviewable(part)
  BY DEF History, InStore, Reviewable
<1> QED
  BY <1>1 DEF PartsCovered, CoveredBy

-----------------------------------------------------------------------------
(* Every step keeps the parts covered.                                     *)

LEMMA StoreMissed ==
  ASSUME TypeOK, PartsCovered, NEW p \in Procs, StoreItem(p),
         IF p = Watcher THEN UNCHANGED overlooked
         ELSE overlooked' = overlooked \cup Touching({i[1] : i \in item[p]})
  PROVE  PartsCovered'
<1>1. PICK e \in Events, v \in Versions :
        /\ item[p] = {<<e, v>>} /\ stored' = [stored EXCEPT ![e] = v]
        /\ fresh' = IF p = Watcher THEN fresh \cup {e} ELSE fresh
  BY DEF StoreItem
<1>2. UNCHANGED <<book, cands>>
  BY DEF StoreItem, bookVars, watchVars
<1>3. {i[1] : i \in item[p]} = {e}
  BY <1>1
<1> SUFFICES ASSUME NEW c \in Clusters, c \notin overlooked',
                    NEW part \in SUBSET (c \cap History'),
                    part \cap fresh' = {}, Reviewable(part)'
             PROVE  CoveredBy(part)'
  BY DEF PartsCovered
<1>4. e \notin part /\ part \cap fresh = {} /\ c \notin overlooked
  BY <1>1, <1>3 DEF Touching
<1>5. part \subseteq c \cap History /\ Reviewable(part)
  BY <1>1, <1>4, WindowMoves
<1>6. CoveredBy(part)
  BY <1>4, <1>5 DEF PartsCovered
<1> QED
  BY <1>2, <1>6 DEF CoveredBy, Alerts!Opened, Alerts!Ids

LEMMA AnalyzeMissed ==
  ASSUME WatchInv, MissedInv, AnalyzeAll
  PROVE  PartsCovered'
<1>1. /\ pc[Watcher] = "analyze" /\ cands = {} /\ cands' = Candidates /\ fresh' = {}
      /\ UNCHANGED <<book, stored>>
      /\ overlooked' = overlooked \ Touching(fresh \cap History)
  BY DEF AnalyzeAll, Analyze, At, WatchInv, Gate, bookVars, ingestVars
<1>2. History' = History /\ (\A part : Reviewable(part)' = Reviewable(part))
      /\ Alerts!Opened' = Alerts!Opened
  BY <1>1 DEF History, InStore, Reviewable, Alerts!Opened, Alerts!Ids
<1> SUFFICES ASSUME NEW c \in Clusters, c \notin overlooked',
                    NEW part \in SUBSET (c \cap History), Reviewable(part)
             PROVE  CoveredBy(part)'
  BY <1>2 DEF PartsCovered
<1>3. CASE c \cap History \cap fresh # {}
  <2>1. c \cap History \in SUBSET Events
    BY WatchAssumption
  <2>2. c \cap History \in Candidates
    BY <1>3, <2>1, ReviewableGrows DEF Candidates, Bundles
  <2> QED
    BY <1>1, <2>2 DEF CoveredBy
<1>4. CASE c \cap History \cap fresh = {}
  <2>1. c \notin overlooked /\ part \cap fresh = {}
    BY <1>1, <1>4 DEF Touching
  <2>2. CoveredBy(part)
    BY <2>1 DEF MissedInv, PartsCovered
  <2> QED
    BY <1>1, <1>2, <2>2 DEF CoveredBy
<1> QED
  BY <1>3, <1>4

LEMMA AlertMissed ==
  ASSUME WatchInv, PartsCovered,
         KeepOneCandidate \/ (AlertAndReview /\ UNCHANGED overlooked)
  PROVE  PartsCovered'
<1>0. cands \subseteq SUBSET Events /\ UNCHANGED <<stored, fresh>>
  BY DEF KeepOneCandidate, AlertAndPause, AlertAndReview, WatchInv, TypeOK, ingestVars
<1>1. PICK f \in cands :
        /\ OpenOne(f)
        /\ \/ cands' = cands \ {f} /\ overlooked' = overlooked
           \/ overlooked' = overlooked \cup UNION {Touching(b) : b \in cands \ Alerts!Opened'}
  BY DEF KeepOneCandidate, AlertAndPause, AlertAndReview
<1>2. Alerts!Opened \cup {f} \subseteq Alerts!Opened'
  BY <1>0, <1>1, OpenedGrows DEF WatchInv
<1>3. History' = History /\ \A part : Reviewable(part)' = Reviewable(part)
  BY <1>0 DEF History, InStore, Reviewable
<1> SUFFICES ASSUME NEW c \in Clusters, c \notin overlooked',
                    NEW part \in SUBSET (c \cap History),
                    part \cap fresh = {}, Reviewable(part)
             PROVE  CoveredBy(part)'
  BY <1>0, <1>3 DEF PartsCovered
<1>4. CoveredBy(part)
  BY <1>1 DEF PartsCovered
<1>5. CASE \E g \in Alerts!Opened : part \subseteq g
  BY <1>2, <1>5 DEF CoveredBy
<1>6. ASSUME NEW b \in cands, part \subseteq b
      PROVE  CoveredBy(part)'
  <2>1. CASE b \in Alerts!Opened'
    BY <1>6, <2>1 DEF CoveredBy
  <2>2. CASE b \notin Alerts!Opened' /\ cands' = cands \ {f}
    BY <1>2, <1>6, <2>2 DEF CoveredBy
  <2>3. CASE /\ b \notin Alerts!Opened'
             /\ overlooked' =
                  overlooked \cup UNION {Touching(d) : d \in cands \ Alerts!Opened'}
    <3>1. part # {}
      BY ReviewableNotEmpty
    <3>2. c \in Touching(b)
      BY <1>6, <3>1 DEF Touching
    <3> QED
      BY <2>3, <3>2
  <2> QED
    BY <1>1, <2>1, <2>2, <2>3
<1> QED
  BY <1>4, <1>5, <1>6 DEF CoveredBy

LEMMA CrashMissed ==
  ASSUME PartsCovered, CrashForgets
  PROVE  PartsCovered'
<1>1. /\ UNCHANGED <<book, stored>>
      /\ overlooked' =
           overlooked \cup Touching(fresh) \cup UNION {Touching(b) : b \in cands}
  BY DEF CrashForgets, Crash, bookVars, ingestVars
<1>2. History' = History /\ (\A part : Reviewable(part)' = Reviewable(part))
      /\ Alerts!Opened' = Alerts!Opened
  BY <1>1 DEF History, InStore, Reviewable, Alerts!Opened, Alerts!Ids
<1> SUFFICES ASSUME NEW c \in Clusters, c \notin overlooked',
                    NEW part \in SUBSET (c \cap History), Reviewable(part)
             PROVE  CoveredBy(part)'
  BY <1>2 DEF PartsCovered
<1>3. part \cap fresh = {} /\ c \notin overlooked
  BY <1>1 DEF Touching
<1>4. CoveredBy(part)
  BY <1>3 DEF PartsCovered
<1>5. ASSUME NEW b \in cands PROVE ~(part \subseteq b)
  <2>1. part # {}
    BY ReviewableNotEmpty
  <2> QED
    BY <1>1, <2>1 DEF Touching
<1> QED
  BY <1>2, <1>4, <1>5 DEF CoveredBy

LEMMA CycleMissed ==
  ASSUME WatchInv, MissedInv, CycleOn \/ HumanReview \/ Restart, UNCHANGED overlooked,
         ~AlertAndReview
  PROVE  PartsCovered'
<1>1. UNCHANGED <<stored, fresh, cands>>
  BY DEF CycleOn, TakeBatch, ReportPause, TakeBacklog, BeginCampaign, SaveReview,
         ResolveReviewed, WriteReports, HumanReview, Restart,
         ingestVars, watchVars, procVars
<1>2. Alerts!Opened' = Alerts!Opened
  <2>1. CASE UNCHANGED book
    BY <2>1 DEF Alerts!Opened, Alerts!Ids
  <2>2. CASE ~UNCHANGED book
    <3>1. \E i, s : Alerts!Resolve(i, s)
      BY <2>2 DEF CycleOn, TakeBatch, ReportPause, TakeBacklog, BeginCampaign, SaveReview,
                  ResolveReviewed, WriteReports, HumanReview, Restart, Alerts!ResolveAlert,
                  bookVars
    <3> QED
      BY <3>1, ResolveKeepsOpened DEF WatchInv
  <2> QED
    BY <2>1, <2>2
<1> QED
  BY <1>1, <1>2, CoverageKept DEF MissedInv

LEMMA OtherMissed ==
  ASSUME WatchInv, MissedInv, UNCHANGED overlooked,
         \/ \E p \in Procs : Collect(p) \/ ClaimItem(p) \/ EndIngest(p) \/ StartCampaign(p)
         \/ \E p \in Campaigns : Crash(p)
  PROVE  PartsCovered'
<1>1. UNCHANGED <<book, stored, cands>>
  BY WatchAssumption
     DEF Collect, ClaimItem, EndIngest, StartCampaign, Crash, bookVars, ingestVars, watchVars
<1>2. fresh' = fresh
  BY WatchAssumption
     DEF Collect, ClaimItem, EndIngest, StartCampaign, Crash, At, MissedInv, NewOnlyInCampaign
<1> QED
  BY <1>1, <1>2, CoverageKept DEF MissedInv, Alerts!Opened, Alerts!Ids

LEMMA MissedStep ==
  ASSUME WatchInv, MissedInv, [MNext]_mvars
  PROVE  PartsCovered'
<1>1. CASE MCycle
  BY <1>1, AnalyzeMissed, AlertMissed, CycleMissed DEF MCycle, MissedInv
<1>2. CASE CrashForgets
  BY <1>2, CrashMissed DEF MissedInv
<1>3. CASE \E p \in Campaigns : StoredElsewhere(p)
  BY <1>3, StoreMissed, WatchAssumption DEF StoredElsewhere, WatchInv, MissedInv, Procs
<1>4. CASE Others /\ UNCHANGED overlooked
  <2>1. CASE StoreItem(Watcher)
    BY <1>4, <2>1, StoreMissed DEF WatchInv, MissedInv, Procs
  <2>2. CASE HumanReview \/ Restart
    <3>1. ~AlertAndReview
      BY <2>2 DEF HumanReview, Restart, AlertAndReview, At, procVars, WatchInv, TypeOK, Goto, Procs
    <3> QED
      BY <1>4, <2>2, <3>1, CycleMissed
  <2> QED
    BY <1>4, <2>1, <2>2, OtherMissed DEF Others
<1>5. CASE UNCHANGED mvars
  BY <1>5, CoverageKept
     DEF mvars, vars, bookVars, ingestVars, procVars, watchVars, MissedInv,
         Alerts!Opened, Alerts!Ids
<1> QED
  BY <1>1, <1>2, <1>3, <1>4, <1>5 DEF MNext

(* What is new is forgotten by Analyze, and by Collect before that. *)
LEMMA NewStep ==
  ASSUME WatchInv, NewOnlyInCampaign, [Next]_vars
  PROVE  NewOnlyInCampaign'
<1> USE DEF WatchInv, TypeOK, NewOnlyInCampaign, Goto, At
<1>1. CASE Cycle
  <2>1. CASE Analyze
    BY <2>1 DEF Analyze
  <2>2. CASE ~Analyze
    <3>1. fresh' = fresh /\ pc[Watcher] \notin {"ingest", "store", "analyze"}
      BY <1>1, <2>2 DEF Cycle, TakeBatch, ReportPause, TakeBacklog, BeginCampaign, SaveReview,
         ResolveReviewed, WriteReports, AlertAndPause, AlertAndReview
    <3> QED
      BY <3>1
  <2> QED
    BY <2>1, <2>2
<1>2. ASSUME NEW p \in Procs, Ingest(p) \/ StartCampaign(p) \/ Crash(p)
      PROVE  NewOnlyInCampaign'
  <2>1. CASE p # Watcher
    <3>1. fresh' = fresh /\ pc'[Watcher] = pc[Watcher]
      BY <1>2, <2>1 DEF Ingest, Collect, ClaimItem, StoreItem, EndIngest, StartCampaign,
         Crash, Procs
    <3> QED
      BY <3>1
  <2>2. CASE p = Watcher
    BY <1>2, <2>2, WatchAssumption DEF Ingest, Collect, ClaimItem, StoreItem, EndIngest,
       StartCampaign, Crash, Procs
  <2> QED
    BY <2>1, <2>2
<1>3. CASE HumanReview \/ Restart \/ UNCHANGED vars
  BY <1>3 DEF HumanReview, Restart, vars, procVars
<1> QED
  BY <1>1, <1>2, <1>3 DEF Next

-----------------------------------------------------------------------------
LEMMA MissedIsWatch == [MNext]_mvars => [Next]_vars
<1>1. MNext => Next
  BY DEF MNext, MCycle, AnalyzeAll, KeepOneCandidate, CycleOn, CrashForgets,
         StoredElsewhere, Others, Next, Cycle, Ingest, Procs
<1> QED
  BY <1>1 DEF mvars

LEMMA MissedInit == Init /\ overlooked = {} => MissedInv
<1> SUFFICES ASSUME Init PROVE MissedInv
  OBVIOUS
<1>1. InStore = {} /\ History = {} /\ fresh = {}
  BY DEF Init, InStore, History
<1>2. \A part \in SUBSET {} : ~Reviewable(part)
  BY ReviewableNotEmpty
<1> QED
  BY <1>1, <1>2 DEF MissedInv, PartsCovered, NewOnlyInCampaign

LEMMA MissedAlways == MSpec => [](WatchInv /\ MissedInv)
<1>1. Init /\ overlooked = {} => WatchInv /\ MissedInv
  BY WatchInit, MissedInit
<1>2. WatchInv /\ MissedInv /\ [MNext]_mvars => (WatchInv /\ MissedInv)'
  BY MissedIsWatch, WatchStep, MissedStep, NewStep DEF MissedInv
<1> QED
  BY <1>1, <1>2, PTL DEF MSpec

(* Between cycles a reviewable group of the recent history has an alert, or
   had one when it was larger, unless its group was overlooked: by a kill, by
   a campaign command that stored its events first, or in the manual mode. *)
THEOREM OnlyKnownReasonsMiss == MSpec => []MissedIsExplained
<1>1. WatchInv /\ MissedInv => MissedIsExplained
  <2> SUFFICES ASSUME WatchInv, MissedInv, pc[Watcher] = "idle",
                      NEW c \in Clusters \ overlooked, Reviewable(c \cap History)
               PROVE  \E f \in Alerts!Opened : c \cap History \subseteq f
    BY DEF MissedIsExplained, At
  <2>1. fresh = {} /\ cands = {}
    BY DEF MissedInv, NewOnlyInCampaign, WatchInv, Gate
  <2>2. CoveredBy(c \cap History)
    BY <2>1 DEF MissedInv, PartsCovered
  <2> QED
    BY <2>1, <2>2 DEF CoveredBy
<1> QED
  BY <1>1, MissedAlways, PTL
=============================================================================
