------------------------- MODULE Collection_proofs -------------------------
(***************************************************************************)
(* Proofs about the jobs of a campaign and the governor they share, for    *)
(* any set of jobs and sources and any setting of the governor.            *)
(***************************************************************************)
EXTENDS Collection, FiniteSetTheorems, TLAPS

(* A job backs off only when it has a retry left. *)
RetryLeft == \A j \in Jobs : jpc[j] = "backoff" => attempt[j] < Retries

TypedInv == TypeOK /\ RetryLeft

(* What a job does to the governor keeps it well typed. *)
LEMMA RecordTyped ==
  ASSUME TypeOK, NEW s \in Sources, NEW a, Record(s, a)
  PROVE  /\ failures' \in [Sources -> 0 .. BurstThreshold]
         /\ delays' \in [Sources -> 0 .. DelaySteps]
BY CollectionAssumption DEF TypeOK, Record, Relax, Penalise

LEMMA TypedStep == TypedInv /\ [Next]_vars => TypedInv'
<1> SUFFICES ASSUME TypeOK, RetryLeft, [Next]_vars PROVE TypeOK' /\ RetryLeft'
  BY DEF TypedInv
<1> USE CollectionAssumption DEF TypeOK, RetryLeft, Goto
<1>1. ASSUME NEW j \in Jobs, Job(j) PROVE TypeOK' /\ RetryLeft'
  <2>0. SourceOf[j] \in Sources
    OBVIOUS
  <2>1. CASE Enter(j) \/ Acquire(j) \/ Sleep(j) \/ ReadAgain(j) \/ BackOff(j)
    BY <2>1 DEF Enter, Acquire, Sleep, ReadAgain, BackOff
  <2>2. CASE Succeed(j)
    BY <2>0, <2>2, RecordTyped DEF Succeed, Finish
  <2>3. CASE Fail(j)
    BY <2>0, <2>3, RecordTyped DEF Fail, Finish
  <2>4. CASE WakeUp(j)
    BY <2>4 DEF WakeUp
  <2>5. CASE BreakOff(j)
    BY <2>5 DEF BreakOff, Finish
  <2> QED
    BY <1>1, <2>1, <2>2, <2>3, <2>4, <2>5 DEF Job
<1>2. CASE NextCampaign
  BY <1>2 DEF NextCampaign, StartJobs
<1>3. CASE UNCHANGED vars
  BY <1>3 DEF vars
<1> QED
  BY <1>1, <1>2, <1>3 DEF Next

LEMMA TypedInit == Init => TypedInv
BY CollectionAssumption DEF Init, TypedInv, TypeOK, RetryLeft

(* Every reachable state is well typed. *)
THEOREM CollectionTyped == Spec => []TypeOK
<1>1. TypedInv => TypeOK
  BY DEF TypedInv
<1> QED
  BY <1>1, TypedInit, TypedStep, PTL DEF Spec

-----------------------------------------------------------------------------
(* A wedged source stays wedged.  The delay changes only when a job that    *)
(* was collecting from the source records its outcome, and a job starts     *)
(* to collect only when the delay is zero.                                  *)
LEMMA WedgedStep ==
  ASSUME TypeOK, [Next]_vars, NEW s \in Sources, Wedged(s)
  PROVE  Wedged(s)'
<1> USE CollectionAssumption DEF TypeOK, Wedged, InFlight, Goto
<1>1. ASSUME NEW j \in Jobs, Job(j) PROVE Wedged(s)'
  <2>0. SourceOf[j] \in Sources
    OBVIOUS
  <2>1. CASE Enter(j) \/ Sleep(j) \/ ReadAgain(j) \/ WakeUp(j)
    BY <2>1 DEF Enter, Sleep, ReadAgain, WakeUp
  <2>2. CASE Acquire(j)
    BY <2>2 DEF Acquire
  <2>3. ASSUME jpc[j] = "collect", jpc'[j] # "collect",
               \A k \in Jobs : k # j => jpc'[k] = jpc[k],
               \A r \in Sources : r # SourceOf[j] => delays'[r] = delays[r]
        PROVE  Wedged(s)'
    BY <2>3
  <2>4. CASE Succeed(j)
    BY <2>0, <2>3, <2>4 DEF Succeed, Finish, Record, Relax, Penalise
  <2>5. CASE Fail(j)
    <3>1. \A r \in Sources : r # SourceOf[j] => delays'[r] = delays[r]
      BY <2>0, <2>5 DEF Fail, Record, Relax, Penalise
    <3> QED
      BY <2>3, <2>5, <3>1 DEF Fail, Finish
  <2>6. CASE BackOff(j) \/ BreakOff(j)
    BY <2>3, <2>6 DEF BackOff, BreakOff, Finish
  <2> QED
    BY <1>1, <2>1, <2>2, <2>4, <2>5, <2>6 DEF Job
<1>2. CASE NextCampaign
  BY <1>2 DEF NextCampaign, StartJobs
<1>3. CASE UNCHANGED vars
  BY <1>3 DEF vars
<1> QED
  BY <1>1, <1>2, <1>3 DEF Next

(* Once a source is throttled with no request to it under way, no job of
   any later campaign of the process gets past the governor to it: the loop
   of acquire never ends. *)
THEOREM WedgedSourceStaysWedged == Spec => WedgedForGood
<1>1. TypedInv /\ [Next]_vars => [\A s \in Sources : Wedged(s) => Wedged(s)']_vars
  BY WedgedStep DEF TypedInv
<1> QED
  BY <1>1, TypedInit, TypedStep, PTL DEF Spec, WedgedForGood

-----------------------------------------------------------------------------
(* With more halvings than permits a throttled source stays throttled: the  *)
(* requests under way are too few to bring the delay down to zero.          *)

WithinConcurrency == Cardinality(Holders) <= Concurrency

(* The delay outlasts the successes that are still possible. *)
Outlasts == \A s \in Sources : delays[s] > 0 => Cardinality(InFlight(s)) < delays[s]

ThrottleInv == TypedInv /\ WithinConcurrency /\ Outlasts

LEMMA InFlightFinite ==
  ASSUME NEW s PROVE IsFiniteSet(InFlight(s)) /\ Cardinality(InFlight(s)) \in Nat
BY CollectionAssumption, FS_Subset, FS_CardinalityType DEF InFlight

LEMMA HoldersFinite == IsFiniteSet(Holders) /\ Cardinality(Holders) \in Nat
BY CollectionAssumption, FS_Subset, FS_CardinalityType DEF Holders

LEMMA InFlightHold ==
  ASSUME NEW s PROVE Cardinality(InFlight(s)) <= Cardinality(Holders)
BY HoldersFinite, FS_Subset DEF InFlight, Holders

(* A job stops collecting, whatever it records. *)
LEMMA LeaveCollect ==
  ASSUME ManyHalvings, ThrottleInv, NEW j \in Jobs, NEW l \in {"done", "backoff"},
         jpc[j] = "collect", Goto(j, l),
         \/ UNCHANGED <<delays, failures>>
         \/ Relax(SourceOf[j])
         \/ Penalise(SourceOf[j])
  PROVE  /\ WithinConcurrency' /\ Outlasts'
         /\ \A s \in Sources : delays[s] > 0 => delays'[s] > 0
<1> DEFINE src == SourceOf[j]
<1>0. /\ src \in Sources /\ DelaySteps \in Nat /\ Concurrency \in Nat
      /\ delays \in [Sources -> 0 .. DelaySteps]
      /\ failures \in [Sources -> 0 .. BurstThreshold]
      /\ jpc \in [Jobs -> {"waiting", "acquire", "asleep", "collect", "backoff", "done"}]
      /\ Concurrency < DelaySteps
  BY CollectionAssumption DEF ThrottleInv, TypedInv, TypeOK, ManyHalvings
<1>1. Holders' = Holders \ {j} /\ j \in Holders
  BY <1>0 DEF Holders, Goto
<1>2. Cardinality(Holders') <= Concurrency
  <2>1. Cardinality(Holders \ {j}) = Cardinality(Holders) - 1
    BY <1>1, HoldersFinite, FS_RemoveElement
  <2> QED
    BY <1>0, <1>1, <2>1, HoldersFinite DEF ThrottleInv, WithinConcurrency
<1>3. InFlight(src)' = InFlight(src) \ {j} /\ j \in InFlight(src)
  BY <1>0 DEF InFlight, Goto
<1>4. \A s \in Sources \ {src} : InFlight(s)' = InFlight(s)
  BY <1>0 DEF InFlight, Goto
<1>5. Cardinality(InFlight(src)') = Cardinality(InFlight(src)) - 1
      /\ Cardinality(InFlight(src)) \in Nat /\ Cardinality(InFlight(src)') \in Nat
  BY <1>3, InFlightFinite, FS_RemoveElement, FS_CardinalityType
<1>6. Cardinality(InFlight(src)') < DelaySteps
  <2>1. Cardinality(InFlight(src)) <= Cardinality(Holders)
    BY InFlightHold
  <2> QED
    BY <1>0, <1>5, <2>1, HoldersFinite DEF ThrottleInv, WithinConcurrency
<1>7. delays[src] > 0 => Cardinality(InFlight(src)) < delays[src]
  BY <1>0 DEF ThrottleInv, Outlasts
<1>8. /\ delays[src] > 0 => delays'[src] > 0
      /\ delays'[src] > 0 => Cardinality(InFlight(src)') < delays'[src]
      /\ \A s \in Sources \ {src} : delays'[s] = delays[s]
  <2>1. CASE UNCHANGED <<delays, failures>>
    BY <2>1, <1>0, <1>5, <1>7
  <2>2. CASE Relax(src)
    BY <2>2, <1>0, <1>5, <1>7 DEF Relax
  <2>3. CASE Penalise(src)
    BY <2>3, <1>0, <1>5, <1>6, <1>7 DEF Penalise
  <2> QED
    BY <2>1, <2>2, <2>3
<1>9. Outlasts'
  <2> SUFFICES ASSUME NEW s \in Sources, delays'[s] > 0
               PROVE  Cardinality(InFlight(s)') < delays'[s]
    BY DEF Outlasts
  <2>1. CASE s = src
    BY <2>1, <1>8
  <2>2. CASE s # src
    BY <2>2, <1>4, <1>8 DEF ThrottleInv, Outlasts
  <2> QED
    BY <2>1, <2>2
<1> QED
  BY <1>2, <1>8, <1>9 DEF WithinConcurrency

LEMMA ThrottleStep ==
  ASSUME ManyHalvings, ThrottleInv, [Next]_vars
  PROVE  /\ ThrottleInv'
         /\ \A s \in Sources : delays[s] > 0 => delays'[s] > 0
<1> SUFFICES /\ WithinConcurrency' /\ Outlasts'
             /\ \A s \in Sources : delays[s] > 0 => delays'[s] > 0
  BY TypedStep DEF ThrottleInv
<1>0. TypeOK
  BY DEF ThrottleInv, TypedInv
<1> USE CollectionAssumption
<1>1. ASSUME NEW j \in Jobs, Job(j)
      PROVE  /\ WithinConcurrency' /\ Outlasts'
             /\ \A s \in Sources : delays[s] > 0 => delays'[s] > 0
  <2>1. CASE Enter(j)
    <3>1. Holders' = Holders \cup {j} /\ j \notin Holders
      BY <1>0, <2>1 DEF Holders, Enter, Goto, TypeOK
    <3>2. Cardinality(Holders \cup {j}) = Cardinality(Holders) + 1
      BY <3>1, HoldersFinite, FS_AddElement
    <3>4. Cardinality(Holders') <= Concurrency
      BY <2>1, <3>1, <3>2, HoldersFinite DEF Enter
    <3>3. \A s \in Sources : InFlight(s)' = InFlight(s)
      BY <1>0, <2>1 DEF InFlight, Enter, Goto, TypeOK
    <3> QED
      BY <2>1, <3>4, <3>3 DEF Enter, ThrottleInv, WithinConcurrency, Outlasts
  <2>2. CASE Acquire(j)
    <3>1. Holders' = Holders
      BY <1>0, <2>2 DEF Holders, Acquire, Goto, TypeOK
    <3>2. \A s \in Sources : delays[s] > 0 => InFlight(s)' = InFlight(s)
      BY <1>0, <2>2 DEF InFlight, Acquire, Goto, TypeOK
    <3> QED
      BY <2>2, <3>1, <3>2 DEF Acquire, ThrottleInv, WithinConcurrency, Outlasts
  <2>3. CASE Sleep(j) \/ ReadAgain(j) \/ WakeUp(j)
    <3>1. Holders' = Holders /\ \A s \in Sources : InFlight(s)' = InFlight(s)
      BY <1>0, <2>3 DEF Holders, InFlight, Sleep, ReadAgain, WakeUp, Goto, TypeOK
    <3> QED
      BY <2>3, <3>1
         DEF Sleep, ReadAgain, WakeUp, ThrottleInv, WithinConcurrency, Outlasts
  <2>4. CASE Succeed(j)
    BY <2>4, LeaveCollect DEF Succeed, Finish, Record, Penalised
  <2>5. CASE Fail(j)
    BY <2>5, LeaveCollect DEF Fail, Finish, Record
  <2>6. CASE BackOff(j)
    BY <2>6, LeaveCollect DEF BackOff
  <2>7. CASE BreakOff(j)
    BY <2>7, LeaveCollect DEF BreakOff, Finish
  <2> QED
    BY <1>1, <2>1, <2>2, <2>3, <2>4, <2>5, <2>6, <2>7 DEF Job
<1>2. CASE NextCampaign
  <2>1. Holders' = {} /\ \A s \in Sources : InFlight(s)' = {} /\ InFlight(s) = {}
    BY <1>2 DEF NextCampaign, StartJobs, AllDone, Holders, InFlight
  <2> QED
    BY <1>2, <2>1, FS_EmptySet
       DEF NextCampaign, ThrottleInv, WithinConcurrency, Outlasts
<1>3. CASE UNCHANGED vars
  BY <1>3 DEF vars, ThrottleInv, WithinConcurrency, Outlasts, Holders, InFlight
<1> QED
  BY <1>1, <1>2, <1>3 DEF Next

LEMMA ThrottleInit == Init => ThrottleInv
<1> SUFFICES ASSUME Init PROVE WithinConcurrency /\ Outlasts
  BY TypedInit DEF ThrottleInv
<1>1. Holders = {}
  BY DEF Init, Holders
<1>2. \A s \in Sources : delays[s] = 0
  BY DEF Init
<1> QED
  BY <1>1, <1>2, FS_EmptySet, CollectionAssumption DEF WithinConcurrency, Outlasts

(* With the code's parameters (more halvings than permits) the penalty of a
   source never decays to zero again, so that acquire never lets another
   request to it through for the rest of the process's life. *)
THEOREM ThrottledSourceStaysThrottled ==
  ASSUME ManyHalvings PROVE Spec => ThrottledForGood
<1>1. ThrottleInv /\ [Next]_vars => ThrottleInv'
  BY ThrottleStep
<1>2. ThrottleInv /\ [Next]_vars
        => [\A s \in Sources : delays[s] > 0 => delays'[s] > 0]_vars
  BY ThrottleStep
<1> QED
  BY <1>1, <1>2, ThrottleInit, PTL DEF Spec, ThrottledForGood

=============================================================================
