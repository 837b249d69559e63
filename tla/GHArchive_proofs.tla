-------------------------- MODULE GHArchive_proofs --------------------------
(***************************************************************************)
(* What repeated, broken and overlapping runs of one hour keep true, for   *)
(* any archive, budgets, batch size and processes.                         *)
(***************************************************************************)
EXTENDS GHArchive, FiniteSetTheorems, TLAPS

Kinds == {"candidate", "sampled"}

(* The lines of a kind among the first n. *)
OfKind(w, n) == {j \in 1 .. n : Archive[j] = w}

(* A counter is the number of lines of its kind, until it meets its budget. *)
Counts(r, w) ==
  LET n == Cardinality(OfKind(w, at[r]))
  IN (kept[r][w] = n /\ n <= Budget[w]) \/ (kept[r][w] = Budget[w] /\ n >= Budget[w])

(* A run that collects has selected exactly what the scanned part of the
   hour holds of the selection; what is not in its batch is stored. *)
Collecting(r) ==
  rpc[r] = "collect" =>
    /\ \A w \in Kinds : Counts(r, w)
    /\ at[r] <= ScanLimit
    /\ observations[r] = {i \in Selected : i <= at[r]}
    /\ pending[r] \subseteq observations[r]
    /\ observations[r] \subseteq stored \cup pending[r]

Collected(r) ==
  rpc[r] \in {"analyze", "finish", "export"} =>
    observations[r] = Selected /\ Selected \subseteq stored

ArchiveInv ==
  /\ TypeOK
  /\ \A r \in Runs : Collecting(r) /\ Collected(r)
  /\ CompleteMeansStored /\ NothingBeyondSelection /\ LakeIsSelection

-----------------------------------------------------------------------------
LEMMA Numbers ==
  /\ Len(Archive) \in Nat /\ Lines = 1 .. Len(Archive)
  /\ ScanLimit \in Nat /\ MaxFaults \in Nat /\ BatchSize \in Nat \ {0}
  /\ Budget["candidate"] \in Nat /\ Budget["sampled"] \in Nat
  /\ \A i \in Lines : Archive[i] \in Kinds \cup {"other"}
BY ArchiveAssumption DEF Lines, Budget, Kinds, Worth

LEMMA PartFinite ==
  ASSUME NEW S, S \subseteq Lines PROVE IsFiniteSet(S) /\ Cardinality(S) \in Nat
<1>1. IsFiniteSet(Lines)
  BY Numbers, FS_Interval
<1> QED
  BY <1>1, FS_Subset, FS_CardinalityType

LEMMA AtMostOneMore ==
  ASSUME NEW S, IsFiniteSet(S), NEW x
  PROVE  /\ Cardinality(S) \in Nat /\ Cardinality(S \cup {x}) \in Nat
         /\ Cardinality(S \cup {x}) <= Cardinality(S) + 1
<1>1. Cardinality(S) \in Nat
  BY FS_CardinalityType
<1>2. CASE x \in S
  <2>1. S \cup {x} = S
    BY <1>2
  <2> QED
    BY <1>1, <2>1
<1>3. CASE x \notin S
  BY <1>1, <1>3, FS_AddElement
<1> QED
  BY <1>2, <1>3

(* One more line is counted for its own kind and for no other. *)
LEMMA OneMoreOfKind ==
  ASSUME NEW n \in Nat, n + 1 \in Lines, NEW w \in Kinds
  PROVE  /\ Cardinality(OfKind(w, n)) \in Nat
         /\ Archive[n + 1] = w =>
              Cardinality(OfKind(w, n + 1)) = Cardinality(OfKind(w, n)) + 1
         /\ Archive[n + 1] # w => OfKind(w, n + 1) = OfKind(w, n)
<1>1. OfKind(w, n) \subseteq Lines
  BY Numbers DEF OfKind
<1>2. IsFiniteSet(OfKind(w, n)) /\ Cardinality(OfKind(w, n)) \in Nat
  BY <1>1, PartFinite
<1>3. 1 .. n + 1 = (1 .. n) \cup {n + 1}
  OBVIOUS
<1>4. ASSUME Archive[n + 1] = w
      PROVE  Cardinality(OfKind(w, n + 1)) = Cardinality(OfKind(w, n)) + 1
  <2>1. OfKind(w, n + 1) = OfKind(w, n) \cup {n + 1}
    BY <1>3, <1>4 DEF OfKind
  <2>2. n + 1 \notin OfKind(w, n)
    BY DEF OfKind
  <2> QED
    BY <1>2, <2>1, <2>2, FS_AddElement
<1>5. Archive[n + 1] # w => OfKind(w, n + 1) = OfKind(w, n)
  BY <1>3 DEF OfKind
<1> QED
  BY <1>2, <1>4, <1>5

(* A line within the limit is selected when its kind has budget left. *)
LEMMA SelectedNext ==
  ASSUME NEW n \in Nat, n + 1 \in Lines, n + 1 <= ScanLimit
  PROVE  n + 1 \in Selected <=>
           /\ Archive[n + 1] \in Kinds
           /\ Cardinality(OfKind(Archive[n + 1], n)) < Budget[Archive[n + 1]]
<1>1. Earlier(n + 1) = OfKind(Archive[n + 1], n)
  BY DEF Earlier, OfKind
<1> QED
  BY <1>1, Numbers DEF Selected, Kinds

LEMMA ArchiveInit == Init => ArchiveInv
<1> SUFFICES ASSUME Init PROVE ArchiveInv
  OBVIOUS
<1>1. Cardinality({}) = 0
  BY FS_EmptySet
<1>2. TypeOK
  BY <1>1, Numbers, ArchiveAssumption DEF Init, TypeOK, NothingKept, Budget
<1> QED
  BY <1>2 DEF Init, ArchiveInv, Collecting, Collected, CompleteMeansStored,
              NothingBeyondSelection, LakeIsSelection

-----------------------------------------------------------------------------
(* What a step of one run leaves alone of the others.                      *)
LEMMA Others ==
  ASSUME ArchiveInv, NEW r \in Runs, NEW q \in Runs, q # r,
         rpc'[q] = rpc[q], at'[q] = at[q], kept'[q] = kept[q],
         pending'[q] = pending[q], observations'[q] = observations[q],
         stored \subseteq stored'
  PROVE  Collecting(q)' /\ Collected(q)'
BY DEF ArchiveInv, Collecting, Collected, Counts

LEMMA ReadStep ==
  ASSUME ArchiveInv, NEW r \in Runs, ReadLine(r) PROVE ArchiveInv'
<1> DEFINE line == at[r] + 1
           w == Archive[line]
<1>1. /\ rpc[r] = "collect" /\ at[r] # Len(Archive) /\ at[r] < ScanLimit
      /\ Cardinality(pending[r]) < BatchSize
      /\ at[r] \in 0 .. Len(Archive)
  <2>1. at[r] \in 0 .. Len(Archive) /\ pending[r] \subseteq Lines
    BY DEF ArchiveInv, TypeOK
  <2>2. Cardinality(pending[r]) \in Nat
    BY <2>1, PartFinite
  <2> QED
    BY <2>1, <2>2, Numbers DEF ReadLine, Scanned, BatchFull
<1>2. /\ line \in Lines /\ line <= ScanLimit /\ at[r] \in Nat
      /\ w \in Kinds \cup {"other"}
  BY <1>1, Numbers
<1>3. /\ at' = [at EXCEPT ![r] = line]
      /\ UNCHANGED <<status, stored, lake, rpc, faults>>
  BY DEF ReadLine
<1>4. /\ \A k \in Kinds : Counts(r, k)
      /\ observations[r] = {i \in Selected : i <= at[r]}
      /\ pending[r] \subseteq observations[r]
      /\ observations[r] \subseteq stored \cup pending[r]
  BY <1>1 DEF ArchiveInv, Collecting
<1>5. \A k \in Kinds :
        /\ Cardinality(OfKind(k, at[r])) \in Nat /\ Budget[k] \in Nat
        /\ kept[r][k] \in Nat
        /\ w = k => Cardinality(OfKind(k, line)) = Cardinality(OfKind(k, at[r])) + 1
        /\ w # k => OfKind(k, line) = OfKind(k, at[r])
  <2>1. \A k \in Kinds : kept[r][k] \in Nat /\ Budget[k] \in Nat
    BY Numbers, ArchiveAssumption DEF ArchiveInv, TypeOK, Kinds
  <2> QED
    BY <1>2, <2>1, OneMoreOfKind
<1>6. line \in Selected <=> w \in Kinds /\ kept[r][w] < Budget[w]
  <2>1. line \in Selected <=>
          w \in Kinds /\ Cardinality(OfKind(w, at[r])) < Budget[w]
    BY <1>2, SelectedNext
  <2>2. ASSUME w \in Kinds
        PROVE  kept[r][w] < Budget[w] <=> Cardinality(OfKind(w, at[r])) < Budget[w]
    BY <1>4, <1>5, <2>2 DEF Counts
  <2> QED
    BY <2>1, <2>2
<1>7. {i \in Selected : i <= line} =
        {i \in Selected : i <= at[r]} \cup {i \in {line} : i \in Selected}
  <2>1. \A i \in Selected : i \in Nat
    BY Numbers DEF Selected
  <2> QED
    BY <1>2, <2>1
<1>8. at' \in [Runs -> 0 .. Len(Archive)] /\ at'[r] = line
  BY <1>1, <1>2, <1>3, Numbers DEF ArchiveInv, TypeOK
<1>9. \A q \in Runs \ {r} : at'[q] = at[q] /\ rpc'[q] = rpc[q]
  BY <1>3 DEF ArchiveInv, TypeOK
<1>10. CASE line \in Selected
  <2>1. w \in Kinds /\ kept[r][w] < Budget[w] /\ Keep(r, line, w)
    BY <1>6, <1>10 DEF ReadLine, Kinds
  <2>2. /\ kept' = [kept EXCEPT ![r][w] = @ + 1]
        /\ pending' = [pending EXCEPT ![r] = @ \cup {line}]
        /\ observations' = [observations EXCEPT ![r] = @ \cup {line}]
    BY <2>1 DEF Keep
  <2>3. Cardinality(pending[r] \cup {line}) <= BatchSize
    <3>1. IsFiniteSet(pending[r]) /\ Cardinality(pending[r]) \in Nat
      BY PartFinite DEF ArchiveInv, TypeOK
    <3>2. /\ Cardinality(pending[r] \cup {line}) \in Nat
          /\ Cardinality(pending[r] \cup {line}) <= Cardinality(pending[r]) + 1
      BY <3>1, AtMostOneMore
    <3> QED
      BY <1>1, <3>1, <3>2, Numbers
  <2>4. kept' \in [Runs -> [candidate : 0 .. CandidateBudget,
                            sampled : 0 .. BackgroundBudget]]
    <3> DEFINE Kept == [candidate : 0 .. CandidateBudget, sampled : 0 .. BackgroundBudget]
    <3>1. kept \in [Runs -> Kept] /\ kept[r] \in Kept
      BY DEF ArchiveInv, TypeOK
    <3>2. CandidateBudget \in Nat /\ BackgroundBudget \in Nat
      BY ArchiveAssumption
    <3>3. w = "candidate" \/ w = "sampled"
      BY <2>1 DEF Kinds
    <3>4. [kept[r] EXCEPT ![w] = @ + 1] \in Kept
      <4>1. CASE w = "candidate"
        BY <2>1, <3>1, <3>2, <4>1 DEF Budget
      <4>2. CASE w = "sampled"
        BY <2>1, <3>1, <3>2, <4>2 DEF Budget
      <4> QED
        BY <3>3, <4>1, <4>2
    <3>5. kept' = [kept EXCEPT ![r] = [kept[r] EXCEPT ![w] = @ + 1]]
      BY <2>2
    <3> QED
      BY <3>1, <3>4, <3>5
  <2>5. /\ \A k \in Kinds : kept'[r][k] = IF k = w THEN kept[r][k] + 1 ELSE kept[r][k]
        /\ pending'[r] = pending[r] \cup {line}
        /\ observations'[r] = observations[r] \cup {line}
        /\ \A q \in Runs \ {r} :
             kept'[q] = kept[q] /\ pending'[q] = pending[q]
             /\ observations'[q] = observations[q]
    BY <2>1, <2>2 DEF ArchiveInv, TypeOK, Kinds
  <2>6. TypeOK'
    BY <1>2, <1>3, <1>8, <2>2, <2>3, <2>4, <2>5 DEF ArchiveInv, TypeOK
  <2>7. \A k \in Kinds : Counts(r, k)'
    <3> SUFFICES ASSUME NEW k \in Kinds PROVE Counts(r, k)'
      OBVIOUS
    <3>1. Counts(r, k) /\ kept'[r][k] = IF k = w THEN kept[r][k] + 1 ELSE kept[r][k]
      BY <1>4, <2>5
    <3>2. CASE k = w
      <4>1. kept[r][k] = Cardinality(OfKind(k, at[r])) /\ kept[r][k] < Budget[k]
        BY <1>5, <2>1, <3>1, <3>2 DEF Counts
      <4>2. /\ Cardinality(OfKind(k, line)) = Cardinality(OfKind(k, at[r])) + 1
            /\ Cardinality(OfKind(k, at[r])) \in Nat /\ Budget[k] \in Nat
        BY <1>5, <3>2
      <4>3. kept'[r][k] = kept[r][k] + 1
        BY <3>1, <3>2
      <4>4. Cardinality(OfKind(k, at'[r])) = kept'[r][k] /\ kept'[r][k] <= Budget[k]
        BY <1>8, <4>1, <4>2, <4>3
      <4> QED
        BY <4>4 DEF Counts, OfKind, Budget
    <3>3. CASE k # w
      BY <1>5, <1>8, <3>1, <3>3 DEF Counts, Budget
    <3> QED
      BY <3>2, <3>3
  <2>8. Collecting(r)' /\ Collected(r)'
    <3>1. observations'[r] = {i \in Selected : i <= at'[r]}
      BY <1>4, <1>7, <1>8, <1>10, <2>5
    <3>2. /\ pending'[r] \subseteq observations'[r]
          /\ observations'[r] \subseteq stored' \cup pending'[r]
      BY <1>3, <1>4, <2>5
    <3>3. rpc'[r] = "collect" /\ at'[r] <= ScanLimit
      BY <1>1, <1>2, <1>3, <1>8
    <3>4. Selected' = Selected
      BY DEF Selected, Earlier, Lines, Budget
    <3> QED
      BY <2>7, <3>1, <3>2, <3>3, <3>4 DEF Collecting, Collected
  <2>9. \A q \in Runs \ {r} : Collecting(q)' /\ Collected(q)'
    BY <1>3, <1>9, <2>5, Others
  <2> QED
    BY <1>3, <2>6, <2>8, <2>9
       DEF ArchiveInv, CompleteMeansStored, NothingBeyondSelection, LakeIsSelection
<1>11. CASE line \notin Selected
  <2>1. UNCHANGED <<kept, pending, observations>>
    BY <1>2, <1>6, <1>11 DEF ReadLine, Kinds
  <2>2. TypeOK'
    BY <1>3, <1>8, <2>1 DEF ArchiveInv, TypeOK
  <2>3. \A k \in Kinds : Counts(r, k)'
    <3> SUFFICES ASSUME NEW k \in Kinds PROVE Counts(r, k)'
      OBVIOUS
    <3>1. Counts(r, k) /\ kept'[r][k] = kept[r][k]
      BY <1>4, <2>1
    <3>2. CASE k = w
      <4>1. ~(kept[r][w] < Budget[w])
        BY <1>6, <1>11, <3>2
      <4> QED
        BY <1>5, <1>8, <3>1, <3>2, <4>1 DEF Counts, Budget
    <3>3. CASE k # w
      BY <1>5, <1>8, <3>1, <3>3 DEF Counts, Budget
    <3> QED
      BY <3>2, <3>3
  <2>4. Collecting(r)' /\ Collected(r)'
    BY <1>1, <1>2, <1>3, <1>4, <1>7, <1>8, <1>11, <2>1, <2>3
       DEF Collecting, Collected
  <2>5. \A q \in Runs \ {r} : Collecting(q)' /\ Collected(q)'
    BY <1>3, <1>9, <2>1, Others
  <2> QED
    BY <1>3, <2>2, <2>4, <2>5
       DEF ArchiveInv, CompleteMeansStored, NothingBeyondSelection, LakeIsSelection
<1> QED
  BY <1>10, <1>11

(* An emptied batch is not too large. *)
LEMMA EmptiedBatch ==
  ASSUME TypeOK, NEW r \in Runs, pending' = [pending EXCEPT ![r] = {}]
  PROVE  /\ pending' \in [Runs -> SUBSET Lines]
         /\ \A q \in Runs : Cardinality(pending'[q]) <= BatchSize
<1>1. pending \in [Runs -> SUBSET Lines]
  BY DEF TypeOK
<1>2. pending' \in [Runs -> SUBSET Lines]
  BY <1>1
<1>3. ASSUME NEW q \in Runs PROVE Cardinality(pending'[q]) <= BatchSize
  <2>1. Cardinality({}) = 0 /\ BatchSize >= 0
    BY FS_EmptySet, Numbers
  <2>2. CASE q = r
    <3>1. pending'[q] = {}
      BY <1>1, <2>2
    <3> QED
      BY <2>1, <3>1
  <2>3. CASE q # r
    <3>1. pending'[q] = pending[q]
      BY <1>1, <2>3
    <3> QED
      BY <3>1 DEF TypeOK
  <2> QED
    BY <2>2, <2>3
<1> QED
  BY <1>2, <1>3

(* A commit moves a batch from the memory of a run to the store. *)
LEMMA FlushStep ==
  ASSUME ArchiveInv, NEW r \in Runs, Flush(r) PROVE ArchiveInv'
<1>1. /\ rpc[r] = "collect"
      /\ stored' = stored \cup pending[r]
      /\ pending' = [pending EXCEPT ![r] = {}]
      /\ UNCHANGED <<status, lake, rpc, at, kept, observations, faults>>
  BY DEF Flush
<1>2. /\ pending[r] \subseteq observations[r]
      /\ observations[r] = {i \in Selected : i <= at[r]}
      /\ observations[r] \subseteq stored \cup pending[r]
      /\ at[r] <= ScanLimit /\ \A w \in Kinds : Counts(r, w)
  BY <1>1 DEF ArchiveInv, Collecting
<1>3. TypeOK'
  <2>1. /\ pending' \in [Runs -> SUBSET Lines]
        /\ \A q \in Runs : Cardinality(pending'[q]) <= BatchSize
    BY <1>1, EmptiedBatch DEF ArchiveInv
  <2>2. stored' \subseteq Lines
    BY <1>1 DEF ArchiveInv, TypeOK
  <2> QED
    BY <1>1, <2>1, <2>2 DEF ArchiveInv, TypeOK
<1>4. pending'[r] = {} /\ \A q \in Runs \ {r} : pending'[q] = pending[q]
  BY <1>1 DEF ArchiveInv, TypeOK
<1>5. Collecting(r)' /\ Collected(r)'
  BY <1>1, <1>2, <1>4 DEF Collecting, Collected, Counts
<1>6. \A q \in Runs \ {r} : Collecting(q)' /\ Collected(q)'
  BY <1>1, <1>4, Others
<1>7. stored \subseteq stored' /\ stored' \subseteq Selected
  BY <1>1, <1>2 DEF ArchiveInv, NothingBeyondSelection
<1> QED
  BY <1>1, <1>3, <1>5, <1>6, <1>7
     DEF ArchiveInv, CompleteMeansStored, NothingBeyondSelection, LakeIsSelection

(* At the end of its stream a run has the whole selection. *)
LEMMA EndStep ==
  ASSUME ArchiveInv, NEW r \in Runs, EndStream(r) PROVE ArchiveInv'
<1>1. /\ rpc[r] = "collect" /\ Scanned(r)
      /\ stored' = stored \cup pending[r]
      /\ pending' = [pending EXCEPT ![r] = {}]
      /\ rpc' = [rpc EXCEPT ![r] = "analyze"]
      /\ UNCHANGED <<status, lake, at, kept, observations, faults>>
  BY DEF EndStream, Goto
<1>2. /\ pending[r] \subseteq observations[r]
      /\ observations[r] = {i \in Selected : i <= at[r]}
      /\ observations[r] \subseteq stored \cup pending[r]
  BY <1>1 DEF ArchiveInv, Collecting
<1>3. observations[r] = Selected
  <2>1. at[r] = Len(Archive) \/ at[r] >= ScanLimit
    BY <1>1 DEF Scanned
  <2>2. \A i \in Selected : i \in Nat /\ i <= Len(Archive) /\ i <= ScanLimit
    BY Numbers DEF Selected
  <2>3. at[r] \in Nat
    BY Numbers DEF ArchiveInv, TypeOK
  <2>4. \A i \in Selected : i <= at[r]
    BY <2>1, <2>2, <2>3, Numbers
  <2> QED
    BY <1>2, <2>4
<1>4. TypeOK'
  <2>1. /\ pending' \in [Runs -> SUBSET Lines]
        /\ \A q \in Runs : Cardinality(pending'[q]) <= BatchSize
    BY <1>1, EmptiedBatch DEF ArchiveInv
  <2>2. stored' \subseteq Lines
    BY <1>1 DEF ArchiveInv, TypeOK
  <2> QED
    BY <1>1, <2>1, <2>2 DEF ArchiveInv, TypeOK
<1>5. /\ rpc'[r] = "analyze"
      /\ \A q \in Runs \ {r} : pending'[q] = pending[q] /\ rpc'[q] = rpc[q]
  BY <1>1 DEF ArchiveInv, TypeOK
<1>6. Selected \subseteq stored' /\ stored' \subseteq Selected
  BY <1>1, <1>2, <1>3 DEF ArchiveInv, NothingBeyondSelection
<1>7. Collecting(r)' /\ Collected(r)'
  BY <1>1, <1>3, <1>5, <1>6 DEF Collecting, Collected
<1>8. \A q \in Runs \ {r} : Collecting(q)' /\ Collected(q)'
  BY <1>1, <1>5, Others
<1> QED
  BY <1>1, <1>4, <1>6, <1>7, <1>8
     DEF ArchiveInv, CompleteMeansStored, NothingBeyondSelection, LakeIsSelection

(* A run starts with nothing in memory. *)
LEMMA StartStep ==
  ASSUME ArchiveInv, NEW r \in Runs, StartPartition(r) PROVE ArchiveInv'
<1>1. /\ status' = "running"
      /\ at' = [at EXCEPT ![r] = 0]
      /\ kept' = [kept EXCEPT ![r] = NothingKept]
      /\ pending' = [pending EXCEPT ![r] = {}]
      /\ observations' = [observations EXCEPT ![r] = {}]
      /\ rpc' = [rpc EXCEPT ![r] = "collect"]
      /\ UNCHANGED <<stored, lake, faults>>
  BY DEF StartPartition, Goto
<1>2. Cardinality({}) = 0
  BY FS_EmptySet
<1>3. NothingKept \in [candidate : 0 .. CandidateBudget, sampled : 0 .. BackgroundBudget]
  BY ArchiveAssumption DEF NothingKept
<1>4. TypeOK'
  BY <1>1, <1>2, <1>3, Numbers DEF ArchiveInv, TypeOK
<1>5. /\ rpc'[r] = "collect" /\ at'[r] = 0 /\ kept'[r] = NothingKept
      /\ pending'[r] = {} /\ observations'[r] = {}
      /\ \A q \in Runs \ {r} :
           /\ rpc'[q] = rpc[q] /\ at'[q] = at[q] /\ kept'[q] = kept[q]
           /\ pending'[q] = pending[q] /\ observations'[q] = observations[q]
  BY <1>1 DEF ArchiveInv, TypeOK
<1>6. \A w \in Kinds : OfKind(w, 0) = {} /\ NothingKept[w] = 0 /\ Budget[w] \in Nat
  BY Numbers DEF OfKind, NothingKept, Kinds
<1>7. \A w \in Kinds : Counts(r, w)'
  BY <1>2, <1>5, <1>6 DEF Counts, OfKind, Budget
<1>8. {i \in Selected : i <= 0} = {}
  BY Numbers DEF Selected
<1>9. Collecting(r)' /\ Collected(r)'
  BY <1>5, <1>7, <1>8, Numbers DEF Collecting, Collected
<1>10. \A q \in Runs \ {r} : Collecting(q)' /\ Collected(q)'
  BY <1>1, <1>5, Others
<1> QED
  BY <1>1, <1>4, <1>9, <1>10
     DEF ArchiveInv, CompleteMeansStored, NothingBeyondSelection, LakeIsSelection

(* The other steps of a run change neither the store nor what it selected. *)
LEMMA RestStep ==
  ASSUME ArchiveInv, NEW r \in Runs,
         \/ LookAtPartition(r) \/ BreakOff(r) \/ FinishFailed(r) \/ SaveBundles(r)
         \/ FinishComplete(r) \/ WriteParquet(r) \/ ExportFails(r) \/ Kill(r)
  PROVE  ArchiveInv'
<1>1. UNCHANGED <<stored, at, kept, observations>>
  BY DEF LookAtPartition, BreakOff, FinishFailed, SaveBundles, FinishComplete,
         WriteParquet, ExportFails, Kill, runVars
<1>2. \/ UNCHANGED pending
      \/ pending' = [pending EXCEPT ![r] = {}]
  BY DEF LookAtPartition, BreakOff, FinishFailed, SaveBundles, FinishComplete,
         WriteParquet, ExportFails, Kill, runVars
<1>3. PICK l \in {"off", "start", "fail", "finish", "export"} :
        rpc' = [rpc EXCEPT ![r] = l]
  BY DEF LookAtPartition, BreakOff, FinishFailed, SaveBundles, FinishComplete,
         WriteParquet, ExportFails, Kill, Goto
<1>4. l \in {"finish", "export"} => rpc[r] \in {"analyze", "finish"}
  <2>1. rpc'[r] = l
    BY <1>3 DEF ArchiveInv, TypeOK
  <2> QED
    BY <1>3, <2>1
       DEF ArchiveInv, TypeOK, LookAtPartition, BreakOff, FinishFailed, SaveBundles,
           FinishComplete, WriteParquet, ExportFails, Kill, Goto
<1>5. status' = status \/ status' = "failed" \/ (status' = "complete" /\ rpc[r] = "finish")
  BY DEF LookAtPartition, BreakOff, FinishFailed, SaveBundles, FinishComplete,
         WriteParquet, ExportFails, Kill
<1>6. lake' = lake \/ (lake' = {observations[r]} /\ rpc[r] = "export")
  BY DEF LookAtPartition, BreakOff, FinishFailed, SaveBundles, FinishComplete,
         WriteParquet, ExportFails, Kill
<1>7. faults' \in 0 .. MaxFaults
  BY Numbers
     DEF ArchiveInv, TypeOK, LookAtPartition, BreakOff, FinishFailed, SaveBundles,
         FinishComplete, WriteParquet, ExportFails, Kill
<1>8. /\ rpc'[r] = l
      /\ \A q \in Runs \ {r} : rpc'[q] = rpc[q] /\ pending'[q] = pending[q]
  BY <1>2, <1>3 DEF ArchiveInv, TypeOK
<1>9. CompleteMeansStored'
  BY <1>1, <1>5 DEF ArchiveInv, Collected, CompleteMeansStored
<1>10. LakeIsSelection'
  BY <1>6 DEF ArchiveInv, Collected, LakeIsSelection
<1>11. TypeOK'
  <2>1. /\ pending' \in [Runs -> SUBSET Lines]
        /\ \A q \in Runs : Cardinality(pending'[q]) <= BatchSize
    <3>1. CASE UNCHANGED pending
      BY <3>1 DEF ArchiveInv, TypeOK
    <3>2. CASE pending' = [pending EXCEPT ![r] = {}]
      BY <3>2, EmptiedBatch DEF ArchiveInv
    <3> QED
      BY <1>2, <3>1, <3>2
  <2>2. lake' \subseteq SUBSET Lines /\ Cardinality(lake') <= 1
    <3>1. CASE lake' = lake
      BY <3>1 DEF ArchiveInv, TypeOK
    <3>2. CASE lake' = {observations[r]}
      <4>1. observations[r] \in SUBSET Lines
        BY DEF ArchiveInv, TypeOK
      <4>2. Cardinality({observations[r]}) = 1
        BY FS_Singleton
      <4> QED
        BY <3>2, <4>1, <4>2
    <3> QED
      BY <1>6, <3>1, <3>2
  <2>3. rpc' \in [Runs -> {"off", "start", "collect", "analyze", "fail",
                           "finish", "export"}]
    BY <1>3 DEF ArchiveInv, TypeOK
  <2>4. status' \in {"none", "running", "complete", "failed"}
    BY <1>5 DEF ArchiveInv, TypeOK
  <2> QED
    BY <1>1, <1>7, <2>1, <2>2, <2>3, <2>4 DEF ArchiveInv, TypeOK
<1>12. Collecting(r)' /\ Collected(r)'
  BY <1>1, <1>4, <1>8 DEF ArchiveInv, Collecting, Collected
<1>13. \A q \in Runs \ {r} : Collecting(q)' /\ Collected(q)'
  BY <1>1, <1>8, Others
<1> QED
  BY <1>1, <1>9, <1>10, <1>11, <1>12, <1>13 DEF ArchiveInv, NothingBeyondSelection

LEMMA ArchiveStep == ArchiveInv /\ [Next]_vars => ArchiveInv'
<1> SUFFICES ASSUME ArchiveInv, [Next]_vars PROVE ArchiveInv'
  OBVIOUS
<1>1. CASE UNCHANGED vars
  BY <1>1 DEF vars, runVars, ArchiveInv, TypeOK, Collecting, Collected, Counts,
              CompleteMeansStored, NothingBeyondSelection, LakeIsSelection
<1>2. ASSUME NEW r \in Runs, Work(r) PROVE ArchiveInv'
  BY <1>2, StartStep, ReadStep, FlushStep, EndStep, RestStep DEF Work
<1>3. ASSUME NEW r \in Runs,
             LookAtPartition(r) \/ BreakOff(r) \/ ExportFails(r) \/ Kill(r)
      PROVE  ArchiveInv'
  BY <1>3, RestStep
<1> QED
  BY <1>1, <1>2, <1>3 DEF Next

THEOREM ArchiveAlways == Spec => []ArchiveInv
BY ArchiveInit, ArchiveStep, PTL DEF Spec

-----------------------------------------------------------------------------
(* The partition, the counters and the batches of every run keep their
   types: a counter never exceeds its budget, a batch never its size. *)
THEOREM ArchiveTyped == Spec => []TypeOK
<1>1. ArchiveInv => TypeOK
  BY DEF ArchiveInv
<1> QED
  BY <1>1, ArchiveAlways, PTL

(* A complete hour is in the store with all that its budgets admit, however
   many runs of it broke, were killed or overlapped before. *)
THEOREM CompleteHourIsStored == Spec => []CompleteMeansStored
<1>1. ArchiveInv => CompleteMeansStored
  BY DEF ArchiveInv
<1> QED
  BY <1>1, ArchiveAlways, PTL

(* No number of runs stores more of an hour than one run would. *)
THEOREM RepeatedRunsStoreNoMore == Spec => []NothingBeyondSelection
<1>1. ArchiveInv => NothingBeyondSelection
  BY DEF ArchiveInv
<1> QED
  BY <1>1, ArchiveAlways, PTL

(* A Parquet file holds exactly the selection. *)
THEOREM ParquetHoldsSelection == Spec => []LakeIsSelection
<1>1. ArchiveInv => LakeIsSelection
  BY DEF ArchiveInv
<1> QED
  BY <1>1, ArchiveAlways, PTL

=============================================================================
