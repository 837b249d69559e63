-------------------------- MODULE Notifier_proofs --------------------------
(***************************************************************************)
(* Proofs about the alert table, for any set of fingerprints, and about    *)
(* notify-email, which reads it, for any number of overlapping runs,       *)
(* alerts and aborted runs.                                                *)
(***************************************************************************)
EXTENDS Notifier, TLAPS

-----------------------------------------------------------------------------
(* The alert table: what its operations do to its rows.                    *)

(* Opening adds one pending row above all others. *)
LEMMA OpenFacts ==
  ASSUME BookType, NEW f \in Fingerprints, Open(f)
  PROVE  /\ BookType'
         /\ Len(book) \in Nat /\ Len(book') = Len(book) + 1
         /\ Ids' = Ids \cup {Len(book) + 1}
         /\ \A i \in Ids : book'[i] = book[i]
         /\ book'[Len(book) + 1] = [fp |-> f, status |-> "pending"]
         /\ Pending' = Pending \cup {Len(book) + 1}
<1> DEFINE row == [fp |-> f, status |-> "pending"]
<1>0. row \in Rows /\ book \in Seq(Rows) /\ book' = Append(book, row)
  BY DEF BookType, Open, Rows, Statuses
<1>1. /\ book' \in Seq(Rows)
      /\ Len(book) \in Nat /\ Len(book') = Len(book) + 1
      /\ \A i \in 1 .. Len(book) : book'[i] = book[i]
      /\ book'[Len(book) + 1] = row
  BY <1>0
<1>2. Ids' = Ids \cup {Len(book) + 1}
  BY <1>1 DEF Ids
<1>3. Pending' = Pending \cup {Len(book) + 1}
  BY <1>1, <1>2 DEF Pending, IsPending, Ids
<1> QED
  BY <1>1, <1>2, <1>3 DEF BookType, Ids

(* Resolving takes one row out of the pending ones and touches no other. *)
LEMMA ResolveFacts ==
  ASSUME BookType, NEW i, NEW s \in Resolutions, Resolve(i, s)
  PROVE  /\ BookType' /\ i \in Pending
         /\ Len(book) \in Nat /\ Len(book') = Len(book) /\ Ids' = Ids
         /\ \A j \in Ids : book'[j].fp = book[j].fp
         /\ \A j \in Ids \ {i} : book'[j] = book[j]
         /\ book'[i].status = s
         /\ Pending' = Pending \ {i}
<1>0. /\ i \in Ids /\ i \in Pending /\ book \in Seq(Rows)
      /\ book' = [book EXCEPT ![i].status = s]
  BY DEF BookType, Resolve, Pending
<1>1. book[i] \in Rows /\ s \in Statuses
  BY <1>0 DEF Ids, Statuses
<1>2. [book[i] EXCEPT !.status = s] \in Rows
  BY <1>1 DEF Rows
<1>3. book' = [book EXCEPT ![i] = [book[i] EXCEPT !.status = s]]
  BY <1>0
<1>4. /\ book' \in Seq(Rows) /\ Len(book) \in Nat /\ Len(book') = Len(book)
      /\ \A j \in Ids \ {i} : book'[j] = book[j]
      /\ book'[i] = [book[i] EXCEPT !.status = s]
  BY <1>0, <1>2, <1>3 DEF Ids
<1>5. book'[i].fp = book[i].fp /\ book'[i].status = s
  BY <1>1, <1>4 DEF Rows
<1>6. s # "pending"
  BY DEF Resolutions
<1>7. Ids' = Ids
  BY <1>4 DEF Ids
<1>8. Pending' = Pending \ {i}
  BY <1>0, <1>4, <1>5, <1>6, <1>7 DEF Pending, IsPending
<1> QED
  BY <1>0, <1>4, <1>5, <1>7, <1>8 DEF BookType

-----------------------------------------------------------------------------
BookInv == BookType /\ DistinctFingerprints

LEMMA BookStep ==
  ASSUME BookInv, Next
  PROVE  BookInv' /\ \A i \in Ids : i \in Ids' /\ (i \notin Pending => book'[i] = book[i])
<1>1. CASE \E f \in Fingerprints : Open(f)
  <2>1. PICK f \in Fingerprints : Open(f)
    BY <1>1
  <2>2. \A i \in Ids : book[i].fp # f
    BY <2>1 DEF Open, Opened
  <2>3. /\ BookType' /\ Len(book) \in Nat
        /\ Ids' = Ids \cup {Len(book) + 1}
        /\ \A i \in Ids : book'[i] = book[i]
        /\ book'[Len(book) + 1] = [fp |-> f, status |-> "pending"]
    BY <2>1, OpenFacts DEF BookInv
  <2>4. book'[Len(book) + 1].fp = f
    BY <2>3
  <2>5. DistinctFingerprints'
    BY <2>2, <2>3, <2>4 DEF BookInv, DistinctFingerprints
  <2> QED
    BY <2>3, <2>5 DEF BookInv
<1>2. CASE SomeResolve
  BY <1>2, ResolveFacts DEF SomeResolve, BookInv, DistinctFingerprints
<1> QED
  BY <1>1, <1>2 DEF Next

LEMMA BookStutter == BookInv /\ UNCHANGED book => BookInv'
BY DEF BookInv, BookType, DistinctFingerprints, Ids

LEMMA BookInit == Init => BookInv
BY DEF Init, BookInv, BookType, DistinctFingerprints, Ids

(* The table never holds two rows for the same evidence: INSERT OR IGNORE
   on a UNIQUE fingerprint. *)
THEOREM TableHasDistinctFingerprints == Spec => []DistinctFingerprints
<1>1. BookInv /\ [Next]_book => BookInv'
  BY BookStep, BookStutter
<1>2. BookInv => DistinctFingerprints
  BY DEF BookInv
<1> QED
  BY <1>1, <1>2, BookInit, PTL DEF Spec

(* A resolved alert is never reopened, changed or removed. *)
THEOREM ResolutionsAreFinal == Spec => ResolvedForGood
<1>1. BookInv /\ [Next]_book => BookInv'
  BY BookStep, BookStutter
<1>2. BookInv /\ [Next]_book
        => [\A i \in Ids : i \in Ids' /\ (i \notin Pending => book'[i] = book[i])]_book
  BY BookStep
<1> QED
  BY <1>1, <1>2, BookInit, PTL DEF Spec, ResolvedForGood

(* A monitor that opens alerts only while none is pending has at most one
   pending alert, and keeps the promise of the table. *)
THEOREM GateKeepsOnePending == GatedSpec => []AtMostOnePending /\ Spec
<1>1. GatedNext => Next
  BY DEF GatedNext, Next
<1>2. BookInv /\ AtMostOnePending /\ [GatedNext]_book => BookInv' /\ AtMostOnePending'
  <2> SUFFICES ASSUME BookInv, AtMostOnePending, [GatedNext]_book
               PROVE  BookInv' /\ AtMostOnePending'
    OBVIOUS
  <2>1. BookInv'
    BY <1>1, BookStep, BookStutter
  <2>2. CASE Pending = {} /\ \E f \in Fingerprints : Open(f)
    BY <2>1, <2>2, OpenFacts DEF BookInv, AtMostOnePending
  <2>3. CASE SomeResolve
    BY <2>1, <2>3, ResolveFacts DEF SomeResolve, BookInv, AtMostOnePending
  <2>4. CASE UNCHANGED book
    BY <2>1, <2>4 DEF AtMostOnePending, Pending, Ids, IsPending
  <2> QED
    BY <2>2, <2>3, <2>4 DEF GatedNext
<1>3. Init => AtMostOnePending
  BY DEF Init, AtMostOnePending, Pending, Ids
<1> QED
  BY <1>1, <1>2, <1>3, BookInit, PTL DEF Spec, GatedSpec

-----------------------------------------------------------------------------
(* The notifier.                                                           *)

(* Every pending alert up to the id k has been mailed. *)
Covered(k) == \A i \in Ids : i <= k /\ IsPending(i) => sent[i] > 0

(* The rows below a queued one are queued as well, were mailed, or have
   been resolved. *)
QueueClosed(n) ==
  \A q \in queue[n] : \A i \in Pending : i < q => i \in queue[n] \/ sent[i] > 0

(* Between a delivery and its commit the head of the queue has been mailed. *)
HeadMailed(n) ==
  npc[n] = "commit" => \A q \in queue[n] : IsHead(n, q) => sent[q] > 0

SkipInv ==
  /\ TypeOK
  /\ cursor <= Len(book) /\ Covered(cursor)
  /\ \A n \in Notifiers :
       /\ last[n] <= Len(book) /\ Covered(last[n])
       /\ queue[n] \subseteq Ids
       /\ QueueClosed(n) /\ HeadMailed(n)

LEMMA SkipInit == NInit => SkipInv
BY NotifierAssumption, BookInit
   DEF NInit, Init, SkipInv, TypeOK, BookInv, Covered, QueueClosed, HeadMailed, Ids

(* A new alert is above everything the notifiers know of. *)
LEMMA SkipOpen == ASSUME SkipInv, OpenAlert PROVE SkipInv'
<1> USE DEF SkipInv
<1>1. PICK f \in Fingerprints : Open(f)
  BY DEF OpenAlert
<1>2. /\ BookType' /\ Len(book) \in Nat /\ Len(book') = Len(book) + 1
      /\ Ids' = Ids \cup {Len(book) + 1}
      /\ \A i \in Ids : book'[i] = book[i]
      /\ Pending' = Pending \cup {Len(book) + 1}
  BY <1>1, OpenFacts DEF TypeOK
<1>3. /\ sent' \in Seq(Nat) /\ Len(sent') = Len(book')
      /\ \A i \in Ids : sent'[i] = sent[i]
  BY <1>2 DEF OpenAlert, TypeOK, Ids
<1>4. UNCHANGED <<cursor, npc, last, queue, aborts>>
  BY DEF OpenAlert
<1>5. TypeOK'
  BY <1>2, <1>3, <1>4 DEF TypeOK
<1>6. ASSUME NEW k \in Nat, k <= Len(book), Covered(k) PROVE Covered(k)'
  <2> SUFFICES ASSUME NEW i \in Ids', i <= k, IsPending(i)' PROVE sent'[i] > 0
    BY DEF Covered
  <2>1. i \in Ids
    BY <1>2, <1>6
  <2>2. IsPending(i)
    BY <1>2, <2>1 DEF IsPending
  <2> QED
    BY <1>3, <1>6, <2>1, <2>2 DEF Covered
<1>7. cursor \in Nat /\ \A n \in Notifiers : last[n] \in Nat
  BY DEF TypeOK
<1>8. ASSUME NEW n \in Notifiers
      PROVE  /\ last'[n] <= Len(book') /\ Covered(last[n])'
             /\ queue'[n] \subseteq Ids' /\ QueueClosed(n)' /\ HeadMailed(n)'
  <2>1. queue[n] \subseteq Ids /\ queue'[n] = queue[n] /\ npc'[n] = npc[n]
    BY <1>4
  <2>2. QueueClosed(n)'
    <3> SUFFICES ASSUME NEW q \in queue[n], NEW i \in Pending', i < q
                 PROVE  i \in queue[n] \/ sent'[i] > 0
      BY <2>1 DEF QueueClosed
    <3>1. q \in Nat /\ q <= Len(book)
      BY <1>2, <2>1 DEF Ids
    <3>2. i \in Pending /\ i \in Ids
      BY <1>2, <3>1 DEF Pending
    <3> QED
      BY <1>3, <3>2 DEF QueueClosed
  <2>3. HeadMailed(n)'
    BY <1>3, <2>1 DEF HeadMailed, IsHead
  <2> QED
    BY <1>2, <1>4, <1>6, <1>7, <2>1, <2>2, <2>3
<1> QED
  BY <1>2, <1>4, <1>5, <1>6, <1>7, <1>8

(* Resolving an alert only takes an obligation away. *)
LEMMA SkipResolve == ASSUME SkipInv, ResolveSome PROVE SkipInv'
<1> USE DEF SkipInv
<1>1. PICK i \in Ids, s \in Resolutions : Resolve(i, s)
  BY DEF ResolveSome, SomeResolve
<1>2. /\ BookType' /\ Len(book) \in Nat /\ Len(book') = Len(book) /\ Ids' = Ids
      /\ Pending' = Pending \ {i}
  BY <1>1, ResolveFacts DEF TypeOK
<1>3. UNCHANGED <<cursor, npc, last, queue, sent, aborts>>
  BY DEF ResolveSome, nvars
<1>4. TypeOK'
  BY <1>2, <1>3 DEF TypeOK
<1>5. \A k : Covered(k) => Covered(k)'
  BY <1>2, <1>3 DEF Covered, Pending
<1>6. \A n \in Notifiers : QueueClosed(n)' /\ HeadMailed(n)'
  BY <1>2, <1>3 DEF QueueClosed, HeadMailed, IsHead
<1> QED
  BY <1>2, <1>3, <1>4, <1>5, <1>6

(* A step of one notifier.  Deliveries only add to sent, so what was
   covered stays covered. *)
LEMMA SkipRun == ASSUME SkipInv, NEW n \in Notifiers, Run(n) PROVE SkipInv'
<1> USE NotifierAssumption DEF SkipInv
<1>1. /\ book' = book /\ Ids' = Ids /\ Pending' = Pending
      /\ Len(book) \in Nat /\ Ids = 1 .. Len(book) /\ Pending \subseteq Ids
      /\ \A i \in Ids : IsPending(i)' = IsPending(i)
  BY DEF Run, ReadCursor, Select, Deliver, CommitCursor, FinishRun, FailRun,
         AbortAfterDelivery, Ids, Pending, IsPending, TypeOK, BookType
<1>2. /\ sent \in Seq(Nat) /\ Len(sent) = Len(book) /\ Ids = 1 .. Len(book)
      /\ cursor \in Nat /\ last \in [Notifiers -> Nat]
      /\ queue \in [Notifiers -> SUBSET (Nat \ {0})]
      /\ npc \in [Notifiers -> {"off", "select", "send", "commit"}]
      /\ aborts \in Nat /\ MaxAborts \in Nat
  BY DEF TypeOK, Ids
<1>3. CASE ReadCursor(n)
  <2>1. TypeOK'
    BY <1>1, <1>2, <1>3 DEF ReadCursor, NGoto, TypeOK, BookType
  <2>2. \A k : Covered(k)' = Covered(k)
    BY <1>1, <1>3 DEF ReadCursor, Covered
  <2>3. \A m \in Notifiers : last'[m] <= Len(book) /\ Covered(last'[m])
    BY <1>2, <1>3 DEF ReadCursor
  <2>4. \A m \in Notifiers : QueueClosed(m)' /\ HeadMailed(m)'
    BY <1>1, <1>2, <1>3 DEF ReadCursor, NGoto, QueueClosed, HeadMailed, IsHead
  <2> QED
    BY <1>1, <1>3, <2>1, <2>2, <2>3, <2>4 DEF ReadCursor, Covered
<1>4. CASE Select(n)
  <2>1. /\ queue' = [queue EXCEPT ![n] = {i \in Pending : i > last[n]}]
        /\ npc' = [npc EXCEPT ![n] = "send"]
        /\ UNCHANGED <<cursor, last, sent, aborts>>
    BY <1>4 DEF Select, NGoto
  <2>2. {i \in Pending : i > last[n]} \in SUBSET (Nat \ {0})
    <3>1. {i \in Pending : i > last[n]} \subseteq Pending
      OBVIOUS
    <3>2. Ids \subseteq Nat \ {0}
      BY <1>1
    <3> QED
      BY <1>1, <3>1, <3>2
  <2>3. TypeOK'
    BY <1>1, <1>2, <2>1, <2>2 DEF TypeOK, BookType
  <2>4. \A k : Covered(k)' = Covered(k)
    BY <1>1, <2>1 DEF Covered
  <2>5. \A m \in Notifiers : queue'[m] \subseteq Ids
    BY <1>1, <1>2, <2>1
  <2>6. QueueClosed(n)'
    <3> SUFFICES ASSUME NEW q \in queue'[n], NEW i \in Pending, i < q
                 PROVE  i \in queue'[n] \/ sent[i] > 0
      BY <1>1, <2>1 DEF QueueClosed
    <3>1. i > last[n] \/ i <= last[n]
      BY <1>1, <1>2
    <3>2. i <= last[n] => sent[i] > 0
      BY <1>1 DEF Covered, Pending
    <3> QED
      BY <1>2, <2>1, <3>1, <3>2
  <2>7. \A m \in Notifiers \ {n} : QueueClosed(m)'
    BY <1>1, <1>2, <2>1 DEF QueueClosed
  <2>8. \A m \in Notifiers : HeadMailed(m)'
    BY <1>2, <2>1 DEF HeadMailed, IsHead
  <2> QED
    BY <1>1, <2>1, <2>3, <2>4, <2>5, <2>6, <2>7, <2>8
<1>5. CASE Deliver(n)
  <2>1. PICK h \in queue[n] : IsHead(n, h) /\ sent' = [sent EXCEPT ![h] = @ + 1]
    BY <1>5 DEF Deliver
  <2>2. /\ npc' = [npc EXCEPT ![n] = "commit"]
        /\ UNCHANGED <<cursor, last, queue, aborts>>
    BY <1>5 DEF Deliver, NGoto
  <2>3. h \in Ids
    BY <2>1
  <2>4. /\ sent' \in Seq(Nat) /\ Len(sent') = Len(book)
        /\ \A i \in Ids : sent[i] \in Nat /\ sent'[i] \in Nat /\ sent'[i] >= sent[i]
        /\ sent'[h] > 0
    BY <1>2, <2>1, <2>3
  <2>5. TypeOK'
    BY <1>1, <1>2, <2>2, <2>4 DEF TypeOK, BookType
  <2>6. \A k : Covered(k) => Covered(k)'
    BY <1>1, <2>4 DEF Covered
  <2>7. ASSUME NEW m \in Notifiers PROVE QueueClosed(m)'
    <3>1. queue'[m] = queue[m] /\ Pending' = Pending
      BY <1>1, <2>2
    <3>2. ASSUME NEW q \in queue[m], NEW i \in Pending, i < q
          PROVE  i \in queue[m] \/ sent'[i] > 0
      <4>1. i \in queue[m] \/ sent[i] > 0
        BY <3>2 DEF QueueClosed
      <4>2. sent'[i] \in Nat /\ sent[i] \in Nat /\ sent'[i] >= sent[i]
        BY <2>4 DEF Pending
      <4> QED
        BY <4>1, <4>2
    <3> QED
      BY <3>1, <3>2 DEF QueueClosed
  <2>8. \A m \in Notifiers : HeadMailed(m)'
    <3> SUFFICES ASSUME NEW m \in Notifiers, npc'[m] = "commit",
                        NEW q \in queue[m], IsHead(m, q)
                 PROVE  sent'[q] > 0
      BY <2>2 DEF HeadMailed, IsHead
    <3>1. q \in Ids
      OBVIOUS
    <3>2. CASE m = n
      <4>1. q = h
        BY <1>1, <1>2, <2>1, <3>1, <2>3, <3>2 DEF IsHead
      <4> QED
        BY <2>4, <4>1
    <3>3. CASE m # n
      <4>1. sent[q] > 0
        BY <1>2, <2>2, <3>3 DEF HeadMailed
      <4> QED
        BY <2>4, <3>1, <4>1
    <3> QED
      BY <3>2, <3>3
  <2> QED
    BY <1>1, <2>2, <2>5, <2>6, <2>7, <2>8
<1>6. CASE CommitCursor(n)
  <2>1. PICK h \in queue[n] :
          IsHead(n, h) /\ cursor' = h /\ queue' = [queue EXCEPT ![n] = @ \ {h}]
    BY <1>6 DEF CommitCursor
  <2>2. /\ npc' = [npc EXCEPT ![n] = "send"] /\ npc[n] = "commit"
        /\ UNCHANGED <<last, sent, aborts>>
    BY <1>6 DEF CommitCursor, NGoto
  <2>3. h \in Ids /\ sent[h] > 0
    BY <2>1, <2>2 DEF HeadMailed
  <2>4. TypeOK'
    BY <1>1, <1>2, <2>1, <2>2, <2>3 DEF TypeOK, BookType
  <2>5. \A k : Covered(k)' = Covered(k)
    BY <1>1, <2>2 DEF Covered
  <2>6. Covered(h)
    <3> SUFFICES ASSUME NEW i \in Ids, i <= h, IsPending(i) PROVE sent[i] > 0
      BY DEF Covered
    <3>1. CASE i = h
      BY <2>3, <3>1
    <3>2. CASE i < h
      <4>1. i \notin queue[n]
        BY <1>1, <2>1, <2>3, <3>2 DEF IsHead
      <4> QED
        BY <2>1, <3>2, <4>1 DEF QueueClosed, Pending
    <3> QED
      BY <1>1, <2>3, <3>1, <3>2
  <2>7. \A m \in Notifiers : queue'[m] \subseteq queue[m]
    BY <1>2, <2>1
  <2>8. \A m \in Notifiers : QueueClosed(m)'
    <3>1. QueueClosed(n)'
      BY <1>1, <1>2, <2>1, <2>2, <2>3 DEF QueueClosed
    <3>2. \A m \in Notifiers \ {n} : QueueClosed(m)'
      BY <1>1, <1>2, <2>1, <2>2 DEF QueueClosed
    <3> QED
      BY <3>1, <3>2
  <2>9. \A m \in Notifiers : HeadMailed(m)'
    BY <1>2, <2>1, <2>2 DEF HeadMailed, IsHead
  <2> QED
    BY <1>1, <2>1, <2>2, <2>3, <2>4, <2>5, <2>6, <2>7, <2>8, <2>9
<1>7. CASE FinishRun(n) \/ FailRun(n) \/ AbortAfterDelivery(n)
  <2>1. /\ npc' = [npc EXCEPT ![n] = "off"] /\ queue' = [queue EXCEPT ![n] = {}]
        /\ UNCHANGED <<cursor, last, sent>> /\ aborts' \in 0 .. MaxAborts
    BY <1>7 DEF FinishRun, FailRun, AbortAfterDelivery, Leave, NGoto, TypeOK
  <2>2. TypeOK'
    BY <1>1, <1>2, <2>1 DEF TypeOK, BookType
  <2>3. \A k : Covered(k)' = Covered(k)
    BY <1>1, <2>1 DEF Covered
  <2>4. \A m \in Notifiers : queue'[m] \subseteq Ids /\ QueueClosed(m)' /\ HeadMailed(m)'
    BY <1>1, <1>2, <2>1 DEF QueueClosed, HeadMailed, IsHead
  <2> QED
    BY <1>1, <2>1, <2>2, <2>3, <2>4
<1> QED
  BY <1>3, <1>4, <1>5, <1>6, <1>7 DEF Run

LEMMA SkipStutter == SkipInv /\ UNCHANGED vars => SkipInv'
BY DEF SkipInv, TypeOK, BookType, Covered, QueueClosed, HeadMailed, IsHead,
       vars, nvars, Ids, Pending, IsPending

LEMMA SkipStep == SkipInv /\ [NNext]_vars => SkipInv'
BY SkipOpen, SkipResolve, SkipRun, SkipStutter DEF NNext

(* Every reachable state is well typed. *)
THEOREM NotifierTyped == NSpec => []TypeOK
<1>1. SkipInv => TypeOK
  BY DEF SkipInv
<1> QED
  BY <1>1, SkipInit, SkipStep, PTL DEF NSpec

(* The cursor of notify-email never passes a pending alert that was not
   mailed, for any number of overlapping and failing runs. *)
THEOREM CursorSkipsNoPendingAlert == NSpec => []NoPendingSkipped
<1>1. SkipInv => NoPendingSkipped
  BY DEF SkipInv, Covered, NoPendingSkipped
<1> QED
  BY <1>1, SkipInit, SkipStep, PTL DEF NSpec

-----------------------------------------------------------------------------
(* One notifier at a time, as the LaunchAgent runs it.                     *)

OneNotifier == \A m, n \in Notifiers : m = n

(* The cursor only moves on, and an alert above it was mailed only by runs
   that were aborted, or is the one whose commit comes next. *)
ResendInv ==
  /\ SkipInv
  /\ \A i \in Ids : sent[i] <= 1 + aborts
  /\ \A n \in Notifiers :
       /\ npc[n] = "select" => last[n] = cursor
       /\ \A q \in queue[n] : q > cursor
  /\ \A i \in Ids :
       \/ i <= cursor
       \/ sent[i] <= aborts
       \/ \E n \in Notifiers : npc[n] = "commit" /\ i \in queue[n] /\ IsHead(n, i)

LEMMA ResendInit == NInit => ResendInv
BY SkipInit DEF NInit, Init, ResendInv, Ids

LEMMA ResendOpen == ASSUME ResendInv, OpenAlert PROVE ResendInv'
<1>1. SkipInv /\ SkipInv'
  BY SkipOpen DEF ResendInv
<1>2. /\ Ids = 1 .. Len(book) /\ Ids' = 1 .. Len(book') /\ Len(book) \in Nat
      /\ cursor \in Nat /\ cursor <= Len(book) /\ aborts \in Nat
      /\ sent \in Seq(Nat) /\ Len(sent) = Len(book)
  BY <1>1 DEF SkipInv, TypeOK, BookType, Ids
<1>3. UNCHANGED <<cursor, npc, last, queue, aborts>> /\ sent' = Append(sent, 0)
  BY DEF OpenAlert
<1>4. Len(book') = Len(book) + 1
  BY <1>1, OpenFacts DEF OpenAlert, SkipInv, TypeOK
<1>5. \A i \in Ids' : (i \in Ids /\ sent'[i] = sent[i]) \/ sent'[i] = 0
  BY <1>2, <1>3, <1>4
<1>6. \A i \in Ids' : sent'[i] <= 1 + aborts
  BY <1>2, <1>5 DEF ResendInv
<1>7. \A i \in Ids' :
        \/ i <= cursor
        \/ sent'[i] <= aborts
        \/ \E n \in Notifiers : npc[n] = "commit" /\ i \in queue[n] /\ IsHead(n, i)
  BY <1>2, <1>5 DEF ResendInv
<1> QED
  BY <1>1, <1>3, <1>6, <1>7 DEF ResendInv, IsHead

LEMMA ResendResolve == ASSUME ResendInv, ResolveSome PROVE ResendInv'
<1>1. SkipInv'
  BY SkipResolve DEF ResendInv
<1>2. Ids' = Ids
  BY ResolveFacts DEF ResolveSome, SomeResolve, ResendInv, SkipInv, TypeOK
<1>3. UNCHANGED <<cursor, npc, last, queue, sent, aborts>>
  BY DEF ResolveSome, nvars
<1> QED
  BY <1>1, <1>2, <1>3 DEF ResendInv, IsHead

LEMMA ResendRun ==
  ASSUME OneNotifier, ResendInv, NEW n \in Notifiers, Run(n)
  PROVE  ResendInv' /\ cursor' >= cursor
<1>1. SkipInv /\ SkipInv'
  BY SkipRun DEF ResendInv
<1>2. /\ Ids = 1 .. Len(book) /\ Len(book) \in Nat
      /\ sent \in Seq(Nat) /\ Len(sent) = Len(book) /\ cursor \in Nat
      /\ last \in [Notifiers -> Nat]
      /\ queue \in [Notifiers -> SUBSET (Nat \ {0})]
      /\ npc \in [Notifiers -> {"off", "select", "send", "commit"}]
      /\ aborts \in Nat /\ \A i \in Ids : sent[i] \in Nat
  BY <1>1, NotifierAssumption DEF SkipInv, TypeOK, BookType, Ids
<1>3. book' = book /\ Ids' = Ids
  BY DEF Run, ReadCursor, Select, Deliver, CommitCursor, FinishRun, FailRun,
         AbortAfterDelivery, Ids
<1>4. /\ \A i \in Ids : sent[i] <= 1 + aborts
      /\ npc[n] = "select" => last[n] = cursor
      /\ \A q \in queue[n] : q > cursor
      /\ queue[n] \subseteq Ids
      /\ \A i \in Ids :
           \/ i <= cursor
           \/ sent[i] <= aborts
           \/ npc[n] = "commit" /\ i \in queue[n] /\ IsHead(n, i)
  BY <1>1 DEF ResendInv, OneNotifier, SkipInv
<1> DEFINE Goal ==
      /\ \A i \in Ids : sent'[i] <= 1 + aborts'
      /\ npc'[n] = "select" => last'[n] = cursor'
      /\ \A q \in queue'[n] : q > cursor'
      /\ \A i \in Ids :
           \/ i <= cursor'
           \/ sent'[i] <= aborts'
           \/ npc'[n] = "commit" /\ i \in queue'[n] /\ IsHead(n, i)'
<1>5. Goal /\ cursor' >= cursor
  <2>1. CASE ReadCursor(n)
    BY <1>2, <1>4, <2>1 DEF ReadCursor, NGoto, IsHead
  <2>2. CASE Select(n)
    BY <1>2, <1>4, <2>2 DEF Select, NGoto, IsHead
  <2>3. CASE Deliver(n)
    <3>1. PICK h \in queue[n] : IsHead(n, h) /\ sent' = [sent EXCEPT ![h] = @ + 1]
      BY <2>3 DEF Deliver
    <3>2. npc[n] = "send" /\ npc'[n] = "commit" /\ UNCHANGED <<cursor, last, queue, aborts>>
      BY <1>2, <2>3 DEF Deliver, NGoto
    <3>3. h \in Ids /\ h > cursor /\ sent[h] <= aborts
      BY <1>2, <1>4, <3>1, <3>2
    <3>4. \A i \in Ids : sent'[i] = IF i = h THEN sent[i] + 1 ELSE sent[i]
      BY <1>2, <3>1
    <3>5. ASSUME NEW i \in Ids PROVE sent'[i] <= 1 + aborts
      <4>1. sent[i] \in Nat /\ aborts \in Nat /\ sent[i] <= 1 + aborts
        BY <1>2, <1>4
      <4> QED
        BY <3>3, <3>4, <4>1
    <3>6. IsHead(n, h)'
      BY <3>1, <3>2 DEF IsHead
    <3>7. ASSUME NEW i \in Ids
          PROVE  i <= cursor \/ sent'[i] <= aborts \/ (i \in queue[n] /\ IsHead(n, i)')
      <4>1. CASE i = h
        BY <3>6, <4>1
      <4>2. CASE i # h
        BY <1>4, <3>2, <3>4, <4>2
      <4> QED
        BY <4>1, <4>2
    <3>8. npc'[n] # "select" /\ queue'[n] = queue[n] /\ cursor' = cursor /\ aborts' = aborts
      BY <3>2
    <3> QED
      BY <1>2, <1>4, <3>2, <3>5, <3>7, <3>8
  <2>4. CASE CommitCursor(n)
    <3>1. PICK h \in queue[n] :
            IsHead(n, h) /\ cursor' = h /\ queue' = [queue EXCEPT ![n] = @ \ {h}]
      BY <2>4 DEF CommitCursor
    <3>2. npc'[n] = "send" /\ UNCHANGED <<last, sent, aborts>>
      BY <1>2, <2>4 DEF CommitCursor, NGoto
    <3>3. h \in Ids /\ h > cursor
      BY <1>4
    <3>4. \A q \in queue'[n] : q > h
      BY <1>2, <1>4, <3>1, <3>3 DEF IsHead
    <3>5. \A i \in Ids : i <= h \/ sent[i] <= aborts
      BY <1>2, <1>4, <3>1, <3>3 DEF IsHead
    <3> QED
      BY <1>2, <1>4, <3>1, <3>2, <3>3, <3>4, <3>5
  <2>5. CASE FinishRun(n) \/ FailRun(n)
    BY <1>2, <1>4, <2>5 DEF FinishRun, FailRun, Leave, NGoto
  <2>6. CASE AbortAfterDelivery(n)
    BY <1>2, <1>4, <2>6 DEF AbortAfterDelivery, Leave, NGoto
  <2> QED
    BY <2>1, <2>2, <2>3, <2>4, <2>5, <2>6 DEF Run
<1> QED
  BY <1>1, <1>3, <1>5 DEF ResendInv, OneNotifier

LEMMA ResendStep ==
  ASSUME OneNotifier, ResendInv, [NNext]_vars PROVE ResendInv' /\ cursor' >= cursor
<1>0. cursor \in Nat
  BY DEF ResendInv, SkipInv, TypeOK
<1>1. CASE \E n \in Notifiers : Run(n)
  BY <1>1, ResendRun
<1>2. CASE OpenAlert
  BY <1>0, <1>2, ResendOpen DEF OpenAlert
<1>3. CASE ResolveSome
  BY <1>0, <1>3, ResendResolve DEF ResolveSome, nvars
<1>4. CASE UNCHANGED vars
  BY <1>0, <1>4, SkipStutter DEF ResendInv, vars, nvars, Ids, IsHead
<1> QED
  BY <1>1, <1>2, <1>3, <1>4 DEF NNext

(* With one notifier at a time, an alert is mailed again only for a run
   that was cut off between a delivery and its commit... *)
THEOREM ResendsOnlyAfterAborts ==
  ASSUME OneNotifier PROVE NSpec => []ResendsAreAborts
<1>1. ResendInv /\ [NNext]_vars => ResendInv'
  BY ResendStep
<1>2. ResendInv => ResendsAreAborts
  BY DEF ResendInv, ResendsAreAborts
<1> QED
  BY <1>1, <1>2, ResendInit, PTL DEF NSpec

(* ... and the cursor never moves back. *)
THEOREM CursorNeverMovesBack ==
  ASSUME OneNotifier PROVE NSpec => CursorMonotone
<1>1. ResendInv /\ [NNext]_vars => ResendInv'
  BY ResendStep
<1>2. ResendInv /\ [NNext]_vars => [cursor' >= cursor]_vars
  BY ResendStep
<1> QED
  BY <1>1, <1>2, ResendInit, PTL DEF NSpec, CursorMonotone

=============================================================================
