----------------------------- MODULE AlertBook -----------------------------
(***************************************************************************)
(* The monitor_alerts table of the AgentTrace store, as every other part   *)
(* of the system sees it: a row is opened at most once per fingerprint,    *)
(* under the next AUTOINCREMENT id, and leaves 'pending' at most once.     *)
(*                                                                         *)
(* An alert id is the position of its row in book.  Spec is the promise of *)
(* the table alone; GatedSpec is the promise of the monitor that writes    *)
(* it: an alert is opened only while no other one waits for review.        *)
(***************************************************************************)
EXTENDS Naturals, Sequences

CONSTANT Fingerprints   \* the identities an alert can have (sets of URLs)

VARIABLE book           \* the rows, in the order of their ids

Resolutions == {"reviewed", "false-positive", "escalated", "classification-error"}
Statuses == Resolutions \cup {"pending"}
Rows == [fp : Fingerprints, status : Statuses]

BookType == book \in Seq(Rows)

Ids == 1 .. Len(book)
Opened == {book[i].fp : i \in Ids}
IsPending(i) == book[i].status = "pending"
Pending == {i \in Ids : IsPending(i)}

(* The row of a fingerprint that has been opened. *)
IdOf(f) == CHOOSE i \in Ids : book[i].fp = f

(* pending_alert: the pending row with the lowest id. *)
FirstPending == CHOOSE i \in Pending : \A j \in Pending : i <= j

Open(f) == /\ f \notin Opened
           /\ book' = Append(book, [fp |-> f, status |-> "pending"])

(* create_alert: INSERT OR IGNORE, so a fingerprint that already has a row
   keeps it, whatever its status. *)
CreateAlert(f) == Open(f) \/ (f \in Opened /\ UNCHANGED book)

Resolve(i, s) == /\ i \in Pending
                 /\ book' = [book EXCEPT ![i].status = s]

(* A wrong form of ResolveAlert: the UPDATE lacks its "status='pending'". *)
ResolveAnyway(i, s) == /\ i \in Ids
                       /\ book' = [book EXCEPT ![i].status = s]

(* resolve_alert: the UPDATE matches nothing when the row is not pending. *)
ResolveAlert(i, s) == Resolve(i, s) \/ (i \notin Pending /\ UNCHANGED book)

Init == book = << >>

SomeResolve == \E i \in Ids, s \in Resolutions : Resolve(i, s)

Next == (\E f \in Fingerprints : Open(f)) \/ SomeResolve

Spec == Init /\ [][Next]_book

GatedNext == (Pending = {} /\ \E f \in Fingerprints : Open(f)) \/ SomeResolve

GatedSpec == Init /\ [][GatedNext]_book

-----------------------------------------------------------------------------
(* No two rows are about the same evidence. *)
DistinctFingerprints == \A i, j \in Ids : book[i].fp = book[j].fp => i = j

(* At most one alert waits for review. *)
AtMostOnePending == \A i, j \in Pending : i = j

(* A resolution is final, and no row is ever lost or renumbered. *)
ResolvedForGood ==
  [][\A i \in Ids : i \in Ids' /\ (i \notin Pending => book'[i] = book[i])]_book

=============================================================================
