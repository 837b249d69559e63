------------------------------ MODULE Notifier ------------------------------
(***************************************************************************)
(* `agenttrace notify-email`: mails the pending alerts above a cursor kept *)
(* in monitor_state, one commit of the cursor per mail.                    *)
(*                                                                         *)
(* The alert table is AlertBook's: while a notifier runs, the monitor may  *)
(* open alerts and the analyst or the automatic reviewer may resolve them. *)
(* All runs here are for one recipient, hence one cursor.  A run may end   *)
(* at any point: the mail script may fail or time out, the process may be  *)
(* killed, the database may stay locked past the timeout.                  *)
(***************************************************************************)
EXTENDS AlertBook, FiniteSets

CONSTANTS
  Notifiers,   \* notifier processes that may overlap
  MaxAborts    \* bound: runs that end after a delivery and before its commit

ASSUME NotifierAssumption == MaxAborts \in Nat

VARIABLES
  cursor,      \* email_notified_alert_id of the recipient, 0 when absent
  npc,         \* where each notifier is
  last,        \* last_id read by each notifier
  queue,       \* alerts of each notifier's snapshot that are still to send
  sent,        \* history: mails delivered for each alert
  aborts       \* history: deliveries whose cursor commit never happened

nvars == <<cursor, npc, last, queue, sent, aborts>>
vars == <<book, nvars>>

TypeOK ==
  /\ BookType
  /\ cursor \in Nat
  /\ npc \in [Notifiers -> {"off", "select", "send", "commit"}]
  /\ last \in [Notifiers -> Nat]
  /\ queue \in [Notifiers -> SUBSET (Nat \ {0})]
  /\ sent \in Seq(Nat) /\ Len(sent) = Len(book)
  /\ aborts \in 0 .. MaxAborts

NInit ==
  /\ Init
  /\ cursor = 0
  /\ npc = [n \in Notifiers |-> "off"]
  /\ last = [n \in Notifiers |-> 0]
  /\ queue = [n \in Notifiers |-> {}]
  /\ sent = << >>
  /\ aborts = 0

NGoto(n, l) == npc' = [npc EXCEPT ![n] = l]

(* A wrong form of IsHead: newest alert first. *)
IsNewest(n, i) == i \in queue[n] /\ \A j \in queue[n] : j <= i

(* The rows of the snapshot are sent in the order of their ids. *)
IsHead(n, i) == i \in queue[n] /\ \A j \in queue[n] : i <= j

(* The cursor is read by a statement of its own. *)
ReadCursor(n) ==
  /\ npc[n] = "off"
  /\ last' = [last EXCEPT ![n] = cursor]
  /\ NGoto(n, "select")
  /\ UNCHANGED <<book, cursor, queue, sent, aborts>>

(* Wrong forms of Select: the cursor is ignored; the bound is off by one. *)
SelectAll(n) ==
  /\ npc[n] = "select"
  /\ queue' = [queue EXCEPT ![n] = Pending]
  /\ NGoto(n, "send")
  /\ UNCHANGED <<book, cursor, last, sent, aborts>>

SelectBeyond(n) ==
  /\ npc[n] = "select"
  /\ queue' = [queue EXCEPT ![n] = {i \in Pending : i > last[n] + 1}]
  /\ NGoto(n, "send")
  /\ UNCHANGED <<book, cursor, last, sent, aborts>>

(* One snapshot of the pending alerts serves the whole run. *)
Select(n) ==
  /\ npc[n] = "select"
  /\ queue' = [queue EXCEPT ![n] = {i \in Pending : i > last[n]}]
  /\ NGoto(n, "send")
  /\ UNCHANGED <<book, cursor, last, sent, aborts>>

(* send: the mail leaves.  The alert is not looked at again. *)
Deliver(n) ==
  /\ npc[n] = "send"
  /\ \E i \in queue[n] : IsHead(n, i) /\ sent' = [sent EXCEPT ![i] = @ + 1]
  /\ NGoto(n, "commit")
  /\ UNCHANGED <<book, cursor, last, queue, aborts>>

(* The cursor is set to the mailed id, whatever it is now. *)
CommitCursor(n) ==
  /\ npc[n] = "commit"
  /\ \E i \in queue[n] :
       /\ IsHead(n, i)
       /\ cursor' = i
       /\ queue' = [queue EXCEPT ![n] = @ \ {i}]
  /\ NGoto(n, "send")
  /\ UNCHANGED <<book, last, sent, aborts>>

Leave(n) == NGoto(n, "off") /\ queue' = [queue EXCEPT ![n] = {}]

(* Every row of the snapshot was mailed. *)
FinishRun(n) ==
  /\ npc[n] = "send" /\ queue[n] = {}
  /\ Leave(n)
  /\ UNCHANGED <<book, cursor, last, sent, aborts>>

(* The mail script failed without a delivery, or a kill. *)
FailRun(n) ==
  /\ npc[n] = "select" \/ (npc[n] = "send" /\ queue[n] # {})
  /\ Leave(n)
  /\ UNCHANGED <<book, cursor, last, sent, aborts>>

(* The mail left, but the run ended before the cursor was committed: the
   script timed out after sending, the database was locked, or a kill. *)
AbortAfterDelivery(n) ==
  /\ npc[n] = "commit" /\ aborts < MaxAborts
  /\ aborts' = aborts + 1
  /\ Leave(n)
  /\ UNCHANGED <<book, cursor, last, sent>>

Run(n) == \/ ReadCursor(n) \/ Select(n) \/ Deliver(n) \/ CommitCursor(n)
          \/ FinishRun(n) \/ FailRun(n) \/ AbortAfterDelivery(n)

(* What the rest of the system does to the alert table. *)

OpenAlert == /\ \E f \in Fingerprints : Open(f)
             /\ sent' = Append(sent, 0)
             /\ UNCHANGED <<cursor, npc, last, queue, aborts>>

ResolveSome == SomeResolve /\ UNCHANGED nvars

NNext == (\E n \in Notifiers : Run(n)) \/ OpenAlert \/ ResolveSome

NSpec == NInit /\ [][NNext]_vars

-----------------------------------------------------------------------------
(* Properties.                                                             *)

(* The cursor never passes an alert that waits for review and was not
   mailed, however the runs of notifiers overlap and fail: pending_alert
   rows below the cursor are exactly what later runs will not look at. *)
NoPendingSkipped ==
  \A i \in Ids : i <= cursor /\ IsPending(i) => sent[i] > 0

(* One notifier at a time mails an alert again only after a run that ended
   between a delivery and its commit. *)
ResendsAreAborts == \A i \in Ids : sent[i] <= 1 + aborts

(* One notifier at a time never moves the cursor back, though every commit sets
   it to the id just mailed whatever it was (notifier.py, notify_email_alerts):
   what was mailed and acknowledged is not selected again. *)
CursorMonotone == [][cursor' >= cursor]_vars

(* An alert that stays pending is mailed. *)
PendingMailed(i) == (i \in Pending) ~> (i \notin Pending \/ sent[i] > 0)
EveryPendingMailed == \A i \in 1 .. Cardinality(Fingerprints) : PendingMailed(i)

-----------------------------------------------------------------------------
(* The LaunchAgent polls for ever; a mail attempted for ever leaves some
   time, and some run gets to its commit. *)
NFairSpec ==
  /\ NSpec
  /\ \A n \in Notifiers :
       /\ WF_vars(ReadCursor(n)) /\ SF_vars(Select(n))
       /\ SF_vars(Deliver(n)) /\ SF_vars(CommitCursor(n))
       /\ WF_vars(FinishRun(n))

=============================================================================
