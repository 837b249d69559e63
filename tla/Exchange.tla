------------------------------ MODULE Exchange ------------------------------
(***************************************************************************)
(* The search for coordination exchanges among the messages of a cluster:  *)
(* a delegation and its result, or a saved checkpoint and its resumption,  *)
(* by different handles, joined by reply ancestry or a shared reference.   *)
(*                                                                         *)
(* Every loop of the search is bounded.  What the patterns find in a text  *)
(* (acts, references) is part of a message here; which messages a cluster  *)
(* may hold is a constant.  A message is named by its key.                 *)
(***************************************************************************)
EXTENDS Integers, Sequences, FiniteSets

CONSTANTS
  Clusters,          \* lists of messages, as ordered by event time
  MaxReplyDepth,     \* MAX_REPLY_DEPTH
  MaxReferences,     \* MAX_REFERENCE_OCCURRENCES
  MaxPaths           \* MAX_PATHS, for both kinds together

(* Event keys are unique in the store, and by_key is a dictionary of them. *)
ASSUME ExchangeAssumption ==
  /\ MaxPaths \in Nat \ {0} /\ {MaxReplyDepth, MaxReferences} \subseteq Nat
  /\ \A list \in Clusters :
       /\ list \in Seq({list[i] : i \in DOMAIN list})
       /\ \A i \in DOMAIN list : list[i].key \in Int /\ list[i].time \in Int
       /\ \A i, j \in DOMAIN list : list[i].key = list[j].key => i = j

VARIABLES
  msgs,      \* the cluster, in order
  kind,      \* what is searched for: "delegate", "checkpoint", or "done"
  at,        \* the position of the message taken as the right end
  lefts,     \* keys still to be tried as its left end
  paths      \* paths found, as <<kind, left position, right position>>

search == <<kind, at, lefts, paths>>

-----------------------------------------------------------------------------
Positions == 1 .. Len(msgs)
LeftAct == [delegate |-> "delegation", checkpoint |-> "state_out"]
RightAct == [delegate |-> "result", checkpoint |-> "state_in"]

At(key) == CHOOSE i \in Positions : msgs[i].key = key
HasKey(key) == \E i \in Positions : msgs[i].key = key

(* The messages a number of replies up; a parent outside of the cluster
   ends the chain, and so does the depth, which also ends cycles. *)
Up(i) ==
  LET up[n \in 0 .. MaxReplyDepth] ==
        IF n = 0 THEN {i}
        ELSE {At(msgs[j].parent) : j \in {k \in up[n - 1] : HasKey(msgs[k].parent)}}
  IN up

Ancestors(i) == UNION {Up(i)[n] : n \in 1 .. MaxReplyDepth}

(* The first messages that hold a reference; later ones are not indexed. *)
Holders(ref) == {i \in Positions : ref \in msgs[i].refs}
Indexed(ref) ==
  {i \in Holders(ref) : Cardinality({j \in Holders(ref) : j < i}) < MaxReferences}

Lefts(k) == {i \in Positions : LeftAct[k] \in msgs[i].acts}

Candidates(k, r) ==
  Lefts(k) \cap (Ancestors(r) \cup UNION {Indexed(ref) : ref \in msgs[r].refs})

Shared(l, r) == msgs[l].refs \cap msgs[r].refs
Native(l, r) == l \in Ancestors(r)

(* A pair is a path unless it is out of order, of one handle, or joined by
   nothing. *)
IsPath(l, r) ==
  /\ msgs[l].time <= msgs[r].time
  /\ msgs[l].handle # msgs[r].handle
  /\ Native(l, r) \/ Shared(l, r) # {}

-----------------------------------------------------------------------------
Init ==
  /\ msgs \in Clusters
  /\ kind = "delegate" /\ at = 0
  /\ lefts = {} /\ paths = << >>

(* The second kind is searched for only while there is room for paths. *)
EndKind ==
  /\ kind # "done" /\ lefts = {} /\ at = Len(msgs)
  /\ kind' = IF kind = "delegate" /\ Len(paths) < MaxPaths THEN "checkpoint" ELSE "done"
  /\ at' = 0
  /\ UNCHANGED <<msgs, lefts, paths>>

NextRight ==
  /\ kind # "done" /\ lefts = {} /\ at < Len(msgs)
  /\ at' = at + 1
  /\ lefts' = IF RightAct[kind] \in msgs[at'].acts THEN Candidates(kind, at') ELSE {}
  /\ UNCHANGED <<msgs, kind, paths>>

(* The candidates are tried in the order of their keys. *)
IsFirst(l) == \A j \in lefts : msgs[l].key <= msgs[j].key

RefuseLeft(l) ==
  /\ IsFirst(l) /\ ~IsPath(l, at)
  /\ lefts' = lefts \ {l}
  /\ UNCHANGED <<msgs, kind, at, paths>>

(* A wrong form of AcceptLeft: one path is kept for each right end. *)
AcceptLeftOnce(l) ==
  /\ IsFirst(l) /\ IsPath(l, at)
  /\ paths' = Append(paths, <<kind, l, at>>)
  /\ IF Len(paths') < MaxPaths
     THEN lefts' = {} /\ UNCHANGED <<kind, at>>
     ELSE lefts' = {} /\ kind' = "done" /\ at' = 0
  /\ UNCHANGED msgs

AcceptLeft(l) ==
  /\ IsFirst(l) /\ IsPath(l, at)
  /\ paths' = Append(paths, <<kind, l, at>>)
  /\ IF Len(paths') < MaxPaths
     THEN lefts' = lefts \ {l} /\ UNCHANGED <<kind, at>>
     ELSE lefts' = {} /\ kind' = "done" /\ at' = 0
  /\ UNCHANGED msgs

Search ==
  \/ EndKind \/ NextRight
  \/ \E l \in lefts : RefuseLeft(l) \/ AcceptLeft(l)

-----------------------------------------------------------------------------
(* The first message that acknowledges a path: strictly between its ends,
   by the handle of its right end, and joined the way the path is. *)
Acknowledges(a, p) ==
  LET l == p[2]  r == p[3] IN
  /\ a \notin {l, r} /\ "ack" \in msgs[a].acts
  /\ msgs[l].time < msgs[a].time /\ msgs[a].time < msgs[r].time
  /\ msgs[a].handle = msgs[r].handle
  /\ IF Native(l, r) THEN Native(l, a)
     ELSE Shared(l, r) \cap msgs[a].refs # {}

FirstAck(p) ==
  {a \in Positions : Acknowledges(a, p) /\ \A b \in 1 .. a - 1 : ~Acknowledges(b, p)}

Found == {paths[n] : n \in 1 .. Len(paths)}

(* A complete trajectory; one by reference must also span two contexts. *)
Complete(p) == FirstAck(p) # {} \/ p[1] = "checkpoint"
VerifiedNative == {p \in Found : Native(p[2], p[3]) /\ Complete(p)}
VerifiedAcross ==
  {p \in Found :
     /\ ~Native(p[2], p[3]) /\ Complete(p)
     /\ Cardinality({msgs[i].context : i \in {p[2], p[3]} \cup FirstAck(p)}) >= 2}

AtMost(a, b) == IF a <= b THEN a ELSE b

(* The score of the signal, in hundredths. *)
ExchangeScore ==
  LET base == IF \E p \in Found : FirstAck(p) # {} THEN 94
              ELSE IF \E p \in Found : p[1] = "checkpoint" THEN 90 ELSE 78
  IN AtMost(98, base + 2 * (Len(paths) - 1))

-----------------------------------------------------------------------------
(* What the search is for, without index, order or bounds. *)
IsExchange(k, l, r) ==
  /\ LeftAct[k] \in msgs[l].acts /\ RightAct[k] \in msgs[r].acts
  /\ IsPath(l, r)

(* Delegations come before checkpoints, then right ends in the order of the
   cluster, then left ends in the order of their keys. *)
Precedes(p, k, l, r) ==
  \/ p[1] = "delegate" /\ k = "checkpoint"
  \/ /\ p[1] = k
     /\ p[3] < r \/ (p[3] = r /\ msgs[p[2]].key < msgs[l].key)

(* Only the two bounds hide an exchange: every path found is one, once, and
   one that is not found has its left end outside of the index of every
   shared reference, or the number of paths is at its limit; then it comes
   after all that were found, of both kinds. *)
PathsExact ==
  kind = "done" =>
    /\ Cardinality(Found) = Len(paths) /\ Len(paths) <= MaxPaths
    /\ \A p \in Found : IsExchange(p[1], p[2], p[3])
    /\ \A k \in DOMAIN LeftAct, l \in Positions, r \in Positions :
         IsExchange(k, l, r) =>
           \/ <<k, l, r>> \in Found
           \/ ~Native(l, r) /\ \A ref \in Shared(l, r) : l \notin Indexed(ref)
           \/ /\ Len(paths) = MaxPaths
              /\ \A p \in Found : Precedes(p, k, l, r)
=============================================================================
