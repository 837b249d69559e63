------------------------------- MODULE Tiers -------------------------------
(***************************************************************************)
(* The analysis of one cluster: the exchange search, the detector of       *)
(* reused artifacts, what other detectors may add, and the decision that   *)
(* score_cluster would take of the signals so far.                         *)
(***************************************************************************)
EXTENDS Exchange, Scoring

CONSTANTS
  TypedRefs,   \* references that are typed artifacts as well
  Others,      \* signals of the detectors not modelled, in their order
  MaxOthers    \* bound: how many of them

Families == DOMAIN Reliability \cup {"benign"}
Signal ==
  [family : Families, score : 0 .. 100, depends : SUBSET Families, native : BOOLEAN,
   across : BOOLEAN, exceptional : BOOLEAN, longitudinal : BOOLEAN]

(* Only the exchange detector verifies a trajectory, and no benign finding is
   a longitudinal candidate. *)
ASSUME TiersAssumption ==
  /\ IsFiniteSet(TypedRefs) /\ Threshold \in Nat /\ MaxOthers \in Nat
  /\ Others \in Seq(Signal)
  /\ \A n \in DOMAIN Others :
       /\ ~Others[n].native /\ ~Others[n].across
       /\ Others[n].family = "benign" => ~Others[n].longitudinal

VARIABLES
  stage,       \* the detector whose turn it is
  sourced,     \* every message has a provenance URL
  signals,     \* the signals so far
  verdict      \* what score_cluster would decide of them, with the priority

vars == <<msgs, search, stage, sourced, signals, verdict>>

Plain(family, score) ==
  [family |-> family, score |-> score, depends |-> {}, native |-> FALSE,
   across |-> FALSE, exceptional |-> FALSE, longitudinal |-> FALSE]

-----------------------------------------------------------------------------
(* Messages are said by actors, a handle on a platform, in a context. *)
Actor(i) == <<msgs[i].platform, msgs[i].handle>>
Handles == Cardinality({msgs[i].handle : i \in Positions})

ActorsOf(ref) == {Actor(i) : i \in Holders(ref)}
ContextsOf(ref) == {msgs[i].context : i \in Holders(ref)}
Reused == {ref \in TypedRefs : Cardinality(ActorsOf(ref)) >= 2}

(* A marker is stronger in every further context. *)
ArtifactStrength(ref) == AtMost(95, 82 + 8 * (Cardinality(ContextsOf(ref)) - 1))

ReuseScore ==
  AtMost(98, Max({ArtifactStrength(ref) : ref \in Reused})
             + 4 * (Max({Cardinality(ActorsOf(ref)) : ref \in Reused}) - 2)
             + 3 * (Cardinality(Reused) - 1))

ExchangeSignal ==
  [Plain("semantic", ExchangeScore) EXCEPT
     !.depends = IF \E p \in Found : ~Native(p[2], p[3]) THEN {"artifact"} ELSE {},
     !.native = VerifiedNative # {},
     !.across = VerifiedAcross # {}]

Verdict(found) ==
  [decision |-> Decision(found, Handles, sourced), total |-> Total(found)]

TInit ==
  /\ Init
  /\ stage = "exchange" /\ sourced \in BOOLEAN
  /\ signals = << >> /\ verdict = Verdict(<< >>)

Searching ==
  /\ stage = "exchange" /\ Search
  /\ UNCHANGED <<stage, sourced, signals, verdict>>

Detect(from, to, found) ==
  /\ stage = from /\ stage' = to
  /\ LET all == signals \o found
     IN signals' = all /\ verdict' = Verdict(all)
  /\ UNCHANGED <<msgs, search, sourced>>

DetectExchange ==
  /\ kind = "done"
  /\ Detect("exchange", "reuse", IF paths = << >> THEN << >> ELSE <<ExchangeSignal>>)

DetectReuse ==
  Detect("reuse", "others", IF Reused = {} THEN << >> ELSE <<Plain("artifact", ReuseScore)>>)

(* The detectors have an order, so a finding comes after those before it. *)
DetectOther(n) ==
  /\ Len(signals) < MaxOthers + 2
  /\ \A m \in n .. Len(Others) : \A i \in 1 .. Len(signals) : signals[i] # Others[m]
  /\ Detect("others", "others", <<Others[n]>>)

TNext ==
  \/ Searching \/ DetectExchange \/ DetectReuse
  \/ \E n \in 1 .. Len(Others) : DetectOther(n)

TSpec == TInit /\ [][TNext]_vars

-----------------------------------------------------------------------------
(* A trajectory in the messages themselves: a delegation, its result and an
   acknowledgement between them by whoever gave the result, or a checkpoint
   and its resumption; along replies, or along one reference over at least
   two contexts. *)
ByReply(l, r) ==
  /\ Native(l, r)
  /\ \/ IsExchange("checkpoint", l, r)
     \/ /\ IsExchange("delegate", l, r)
        /\ \E a \in Positions : Acknowledges(a, <<"delegate", l, r>>)

ByReference(l, r) ==
  /\ Shared(l, r) # {}
  /\ \E k \in DOMAIN LeftAct : IsExchange(k, l, r) /\
       \E A \in SUBSET {a \in Positions : Acknowledges(a, <<k, l, r>>)} :
         /\ k = "delegate" => A # {}
         /\ Cardinality({msgs[i].context : i \in A \cup {l, r}}) >= 2

Trajectory == \E l, r \in Positions : ByReply(l, r) \/ ByReference(l, r)

(* No chain of declared dependencies leads from x to y. *)
Declares(u, v) == u.family \in v.depends \/ v.family \in u.depends
Independent(x, y) ==
  \E C \in SUBSET Fired(signals) :
    /\ x \in C /\ y \notin C
    /\ \A u \in C, v \in Fired(signals) \ C : ~Declares(u, v)

(* A cluster is to be reviewed only for two strong anchors that share no
   evidence, an exceptional signal, or a complete trajectory among its own
   messages.  So an assignment, its acknowledgement and its completion that
   are joined by nothing but a reference within one issue are not. *)
HighHasRoute ==
  verdict.decision >= 2 =>
    \/ \E x, y \in Fired(signals) : IsStrong(x) /\ IsStrong(y) /\ Independent(x, y)
    \/ \E x \in Fired(signals) : x.exceptional
    \/ Trajectory

New(x) ==
  \A y \in Retained(signals) : y.family # x.family /\ ~Tied(x, y)

(* Evidence of a new family that shares nothing with what has fired never
   lowers the decision or the priority, and a benign finding never raises
   them.  (Evidence of a family that has fired may: it replaces the weaker
   signal with what that one alone declared.) *)
EvidenceMonotone ==
  [][\A n \in 1 .. Len(Others) : (DetectOther(n) /\ New(Others[n])) =>
       IF Others[n].family = "benign"
       THEN verdict'.decision <= verdict.decision /\ verdict'.total <= verdict.total
       ELSE verdict'.decision >= verdict.decision /\ verdict'.total >= verdict.total]_vars
=============================================================================
