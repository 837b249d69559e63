------------------------------ MODULE Scoring ------------------------------
(***************************************************************************)
(* From the signals of a cluster to its priority and its decision.         *)
(*                                                                         *)
(* The code computes with decimal fractions; here scores, reliabilities    *)
(* and coefficients are integers: hundredths, and products of them.  A     *)
(* benign score is a multiple of five hundredths.  Without a calibration   *)
(* profile, the way the program runs by default.                           *)
(***************************************************************************)
EXTENDS Integers, Sequences, FiniteSets, FiniteSetsExt

CONSTANT Threshold    \* --threshold, in hundredths

Reliability ==
  [protocol |-> 90, temporal |-> 65, artifact |-> 95, graph |-> 70,
   semantic |-> 100, identity |-> 100, behavior |-> 90, commit |-> 85]
AnchorFamilies == {"artifact", "semantic", "identity", "behavior", "commit"}
FamilyFloor == 35
StrongFamily == 6800
ExceptionalFloor == 8200
Coefficients == <<52, 31, 17>>

-----------------------------------------------------------------------------
(* The strongest signal of each family, the first one of equals. *)
Retained(signals) ==
  {signals[i] : i \in {n \in 1 .. Len(signals) :
     \A m \in 1 .. Len(signals) : signals[m].family = signals[n].family =>
       \/ signals[m].score < signals[n].score
       \/ signals[m].score = signals[n].score /\ n <= m}}

Fired(signals) ==
  {x \in Retained(signals) : x.family \in DOMAIN Reliability /\ x.score >= FamilyFloor}

Effective(x) == Reliability[x.family] * x.score

(* A wrong form of Tied: what a family depends on is not looked up. *)
TiedNever(x, y) == x = y

(* Families that declare to reuse the evidence of one another. *)
Tied(x, y) == x.family \in y.depends \/ y.family \in x.depends

(* The components of that relation among the fired families. *)
Components(fired) ==
  LET closed == {C \in SUBSET fired : \A x \in C, y \in fired : Tied(x, y) => y \in C}
  IN {C \in closed \ {{}} : \A D \in closed : D \subseteq C => D \in {{}, C}}

Strength(C) == Max({Effective(x) : x \in C})

(* The n strongest values, of which equals count each. *)
Ranked(components) ==
  [n \in 1 .. 3 |->
     IF n > Cardinality(components) THEN 0
     ELSE CHOOSE v \in {Strength(C) : C \in components} :
            /\ Cardinality({C \in components : Strength(C) > v}) < n
            /\ Cardinality({C \in components : Strength(C) >= v}) >= n]

Weighted(components) ==
  LET top == Ranked(components)
  IN Coefficients[1] * top[1] + Coefficients[2] * top[2] + Coefficients[3] * top[3]

Collapsed(fired) == Cardinality(fired) - Cardinality(Components(fired))

Bonus(fired) ==
  LET n == Cardinality(Components(fired)) IN
    (IF n >= 2 THEN 30000 ELSE 0) + (IF n >= 3 THEN 30000 ELSE 0)
    + Min({60000, 30000 * Collapsed(fired)})

Verified(signals) ==
  \E x \in Retained(signals) :
    /\ x.family = "semantic" /\ x.score >= 90
    /\ \/ x.native
       \/ x.across /\ \E y \in Fired(signals) : y.family = "artifact"

Exceptional(signals) ==
  {x \in Fired(signals) : x.exceptional /\ Effective(x) >= ExceptionalFloor}

(* The priority before the benign factor, in millionths. *)
Positive(signals) ==
  Max({Weighted(Components(Fired(signals))) + Bonus(Fired(signals))}
      \cup {100 * Effective(x) : x \in Exceptional(signals)}
      \cup (IF Verified(signals) THEN {800000} ELSE {}))

BenignScore(signals) ==
  Max({0} \cup {x.score : x \in {y \in Retained(signals) : y.family = "benign"}})

(* A wrong form of Total: routine automation adds to the priority. *)
TotalPlus(signals) == Positive(signals) * (400 + 13 * (BenignScore(signals) \div 5))

(* The total, 400 times as large: the factor is (400 - 13 b) / 400 for a
   benign score of b twentieths.  The code clips it at one. *)
Total(signals) == Positive(signals) * (400 - 13 * (BenignScore(signals) \div 5))

Reaches(signals, hundredths) == Total(signals) >= hundredths * 10000 * 400

-----------------------------------------------------------------------------
IsAnchor(x) == x.family \in AnchorFamilies
IsStrong(x) == IsAnchor(x) /\ Effective(x) >= StrongFamily

Anchors(signals) == {C \in Components(Fired(signals)) : \E x \in C : IsAnchor(x)}
StrongAnchors(signals) == {C \in Components(Fired(signals)) : \E x \in C : IsStrong(x)}

Longitudinal(signals) == \E x \in Retained(signals) : x.longitudinal

(* Of a cluster with a number of handles, sourced or not. *)
Eligible(signals, handles, sourced) ==
  /\ handles >= 2 \/ Longitudinal(signals)
  /\ sourced
  /\ BenignScore(signals) < 80

Reviewable(signals, handles, sourced) ==
  /\ Reaches(signals, Threshold)
  /\ \/ Cardinality(StrongAnchors(signals)) >= 2
     \/ Verified(signals)
     \/ Exceptional(signals) # {}
  /\ Eligible(signals, handles, sourced)

Watchable(signals, handles, sourced) ==
  /\ Eligible(signals, handles, sourced)
  /\ Reaches(signals, Max({45, Threshold - 25}))
  /\ \/ /\ StrongAnchors(signals) # {}
        /\ Cardinality(Components(Fired(signals))) >= 2 \/ Collapsed(Fired(signals)) > 0
     \/ Cardinality(Anchors(signals)) >= 2

(* dismiss, watch, review, confirmed *)
Decision(signals, handles, sourced) ==
  IF Reviewable(signals, handles, sourced)
  THEN IF Cardinality(StrongAnchors(signals)) >= 3 THEN 3 ELSE 2
  ELSE IF Watchable(signals, handles, sourced) THEN 1 ELSE 0
=============================================================================
