--------------------------- MODULE Linking_proofs ---------------------------
(***************************************************************************)
(* What the bounded union of buckets keeps true, for any observations and  *)
(* bounds.  A labelling of the keys says which root each belongs to; that  *)
(* parents have the label of their children, and a higher rank, is all     *)
(* that halving a path needs.                                              *)
(***************************************************************************)
EXTENDS Linking, FiniteSetTheorems, FunctionTheorems, WellFoundedInduction, TLAPS

Working == {"key", "left", "right", "join"}
Finding == {"left", "right", "join"}

Class(c, r) == {j \in Keys : c[j] = r}

(* Sets of keys that no linking artifact leaves. *)
Sealed ==
  {S \in SUBSET Keys : \A a \in Linkable : KeysOf(a) \subseteq S \/ KeysOf(a) \cap S = {}}

(* c gives each key a root, and parents have the label of their children. *)
Labels(c) ==
  /\ c \in [Keys -> Keys]
  /\ \A k \in Keys : c[parent[k]] = c[k]
  /\ \A k \in Keys : parent[c[k]] = c[k]
  /\ \A k \in Keys : parent[k] = k => c[k] = k

(* Ranks grow on the way up, so no path comes back. *)
Ranked(h) == \A k \in Keys : parent[k] # k => h[k] < h[parent[k]]

Sizes(c) == \A k \in Keys : parent[k] = k => size[k] = Cardinality(Class(c, k))

Reasons(c) == \A S \in Sealed : \A j, k \in Keys : c[j] = c[k] => (j \in S <=> k \in S)

(* j and k are in one class, or their classes are too large for one. *)
Settled(c, j, k) ==
  \/ c[j] = c[k]
  \/ Cardinality(Class(c, c[j])) + Cardinality(Class(c, c[k])) > MaxLinkedBuckets

(* k is still to be joined with the first key of its artifact. *)
Waits(c, k, f) ==
  /\ pc \in Working /\ f = first
  /\ k \in rest \/ (pc \in Finding /\ c[right] = c[k])

Handled(c) ==
  \A a \in Linkable \ todo : \A k \in KeysOf(a) :
    LET f == Least(KeysOf(a)) IN Settled(c, k, f) \/ Waits(c, k, f)

(* What the step under way has at hand. *)
AtHand(c) ==
  /\ pc \in Working =>
       /\ first \in Keys
       /\ \A S \in Sealed : \A k \in rest : first \in S <=> k \in S
  /\ pc \in Finding =>
       /\ left \in Keys /\ right \in Keys /\ c[left] = c[first]
       /\ \A S \in Sealed : first \in S <=> right \in S
  /\ pc \in {"right", "join"} => parent[left] = left
  /\ pc = "join" => parent[right] = right
  /\ pc \notin Working \cup {"artifact"} => todo = {}
  /\ pc = "member" => left \in Keys /\ first \in rest /\ c[left] = c[first]
  /\ pc \in {"gather", "member"} => \A k \in Keys \ rest : group[k] = c[k]
  /\ Gathered => \A k \in Keys : group[k] = c[k]

Labelled(c) ==
  /\ Labels(c) /\ Sizes(c) /\ Reasons(c) /\ Handled(c) /\ AtHand(c)

LinkInv ==
  /\ TypeOK
  /\ \E c \in [Keys -> Keys], h \in [Keys -> Nat] : Labelled(c) /\ Ranked(h)

-----------------------------------------------------------------------------
(* A non-empty set of naturals has a least element, which Least names. *)
LEMMA LeastIn ==
  ASSUME NEW T, T \subseteq Nat, T # {}
  PROVE  Least(T) \in T /\ \A j \in T : Least(T) <= j
<1> DEFINE below(x) == 0 .. x - 1
           F == {below(x) : x \in T}
           R == StrictSubsetOrdering(Nat)
<1>1. \A x \in T : below(x) \in FiniteSubsetsOf(Nat)
  BY FS_Interval DEF FiniteSubsetsOf
<1>2. F \subseteq FiniteSubsetsOf(Nat) /\ F # {}
  BY <1>1
<1> HIDE DEF F
<1>3. PICK f \in F : \A g \in F : ~ (<<g, f>> \in R)
  BY <1>2, FS_StrictSubsetOrderingWellFounded, WFMin
<1>4. PICK m \in T : f = below(m)
  BY <1>3 DEF F
<1>5. ASSUME NEW j \in T, j < m PROVE FALSE
  <2>1. below(j) \subseteq below(m) /\ below(j) # below(m)
    <3>1. m \in Nat /\ j \in Nat
      OBVIOUS
    <3>2. j \in below(m) /\ j \notin below(j)
      BY <3>1, <1>5
    <3>3. QED BY <3>1, <3>2, <1>5
  <2>2. <<below(j), below(m)>> \in R
    BY <2>1, <1>1 DEF StrictSubsetOrdering, FiniteSubsetsOf
  <2>3. below(j) \in F
    BY DEF F
  <2>4. QED BY <2>2, <2>3, <1>3, <1>4
<1>6. \A j \in T : m <= j
  BY <1>5
<1>7. QED BY <1>6 DEF Least

(* Keys are positive, finitely many, and depend on the observations only. *)
LEMMA KeysFinite ==
  ASSUME TypeOK
  PROVE  /\ Keys \subseteq Nat \ {0} /\ IsFiniteSet(Keys)
         /\ \A a : KeysOf(a) \subseteq Keys
         /\ \A i \in Positions : Key(i) \in Keys
<1>1. \A i \in Positions : Key(i) \in Nat \ {0}
  <2> TAKE i \in Positions
  <2>1. obs[i] \in Observation
    BY DEF TypeOK, Positions
  <2>2. QED BY <2>1 DEF Key, KeyOf, Observation
<1>2. IsFiniteSet(Positions)
  BY FS_Interval DEF TypeOK, Positions
<1> DEFINE f == [i \in Positions |-> Key(i)]
<1>3. f \in Surjection(Positions, Keys)
  BY DEF Surjection, Keys
<1>4. IsFiniteSet(Keys)
  BY <1>2, <1>3, FS_Surjection
<1>5. QED BY <1>1, <1>4 DEF Keys, KeysOf, Matches

LEMMA ClassFinite ==
  ASSUME TypeOK, NEW c \in [Keys -> Keys], NEW r
  PROVE  /\ Class(c, r) \subseteq Keys /\ IsFiniteSet(Class(c, r))
         /\ Cardinality(Class(c, r)) \in Nat
BY KeysFinite, FS_Subset, FS_CardinalityType DEF Class

(* Two properties of a step that leaves the observations alone. *)
LEMMA SameInput ==
  ASSUME obs' = obs
  PROVE  /\ Keys' = Keys /\ Linkable' = Linkable /\ Positions' = Positions
         /\ Sealed' = Sealed
         /\ \A a : KeysOf(a)' = KeysOf(a)
         /\ \A c, r : Class(c, r)' = Class(c, r)
         /\ \A i : Key(i)' = Key(i)
BY DEF Keys, Linkable, Positions, Sealed, KeysOf, Matches, Class, Key

LEMMA Steps == [Next]_vars => obs' = obs
BY DEF Next, Link, NextArtifact, EndArtifacts, NextKey, EndKeys, FindLeft, FindRight,
       Join, NextMember, FindMember, EndGather, Cut, EndCuts, vars

-----------------------------------------------------------------------------
(* Halving a path changes no label, no root and no rank. *)
LEMMA Halving ==
  ASSUME TypeOK, obs' = obs, NEW k \in Keys, parent[k] # k, Halve(k),
         NEW c \in [Keys -> Keys], Labels(c),
         NEW h \in [Keys -> Nat], Ranked(h)
  PROVE  /\ parent' \in [Keys -> Keys]
         /\ parent[parent[k]] \in Keys /\ c[parent[parent[k]]] = c[k]
         /\ \A j \in Keys : parent'[j] = j <=> parent[j] = j
         /\ Labels(c)' /\ Ranked(h)'
<1> DEFINE up == parent[parent[k]]
<1>1. parent \in [Keys -> Keys] /\ parent[k] \in Keys /\ up \in Keys
  BY DEF TypeOK
<1>2. parent' = [parent EXCEPT ![k] = up]
  BY DEF Halve
<1>3. c[up] = c[k]
  BY <1>1 DEF Labels
<1>4. h[k] < h[up]
  BY <1>1 DEF Ranked
<1>5. up # k
  BY <1>1, <1>4
<1>6. \A j \in Keys : parent'[j] = IF j = k THEN up ELSE parent[j]
  BY <1>1, <1>2
<1>7. \A j \in Keys : parent'[j] = j <=> parent[j] = j
  BY <1>5, <1>6
<1>8. parent' \in [Keys -> Keys]
  BY <1>1, <1>2
<1> HIDE DEF up
<1>9. Labels(c)'
  <2>1. \A j \in Keys : c[parent'[j]] = c[j]
    BY <1>3, <1>6 DEF Labels
  <2>2. \A j \in Keys : parent'[c[j]] = c[j] /\ (parent'[j] = j => c[j] = j)
    BY <1>7 DEF Labels
  <2>3. QED BY <2>1, <2>2, SameInput DEF Labels
<1>10. Ranked(h)'
  BY <1>1, <1>4, <1>6, SameInput DEF Ranked
<1>11. QED BY <1>1, <1>3, <1>7, <1>8, <1>9, <1>10 DEF up

(* The parts of a labelling that are about classes only. *)
LEMMA ClassesKept ==
  ASSUME TypeOK, obs' = obs, size' = size, todo' = todo,
         NEW c \in [Keys -> Keys], Sizes(c), Reasons(c),
         \A j \in Keys : parent'[j] = j <=> parent[j] = j
  PROVE  Sizes(c)' /\ Reasons(c)'
BY SameInput DEF Sizes, Reasons

(* What is settled stays settled while the labels stay. *)
LEMMA SettledKept ==
  ASSUME obs' = obs, NEW c, NEW j, NEW k, Settled(c, j, k)
  PROVE  Settled(c, j, k)'
BY SameInput DEF Settled

(* Joining two roots: the labels, ranks and sizes that result. *)
LEMMA Joining ==
  ASSUME TypeOK, obs' = obs, todo' = todo,
         NEW c \in [Keys -> Keys], Labels(c), Sizes(c), Reasons(c),
         NEW h \in [Keys -> Nat], Ranked(h),
         left \in Keys, right \in Keys, left # right,
         parent[left] = left, parent[right] = right,
         \A S \in Sealed : left \in S <=> right \in S,
         Fits,
         parent' = [parent EXCEPT ![right] = left],
         size' = [size EXCEPT ![left] = size[left] + size[right]],
         NEW d, d = [k \in Keys |-> IF c[k] = right THEN left ELSE c[k]]
  PROVE  /\ d \in [Keys -> Keys]
         /\ Labels(d)' /\ Sizes(d)' /\ Reasons(d)'
         /\ \E g \in [Keys -> Nat] : Ranked(g)'
         /\ \A j, k \in Keys : c[j] = c[k] => d[j] = d[k]
         /\ \A j, k \in Keys : Settled(c, j, k) => Settled(d, j, k)'
<1>1. /\ parent \in [Keys -> Keys] /\ parent' \in [Keys -> Keys]
      /\ d \in [Keys -> Keys]
      /\ c[left] = left /\ c[right] = right /\ d[left] = left /\ d[right] = left
  BY DEF TypeOK, Labels
<1>2. \A j \in Keys : parent'[j] = IF j = right THEN left ELSE parent[j]
  BY <1>1
<1>3. Labels(d)'
  <2>1. \A k \in Keys : d[parent'[k]] = d[k]
    BY <1>1, <1>2 DEF Labels
  <2>2. \A k \in Keys : parent'[d[k]] = d[k]
    BY <1>1, <1>2 DEF Labels
  <2>3. \A k \in Keys : parent'[k] = k => d[k] = k
    BY <1>1, <1>2 DEF Labels
  <2>4. QED BY <2>1, <2>2, <2>3, <1>1, SameInput DEF Labels
<1>4. /\ Class(d, left) = Class(c, left) \cup Class(c, right)
      /\ Class(c, left) \cap Class(c, right) = {}
      /\ \A r \in Keys \ {left, right} : Class(d, r) = Class(c, r)
      /\ \A k \in Keys : Class(c, c[k]) \subseteq Class(d, d[k])
  BY <1>1 DEF Class
<1>5. Cardinality(Class(d, left)) =
        Cardinality(Class(c, left)) + Cardinality(Class(c, right))
  <2>1. Cardinality(Class(d, left)) =
          Cardinality(Class(c, left)) + Cardinality(Class(c, right)) - Cardinality({})
    BY <1>4, ClassFinite, FS_Union
  <2>2. QED BY <2>1, FS_EmptySet, ClassFinite
<1>6. Sizes(d)'
  <2>1. size[left] = Cardinality(Class(c, left)) /\ size[right] = Cardinality(Class(c, right))
    BY DEF Sizes
  <2>2. ASSUME NEW k \in Keys, parent'[k] = k PROVE size'[k] = Cardinality(Class(d, k))
    <3>1. k # right
      BY <2>2, <1>2
    <3>2. CASE k = left
      BY <3>2, <2>1, <1>5 DEF TypeOK
    <3>3. CASE k # left
      <4>1. parent[k] = k /\ size'[k] = size[k]
        BY <3>1, <3>3, <2>2, <1>2 DEF TypeOK
      <4>2. QED BY <4>1, <3>1, <3>3, <1>4 DEF Sizes
    <3>4. QED BY <3>2, <3>3
  <2>3. QED BY <2>2, SameInput DEF Sizes
<1>7. Reasons(d)'
  <2>1. ASSUME NEW S \in Sealed, NEW j \in Keys, NEW k \in Keys, d[j] = d[k]
        PROVE  j \in S <=> k \in S
    <3>1. \A i \in Keys : i \in S <=> d[i] \in S
      <4>1. \A i \in Keys : i \in S <=> c[i] \in S
        BY DEF Reasons, Labels
      <4>2. QED BY <4>1
    <3>2. QED BY <3>1, <2>1
  <2>2. QED BY <2>1, SameInput DEF Reasons
<1>8. \E g \in [Keys -> Nat] : Ranked(g)'
  <2> DEFINE g == [k \in Keys |-> IF k = left THEN h[left] + h[right] + 1 ELSE h[k]]
  <2>1. g \in [Keys -> Nat]
    OBVIOUS
  <2>2. \A k \in Keys : g[k] >= h[k]
    OBVIOUS
  <2>3. g[left] > g[right]
    OBVIOUS
  <2>4. ASSUME NEW k \in Keys, parent'[k] # k PROVE g[k] < g[parent'[k]]
    <3>1. CASE k = right
      BY <3>1, <2>3, <1>2
    <3>2. CASE k # right
      <4>1. parent[k] # k /\ parent'[k] = parent[k] /\ k # left /\ parent[k] \in Keys
        BY <3>2, <2>4, <1>1, <1>2
      <4>2. h[k] < h[parent[k]]
        BY <4>1 DEF Ranked
      <4>3. g[k] = h[k]
        BY <4>1
      <4>4. QED BY <4>1, <4>2, <4>3, <2>2, <2>1
    <3>3. QED BY <3>1, <3>2
  <2> HIDE DEF g
  <2>5. QED BY <2>1, <2>4, SameInput DEF Ranked
<1>9. ASSUME NEW j \in Keys, NEW k \in Keys, Settled(c, j, k)
      PROVE  Settled(d, j, k)'
  <2>1. CASE c[j] = c[k]
    BY <2>1 DEF Settled
  <2>2. CASE Cardinality(Class(c, c[j])) + Cardinality(Class(c, c[k])) > MaxLinkedBuckets
    <3>1. /\ Cardinality(Class(c, c[j])) <= Cardinality(Class(d, d[j]))
          /\ Cardinality(Class(c, c[k])) <= Cardinality(Class(d, d[k]))
      BY <1>1, <1>4, ClassFinite, FS_Subset
    <3>2. /\ Cardinality(Class(c, c[j])) \in Nat /\ Cardinality(Class(c, c[k])) \in Nat
          /\ Cardinality(Class(d, d[j])) \in Nat /\ Cardinality(Class(d, d[k])) \in Nat
      BY <1>1, ClassFinite
    <3>3. Cardinality(Class(d, d[j])) + Cardinality(Class(d, d[k])) > MaxLinkedBuckets
      BY <3>1, <3>2, <2>2, LinkingAssumption
    <3>4. QED BY <3>3, SameInput DEF Settled
  <2>3. QED BY <1>9, <2>1, <2>2 DEF Settled
<1>10. \A j, k \in Keys : c[j] = c[k] => d[j] = d[k]
  OBVIOUS
<1>11. QED BY <1>1, <1>3, <1>6, <1>7, <1>8, <1>9, <1>10
-----------------------------------------------------------------------------
(* The first key of a linking artifact, and the bounds on a size. *)
LEMMA FirstKey ==
  ASSUME TypeOK, NEW a \in Linkable
  PROVE  Least(KeysOf(a)) \in KeysOf(a) /\ KeysOf(a) \subseteq Keys
<1>1. KeysOf(a) \subseteq Nat /\ KeysOf(a) \subseteq Keys
  BY KeysFinite
<1>2. KeysOf(a) # {}
  <2>1. Cardinality(KeysOf(a)) \in 2 .. MaxKeys
    BY DEF Linkable
  <2>2. KeysOf(a) = {} => Cardinality(KeysOf(a)) = 0
    BY FS_EmptySet
  <2>3. QED BY <2>1, <2>2, LinkingAssumption
<1>3. QED BY <1>1, <1>2, LeastIn

(* A step that moves no parent keeps whatever labelling there is. *)
LEMMA LabelsKept ==
  ASSUME obs' = obs, UNCHANGED finds, NEW c, NEW h, Labelled(c), Ranked(h)
  PROVE  Labels(c)' /\ Sizes(c)' /\ Reasons(c)' /\ Ranked(h)'
BY SameInput DEF Labelled, Labels, Sizes, Reasons, Ranked, finds

THEOREM InitLabelled == Init => LinkInv
<1> SUFFICES ASSUME Init PROVE LinkInv
  OBVIOUS
<1> DEFINE c == [k \in Keys |-> k]
           h == [k \in Keys |-> 0]
<1>1. obs \in Seq(Observation)
  BY LinkingAssumption DEF Init
<1>2. TypeOK
  BY <1>1, LinkingAssumption DEF Init, TypeOK
<1>3. \A k \in Keys : Class(c, k) = {k}
  BY DEF Class
<1>4. Labels(c) /\ Sizes(c) /\ Reasons(c) /\ Ranked(h)
  <2>1. Sizes(c)
    BY <1>3, FS_Singleton DEF Sizes, Init
  <2>2. QED BY <2>1 DEF Labels, Reasons, Ranked, Init
<1>5. Handled(c)
  <2>1. Linkable \subseteq todo
    <3>1. ASSUME NEW a \in Linkable PROVE Matches(a) # {}
      BY <1>2, FirstKey DEF KeysOf
    <3>2. QED BY <3>1 DEF Init, Linkable
  <2>2. QED BY <2>1 DEF Handled
<1>6. AtHand(c)
  BY DEF AtHand, Init, Working, Finding, Gathered
<1>7. QED BY <1>2, <1>4, <1>5, <1>6 DEF LinkInv, Labelled

-----------------------------------------------------------------------------
(* One lemma per step of the scan. *)
LEMMA ArtifactStep ==
  ASSUME LinkInv, NEW a \in todo, NextArtifact(a)
  PROVE  LinkInv'
<1>1. PICK c \in [Keys -> Keys], h \in [Keys -> Nat] : Labelled(c) /\ Ranked(h)
  BY DEF LinkInv
<1>2. TypeOK /\ obs' = obs /\ pc = "artifact" /\ UNCHANGED <<finds, left, right, group, cuts>>
      /\ todo' = todo \ {a}
  BY DEF LinkInv, NextArtifact
<1>3. Labels(c)' /\ Sizes(c)' /\ Reasons(c)' /\ Ranked(h)'
  BY <1>1, <1>2, LabelsKept
<1>4. \A b \in Linkable \ todo : \A k \in KeysOf(b) : Settled(c, k, Least(KeysOf(b)))
  BY <1>1, <1>2 DEF Labelled, Handled, Waits, Working
<1>5. CASE a \notin Linkable
  <2>1. UNCHANGED <<pc, rest, first>>
    BY <1>5 DEF NextArtifact
  <2>2. TypeOK'
    BY <1>2, <2>1, SameInput DEF TypeOK, finds, cuts
  <2>3. Handled(c)'
    BY <1>4, <1>5, <1>2, SameInput, SettledKept DEF Handled
  <2>4. AtHand(c)'
    BY <1>1, <1>2, <2>1, SameInput DEF Labelled, AtHand, Working, Finding, Gathered
  <2>5. QED BY <1>2, <1>3, <2>2, <2>3, <2>4, SameInput DEF LinkInv, Labelled
<1>6. CASE a \in Linkable
  <2> DEFINE f == Least(KeysOf(a))
  <2>1. f \in KeysOf(a) /\ KeysOf(a) \subseteq Keys
    BY <1>2, <1>6, FirstKey
  <2>2. pc' = "key" /\ first' = f /\ rest' = KeysOf(a) \ {f}
    BY <1>6 DEF NextArtifact
  <2> HIDE DEF f
  <2>3. TypeOK'
    BY <1>2, <2>1, <2>2, SameInput DEF TypeOK, finds, cuts
  <2>4. Handled(c)'
    <3>1. ASSUME NEW b \in Linkable \ todo', NEW k \in KeysOf(b)
          PROVE  Settled(c, k, Least(KeysOf(b)))' \/ Waits(c, k, Least(KeysOf(b)))'
      <4>1. CASE b = a
        <5>1. CASE k = f
          BY <5>1, <4>1, <1>2, SameInput DEF Settled, f
        <5>2. CASE k # f
          BY <5>2, <4>1, <2>2, SameInput, <1>2 DEF Waits, Working, f
        <5>3. QED BY <5>1, <5>2
      <4>2. CASE b # a
        BY <4>2, <1>4, <1>2, SettledKept, SameInput
      <4>3. QED BY <4>1, <4>2
    <3>2. QED BY <3>1, <1>2, SameInput DEF Handled
  <2>5. AtHand(c)'
    <3>1. \A S \in Sealed : \A k \in KeysOf(a) : f \in S <=> k \in S
      BY <1>6, <2>1 DEF Sealed
    <3>2. QED BY <3>1, <1>2, <2>1, <2>2, SameInput DEF AtHand, Working, Finding, Gathered
  <2>6. QED BY <1>3, <2>3, <2>4, <2>5, <1>2, SameInput DEF LinkInv, Labelled
<1>7. QED BY <1>5, <1>6

LEMMA KeyStep ==
  ASSUME LinkInv, NextKey
  PROVE  LinkInv'
<1>1. PICK c \in [Keys -> Keys], h \in [Keys -> Nat] : Labelled(c) /\ Ranked(h)
  BY DEF LinkInv
<1> DEFINE k0 == Least(rest)
<1>2. /\ TypeOK /\ obs' = obs /\ pc = "key" /\ pc' = "left" /\ rest # {}
      /\ UNCHANGED <<todo, first, finds, group, cuts>>
      /\ left' = first /\ right' = k0 /\ rest' = rest \ {k0}
  BY DEF LinkInv, NextKey
<1>3. Labels(c)' /\ Sizes(c)' /\ Reasons(c)' /\ Ranked(h)'
  BY <1>1, <1>2, LabelsKept
<1>4. k0 \in rest /\ k0 \in Keys
  BY <1>2, KeysFinite, LeastIn DEF TypeOK
<1> HIDE DEF k0
<1>5. first \in Keys /\ \A S \in Sealed : \A k \in rest : first \in S <=> k \in S
  BY <1>1, <1>2 DEF Labelled, AtHand, Working
<1>6. TypeOK'
  BY <1>2, <1>4, <1>5, SameInput DEF TypeOK, finds, cuts
<1>7. Handled(c)'
  <2>1. ASSUME NEW a \in Linkable \ todo, NEW k \in KeysOf(a)
        PROVE  Settled(c, k, Least(KeysOf(a)))' \/ Waits(c, k, Least(KeysOf(a)))'
    <3>1. CASE Settled(c, k, Least(KeysOf(a)))
      BY <3>1, <1>2, SettledKept, SameInput
    <3>2. CASE Waits(c, k, Least(KeysOf(a)))
      <4>1. Least(KeysOf(a)) = first /\ k \in rest
        BY <3>2, <1>2 DEF Waits, Finding
      <4>2. k \in rest' \/ c[right'] = c[k]
        BY <4>1, <1>2
      <4>3. QED BY <4>1, <4>2, <1>2, SameInput DEF Waits, Working, Finding
    <3>3. QED BY <3>1, <3>2, <1>1 DEF Labelled, Handled
  <2>2. QED BY <2>1, <1>2, SameInput DEF Handled
<1>8. AtHand(c)'
  BY <1>2, <1>4, <1>5, SameInput DEF AtHand, Working, Finding, Gathered
<1>9. QED BY <1>2, <1>3, <1>6, <1>7, <1>8, SameInput DEF LinkInv, Labelled

(* The last key of an artifact is settled, so the artifact is. *)
LEMMA EndKeysStep ==
  ASSUME LinkInv, EndKeys
  PROVE  LinkInv'
<1>1. PICK c \in [Keys -> Keys], h \in [Keys -> Nat] : Labelled(c) /\ Ranked(h)
  BY DEF LinkInv
<1>2. /\ TypeOK /\ obs' = obs /\ pc = "key" /\ pc' = "artifact" /\ rest = {}
      /\ UNCHANGED <<todo, rest, first, left, right, finds, group, cuts>>
  BY DEF LinkInv, EndKeys
<1>3. Labels(c)' /\ Sizes(c)' /\ Reasons(c)' /\ Ranked(h)'
  BY <1>1, <1>2, LabelsKept
<1>4. TypeOK'
  BY <1>2, SameInput DEF TypeOK, finds, cuts
<1>5. Handled(c)'
  <2>1. \A a \in Linkable \ todo : \A k \in KeysOf(a) : Settled(c, k, Least(KeysOf(a)))
    BY <1>1, <1>2 DEF Labelled, Handled, Waits, Finding
  <2>2. QED BY <2>1, <1>2, SettledKept, SameInput DEF Handled
<1>6. AtHand(c)'
  BY <1>2 DEF AtHand, Working, Finding, Gathered
<1>7. QED BY <1>2, <1>3, <1>4, <1>5, <1>6, SameInput DEF LinkInv, Labelled

LEMMA LeftStep ==
  ASSUME LinkInv, FindLeft
  PROVE  LinkInv'
<1>1. PICK c \in [Keys -> Keys], h \in [Keys -> Nat] : Labelled(c) /\ Ranked(h)
  BY DEF LinkInv
<1>2. /\ TypeOK /\ obs' = obs /\ pc = "left"
      /\ UNCHANGED <<todo, rest, first, right, size, group, cuts>>
  BY DEF LinkInv, FindLeft
<1>3. /\ first \in Keys /\ left \in Keys /\ right \in Keys /\ c[left] = c[first]
      /\ \A S \in Sealed : \A k \in rest : first \in S <=> k \in S
      /\ \A S \in Sealed : first \in S <=> right \in S
  BY <1>1, <1>2 DEF Labelled, AtHand, Working, Finding
<1>4. pc' \in Finding => Handled(c)'
  <2>1. ASSUME pc' \in Finding, NEW a \in Linkable \ todo, NEW k \in KeysOf(a)
        PROVE  Settled(c, k, Least(KeysOf(a)))' \/ Waits(c, k, Least(KeysOf(a)))'
    <3>1. CASE Settled(c, k, Least(KeysOf(a)))
      BY <3>1, <1>2, SettledKept, SameInput
    <3>2. CASE Waits(c, k, Least(KeysOf(a)))
      BY <2>1, <3>2, <1>2, SameInput DEF Waits, Working, Finding
    <3>3. QED BY <3>1, <3>2, <1>1 DEF Labelled, Handled
  <2>2. QED BY <2>1, <1>2, SameInput DEF Handled
<1>5. CASE parent[left] # left
  <2>1. Halve(left) /\ left' = parent[parent[left]] /\ pc' = pc
    BY <1>5 DEF FindLeft
  <2>2. /\ parent' \in [Keys -> Keys] /\ left' \in Keys /\ c[left'] = c[left]
        /\ \A j \in Keys : parent'[j] = j <=> parent[j] = j
        /\ Labels(c)' /\ Ranked(h)'
    BY <1>1, <1>2, <1>3, <1>5, <2>1, Halving DEF Labelled
  <2>3. Sizes(c)' /\ Reasons(c)'
    BY <1>1, <1>2, <2>2, ClassesKept DEF Labelled
  <2>4. TypeOK'
    BY <1>2, <2>1, <2>2, SameInput DEF TypeOK, cuts
  <2>5. AtHand(c)'
    BY <1>2, <1>3, <2>1, <2>2, SameInput DEF AtHand, Working, Finding, Gathered
  <2>6. QED BY <1>2, <1>4, <2>1, <2>2, <2>3, <2>4, <2>5, SameInput
            DEF LinkInv, Labelled, Finding
<1>6. CASE parent[left] = left
  <2>1. pc' = "right" /\ UNCHANGED <<left, parent>>
    BY <1>6 DEF FindLeft
  <2>2. Labels(c)' /\ Sizes(c)' /\ Reasons(c)' /\ Ranked(h)'
    BY <1>1, <1>2, <2>1, LabelsKept DEF finds
  <2>3. TypeOK'
    BY <1>2, <2>1, SameInput DEF TypeOK, cuts
  <2>4. AtHand(c)'
    BY <1>2, <1>3, <1>6, <2>1, SameInput DEF AtHand, Working, Finding, Gathered
  <2>5. QED BY <1>2, <1>4, <2>1, <2>2, <2>3, <2>4, SameInput DEF LinkInv, Labelled, Finding
<1>7. QED BY <1>5, <1>6

(* The root found on the left stays a root while the other is looked for. *)
LEMMA RightStep ==
  ASSUME LinkInv, FindRight
  PROVE  LinkInv'
<1>1. PICK c \in [Keys -> Keys], h \in [Keys -> Nat] : Labelled(c) /\ Ranked(h)
  BY DEF LinkInv
<1>2. /\ TypeOK /\ obs' = obs /\ pc = "right"
      /\ UNCHANGED <<todo, rest, first, left, size, group, cuts>>
  BY DEF LinkInv, FindRight
<1>3. /\ first \in Keys /\ left \in Keys /\ right \in Keys /\ c[left] = c[first]
      /\ parent[left] = left
      /\ \A S \in Sealed : \A k \in rest : first \in S <=> k \in S
      /\ \A S \in Sealed : first \in S <=> right \in S
  BY <1>1, <1>2 DEF Labelled, AtHand, Working, Finding
<1>4. pc' \in Finding /\ c[right'] = c[right] => Handled(c)'
  <2>1. ASSUME pc' \in Finding, c[right'] = c[right],
               NEW a \in Linkable \ todo, NEW k \in KeysOf(a)
        PROVE  Settled(c, k, Least(KeysOf(a)))' \/ Waits(c, k, Least(KeysOf(a)))'
    <3>1. CASE Settled(c, k, Least(KeysOf(a)))
      BY <3>1, <1>2, SettledKept, SameInput
    <3>2. CASE Waits(c, k, Least(KeysOf(a)))
      BY <2>1, <3>2, <1>2, SameInput DEF Waits, Working, Finding
    <3>3. QED BY <3>1, <3>2, <1>1 DEF Labelled, Handled
  <2>2. QED BY <2>1, <1>2, SameInput DEF Handled
<1>5. CASE parent[right] # right
  <2>1. Halve(right) /\ right' = parent[parent[right]] /\ pc' = pc
    BY <1>5 DEF FindRight
  <2>2. /\ parent' \in [Keys -> Keys] /\ right' \in Keys /\ c[right'] = c[right]
        /\ \A j \in Keys : parent'[j] = j <=> parent[j] = j
        /\ Labels(c)' /\ Ranked(h)'
    BY <1>1, <1>2, <1>3, <1>5, <2>1, Halving DEF Labelled
  <2>3. Sizes(c)' /\ Reasons(c)'
    BY <1>1, <1>2, <2>2, ClassesKept DEF Labelled
  <2>4. TypeOK'
    BY <1>2, <2>1, <2>2, SameInput DEF TypeOK, cuts
  <2>5. \A S \in Sealed : right \in S <=> right' \in S
    BY <1>1, <1>3, <2>2 DEF Labelled, Reasons
  <2>6. AtHand(c)'
    BY <1>2, <1>3, <2>1, <2>2, <2>5, SameInput DEF AtHand, Working, Finding, Gathered
  <2>7. QED BY <1>2, <1>4, <2>1, <2>2, <2>3, <2>4, <2>6, SameInput
            DEF LinkInv, Labelled, Finding
<1>6. CASE parent[right] = right
  <2>1. pc' = "join" /\ UNCHANGED <<right, parent>>
    BY <1>6 DEF FindRight
  <2>2. Labels(c)' /\ Sizes(c)' /\ Reasons(c)' /\ Ranked(h)'
    BY <1>1, <1>2, <2>1, LabelsKept DEF finds
  <2>3. TypeOK'
    BY <1>2, <2>1, SameInput DEF TypeOK, cuts
  <2>4. AtHand(c)'
    BY <1>2, <1>3, <1>6, <2>1, SameInput DEF AtHand, Working, Finding, Gathered
  <2>5. QED BY <1>2, <1>4, <2>1, <2>2, <2>3, <2>4, SameInput DEF LinkInv, Labelled, Finding
<1>7. QED BY <1>5, <1>6

(* The key at hand is settled: joined, joined before, or refused. *)
LEMMA JoinStep ==
  ASSUME LinkInv, Join
  PROVE  LinkInv'
<1>1. PICK c \in [Keys -> Keys], h \in [Keys -> Nat] : Labelled(c) /\ Ranked(h)
  BY DEF LinkInv
<1>2. /\ TypeOK /\ obs' = obs /\ pc = "join" /\ pc' = "key"
      /\ UNCHANGED <<todo, rest, first, left, right, group, cuts>>
  BY DEF LinkInv, Join
<1>3. /\ first \in Keys /\ left \in Keys /\ right \in Keys /\ c[left] = c[first]
      /\ parent[left] = left /\ parent[right] = right
      /\ \A S \in Sealed : \A k \in rest : first \in S <=> k \in S
      /\ \A S \in Sealed : first \in S <=> right \in S
  BY <1>1, <1>2 DEF Labelled, AtHand, Working, Finding
<1>4. c[left] = left /\ c[right] = right /\ c[first] = left
  BY <1>1, <1>3 DEF Labelled, Labels
<1>5. \A S \in Sealed : left \in S <=> right \in S
  BY <1>1, <1>3 DEF Labelled, Reasons
<1>6. AtHand(c)'
  BY <1>2, <1>3, SameInput DEF AtHand, Working, Finding, Gathered
<1>7. CASE left # right /\ Fits
  <2>0. PICK d \in [Keys -> Keys] :
          d = [k \in Keys |-> IF c[k] = right THEN left ELSE c[k]]
    BY <1>3
  <2>1. /\ parent' = [parent EXCEPT ![right] = left]
        /\ size' = [size EXCEPT ![left] = size[left] + size[right]]
    BY <1>7 DEF Join
  <2>2. /\ d \in [Keys -> Keys]
        /\ Labels(d)' /\ Sizes(d)' /\ Reasons(d)'
        /\ \E g \in [Keys -> Nat] : Ranked(g)'
        /\ \A j, k \in Keys : c[j] = c[k] => d[j] = d[k]
        /\ \A j, k \in Keys : Settled(c, j, k) => Settled(d, j, k)'
    BY <2>0, <1>1, <1>2, <1>3, <1>5, <1>7, <2>1, Joining DEF Labelled
  <2>3. \A k \in Keys : c[k] = c[right] => d[k] = d[first]
    BY <2>0, <1>3, <1>4
  <2>4. Handled(d)'
    <3>1. ASSUME NEW a \in Linkable \ todo, NEW k \in KeysOf(a)
          PROVE  Settled(d, k, Least(KeysOf(a)))' \/ Waits(d, k, Least(KeysOf(a)))'
      <4> DEFINE f == Least(KeysOf(a))
      <4>1. f \in Keys /\ k \in Keys
        BY <1>2, FirstKey
      <4> HIDE DEF f
      <4>2. CASE Settled(c, k, f)
        BY <4>2, <4>1, <2>2, <1>2, SameInput DEF f
      <4>3. CASE Waits(c, k, f)
        <5>1. f = first /\ (k \in rest \/ c[right] = c[k])
          BY <4>3 DEF Waits
        <5>2. CASE k \in rest
          BY <5>1, <5>2, <1>2, SameInput DEF Waits, Working, f
        <5>3. CASE c[right] = c[k]
          BY <5>1, <5>3, <4>1, <2>3, <1>2, SameInput DEF Settled, f
        <5>4. QED BY <5>1, <5>2, <5>3
      <4>4. QED BY <4>2, <4>3, <1>1 DEF Labelled, Handled, f
    <3>2. QED BY <3>1, <1>2, SameInput DEF Handled
  <2>5. TypeOK'
    <3>1. size[left] \in 1 .. MaxLinkedBuckets /\ size[right] \in 1 .. MaxLinkedBuckets
      BY <1>2, <1>3 DEF TypeOK
    <3>2. size[left] + size[right] \in 1 .. MaxLinkedBuckets
      BY <3>1, <1>7, LinkingAssumption DEF Fits
    <3>3. size' \in [Keys -> 1 .. MaxLinkedBuckets] /\ parent' \in [Keys -> Keys]
      BY <3>2, <2>1, <1>2, <1>3 DEF TypeOK
    <3>4. QED BY <3>3, <1>2, SameInput DEF TypeOK, cuts
  <2>6. AtHand(d)'
    BY <1>2, <1>3, SameInput DEF AtHand, Working, Finding, Gathered
  <2>7. PICK g \in [Keys -> Nat] : Ranked(g)'
    BY <2>2
  <2>8. Labelled(d)'
    BY <2>2, <2>4, <2>6 DEF Labelled
  <2>9. QED BY <1>2, <2>0, <2>5, <2>7, <2>8, SameInput DEF LinkInv
<1>8. CASE left = right \/ ~Fits
  <2>1. UNCHANGED finds
    BY <1>8 DEF Join, Fits
  <2>2. Labels(c)' /\ Sizes(c)' /\ Reasons(c)' /\ Ranked(h)'
    BY <1>1, <1>2, <2>1, LabelsKept
  <2>3. ASSUME NEW k \in Keys, c[right] = c[k] PROVE Settled(c, k, first)
    <3>1. CASE left = right
      BY <3>1, <1>4, <2>3 DEF Settled
    <3>2. CASE ~Fits
      <4>1. /\ size[left] = Cardinality(Class(c, left))
            /\ size[right] = Cardinality(Class(c, right))
        BY <1>1, <1>3 DEF Labelled, Sizes
      <4>2. size[left] \in Nat /\ size[right] \in Nat
        <5>1. size \in [Keys -> 1 .. MaxLinkedBuckets]
          BY <1>2 DEF TypeOK
        <5>2. left \in Keys /\ right \in Keys
          BY <1>3
        <5>3. QED BY <5>1, <5>2
      <4>3. size[right] + size[left] > MaxLinkedBuckets
        BY <3>2, <4>2, LinkingAssumption DEF Fits
      <4>4. QED BY <4>1, <4>3, <1>4, <2>3 DEF Settled
    <3>3. QED BY <1>8, <3>1, <3>2
  <2>4. Handled(c)'
    <3>1. ASSUME NEW a \in Linkable \ todo, NEW k \in KeysOf(a)
          PROVE  Settled(c, k, Least(KeysOf(a)))' \/ Waits(c, k, Least(KeysOf(a)))'
      <4>1. k \in Keys
        BY <1>2, FirstKey
      <4>2. Settled(c, k, Least(KeysOf(a))) \/ (Least(KeysOf(a)) = first /\ k \in rest)
        BY <4>1, <2>3, <1>1 DEF Labelled, Handled, Waits
      <4>3. CASE Settled(c, k, Least(KeysOf(a)))
        BY <4>3, <1>2, SettledKept, SameInput
      <4>4. CASE Least(KeysOf(a)) = first /\ k \in rest
        BY <4>4, <1>2, SameInput DEF Waits, Working
      <4>5. QED BY <4>2, <4>3, <4>4
    <3>2. QED BY <3>1, <1>2, SameInput DEF Handled
  <2>5. TypeOK'
    BY <1>2, <2>1, SameInput DEF TypeOK, finds, cuts
  <2>6. QED BY <1>2, <1>6, <2>2, <2>4, <2>5, SameInput DEF LinkInv, Labelled
<1>9. QED BY <1>7, <1>8

(* Outside of the linking nothing is left to settle. *)
LEMMA AllHandled ==
  ASSUME obs' = obs, todo' = todo, pc \notin Working,
         NEW c, Handled(c)
  PROVE  Handled(c)'
<1>1. \A a \in Linkable \ todo : \A k \in KeysOf(a) : Settled(c, k, Least(KeysOf(a)))
  BY DEF Handled, Waits
<1>2. QED BY <1>1, SettledKept, SameInput DEF Handled

LEMMA EndArtifactsStep ==
  ASSUME LinkInv, EndArtifacts
  PROVE  LinkInv'
<1>1. PICK c \in [Keys -> Keys], h \in [Keys -> Nat] : Labelled(c) /\ Ranked(h)
  BY DEF LinkInv
<1>2. /\ TypeOK /\ obs' = obs /\ pc = "artifact" /\ pc' = "gather" /\ todo = {}
      /\ rest' = Keys
      /\ UNCHANGED <<todo, first, left, right, finds, group, cuts>>
  BY DEF LinkInv, EndArtifacts
<1>3. Labels(c)' /\ Sizes(c)' /\ Reasons(c)' /\ Ranked(h)' /\ Handled(c)'
  BY <1>1, <1>2, LabelsKept, AllHandled DEF Labelled, Working
<1>4. TypeOK' /\ AtHand(c)'
  BY <1>2, SameInput DEF TypeOK, AtHand, finds, cuts, Working, Finding, Gathered
<1>5. QED BY <1>2, <1>3, <1>4, SameInput DEF LinkInv, Labelled

LEMMA NextMemberStep ==
  ASSUME LinkInv, NextMember
  PROVE  LinkInv'
<1>1. PICK c \in [Keys -> Keys], h \in [Keys -> Nat] : Labelled(c) /\ Ranked(h)
  BY DEF LinkInv
<1>2. /\ TypeOK /\ obs' = obs /\ pc = "gather" /\ pc' = "member" /\ rest # {}
      /\ first' = Least(rest) /\ left' = first'
      /\ UNCHANGED <<todo, rest, right, finds, group, cuts>>
  BY DEF LinkInv, NextMember
<1>3. first' \in rest /\ first' \in Keys
  BY <1>2, KeysFinite, LeastIn DEF TypeOK
<1>4. Labels(c)' /\ Sizes(c)' /\ Reasons(c)' /\ Ranked(h)' /\ Handled(c)'
  BY <1>1, <1>2, LabelsKept, AllHandled DEF Labelled, Working
<1>5. todo = {} /\ \A k \in Keys \ rest : group[k] = c[k]
  BY <1>1, <1>2 DEF Labelled, AtHand, Working
<1>6. TypeOK' /\ AtHand(c)'
  BY <1>2, <1>3, <1>5, SameInput
     DEF TypeOK, AtHand, finds, cuts, Working, Finding, Gathered
<1>7. QED BY <1>2, <1>4, <1>6, SameInput DEF LinkInv, Labelled

LEMMA MemberStep ==
  ASSUME LinkInv, FindMember
  PROVE  LinkInv'
<1>1. PICK c \in [Keys -> Keys], h \in [Keys -> Nat] : Labelled(c) /\ Ranked(h)
  BY DEF LinkInv
<1>2. /\ TypeOK /\ obs' = obs /\ pc = "member"
      /\ UNCHANGED <<todo, first, right, size, cuts>>
  BY DEF LinkInv, FindMember
<1>3. /\ left \in Keys /\ first \in rest /\ first \in Keys /\ c[left] = c[first]
      /\ todo = {} /\ \A k \in Keys \ rest : group[k] = c[k]
  BY <1>1, <1>2 DEF Labelled, AtHand, Working, TypeOK
<1>4. Handled(c)'
  BY <1>1, <1>2, AllHandled DEF Labelled, Working
<1>5. CASE parent[left] # left
  <2>1. /\ Halve(left) /\ left' = parent[parent[left]] /\ pc' = pc
        /\ UNCHANGED <<rest, group>>
    BY <1>5 DEF FindMember
  <2>2. /\ parent' \in [Keys -> Keys] /\ left' \in Keys /\ c[left'] = c[left]
        /\ \A j \in Keys : parent'[j] = j <=> parent[j] = j
        /\ Labels(c)' /\ Ranked(h)'
    BY <1>1, <1>2, <1>3, <1>5, <2>1, Halving DEF Labelled
  <2>3. Sizes(c)' /\ Reasons(c)'
    BY <1>1, <1>2, <2>2, ClassesKept DEF Labelled
  <2>4. TypeOK' /\ AtHand(c)'
    BY <1>2, <1>3, <2>1, <2>2, SameInput
       DEF TypeOK, AtHand, cuts, Working, Finding, Gathered
  <2>5. QED BY <1>2, <1>4, <2>2, <2>3, <2>4, SameInput DEF LinkInv, Labelled
<1>6. CASE parent[left] = left
  <2>1. /\ group' = [group EXCEPT ![first] = left] /\ rest' = rest \ {first}
        /\ pc' = "gather" /\ UNCHANGED <<left, parent>>
    BY <1>6 DEF FindMember
  <2>2. Labels(c)' /\ Sizes(c)' /\ Reasons(c)' /\ Ranked(h)'
    BY <1>1, <1>2, <2>1, LabelsKept DEF finds
  <2>3. c[first] = left
    BY <1>1, <1>3, <1>6 DEF Labelled, Labels
  <2>4. group' \in [Keys -> Keys \cup {0}] /\ \A k \in Keys \ rest' : group'[k] = c[k]
    BY <1>2, <1>3, <2>1, <2>3 DEF TypeOK
  <2>5. TypeOK' /\ AtHand(c)'
    BY <1>2, <1>3, <2>1, <2>4, SameInput
       DEF TypeOK, AtHand, cuts, Working, Finding, Gathered
  <2>6. QED BY <1>2, <1>4, <2>2, <2>5, SameInput DEF LinkInv, Labelled
<1>7. QED BY <1>5, <1>6

LEMMA EndGatherStep ==
  ASSUME LinkInv, EndGather
  PROVE  LinkInv'
<1>1. PICK c \in [Keys -> Keys], h \in [Keys -> Nat] : Labelled(c) /\ Ranked(h)
  BY DEF LinkInv
<1>2. /\ TypeOK /\ obs' = obs /\ pc = "gather" /\ pc' = "cut" /\ rest = {}
      /\ UNCHANGED <<todo, rest, first, left, right, finds, group, cuts>>
  BY DEF LinkInv, EndGather
<1>3. Labels(c)' /\ Sizes(c)' /\ Reasons(c)' /\ Ranked(h)' /\ Handled(c)'
  BY <1>1, <1>2, LabelsKept, AllHandled DEF Labelled, Working
<1>4. todo = {} /\ \A k \in Keys : group[k] = c[k]
  BY <1>1, <1>2 DEF Labelled, AtHand, Working
<1>5. TypeOK' /\ AtHand(c)'
  BY <1>2, <1>4, SameInput DEF TypeOK, AtHand, finds, cuts, Working, Finding, Gathered
<1>6. QED BY <1>2, <1>3, <1>5, SameInput DEF LinkInv, Labelled

(* Cutting windows leaves the groups alone. *)
LEMMA CutStep ==
  ASSUME LinkInv, (\E i \in Uncut : Cut(i)) \/ EndCuts
  PROVE  LinkInv'
<1>1. PICK c \in [Keys -> Keys], h \in [Keys -> Nat] : Labelled(c) /\ Ranked(h)
  BY DEF LinkInv
<1>2. /\ TypeOK /\ obs' = obs /\ pc = "cut" /\ pc' \in {"cut", "done"}
      /\ UNCHANGED <<todo, rest, first, left, right, finds, group>>
  BY DEF LinkInv, Cut, EndCuts, cuts
<1>3. Labels(c)' /\ Sizes(c)' /\ Reasons(c)' /\ Ranked(h)' /\ Handled(c)'
  BY <1>1, <1>2, LabelsKept, AllHandled DEF Labelled, Working
<1>4. todo = {} /\ \A k \in Keys : group[k] = c[k]
  BY <1>1, <1>2 DEF Labelled, AtHand, Working, Gathered
<1>5. AtHand(c)'
  BY <1>2, <1>4, SameInput DEF AtHand, Working, Finding, Gathered
<1>6. /\ place' \in [Positions -> Nat]
      /\ start' \in [Keys -> Nat] /\ count' \in [Keys -> Nat]
  <2>1. ASSUME NEW i \in Uncut, Cut(i)
        PROVE  /\ place' \in [Positions -> Nat]
               /\ start' \in [Keys -> Nat] /\ count' \in [Keys -> Nat]
    <3>1. i \in Positions /\ obs[i].time \in Nat
      <4>1. i \in 1 .. Len(obs) /\ obs \in Seq(Observation)
        BY <1>2 DEF Uncut, TypeOK, Positions
      <4>2. obs[i] \in Observation
        BY <4>1
      <4>3. QED BY <4>1, <4>2 DEF Observation, Positions
    <3>2. GroupOf(i) \in Keys
      BY <3>1, <1>1, <1>2, <1>4, KeysFinite DEF GroupOf
    <3>3. /\ count' \in {count, [count EXCEPT ![GroupOf(i)] = count[GroupOf(i)] + 1]}
          /\ start' \in {start, [start EXCEPT ![GroupOf(i)] = obs[i].time]}
          /\ place' = [place EXCEPT ![i] = count'[GroupOf(i)]]
      BY <2>1, Zenon DEF Cut
    <3>4. /\ place \in [Positions -> Nat]
          /\ start \in [Keys -> Nat] /\ count \in [Keys -> Nat]
      BY <1>2 DEF TypeOK
    <3>5. count' \in [Keys -> Nat] /\ start' \in [Keys -> Nat]
      BY <3>1, <3>2, <3>3, <3>4
    <3>6. QED BY <3>1, <3>2, <3>3, <3>4, <3>5
  <2>2. CASE EndCuts
    BY <2>2, <1>2 DEF EndCuts, TypeOK, cuts
  <2>3. QED BY <2>1, <2>2
<1>7. TypeOK'
  BY <1>2, <1>6, SameInput DEF TypeOK, finds
<1>8. QED BY <1>2, <1>3, <1>5, <1>7, SameInput DEF LinkInv, Labelled

THEOREM LinkInductive == LinkInv /\ [Next]_vars => LinkInv'
<1>1. ASSUME LinkInv, [Next]_vars PROVE LinkInv'
  <2>1. CASE \E a \in todo : NextArtifact(a)
    BY <1>1, <2>1, ArtifactStep
  <2>2. CASE EndArtifacts
    BY <1>1, <2>2, EndArtifactsStep
  <2>3. CASE NextKey
    BY <1>1, <2>3, KeyStep
  <2>4. CASE EndKeys
    BY <1>1, <2>4, EndKeysStep
  <2>5. CASE FindLeft
    BY <1>1, <2>5, LeftStep
  <2>6. CASE FindRight
    BY <1>1, <2>6, RightStep
  <2>7. CASE Join
    BY <1>1, <2>7, JoinStep
  <2>8. CASE NextMember
    BY <1>1, <2>8, NextMemberStep
  <2>9. CASE FindMember
    BY <1>1, <2>9, MemberStep
  <2>10. CASE EndGather
    BY <1>1, <2>10, EndGatherStep
  <2>11. CASE (\E i \in Uncut : Cut(i)) \/ EndCuts
    BY <1>1, <2>11, CutStep
  <2>12. CASE UNCHANGED vars
    <3>1. PICK c \in [Keys -> Keys], h \in [Keys -> Nat] : Labelled(c) /\ Ranked(h)
      BY <1>1 DEF LinkInv
    <3>2. obs' = obs /\ UNCHANGED <<pc, todo, rest, first, left, right, finds, group, cuts>>
      BY <2>12 DEF vars
    <3>3. Labels(c)' /\ Sizes(c)' /\ Reasons(c)' /\ Ranked(h)'
      BY <3>1, <3>2, LabelsKept
    <3>4. Handled(c)' /\ AtHand(c)'
      BY <3>1, <3>2, SameInput
         DEF Labelled, Handled, Settled, Waits, AtHand, Gathered, finds
    <3>5. TypeOK'
      BY <1>1, <3>2, SameInput DEF LinkInv, TypeOK, finds, cuts
    <3>6. QED BY <3>2, <3>3, <3>4, <3>5, SameInput DEF LinkInv, Labelled
  <2>13. QED
    BY <1>1, <2>1, <2>2, <2>3, <2>4, <2>5, <2>6, <2>7, <2>8, <2>9, <2>10, <2>11, <2>12
       DEF Next, Link
<1>2. QED BY <1>1

THEOREM LinkInvariant == Spec => []LinkInv
BY InitLabelled, LinkInductive, PTL DEF Spec

-----------------------------------------------------------------------------
(* A gathered group is a class of the labelling. *)
LEMMA MembersAreClass ==
  ASSUME NEW c \in [Keys -> Keys], Labelled(c), Gathered, NEW k \in Keys
  PROVE  Members(k) = Class(c, c[k]) /\ k \in Members(k)
BY DEF Members, Class, Labelled, AtHand

(* Every variable of the scan has its type, and no component ever grows
   above MAX_LINKED_BUCKETS, for any observations. *)
THEOREM LinkTyped == Spec => []TypeOK
BY LinkInvariant, PTL DEF LinkInv

(* No gathered group has more buckets than MAX_LINKED_BUCKETS. *)
THEOREM GroupsAreBounded == Spec => []CapKept
<1>1. LinkInv => CapKept
  <2> SUFFICES ASSUME LinkInv, Gathered, NEW k \in Keys
               PROVE  Cardinality(Members(k)) <= MaxLinkedBuckets
    BY DEF CapKept
  <2>1. PICK c \in [Keys -> Keys] : Labelled(c)
    BY DEF LinkInv
  <2>2. c[k] \in Keys /\ parent[c[k]] = c[k]
    BY <2>1 DEF Labelled, Labels
  <2>3. size[c[k]] = Cardinality(Members(k))
    BY <2>1, <2>2, MembersAreClass DEF Labelled, Sizes
  <2>4. size[c[k]] \in 1 .. MaxLinkedBuckets
    BY <2>2 DEF LinkInv, TypeOK
  <2>5. QED BY <2>3, <2>4, LinkingAssumption
<1>2. QED BY <1>1, LinkInvariant, PTL

(* Buckets share a group only along linking artifacts. *)
THEOREM GroupsHaveReason == Spec => []LinksHaveReason
<1>1. LinkInv => LinksHaveReason
  <2> SUFFICES ASSUME LinkInv, Gathered, NEW S \in Sealed, NEW k \in S
               PROVE  Members(k) \subseteq S
    BY DEF LinksHaveReason, Sealed
  <2>1. PICK c \in [Keys -> Keys] : Labelled(c)
    BY DEF LinkInv
  <2>2. k \in Keys
    BY DEF Sealed
  <2>3. \A j \in Class(c, c[k]) : j \in S
    BY <2>1, <2>2 DEF Class, Labelled, Reasons
  <2>4. QED BY <2>1, <2>2, <2>3, MembersAreClass
<1>2. QED BY <1>1, LinkInvariant, PTL

(* A link is lost only to the bound, whatever order artifacts came in. *)
THEOREM LinksLostOnlyWhenFull == Spec => []AllLinksUnlessFull
<1>1. LinkInv => AllLinksUnlessFull
  <2> SUFFICES ASSUME LinkInv, Gathered, NEW a \in Linkable, NEW k \in KeysOf(a)
               PROVE  \/ group[k] = group[Least(KeysOf(a))]
                      \/ Cardinality(Members(k)) + Cardinality(Members(Least(KeysOf(a))))
                           > MaxLinkedBuckets
    BY DEF AllLinksUnlessFull
  <2> DEFINE f == Least(KeysOf(a))
  <2>1. PICK c \in [Keys -> Keys] : Labelled(c)
    BY DEF LinkInv
  <2>2. k \in Keys /\ f \in Keys
    BY FirstKey DEF LinkInv
  <2>3. todo = {} /\ group[k] = c[k] /\ group[f] = c[f]
    BY <2>1, <2>2 DEF Labelled, AtHand, Gathered, Working
  <2>4. Settled(c, k, f)
    BY <2>1, <2>3 DEF Labelled, Handled, Waits, Gathered, Working
  <2> HIDE DEF f
  <2>5. QED BY <2>1, <2>2, <2>3, <2>4, MembersAreClass DEF Settled, f
<1>2. QED BY <1>1, LinkInvariant, PTL
-----------------------------------------------------------------------------
(* The union-find implements the partition.  Sets closed under a parent    *)
(* function, and under its inverse, are a Boolean algebra; the components  *)
(* are its atoms, one around each key.                                     *)
ClosedBy(p, K) == {S \in SUBSET K : \A k \in K : k \in S <=> p[k] \in S}
Atoms(C) == {S \in C \ {{}} : \A T \in C : T \subseteq S => T \in {{}, S}}
Around(C, K, k) == {j \in K : \A S \in C : j \in S <=> k \in S}

(* The atom around k is the least closed set that holds k. *)
LEMMA LeastAround ==
  ASSUME NEW K, NEW p \in [K -> K], NEW k \in K, NEW S \in ClosedBy(p, K), k \in S
  PROVE  Around(ClosedBy(p, K), K, k) \subseteq S
BY DEF Around

LEMMA AtomsAround ==
  ASSUME NEW K, NEW p \in [K -> K]
  PROVE  Atoms(ClosedBy(p, K)) = {Around(ClosedBy(p, K), K, k) : k \in K}
<1> DEFINE C == ClosedBy(p, K)
           around(k) == Around(C, K, k)
<1>1. \A k \in K : p[k] \in K
  OBVIOUS
<1>2. \A k \in K : around(k) \in C /\ k \in around(k)
  <2> TAKE k \in K
  <2>1. \A j \in K : \A S \in C : j \in S <=> p[j] \in S
    BY DEF ClosedBy
  <2>2. \A j \in K : j \in around(k) <=> p[j] \in around(k)
    BY <1>1, <2>1 DEF Around
  <2>3. around(k) \subseteq K /\ k \in around(k)
    BY DEF Around
  <2>4. QED BY <2>2, <2>3 DEF ClosedBy
<1>3. ASSUME NEW S \in C, NEW T \in C PROVE S \ T \in C
  BY <1>1 DEF ClosedBy
<1>4. \A S \in C : S \subseteq K
  BY DEF ClosedBy
<1>5. \A k \in K : \A S \in C : k \in S => around(k) \subseteq S
  BY DEF Around
<1> HIDE DEF C, around
<1>6. ASSUME NEW k \in K PROVE around(k) \in Atoms(C)
  <2>1. ASSUME NEW T \in C, T \subseteq around(k), T # {}, T # around(k) PROVE FALSE
    <3>1. k \notin T
      BY <2>1, <1>5
    <3>2. around(k) \ T \in C /\ k \in around(k) \ T
      BY <3>1, <1>2, <1>3
    <3>3. around(k) \subseteq around(k) \ T
      BY <3>2, <1>5
    <3>4. QED BY <3>3, <2>1
  <2>2. QED BY <2>1, <1>2 DEF Atoms
<1>7. ASSUME NEW S \in Atoms(C) PROVE \E k \in K : S = around(k)
  <2>1. S \in C /\ S # {} /\ \A T \in C : T \subseteq S => T \in {{}, S}
    BY DEF Atoms
  <2>2. PICK k \in S : k \in K
    BY <2>1, <1>4
  <2>3. around(k) \subseteq S /\ around(k) \in C /\ k \in around(k)
    BY <2>1, <2>2, <1>2, <1>5
  <2>4. QED BY <2>1, <2>2, <2>3
<1>8. Atoms(C) = {around(k) : k \in K}
  BY <1>6, <1>7
<1>9. QED BY <1>8 DEF C, around

(* Halving a path changes no closed set. *)
LEMMA HalvedClosed ==
  ASSUME NEW K, NEW p \in [K -> K], NEW k \in K, p[k] # k, NEW q \in [K -> K],
         \A j \in K : q[j] = IF j = k THEN p[p[k]] ELSE p[j]
  PROVE  ClosedBy(q, K) = ClosedBy(p, K)
<1>1. /\ p[k] \in K /\ q[k] = p[p[k]] /\ q[p[k]] = p[p[k]]
      /\ \A j \in K \ {k} : q[j] = p[j]
  OBVIOUS
<1>2. ASSUME NEW S \in SUBSET K
      PROVE  (\A j \in K : j \in S <=> q[j] \in S) <=> (\A j \in K : j \in S <=> p[j] \in S)
  <2>1. ASSUME \A j \in K : j \in S <=> q[j] \in S
        PROVE  \A j \in K : j \in S <=> p[j] \in S
    <3>1. k \in S <=> p[k] \in S
      BY <1>1, <2>1
    <3>2. QED BY <3>1, <1>1, <2>1
  <2>2. ASSUME \A j \in K : j \in S <=> p[j] \in S
        PROVE  \A j \in K : j \in S <=> q[j] \in S
    <3>1. k \in S <=> q[k] \in S
      BY <1>1, <2>2
    <3>2. QED BY <3>1, <1>1, <2>2
  <2>3. QED BY <2>1, <2>2
<1>3. QED BY <1>2 DEF ClosedBy

(* Joining two roots keeps the closed sets that hold both or none. *)
LEMMA JoinedClosed ==
  ASSUME NEW K, NEW p \in [K -> K], NEW l \in K, NEW r \in K,
         p[l] = l, p[r] = r, l # r, NEW q \in [K -> K],
         \A j \in K : q[j] = IF j = r THEN l ELSE p[j]
  PROVE  \A S : S \in ClosedBy(q, K) <=> S \in ClosedBy(p, K) /\ (l \in S <=> r \in S)
<1>1. q[r] = l /\ \A j \in K \ {r} : q[j] = p[j]
  OBVIOUS
<1>2. ASSUME NEW S \in SUBSET K
      PROVE  (\A j \in K : j \in S <=> q[j] \in S)
               <=> ((\A j \in K : j \in S <=> p[j] \in S) /\ (l \in S <=> r \in S))
  BY <1>1
<1>3. QED BY <1>2 DEF ClosedBy

(* Then the two atoms are one, and the others are what they were. *)
LEMMA JoinedAtoms ==
  ASSUME NEW K, NEW p \in [K -> K], NEW l \in K, NEW r \in K,
         p[l] = l, p[r] = r, l # r, NEW q \in [K -> K],
         \A j \in K : q[j] = IF j = r THEN l ELSE p[j],
         NEW A, A = Around(ClosedBy(p, K), K, l),
         NEW B, B = Around(ClosedBy(p, K), K, r)
  PROVE  Atoms(ClosedBy(q, K)) =
           (Atoms(ClosedBy(p, K)) \ {A, B}) \cup {A \cup B}
<1> DEFINE C == ClosedBy(p, K)
           D == ClosedBy(q, K)
           old(k) == Around(C, K, k)
           new(k) == Around(D, K, k)
<1>1. \A S : S \in D <=> S \in C /\ (l \in S <=> r \in S)
  <2>1. \A S : S \in ClosedBy(q, K) <=> S \in ClosedBy(p, K) /\ (l \in S <=> r \in S)
    BY JoinedClosed
  <2>2. QED BY <2>1
<1>2. Atoms(C) = {old(k) : k \in K}
  BY AtomsAround
<1>3. Atoms(D) = {new(k) : k \in K}
  <2>1. Atoms(ClosedBy(q, K)) = {Around(ClosedBy(q, K), K, k) : k \in K}
    BY AtomsAround
  <2>2. QED BY <2>1
<1>4. \A j, k \in K : j \in old(k) <=> old(j) = old(k)
  BY DEF Around
<1>5. \A j, k \in K : j \in new(k) <=> new(j) = new(k)
  BY DEF Around
<1>6. \A k \in K : old(k) \in C /\ k \in old(k) /\ old(k) \subseteq K
  <2>1. \A k \in K : old(k) \in Atoms(C)
    BY <1>2
  <2>2. QED BY <2>1 DEF Atoms, Around
<1>7. A \cup B \in C /\ A = old(l) /\ B = old(r)
  <2>1. A \in C /\ B \in C /\ A = old(l) /\ B = old(r)
    BY <1>6
  <2>2. \A k \in K : p[k] \in K
    OBVIOUS
  <2>3. QED BY <2>1, <2>2 DEF ClosedBy
<1>8. \A S \in D : S \in C /\ (l \in S <=> r \in S)
  BY <1>1
<1>9. A \cup B \in D
  BY <1>1, <1>6, <1>7
<1>10. \A k \in K : \A S \in C : k \in S => old(k) \subseteq S
  BY DEF Around
<1>11. \A k \in K : \A S \in D : k \in S => new(k) \subseteq S
  BY DEF Around
<1>12. \A k \in K : new(k) \in D /\ k \in new(k)
  <2>1. \A k \in K : new(k) \in Atoms(D)
    BY <1>3
  <2>2. QED BY <2>1 DEF Atoms, Around
<1> HIDE DEF C, D, old, new
<1>13. ASSUME NEW k \in A \cup B PROVE k \in K /\ new(k) = A \cup B
  <2>1. k \in K
    BY <1>6, <1>7
  <2>2. new(k) \subseteq A \cup B
    BY <2>1, <1>9, <1>11
  <2>3. new(k) \in C /\ (l \in new(k) <=> r \in new(k)) /\ k \in new(k)
    BY <2>1, <1>8, <1>12
  <2>4. old(k) \subseteq new(k)
    BY <2>1, <2>3, <1>10
  <2>5. l \in old(k) \/ r \in old(k)
    BY <2>1, <1>4, <1>7
  <2>6. l \in new(k) /\ r \in new(k)
    BY <2>3, <2>4, <2>5
  <2>7. A \subseteq new(k) /\ B \subseteq new(k)
    BY <2>3, <2>6, <1>7, <1>10
  <2>8. QED BY <2>1, <2>2, <2>7
<1>14. ASSUME NEW k \in K, k \notin A \cup B PROVE new(k) = old(k) /\ old(k) \notin {A, B}
  <2>1. old(k) \notin {A, B}
    BY <1>14, <1>6
  <2>2. l \notin old(k) /\ r \notin old(k)
    BY <2>1, <1>4, <1>7
  <2>3. old(k) \in D
    BY <2>2, <1>1, <1>6
  <2>4. new(k) \subseteq old(k)
    BY <2>3, <1>6, <1>11
  <2>5. old(k) \subseteq new(k)
    BY <1>8, <1>10, <1>12
  <2>6. QED BY <2>1, <2>4, <2>5
<1>15. \A k \in K : k \in A \cup B => old(k) \in {A, B}
  BY <1>4, <1>7
<1>16. l \in A \cup B
  BY <1>6, <1>7
<1>17. {new(k) : k \in K} = ({old(k) : k \in K} \ {A, B}) \cup {A \cup B}
  <2>1. ASSUME NEW k \in K
        PROVE  new(k) \in ({old(j) : j \in K} \ {A, B}) \cup {A \cup B}
    BY <1>13, <1>14
  <2>2. ASSUME NEW k \in K, old(k) \notin {A, B} PROVE \E j \in K : old(k) = new(j)
    BY <2>2, <1>14, <1>15
  <2>3. A \cup B = new(l)
    BY <1>13, <1>16
  <2>4. l \in K
    OBVIOUS
  <2>5. ASSUME NEW X \in {old(k) : k \in K} \ {A, B} PROVE X \in {new(k) : k \in K}
    BY <2>2
  <2>6. A \cup B \in {new(k) : k \in K}
    BY <2>3, <2>4
  <2>7. ASSUME NEW X \in {new(k) : k \in K}
        PROVE  X \in ({old(k) : k \in K} \ {A, B}) \cup {A \cup B}
    BY <2>1
  <2>8. QED BY <2>5, <2>6, <2>7
<1>18. Atoms(D) = (Atoms(C) \ {A, B}) \cup {A \cup B}
  BY <1>17, <1>2, <1>3
<1>19. QED BY <1>18 DEF C, D

-----------------------------------------------------------------------------
Closed == ClosedBy(parent, Keys)
Together(j, k) == \A S \in Closed : j \in S <=> k \in S

(* The step under way joins keys of one linking artifact. *)
Joined ==
  pc \in Working =>
    \E a \in Linkable :
      /\ first \in KeysOf(a) /\ rest \subseteq KeysOf(a)
      /\ pc \in Finding =>
           /\ Together(first, left)
           /\ \E k \in KeysOf(a) : Together(k, right)

ImplInv == LinkInv /\ Joined

(* A step that halves a path, or leaves the parents alone. *)
Halves == parent' = parent \/ \E k \in Keys : parent[k] # k /\ Halve(k)

LEMMA HalvesKeep ==
  ASSUME TypeOK, obs' = obs, Halves
  PROVE  /\ Closed' = Closed /\ Components' = Components
         /\ \A j, k : Together(j, k)' <=> Together(j, k)
<1>1. parent \in [Keys -> Keys] /\ Keys' = Keys
  BY SameInput DEF TypeOK
<1>2. Closed' = Closed /\ parent' \in [Keys -> Keys]
  <2>1. CASE parent' = parent
    BY <1>1, <2>1 DEF Closed
  <2>2. ASSUME NEW k \in Keys, parent[k] # k, Halve(k)
        PROVE  Closed' = Closed /\ parent' \in [Keys -> Keys]
    <3>1. /\ parent' \in [Keys -> Keys]
          /\ \A j \in Keys : parent'[j] = IF j = k THEN parent[parent[k]] ELSE parent[j]
      BY <1>1, <2>2 DEF Halve
    <3>2. ClosedBy(parent', Keys) = ClosedBy(parent, Keys)
      BY <1>1, <2>2, <3>1, HalvedClosed
    <3>3. QED BY <1>1, <3>1, <3>2 DEF Closed
  <2>3. QED BY <2>1, <2>2 DEF Halves
<1>3. Components = Atoms(Closed)
  BY <1>1 DEF Components, Atoms, Closed, ClosedBy
<1>4. Components' = Atoms(Closed')
  BY <1>1, <1>2 DEF Components, Atoms, Closed, ClosedBy
<1>5. QED BY <1>2, <1>3, <1>4 DEF Together

(* Every step halves at most, except for a union that is made. *)
LEMMA HalvesUnless ==
  ASSUME LinkInv, [Next]_vars, ~ (Join /\ left # right /\ Fits)
  PROVE  Halves
<1>1. PICK c \in [Keys -> Keys] : Labelled(c)
  BY DEF LinkInv
<1>2. /\ pc \in Finding => left \in Keys /\ right \in Keys
      /\ pc = "member" => left \in Keys
  BY <1>1 DEF Labelled, AtHand
<1>3. CASE FindLeft \/ FindMember
  BY <1>2, <1>3 DEF FindLeft, FindMember, Halves, Finding
<1>4. CASE FindRight
  BY <1>2, <1>4 DEF FindRight, Halves, Finding
<1>5. CASE Join
  BY <1>5 DEF Join, Halves, Fits, finds
<1>6. CASE ~ (FindLeft \/ FindMember \/ FindRight \/ Join)
  BY <1>6 DEF Next, Link, NextArtifact, EndArtifacts, NextKey, EndKeys, NextMember,
              EndGather, Cut, EndCuts, vars, finds, Halves
<1>7. QED BY <1>3, <1>4, <1>5, <1>6

(* A key is together with its grandparent. *)
LEMMA TogetherUp ==
  ASSUME TypeOK, NEW k \in Keys, NEW j
  PROVE  Together(j, parent[parent[k]]) <=> Together(j, k)
<1>1. parent[k] \in Keys
  BY DEF TypeOK
<1>2. \A S \in Closed : k \in S <=> parent[parent[k]] \in S
  BY <1>1 DEF Closed, ClosedBy
<1>3. QED BY <1>2 DEF Together

LEMMA JoinedKept ==
  ASSUME ImplInv, [Next]_vars
  PROVE  Joined'
<1>1. TypeOK /\ LinkInv /\ Joined /\ obs' = obs /\ Linkable' = Linkable
      /\ \A a : KeysOf(a)' = KeysOf(a)
  BY Steps, SameInput DEF ImplInv, LinkInv
<1>2. PICK c \in [Keys -> Keys] : Labelled(c)
  BY <1>1 DEF LinkInv
<1>3. pc \in Finding => left \in Keys /\ right \in Keys
  BY <1>2 DEF Labelled, AtHand
<1>4. ASSUME NEW a \in todo, NextArtifact(a) PROVE Joined'
  <2>1. CASE a \notin Linkable
    BY <1>4, <2>1 DEF NextArtifact, Joined, Working
  <2>2. CASE a \in Linkable
    <3>1. pc' = "key" /\ first' \in KeysOf(a) /\ rest' \subseteq KeysOf(a)
      BY <1>1, <1>4, <2>2, FirstKey DEF NextArtifact
    <3>2. QED BY <1>1, <2>2, <3>1 DEF Joined, Finding
  <2>3. QED BY <2>1, <2>2
<1>5. CASE NextKey
  <2>1. /\ pc = "key" /\ rest # {} /\ left' = first /\ first' = first
        /\ right' = Least(rest) /\ rest' \subseteq rest
    BY <1>5 DEF NextKey
  <2>2. rest \subseteq Keys /\ Keys \subseteq Nat
    BY <1>1, KeysFinite DEF TypeOK
  <2>3. right' \in rest
    BY <2>1, <2>2, LeastIn
  <2>4. PICK a \in Linkable : first \in KeysOf(a) /\ rest \subseteq KeysOf(a)
    BY <1>1, <2>1 DEF Joined, Working
  <2>5. Together(first, left)' /\ Together(right, right)'
    BY <2>1 DEF Together
  <2>6. \E k \in KeysOf(a) : Together(k, right)'
    BY <2>3, <2>4, <2>5
  <2>7. QED BY <1>1, <2>1, <2>4, <2>5, <2>6 DEF Joined
<1>6. CASE FindLeft \/ FindRight
  <2>1. /\ pc \in {"left", "right"} /\ first' = first /\ rest' = rest
        /\ left' \in {left, parent[parent[left]]}
        /\ right' \in {right, parent[parent[right]]}
    BY <1>6 DEF FindLeft, FindRight
  <2>2. ~ Join
    BY <2>1 DEF Join
  <2>3. \A j, k : Together(j, k)' <=> Together(j, k)
    BY <1>1, <2>2, HalvesUnless, HalvesKeep
  <2>4. PICK a \in Linkable :
          /\ first \in KeysOf(a) /\ rest \subseteq KeysOf(a)
          /\ Together(first, left)
          /\ \E k \in KeysOf(a) : Together(k, right)
    BY <1>1, <2>1 DEF Joined, Working, Finding
  <2>5. left \in Keys /\ right \in Keys
    BY <1>3, <2>1 DEF Finding
  <2>6. Together(first, left')
    BY <1>1, <2>1, <2>4, <2>5, TogetherUp
  <2>7. \E k \in KeysOf(a) : Together(k, right')
    BY <1>1, <2>1, <2>4, <2>5, TogetherUp
  <2>8. Closed' = Closed
    BY <1>1, <2>2, HalvesUnless, HalvesKeep
  <2>9. Together(first, left)' /\ \E k \in KeysOf(a) : Together(k, right)'
    BY <2>1, <2>6, <2>7, <2>8 DEF Together
  <2>10. QED BY <1>1, <2>1, <2>4, <2>9 DEF Joined
<1>7. CASE Join
  <2>1. pc = "join" /\ pc' = "key" /\ first' = first /\ rest' = rest
    BY <1>7 DEF Join
  <2>2. QED BY <1>1, <2>1 DEF Joined, Working, Finding
<1>8. CASE UNCHANGED vars
  <2>1. /\ pc' = pc /\ first' = first /\ rest' = rest /\ left' = left /\ right' = right
        /\ parent' = parent
    BY <1>8 DEF vars, finds
  <2>2. \A j, k : Together(j, k)' <=> Together(j, k)
    BY <1>1, <2>1, HalvesKeep DEF Halves
  <2>3. QED BY <1>1, <2>1, <2>2 DEF Joined, Together
<1>9. CASE EndArtifacts \/ EndKeys \/ NextMember \/ FindMember \/ EndGather
             \/ (\E i \in Uncut : Cut(i)) \/ EndCuts
  <2>1. pc' \notin Working
    BY <1>9 DEF EndArtifacts, EndKeys, NextMember, FindMember, EndGather, Cut, EndCuts,
                Working
  <2>2. QED BY <2>1 DEF Joined
<1>10. QED BY <1>4, <1>5, <1>6, <1>7, <1>8, <1>9 DEF Next, Link

(* A union that is made merges two components that a link touches. *)
LEMMA JoinMerges ==
  ASSUME ImplInv, Join, left # right, Fits
  PROVE  \E A, B \in Components : Abstract!Merge(A, B)
<1>1. TypeOK /\ obs' = obs /\ Joined /\ pc = "join"
  BY DEF ImplInv, LinkInv, Join
<1>2. PICK c \in [Keys -> Keys] : Labelled(c)
  BY DEF ImplInv, LinkInv
<1>3. left \in Keys /\ right \in Keys /\ parent[left] = left /\ parent[right] = right
  BY <1>1, <1>2 DEF Labelled, AtHand, Working, Finding
<1>4. /\ parent \in [Keys -> Keys] /\ parent' \in [Keys -> Keys] /\ Keys' = Keys
      /\ \A j \in Keys : parent'[j] = IF j = right THEN left ELSE parent[j]
  <2>1. parent \in [Keys -> Keys] /\ Keys' = Keys
    BY <1>1, SameInput DEF TypeOK
  <2>2. parent' = [parent EXCEPT ![right] = left]
    BY DEF Join, Fits
  <2>3. QED BY <2>1, <2>2, <1>3
<1>5. Components = Atoms(Closed) /\ Components' = Atoms(ClosedBy(parent', Keys))
  BY <1>4 DEF Components, Atoms, Closed, ClosedBy
<1> DEFINE A == Around(Closed, Keys, left)
           B == Around(Closed, Keys, right)
<1>6. A \in Components /\ B \in Components
  BY <1>3, <1>4, <1>5, AtomsAround DEF Closed
<1>7. left \in A /\ right \in B
  BY <1>3 DEF Around
<1>8. /\ Class(c, left) \in Closed /\ Class(c, right) \in Closed
      /\ left \in Class(c, left) /\ right \in Class(c, right)
      /\ right \notin Class(c, left)
  BY <1>2, <1>3, <1>4 DEF Labelled, Labels, Class, Closed, ClosedBy
<1>9. A \subseteq Class(c, left) /\ B \subseteq Class(c, right)
  BY <1>3, <1>8 DEF Around
<1>10. A # B
  BY <1>7, <1>8, <1>9
<1>11. Cardinality(A) + Cardinality(B) <= MaxLinkedBuckets
  <2>1. /\ Cardinality(A) <= Cardinality(Class(c, left))
        /\ Cardinality(B) <= Cardinality(Class(c, right))
        /\ Cardinality(A) \in Nat /\ Cardinality(B) \in Nat
        /\ Cardinality(Class(c, left)) \in Nat /\ Cardinality(Class(c, right)) \in Nat
    BY <1>1, <1>9, ClassFinite, FS_Subset, FS_CardinalityType
  <2>2. /\ size[left] = Cardinality(Class(c, left))
        /\ size[right] = Cardinality(Class(c, right))
    BY <1>2, <1>3 DEF Labelled, Sizes
  <2> HIDE DEF A, B
  <2>3. QED BY <2>1, <2>2, LinkingAssumption DEF Fits
<1>12. \E L \in {KeysOf(a) : a \in Linkable} : A \cap L # {} /\ B \cap L # {}
  <2>1. PICK a \in Linkable :
          /\ first \in KeysOf(a) /\ Together(first, left)
          /\ \E k \in KeysOf(a) : Together(k, right)
    BY <1>1 DEF Joined, Working, Finding
  <2> PICK k \in KeysOf(a) : Together(k, right)
    BY <2>1
  <2>2. first \in Keys /\ k \in Keys
    BY <1>1, <2>1, FirstKey
  <2>3. first \in A /\ k \in B
    BY <2>1, <2>2 DEF Around, Together
  <2>4. QED BY <2>1, <2>3
<1>13. Components' = (Components \ {A, B}) \cup {A \cup B}
  BY <1>3, <1>4, <1>5, JoinedAtoms DEF Closed
<1>14. UNCHANGED {KeysOf(a) : a \in Linkable}
  BY <1>1, SameInput
<1> HIDE DEF A, B
<1>15. Abstract!Merge(A, B)
  <2>1. Abstract!Cardinality(A) = Cardinality(A) /\ Abstract!Cardinality(B) = Cardinality(B)
    BY DEF Abstract!Cardinality, Cardinality
  <2>2. QED BY <1>10, <1>11, <1>12, <1>13, <1>14, <2>1 DEF Abstract!Merge
<1>16. QED BY <1>6, <1>15

LEMMA ImplStep ==
  ASSUME ImplInv, [Next]_vars
  PROVE  [Abstract!Next]_(Abstract!vars)
<1>1. CASE Join /\ left # right /\ Fits
  BY <1>1, JoinMerges DEF Abstract!Next
<1>2. CASE ~ (Join /\ left # right /\ Fits)
  <2>1. TypeOK /\ obs' = obs
    BY Steps DEF ImplInv, LinkInv
  <2>2. Components' = Components
    BY <1>2, <2>1, HalvesUnless, HalvesKeep DEF ImplInv
  <2>3. UNCHANGED {KeysOf(a) : a \in Linkable}
    BY <2>1, SameInput
  <2>4. QED BY <2>2, <2>3 DEF Abstract!vars
<1>3. QED BY <1>1, <1>2

LEMMA ImplInit ==
  ASSUME Init
  PROVE  ImplInv /\ Abstract!Init
<1>1. LinkInv /\ TypeOK
  BY InitLabelled DEF LinkInv
<1>2. ImplInv
  BY <1>1 DEF ImplInv, Joined, Init, Working
<1>3. parent \in [Keys -> Keys] /\ \A k \in Keys : parent[k] = k
  BY <1>1 DEF TypeOK, Init
<1>4. Components = {{k} : k \in Keys}
  <2>1. Closed = SUBSET Keys
    BY <1>3 DEF Closed, ClosedBy
  <2>2. \A k \in Keys : Around(Closed, Keys, k) = {k}
    <3> TAKE k \in Keys
    <3>1. {k} \in Closed
      BY <2>1
    <3>2. QED BY <3>1 DEF Around
  <2>3. Components = Atoms(Closed)
    BY <1>3 DEF Components, Atoms, Closed, ClosedBy
  <2>4. QED BY <1>3, <2>2, <2>3, AtomsAround DEF Closed
<1>5. UNION Components = Keys
  BY <1>4
<1>6. \A L \in {KeysOf(a) : a \in Linkable} : L \subseteq UNION Components
  BY <1>1, <1>5, FirstKey
<1>7. Components = {{k} : k \in UNION Components}
  BY <1>4, <1>5
<1>8. QED BY <1>2, <1>6, <1>7 DEF Abstract!Init

(* The clustering implements the partition: halving a path changes no
   component, and union() merges two that a linking artifact touches, within
   MAX_LINKED_BUCKETS. *)
THEOREM LinkingImplementsPartition == Spec => ImplementsPartition
<1>1. Init => ImplInv /\ Abstract!Init
  BY ImplInit
<1>2. ImplInv /\ [Next]_vars => ImplInv'
  BY LinkInductive, JoinedKept DEF ImplInv
<1>3. ImplInv /\ [Next]_vars => [Abstract!Next]_(Abstract!vars)
  BY ImplStep
<1>4. QED BY <1>1, <1>2, <1>3, PTL DEF Spec, ImplementsPartition, Abstract!Spec
-----------------------------------------------------------------------------
(* The cutting of the groups into windows.  What holds of all observations *)
(* in the end holds all along of those that are cut; the last window of a  *)
(* group has its first observation at start, and nothing uncut is earlier  *)
(* than what is cut.                                                       *)
Peers(i, j) == GroupOf(i) = GroupOf(j)
IsCut(i) == place[i] # 0

TightPair(i, j) ==
  IF place[i] = place[j]
  THEN obs[j].time - obs[i].time <= Window
  ELSE /\ obs[i].time <= obs[j].time
       /\ \E f \in Positions : /\ Peers(f, i) /\ place[f] = place[i]
                               /\ obs[j].time - obs[f].time > Window

TightSoFar ==
  \A i, j \in Positions :
    IsCut(i) /\ IsCut(j) /\ Peers(i, j) /\ place[i] <= place[j] => TightPair(i, j)

CutInOrder ==
  \A i, j \in Positions : IsCut(i) /\ ~IsCut(j) /\ Peers(i, j) => obs[i].time <= obs[j].time

LastWindow ==
  /\ \A i \in Positions : IsCut(i) => place[i] <= count[GroupOf(i)]
  /\ \A i \in Positions : IsCut(i) /\ place[i] = count[GroupOf(i)] =>
       start[GroupOf(i)] <= obs[i].time
  /\ \A g \in Keys : count[g] # 0 =>
       \E f \in Positions : GroupOf(f) = g /\ place[f] = count[g] /\ obs[f].time = start[g]

CutInv ==
  /\ ~Gathered => (\A i \in Positions : ~IsCut(i)) /\ (\A g \in Keys : count[g] = 0)
  /\ pc = "done" => \A i \in Positions : IsCut(i)
  /\ Gathered => TightSoFar /\ CutInOrder /\ LastWindow

(* What the cut of one observation changes. *)
LEMMA CutFacts ==
  ASSUME LinkInv, CutInv, NEW i \in Uncut, Cut(i),
         NEW g, g = GroupOf(i)
  PROVE  /\ TypeOK /\ Gathered /\ Gathered' /\ pc' = "cut" /\ obs' = obs /\ group' = group
         /\ Positions' = Positions /\ Keys' = Keys
         /\ i \in Positions /\ ~IsCut(i) /\ g \in Keys /\ IsCut(i)'
         /\ \A j \in Positions : GroupOf(j)' = GroupOf(j) /\ GroupOf(j) \in Keys
         /\ \A j \in Positions : j # i => place'[j] = place[j]
         /\ \A k \in Keys : k # g => count'[k] = count[k] /\ start'[k] = start[k]
         /\ place'[i] = count'[g]
         /\ \A j \in Positions : ~IsCut(j) /\ Peers(i, j) => obs[i].time <= obs[j].time
         /\ \A j \in Positions : obs[j].time \in Nat /\ place[j] \in Nat
         /\ \A k \in Keys : count[k] \in Nat /\ start[k] \in Nat
         /\ IF Begins(i)
            THEN /\ count'[g] = count[g] + 1 /\ start'[g] = obs[i].time
                 /\ count[g] # 0 => obs[i].time - start[g] > Window
            ELSE /\ count'[g] = count[g] /\ count[g] # 0 /\ start'[g] = start[g]
                 /\ obs[i].time - start[g] <= Window
<1>1. PICK c \in [Keys -> Keys] : Labelled(c)
  BY DEF LinkInv
<1>2. /\ TypeOK /\ pc = "cut" /\ pc' = "cut" /\ obs' = obs /\ group' = group
      /\ i \in NextUncut
  BY DEF LinkInv, Cut
<1>3. Positions' = Positions /\ Keys' = Keys /\ \A j : Key(j)' = Key(j)
  BY <1>2, SameInput
<1>4. /\ obs \in Seq(Observation) /\ place \in [Positions -> Nat]
      /\ start \in [Keys -> Nat] /\ count \in [Keys -> Nat]
  BY <1>2 DEF TypeOK
<1>5. \A j \in Positions : obs[j].time \in Nat
  <2> TAKE j \in Positions
  <2>1. obs[j] \in Observation
    BY <1>4 DEF Positions
  <2>2. QED BY <2>1 DEF Observation
<1>6. \A j \in Positions : GroupOf(j) \in Keys /\ GroupOf(j)' = GroupOf(j)
  BY <1>1, <1>2, <1>3, KeysFinite DEF Labelled, AtHand, Gathered, GroupOf
<1>7. i \in Positions /\ ~IsCut(i) /\ g \in Keys
  BY <1>6 DEF Uncut, IsCut
<1>8. /\ count' = IF Begins(i) THEN [count EXCEPT ![g] = count[g] + 1] ELSE count
      /\ start' = IF Begins(i) THEN [start EXCEPT ![g] = obs[i].time] ELSE start
      /\ place' = [place EXCEPT ![i] = count'[g]]
  BY DEF Cut
<1>9. count'[g] = IF Begins(i) THEN count[g] + 1 ELSE count[g]
  BY <1>4, <1>7, <1>8
<1>10. ~Begins(i) => count[g] # 0 /\ obs[i].time - start[g] <= Window
  BY DEF Begins
<1>11. Begins(i) => (count[g] # 0 => obs[i].time - start[g] > Window)
  BY <1>4, <1>5, <1>7, LinkingAssumption DEF Begins
<1>12. \A j \in Positions : ~IsCut(j) /\ Peers(i, j) => obs[i].time <= obs[j].time
  <2> SUFFICES ASSUME NEW j \in Positions, ~IsCut(j), Peers(i, j)
               PROVE  obs[i].time <= obs[j].time
    OBVIOUS
  <2>1. j \in Uncut
    BY DEF Uncut, IsCut
  <2>2. ~ (GroupOf(i) < GroupOf(j))
    BY <1>2, <1>6, <1>7, KeysFinite DEF Peers
  <2>3. Sorted(i, j)
    BY <1>2, <2>1, <2>2 DEF NextUncut
  <2>4. QED BY <2>3, <1>5, <1>7 DEF Sorted
<1>13. place'[i] = count'[g] /\ IsCut(i)'
  <2>1. count'[g] # 0
    BY <1>4, <1>7, <1>9, <1>10
  <2>2. QED BY <2>1, <1>4, <1>7, <1>8 DEF IsCut
<1>14. /\ \A j \in Positions : j # i => place'[j] = place[j]
       /\ \A k \in Keys : k # g => count'[k] = count[k] /\ start'[k] = start[k]
       /\ start'[g] = IF Begins(i) THEN obs[i].time ELSE start[g]
  BY <1>4, <1>7, <1>8
<1>15. QED BY <1>2, <1>3, <1>4, <1>5, <1>6, <1>7, <1>9, <1>10, <1>11, <1>12, <1>13, <1>14
            DEF Gathered

(* An observation that is cut leaves the windows tight. *)
LEMMA CutKeepsTight ==
  ASSUME LinkInv, CutInv, NEW i \in Uncut, Cut(i)
  PROVE  CutInv'
<1> DEFINE g == GroupOf(i)
<1>1. /\ TypeOK /\ Gathered /\ Gathered' /\ pc' = "cut" /\ obs' = obs /\ group' = group
      /\ Positions' = Positions /\ Keys' = Keys
      /\ i \in Positions /\ ~IsCut(i) /\ g \in Keys /\ IsCut(i)'
      /\ \A j \in Positions : GroupOf(j)' = GroupOf(j) /\ GroupOf(j) \in Keys
      /\ \A j \in Positions : j # i => place'[j] = place[j]
      /\ \A k \in Keys : k # g => count'[k] = count[k] /\ start'[k] = start[k]
      /\ place'[i] = count'[g]
      /\ \A j \in Positions : ~IsCut(j) /\ Peers(i, j) => obs[i].time <= obs[j].time
      /\ \A j \in Positions : obs[j].time \in Nat /\ place[j] \in Nat
      /\ \A k \in Keys : count[k] \in Nat /\ start[k] \in Nat
      /\ IF Begins(i)
         THEN /\ count'[g] = count[g] + 1 /\ start'[g] = obs[i].time
              /\ count[g] # 0 => obs[i].time - start[g] > Window
         ELSE /\ count'[g] = count[g] /\ count[g] # 0 /\ start'[g] = start[g]
              /\ obs[i].time - start[g] <= Window
  BY CutFacts
<1>2. TightSoFar /\ CutInOrder /\ LastWindow
  BY <1>1 DEF CutInv
<1>3. g = GroupOf(i)
  OBVIOUS
<1> HIDE DEF g
<1>4. \A j \in Positions : j # i => (IsCut(j)' <=> IsCut(j))
  BY <1>1 DEF IsCut
<1>5. \A j, k \in Positions : Peers(j, k)' <=> Peers(j, k)
  BY <1>1 DEF Peers
<1>6. \A j \in Positions : IsCut(j) /\ Peers(j, i) => obs[j].time <= obs[i].time
  BY <1>1, <1>2 DEF CutInOrder
<1>7. CutInOrder'
  <2> SUFFICES ASSUME NEW j \in Positions, NEW k \in Positions,
                      IsCut(j)', ~IsCut(k)', Peers(j, k)
               PROVE  obs[j].time <= obs[k].time
    BY <1>1, <1>5 DEF CutInOrder
  <2>1. k # i /\ ~IsCut(k)
    BY <1>1, <1>4
  <2>2. CASE j = i
    BY <2>1, <2>2, <1>1
  <2>3. CASE j # i
    BY <2>1, <2>3, <1>2, <1>4 DEF CutInOrder
  <2>4. QED BY <2>2, <2>3
<1>8. LastWindow'
  <2>1. ASSUME NEW j \in Positions, IsCut(j)' PROVE place'[j] <= count'[GroupOf(j)]
    <3>1. CASE j = i
      BY <3>1, <1>1, <1>3
    <3>2. CASE j # i
      <4>1. IsCut(j) /\ place'[j] = place[j] /\ place[j] <= count[GroupOf(j)]
        BY <3>2, <2>1, <1>1, <1>2, <1>4 DEF LastWindow
      <4>2. count[GroupOf(j)] <= count'[GroupOf(j)]
        BY <1>1
      <4>3. count'[GroupOf(j)] \in Nat
        BY <1>1
      <4>4. QED BY <4>1, <4>2, <4>3, <1>1
    <3>3. QED BY <3>1, <3>2
  <2>2. ASSUME NEW j \in Positions, IsCut(j)', place'[j] = count'[GroupOf(j)]
        PROVE  start'[GroupOf(j)] <= obs[j].time
    <3>1. CASE j = i
      <4>1. CASE Begins(i)
        BY <3>1, <4>1, <1>1, <1>3
      <4>2. CASE ~Begins(i)
        <5>1. PICK f \in Positions : Peers(f, i) /\ place[f] = count[g] /\ obs[f].time = start[g]
          BY <4>2, <1>1, <1>2, <1>3 DEF LastWindow, Peers
        <5>2. IsCut(f)
          BY <5>1, <4>2, <1>1 DEF IsCut
        <5>3. start[g] <= obs[i].time
          BY <5>1, <5>2, <1>6
        <5>4. QED BY <5>3, <3>1, <4>2, <1>1, <1>3
      <4>3. QED BY <4>1, <4>2
    <3>2. CASE j # i /\ GroupOf(j) # g
      BY <3>2, <2>2, <1>1, <1>2, <1>4 DEF LastWindow
    <3>3. CASE j # i /\ GroupOf(j) = g
      <4>1. IsCut(j) /\ place'[j] = place[j] /\ place[j] <= count[g]
        BY <3>3, <2>2, <1>1, <1>2, <1>4 DEF LastWindow
      <4>2. ~Begins(i)
        BY <4>1, <3>3, <2>2, <1>1
      <4>3. QED BY <4>1, <4>2, <3>3, <2>2, <1>1, <1>2 DEF LastWindow
    <3>4. QED BY <3>1, <3>2, <3>3
  <2>3. ASSUME NEW k \in Keys, count'[k] # 0
        PROVE  \E f \in Positions : GroupOf(f) = k /\ place'[f] = count'[k]
                                    /\ obs[f].time = start'[k]
    <3>1. CASE k = g /\ Begins(i)
      BY <3>1, <1>1, <1>3
    <3>2. CASE k # g \/ ~Begins(i)
      <4>1. count[k] # 0 /\ count'[k] = count[k] /\ start'[k] = start[k]
        BY <3>2, <2>3, <1>1
      <4>2. PICK f \in Positions : GroupOf(f) = k /\ place[f] = count[k] /\ obs[f].time = start[k]
        BY <4>1, <1>2 DEF LastWindow
      <4>3. f # i
        BY <4>1, <4>2, <1>1 DEF IsCut
      <4>4. QED BY <4>1, <4>2, <4>3, <1>1
    <3>3. QED BY <3>1, <3>2
  <2>4. QED BY <2>1, <2>2, <2>3, <1>1 DEF LastWindow
<1>9. TightSoFar'
  <2>1. ASSUME NEW j \in Positions, NEW k \in Positions, IsCut(j)', IsCut(k)',
               Peers(j, k), place'[j] <= place'[k]
        PROVE  TightPair(j, k)'
    <3>1. CASE j # i /\ k # i
      <4>1. /\ IsCut(j) /\ IsCut(k) /\ place'[j] = place[j] /\ place'[k] = place[k]
        BY <3>1, <2>1, <1>1, <1>4
      <4>2. TightPair(j, k)
        BY <4>1, <2>1, <1>2 DEF TightSoFar
      <4>3. CASE place[j] = place[k]
        BY <4>1, <4>2, <4>3, <1>1 DEF TightPair
      <4>4. CASE place[j] # place[k]
        <5>1. PICK f \in Positions : /\ Peers(f, j) /\ place[f] = place[j]
                                     /\ obs[k].time - obs[f].time > Window
          BY <4>2, <4>4 DEF TightPair
        <5>2. f # i
          BY <5>1, <4>1, <1>1 DEF IsCut
        <5>3. QED BY <5>1, <5>2, <4>1, <4>2, <4>4, <1>1, <1>5 DEF TightPair
      <4>5. QED BY <4>3, <4>4
    <3>2. CASE j = i /\ k = i
      BY <3>2, <1>1, LinkingAssumption DEF TightPair
    <3>3. CASE j = i /\ k # i
      <4>1. IsCut(k) /\ place'[k] = place[k] /\ place[k] <= count[g] /\ GroupOf(k) = g
        BY <3>3, <2>1, <1>1, <1>2, <1>3, <1>4 DEF LastWindow, Peers
      <4>2. ~Begins(i) /\ place'[k] = place'[i]
        BY <4>1, <3>3, <2>1, <1>1
      <4>3. obs[k].time <= obs[i].time
        BY <4>1, <1>3, <1>6 DEF Peers
      <4>4. obs[k].time - obs[i].time <= Window
        BY <4>3, <1>1, LinkingAssumption
      <4>5. QED BY <4>2, <4>4, <3>3, <1>1 DEF TightPair
    <3>4. CASE j # i /\ k = i
      <4>1. IsCut(j) /\ place'[j] = place[j] /\ place[j] <= count[g] /\ GroupOf(j) = g
            /\ place[j] # 0
        BY <3>4, <2>1, <1>1, <1>2, <1>3, <1>4 DEF LastWindow, Peers, IsCut
      <4>2. obs[j].time <= obs[i].time
        BY <4>1, <1>3, <1>6 DEF Peers
      <4>3. PICK f \in Positions : GroupOf(f) = g /\ place[f] = count[g] /\ obs[f].time = start[g]
        BY <4>1, <1>1, <1>2 DEF LastWindow
      <4>4. IsCut(f) /\ f # i /\ Peers(f, i) /\ obs[f].time <= obs[i].time /\ Peers(j, f)
        BY <4>1, <4>3, <1>1, <1>3, <1>6 DEF IsCut, Peers
      <4>5. CASE place[j] = count[g] /\ ~Begins(i)
        <5>1. start[g] <= obs[j].time
          BY <4>1, <4>5, <1>2 DEF LastWindow
        <5>2. obs[i].time - obs[j].time <= Window
          BY <5>1, <4>5, <1>1, LinkingAssumption
        <5>3. QED BY <5>2, <4>1, <4>5, <3>4, <1>1 DEF TightPair
      <4>6. CASE place[j] = count[g] /\ Begins(i)
        <5>1. place'[f] = place'[j] /\ place'[j] # place'[i] /\ Peers(f, j)
          <6>1. place'[f] = count[g] /\ place'[j] = count[g] /\ place'[i] = count[g] + 1
            BY <4>1, <4>3, <4>4, <4>6, <1>1
          <6>2. count[g] \in Nat
            BY <1>1
          <6>3. QED BY <6>1, <6>2, <4>1, <4>3 DEF Peers
        <5>2. obs[i].time - obs[f].time > Window
          BY <4>1, <4>3, <4>6, <1>1
        <5>3. QED BY <5>1, <5>2, <4>2, <3>4, <1>1, <1>5 DEF TightPair
      <4>7. CASE place[j] < count[g]
        <5>1. TightPair(j, f)
          BY <4>1, <4>3, <4>4, <4>7, <1>1, <1>2 DEF TightSoFar
        <5>2. PICK e \in Positions : /\ Peers(e, j) /\ place[e] = place[j]
                                     /\ obs[f].time - obs[e].time > Window
          BY <5>1, <4>3, <4>7, <1>1 DEF TightPair
        <5>3. e # i /\ place'[e] = place'[j]
          BY <5>2, <4>1, <1>1 DEF IsCut
        <5>4. obs[i].time - obs[e].time > Window
          BY <5>2, <4>4, <1>1, LinkingAssumption
        <5>5. place'[j] # place'[i]
          BY <4>1, <4>7, <1>1
        <5>6. QED BY <5>2, <5>3, <5>4, <5>5, <4>2, <3>4, <1>1, <1>5 DEF TightPair
      <4>8. QED BY <4>1, <4>5, <4>6, <4>7, <1>1
    <3>5. QED BY <3>1, <3>2, <3>3, <3>4
  <2>2. QED BY <2>1, <1>1, <1>5 DEF TightSoFar
<1>10. QED BY <1>1, <1>7, <1>8, <1>9 DEF CutInv

(* Nothing is cut before the groups are gathered. *)
LEMMA CutInvKept ==
  ASSUME LinkInv, CutInv, [Next]_vars
  PROVE  CutInv'
<1>1. obs' = obs /\ Positions' = Positions /\ Keys' = Keys
  BY Steps, SameInput
<1>2. CASE \E i \in Uncut : Cut(i)
  BY <1>2, CutKeepsTight
<1>3. CASE EndCuts \/ UNCHANGED vars
  <2>1. /\ UNCHANGED <<group, place, start, count>>
        /\ Gathered' <=> Gathered
        /\ pc' = "done" => pc = "done" \/ Uncut = {}
    BY <1>3 DEF EndCuts, vars, cuts, Gathered
  <2>2. \A i : GroupOf(i)' = GroupOf(i) /\ (IsCut(i)' <=> IsCut(i))
    BY <1>1, <2>1, SameInput DEF GroupOf, IsCut
  <2>3. \A i, j : /\ Peers(i, j)' <=> Peers(i, j)
                  /\ TightPair(i, j)' <=> TightPair(i, j)
    BY <1>1, <2>1, <2>2 DEF Peers, TightPair
  <2>4. pc' = "done" => \A i \in Positions : IsCut(i)
    BY <2>1 DEF CutInv, Uncut, IsCut
  <2>5. Gathered => (TightSoFar /\ CutInOrder /\ LastWindow)'
    BY <1>1, <2>1, <2>2, <2>3 DEF CutInv, TightSoFar, CutInOrder, LastWindow
  <2>6. QED BY <1>1, <2>1, <2>2, <2>4, <2>5 DEF CutInv
<1>4. CASE ~ (\E i \in Uncut : Cut(i)) /\ ~EndCuts /\ ~ UNCHANGED vars
  <2>1. UNCHANGED cuts /\ ~Gathered /\ pc' # "done"
    BY <1>4 DEF Next, Link, NextArtifact, EndArtifacts, NextKey, EndKeys, FindLeft,
                FindRight, Join, NextMember, FindMember, EndGather, Gathered
  <2>2. (\A i \in Positions : ~IsCut(i)) /\ (\A k \in Keys : count[k] = 0)
    BY <2>1 DEF CutInv
  <2>3. (\A i \in Positions : ~IsCut(i)') /\ (\A k \in Keys : count'[k] = 0)
    BY <2>1, <2>2 DEF IsCut, cuts
  <2>4. Gathered' => (TightSoFar /\ CutInOrder /\ LastWindow)'
    BY <1>1, <2>3 DEF TightSoFar, CutInOrder, LastWindow
  <2>5. QED BY <1>1, <2>1, <2>3, <2>4 DEF CutInv
<1>5. QED BY <1>2, <1>3, <1>4

(* A cluster spans no more than the window, clusters of a group follow one
   another, and a new one begins only where the last could not go on. *)
THEOREM ClustersAreTight == Spec => []WindowsTight
<1>1. Init => CutInv
  BY DEF Init, CutInv, Gathered, IsCut
<1>2. LinkInv /\ CutInv /\ [Next]_vars => CutInv'
  BY CutInvKept
<1>3. CutInv => WindowsTight
  <2> SUFFICES ASSUME CutInv, pc = "done", NEW i \in Positions, NEW j \in Positions,
                      GroupOf(i) = GroupOf(j), place[i] <= place[j]
               PROVE  IF place[i] = place[j]
                      THEN obs[j].time - obs[i].time <= Window
                      ELSE /\ obs[i].time <= obs[j].time
                           /\ \E f \in Positions :
                                /\ GroupOf(f) = GroupOf(i) /\ place[f] = place[i]
                                /\ obs[j].time - obs[f].time > Window
    BY DEF WindowsTight
  <2>1. TightPair(i, j)
    BY DEF CutInv, TightSoFar, Gathered, Peers
  <2>2. QED BY <2>1 DEF TightPair, Peers
<1>4. QED BY <1>1, <1>2, <1>3, LinkInvariant, PTL DEF Spec
=============================================================================
