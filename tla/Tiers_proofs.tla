---------------------------- MODULE Tiers_proofs ----------------------------
(***************************************************************************)
(* What the analysis of a cluster keeps true, for any messages, bounds and *)
(* findings: the bounded search finds the exchanges its definition names,  *)
(* a high tier has a reason, and independent evidence never hurts.         *)
(***************************************************************************)
EXTENDS Tiers, FiniteSetTheorems, WellFoundedInduction, TLAPS

Kinds == {"delegate", "checkpoint"}

(* The exchanges the two indexes offer. *)
Offered(k, l, r) ==
  RightAct[k] \in msgs[r].acts /\ l \in Candidates(k, r) /\ IsPath(l, r)

(* r is behind the search, or is its right end and l is tried. *)
Passed(l, r) == r < at \/ (r = at /\ l \notin lefts)

SearchType ==
  /\ msgs \in Clusters
  /\ kind \in Kinds \cup {"done"}
  /\ at \in 0 .. Len(msgs)
  /\ lefts \subseteq Positions
  /\ paths \in Seq(Kinds \X Positions \X Positions)

(* One path for each, within the limit. *)
Counted ==
  /\ IsFiniteSet(Found) /\ Cardinality(Found) = Len(paths)
  /\ Len(paths) <= MaxPaths
  /\ kind # "done" => Len(paths) < MaxPaths

(* What has been found, in the order of the search. *)
InOrder ==
  /\ \A p \in Found : IsExchange(p[1], p[2], p[3])
  /\ kind = "delegate" => \A p \in Found : p[1] = "delegate"
  /\ \A p \in Found : p[1] = kind =>
       p[3] < at \/ (p[3] = at /\ \A l \in lefts : msgs[p[2]].key < msgs[l].key)

(* What has been looked at. *)
LookedAt ==
  /\ lefts # {} => kind \in Kinds /\ at \in Positions /\ RightAct[kind] \in msgs[at].acts
                   /\ lefts \subseteq Candidates(kind, at)
  /\ \A k \in Kinds : \A l, r \in Positions :
       /\ kind = k \/ (kind = "checkpoint" /\ k = "delegate")
       /\ kind = k => Passed(l, r)
       /\ Offered(k, l, r)
       => <<k, l, r>> \in Found
  /\ kind = "done" => \A k \in Kinds : \A l, r \in Positions :
       Offered(k, l, r) =>
         \/ <<k, l, r>> \in Found
         \/ Len(paths) = MaxPaths /\ \A p \in Found : Precedes(p, k, l, r)

SearchInv == SearchType /\ Counted /\ InOrder /\ LookedAt

-----------------------------------------------------------------------------
LEMMA MessageFacts ==
  ASSUME msgs \in Clusters
  PROVE  /\ Len(msgs) \in Nat /\ DOMAIN msgs = Positions /\ IsFiniteSet(Positions)
         /\ \A i \in Positions : msgs[i].key \in Int /\ msgs[i].time \in Int
         /\ \A i, j \in Positions : msgs[i].key = msgs[j].key => i = j
<1>1. /\ msgs \in Seq({msgs[i] : i \in DOMAIN msgs})
      /\ \A i \in DOMAIN msgs : msgs[i].key \in Int /\ msgs[i].time \in Int
      /\ \A i, j \in DOMAIN msgs : msgs[i].key = msgs[j].key => i = j
  BY ExchangeAssumption
<1>2. Len(msgs) \in Nat /\ DOMAIN msgs = 1 .. Len(msgs)
  BY <1>1
<1>3. IsFiniteSet(1 .. Len(msgs))
  BY <1>2, FS_Interval
<1>4. QED BY <1>1, <1>2, <1>3 DEF Positions

(* An exchange that is not offered has its left end outside of the index. *)
LEMMA OfferedUnlessHidden ==
  ASSUME NEW k \in Kinds, NEW l \in Positions, NEW r \in Positions, IsExchange(k, l, r)
  PROVE  \/ Offered(k, l, r)
         \/ ~Native(l, r) /\ \A ref \in Shared(l, r) : l \notin Indexed(ref)
<1>1. LeftAct[k] \in msgs[l].acts /\ RightAct[k] \in msgs[r].acts /\ IsPath(l, r)
  BY DEF IsExchange
<1>2. l \in Lefts(k)
  BY <1>1 DEF Lefts
<1>3. CASE Native(l, r)
  BY <1>1, <1>2, <1>3 DEF Offered, Candidates, Native
<1>4. CASE \E ref \in Shared(l, r) : l \in Indexed(ref)
  BY <1>1, <1>2, <1>4 DEF Offered, Candidates, Shared
<1>5. QED BY <1>3, <1>4

LEMMA OfferedIsExchange ==
  ASSUME NEW k, NEW l, NEW r, Offered(k, l, r)
  PROVE  IsExchange(k, l, r)
BY DEF Offered, IsExchange, Candidates, Lefts

(* The operators on messages alone. *)
LEMMA SameMessages ==
  ASSUME msgs' = msgs
  PROVE  /\ Positions' = Positions
         /\ \A l, r : /\ IsPath(l, r)' <=> IsPath(l, r)
                      /\ Native(l, r)' <=> Native(l, r)
                      /\ Shared(l, r)' = Shared(l, r)
         /\ \A k, r : Candidates(k, r)' = Candidates(k, r)
         /\ \A k, l, r : /\ IsExchange(k, l, r)' <=> IsExchange(k, l, r)
                         /\ Offered(k, l, r)' <=> Offered(k, l, r)
         /\ \A p, k, l, r : Precedes(p, k, l, r)' <=> Precedes(p, k, l, r)
         /\ \A ref : Indexed(ref)' = Indexed(ref)
<1>1. Positions' = Positions
  BY DEF Positions
<1>2. \A key : At(key)' = At(key) /\ (HasKey(key)' <=> HasKey(key))
  BY <1>1 DEF At, HasKey
<1>3. \A r : Ancestors(r)' = Ancestors(r)
  BY <1>1 DEF Ancestors, Up, At, HasKey
<1>4. \A ref : Indexed(ref)' = Indexed(ref)
  BY <1>1 DEF Indexed, Holders
<1>5. \A l, r : /\ IsPath(l, r)' <=> IsPath(l, r)
                /\ Native(l, r)' <=> Native(l, r)
                /\ Shared(l, r)' = Shared(l, r)
  BY <1>3 DEF IsPath, Native, Shared
<1>6. \A k, r : Candidates(k, r)' = Candidates(k, r)
  BY <1>1, <1>3, <1>4 DEF Candidates, Lefts
<1>7. \A p, k, l, r : Precedes(p, k, l, r)' <=> Precedes(p, k, l, r)
  BY DEF Precedes
<1>8. QED BY <1>1, <1>4, <1>5, <1>6, <1>7 DEF IsExchange, Offered

(* The paths found, as the type of the search has them. *)
LEMMA SearchTyped ==
  ASSUME SearchType
  PROVE  \A p \in Found : p[1] \in Kinds /\ p[2] \in Positions /\ p[3] \in Positions
<1>1. \A p \in Found : p \in Kinds \X Positions \X Positions
  BY DEF SearchType, Found
<1>2. QED BY <1>1

LEMMA SearchInit == Init => SearchInv
<1> SUFFICES ASSUME Init PROVE SearchInv
  OBVIOUS
<1>1. /\ msgs \in Clusters /\ kind = "delegate" /\ at = 0 /\ lefts = {} /\ paths = << >>
      /\ Len(msgs) \in Nat
  BY MessageFacts DEF Init
<1>2. Found = {} /\ Len(paths) = 0
  BY <1>1 DEF Found
<1>3. SearchType
  BY <1>1 DEF SearchType, Kinds
<1>4. Counted
  BY <1>1, <1>2, FS_EmptySet, ExchangeAssumption DEF Counted
<1>5. InOrder
  BY <1>2 DEF InOrder
<1>6. \A r \in Positions : ~ (r < at) /\ r # at
  BY <1>1 DEF Positions
<1>7. LookedAt
  BY <1>1, <1>6 DEF LookedAt, Passed
<1>8. QED BY <1>3, <1>4, <1>5, <1>7 DEF SearchInv

LEMMA SearchKept == SearchInv /\ UNCHANGED <<msgs, search>> => SearchInv'
<1> SUFFICES ASSUME SearchInv, UNCHANGED <<msgs, search>> PROVE SearchInv'
  OBVIOUS
<1>1. msgs' = msgs /\ kind' = kind /\ at' = at /\ lefts' = lefts /\ paths' = paths
  BY DEF search
<1>2. Found' = Found /\ \A l, r : Passed(l, r)' <=> Passed(l, r)
  BY <1>1 DEF Found, Passed
<1>3. SearchType' /\ Counted'
  BY <1>1, <1>2, SameMessages DEF SearchInv, SearchType, Counted
<1>4. InOrder'
  BY <1>1, <1>2, SameMessages DEF SearchInv, InOrder
<1>5. LookedAt'
  BY <1>1, <1>2, SameMessages DEF SearchInv, LookedAt
<1>6. QED BY <1>3, <1>4, <1>5 DEF SearchInv

(* When a kind is through, everything it was offered is found. *)
LEMMA EndKindStep == SearchInv /\ EndKind => SearchInv'
<1> SUFFICES ASSUME SearchInv, EndKind PROVE SearchInv'
  OBVIOUS
<1>1. /\ msgs' = msgs /\ lefts' = lefts /\ paths' = paths /\ Found' = Found
      /\ kind \in Kinds /\ lefts = {} /\ at = Len(msgs) /\ at' = 0
      /\ kind' = IF kind = "delegate" THEN "checkpoint" ELSE "done"
      /\ msgs \in Clusters /\ Len(msgs) \in Nat /\ Len(paths) \in Nat
  <2>1. /\ msgs \in Clusters /\ kind \in Kinds \cup {"done"} /\ Len(paths) \in Nat
        /\ kind # "done" => Len(paths) < MaxPaths
    BY DEF SearchInv, SearchType, Counted
  <2>2. QED BY <2>1, MessageFacts DEF EndKind, Found
<1>2. SearchType'
  BY <1>1, SameMessages DEF SearchInv, SearchType, Kinds
<1>3. Counted'
  BY <1>1 DEF SearchInv, Counted, Kinds
<1>4. \A k \in Kinds : \A l, r \in Positions :
        /\ kind = k \/ (kind = "checkpoint" /\ k = "delegate")
        /\ Offered(k, l, r)
        => <<k, l, r>> \in Found
  BY <1>1 DEF SearchInv, LookedAt, Passed, Positions
<1>5. InOrder'
  <2>1. kind' # "delegate" /\ \A p \in Found : IsExchange(p[1], p[2], p[3])'
    BY <1>1, SameMessages DEF SearchInv, InOrder
  <2>2. \A p \in Found : p[1] # kind'
    BY <1>1, SearchTyped DEF SearchInv, InOrder, Kinds
  <2>3. QED BY <2>1, <2>2, <1>1 DEF InOrder
<1>6. \A l, r \in Positions : ~ Passed(l, r)'
  BY <1>1 DEF Passed, Positions
<1>7. LookedAt'
  BY <1>1, <1>4, <1>6, SameMessages DEF LookedAt, Kinds
<1>8. QED BY <1>2, <1>3, <1>5, <1>7 DEF SearchInv

LEMMA NextRightStep == SearchInv /\ NextRight => SearchInv'
<1> SUFFICES ASSUME SearchInv, NextRight PROVE SearchInv'
  OBVIOUS
<1>1. /\ msgs' = msgs /\ paths' = paths /\ Found' = Found /\ kind' = kind
      /\ kind \in Kinds /\ lefts = {} /\ at < Len(msgs) /\ at' = at + 1
      /\ lefts' = IF RightAct[kind] \in msgs[at'].acts THEN Candidates(kind, at') ELSE {}
      /\ msgs \in Clusters /\ Len(msgs) \in Nat /\ at \in Nat /\ at' \in Positions
      /\ at' \in 0 .. Len(msgs)
  BY MessageFacts DEF NextRight, SearchInv, SearchType, Found, Positions
<1>2. Candidates(kind, at') \subseteq Positions
  BY DEF Candidates, Lefts
<1>3. SearchType'
  BY <1>1, <1>2, SameMessages DEF SearchInv, SearchType
<1>4. Counted'
  BY <1>1 DEF SearchInv, Counted
<1>5. \A p \in Found : p[3] \in Nat
  <2>1. \A p \in Found : p \in Kinds \X Positions \X Positions
    BY DEF SearchInv, SearchType, Found
  <2>2. QED BY <2>1 DEF Positions
<1>6. \A p \in Found : p[1] = kind => p[3] < at'
  BY <1>1, <1>5 DEF SearchInv, InOrder
<1>7. InOrder'
  BY <1>1, <1>6, SameMessages DEF SearchInv, InOrder
<1>8. ASSUME NEW l \in Positions, NEW r \in Positions, Passed(l, r)', Offered(kind, l, r)
      PROVE  Passed(l, r)
  <2>1. r \in Nat
    BY DEF Positions
  <2>2. CASE r = at'
    BY <2>2, <1>1, <1>8 DEF Passed, Offered
  <2>3. CASE r < at'
    BY <2>1, <2>3, <1>1 DEF Passed
  <2>4. QED BY <2>2, <2>3, <1>8 DEF Passed
<1>9. LookedAt'
  <2>1. lefts' # {} => RightAct[kind] \in msgs[at'].acts /\ lefts' = Candidates(kind, at')
    BY <1>1
  <2>2. ASSUME NEW k \in Kinds, NEW l \in Positions, NEW r \in Positions,
               kind = k \/ (kind = "checkpoint" /\ k = "delegate"),
               kind = k => Passed(l, r)', Offered(k, l, r)
        PROVE  <<k, l, r>> \in Found
    BY <2>2, <1>8 DEF SearchInv, LookedAt
  <2>3. kind # "done"
    BY <1>1 DEF Kinds
  <2>4. QED BY <2>1, <2>2, <2>3, <1>1, SameMessages DEF LookedAt
<1>10. QED BY <1>3, <1>4, <1>7, <1>9 DEF SearchInv

LEMMA RefuseStep ==
  ASSUME SearchInv, NEW l \in lefts, RefuseLeft(l)
  PROVE  SearchInv'
<1>1. /\ msgs' = msgs /\ paths' = paths /\ Found' = Found /\ kind' = kind /\ at' = at
      /\ lefts' = lefts \ {l} /\ ~IsPath(l, at)
      /\ kind \in Kinds /\ kind # "done"
  BY DEF RefuseLeft, SearchInv, LookedAt, Found, Kinds
<1>2. SearchType' /\ Counted'
  BY <1>1, SameMessages DEF SearchInv, SearchType, Counted
<1>3. InOrder'
  BY <1>1, SameMessages DEF SearchInv, InOrder
<1>4. \A j, r \in Positions : Passed(j, r)' /\ Offered(kind, j, r) => Passed(j, r)
  BY <1>1 DEF Passed, Offered
<1>5. LookedAt'
  BY <1>1, <1>4, SameMessages DEF SearchInv, LookedAt
<1>6. QED BY <1>2, <1>3, <1>5 DEF SearchInv

LEMMA AcceptStep ==
  ASSUME SearchInv, NEW l \in lefts, AcceptLeft(l)
  PROVE  SearchInv'
<1> DEFINE new == <<kind, l, at>>
<1>1. /\ msgs' = msgs /\ kind \in Kinds /\ kind # "done" /\ msgs \in Clusters
      /\ IsFirst(l) /\ IsPath(l, at)
      /\ paths' = Append(paths, new)
      /\ at \in Positions /\ l \in Positions /\ at \in Nat /\ Len(msgs) \in Nat
      /\ RightAct[kind] \in msgs[at].acts /\ lefts \subseteq Candidates(kind, at)
      /\ paths \in Seq(Kinds \X Positions \X Positions)
      /\ Len(paths) < MaxPaths
  BY MessageFacts DEF AcceptLeft, SearchInv, SearchType, Counted, LookedAt, Kinds, Positions
<1>2. new \in Kinds \X Positions \X Positions
  BY <1>1
<1>3. /\ paths' \in Seq(Kinds \X Positions \X Positions)
      /\ Len(paths) \in Nat /\ Len(paths') = Len(paths) + 1
      /\ \A n \in 1 .. Len(paths) : paths'[n] = paths[n]
      /\ paths'[Len(paths) + 1] = new
  BY <1>1, <1>2
<1>4. Found' = Found \cup {new}
  <2>1. Found' = {paths'[n] : n \in 1 .. Len(paths) + 1}
    BY <1>3 DEF Found
  <2>2. 1 .. Len(paths) + 1 = (1 .. Len(paths)) \cup {Len(paths) + 1}
    BY <1>3
  <2>3. QED BY <2>1, <2>2, <1>3 DEF Found
<1>5. \A p \in Found : p \in Kinds \X Positions \X Positions
  BY <1>1 DEF Found
<1>6. new[1] = kind /\ new[2] = l /\ new[3] = at
  OBVIOUS
<1>7. new \notin Found
  <2>1. ASSUME new \in Found PROVE FALSE
    <3>1. at < at \/ msgs[l].key < msgs[l].key
      BY <2>1, <1>6 DEF SearchInv, InOrder
    <3>2. QED BY <3>1, <1>1, MessageFacts
  <2>2. QED BY <2>1
<1>8. IsExchange(kind, l, at)
  BY <1>1 DEF IsExchange, Candidates, Lefts
<1>9. Offered(kind, l, at)
  BY <1>1 DEF Offered
<1> HIDE DEF new
<1>10. IsFiniteSet(Found') /\ Cardinality(Found') = Len(paths')
  BY <1>3, <1>4, <1>7, FS_AddElement DEF SearchInv, Counted
<1>11. \A j \in lefts \ {l} : msgs[l].key < msgs[j].key
  <2> TAKE j \in lefts \ {l}
  <2>1. j \in Positions /\ msgs[l].key <= msgs[j].key
    BY <1>1 DEF SearchInv, SearchType, IsFirst
  <2>2. msgs[j].key # msgs[l].key
    BY <2>1, <1>1, MessageFacts
  <2>3. QED BY <2>1, <2>2, <1>1, MessageFacts
<1>12. \A p \in Found' : IsExchange(p[1], p[2], p[3])
  BY <1>4, <1>6, <1>8 DEF SearchInv, InOrder
<1>13. kind = "delegate" => \A p \in Found' : p[1] = "delegate"
  BY <1>4, <1>6 DEF SearchInv, InOrder
<1>14. \A p \in Found' : p[1] = kind =>
         p[3] < at \/ (p[3] = at /\ \A j \in lefts \ {l} : msgs[p[2]].key < msgs[j].key)
  BY <1>4, <1>6, <1>11 DEF SearchInv, InOrder
<1>15. CASE Len(paths') < MaxPaths
  <2>1. lefts' = lefts \ {l} /\ kind' = kind /\ at' = at
    BY <1>15 DEF AcceptLeft
  <2>2. SearchType'
    BY <2>1, <1>1, <1>3, SameMessages DEF SearchInv, SearchType
  <2>3. Counted'
    BY <1>15, <1>10, <1>3, ExchangeAssumption DEF Counted
  <2>4. InOrder'
    BY <2>1, <1>1, <1>12, <1>13, <1>14, SameMessages DEF InOrder
  <2>5. \A j, r \in Positions : Passed(j, r)' => Passed(j, r) \/ (j = l /\ r = at)
    BY <2>1 DEF Passed
  <2>6. ASSUME NEW k \in Kinds, NEW j \in Positions, NEW r \in Positions,
               kind = k \/ (kind = "checkpoint" /\ k = "delegate"),
               kind = k => Passed(j, r)', Offered(k, j, r)
        PROVE  <<k, j, r>> \in Found'
    <3>1. CASE k = kind /\ j = l /\ r = at
      BY <3>1, <1>4 DEF new
    <3>2. CASE ~ (k = kind /\ j = l /\ r = at)
      BY <3>2, <2>5, <2>6, <1>4 DEF SearchInv, LookedAt
    <3>3. QED BY <3>1, <3>2
  <2>7. LookedAt'
    BY <2>1, <2>6, <1>1, SameMessages DEF LookedAt
  <2>8. QED BY <2>2, <2>3, <2>4, <2>7 DEF SearchInv
<1>16. CASE ~ (Len(paths') < MaxPaths)
  <2>1. lefts' = {} /\ kind' = "done" /\ at' = 0 /\ Len(paths') = MaxPaths
    BY <1>16, <1>1, <1>3, ExchangeAssumption DEF AcceptLeft
  <2>2. SearchType'
    BY <2>1, <1>1, <1>3, SameMessages DEF SearchInv, SearchType
  <2>3. Counted'
    BY <2>1, <1>10, <1>3, ExchangeAssumption DEF Counted
  <2>4. \A p \in Found' : p[1] # "done"
    BY <1>4, <1>5, <1>6, <1>1 DEF Kinds
  <2>5. InOrder'
    BY <2>1, <2>4, <1>1, <1>12, SameMessages DEF InOrder
  <2>6. ASSUME NEW k \in Kinds, NEW j \in Positions, NEW r \in Positions,
               Offered(k, j, r), <<k, j, r>> \notin Found',
               NEW p \in Found'
        PROVE  Precedes(p, k, j, r)
    <3>1. <<k, j, r>> \notin Found /\ ~ (k = kind /\ j = l /\ r = at)
      BY <2>6, <1>4 DEF new
    <3>2. CASE kind = "delegate" /\ k = "checkpoint"
      BY <3>2, <1>13 DEF Precedes
    <3>3. CASE k = kind
      <4>1. ~ Passed(j, r)
        BY <3>1, <3>3, <2>6 DEF SearchInv, LookedAt
      <4>2. r \in Nat /\ p[3] \in Nat
        BY <1>4, <1>5, <1>6, <1>1 DEF Positions
      <4>3. r > at \/ (r = at /\ j \in lefts \ {l})
        BY <3>1, <3>3, <4>1, <4>2, <1>1 DEF Passed
      <4>4. CASE p[1] = k
        <5>1. p[3] < at \/ (p[3] = at /\ \A i \in lefts \ {l} : msgs[p[2]].key < msgs[i].key)
          BY <3>3, <4>4, <1>14
        <5>2. at \in Nat
          BY <1>1
        <5>3. CASE r > at
          <6>1. p[3] < r
            BY <4>2, <5>1, <5>2, <5>3
          <6>2. QED BY <4>4, <6>1 DEF Precedes
        <5>4. CASE r = at /\ j \in lefts \ {l}
          <6>1. p[3] < r \/ (p[3] = r /\ msgs[p[2]].key < msgs[j].key)
            BY <5>1, <5>4
          <6>2. QED BY <4>4, <6>1 DEF Precedes
        <5>5. QED BY <4>3, <5>3, <5>4
      <4>5. CASE p[1] # k
        <5>1. p[1] \in Kinds /\ kind # "delegate"
          BY <3>3, <4>5, <1>1, <1>4, <1>5, <1>6, <1>13
        <5>2. p[1] = "delegate" /\ k = "checkpoint"
          BY <3>3, <4>5, <5>1 DEF Kinds
        <5>3. QED BY <5>2 DEF Precedes
      <4>6. QED BY <4>4, <4>5
    <3>4. ~ (kind = "checkpoint" /\ k = "delegate")
      BY <3>1, <2>6 DEF SearchInv, LookedAt
    <3>5. QED BY <3>2, <3>3, <3>4, <1>1 DEF Kinds
  <2>7. \A k \in Kinds : \A j, r \in Positions :
          Offered(k, j, r) =>
            <<k, j, r>> \in Found' \/ \A p \in Found' : Precedes(p, k, j, r)
    BY <2>6
  <2>8. \A k \in Kinds : ~ (kind' = k \/ (kind' = "checkpoint" /\ k = "delegate"))
    BY <2>1 DEF Kinds
  <2>9. \A k \in Kinds : \A j, r \in Positions' :
          Offered(k, j, r)' =>
            \/ <<k, j, r>> \in Found'
            \/ Len(paths') = MaxPaths /\ \A p \in Found' : Precedes(p, k, j, r)'
    <3> TAKE k \in Kinds
    <3> TAKE j, r \in Positions'
    <3>1. j \in Positions /\ r \in Positions /\ (Offered(k, j, r)' <=> Offered(k, j, r))
      BY <1>1, SameMessages
    <3>2. \A p : Precedes(p, k, j, r)' <=> Precedes(p, k, j, r)
      BY <1>1, SameMessages
    <3>3. HAVE Offered(k, j, r)'
    <3>4. CASE <<k, j, r>> \notin Found'
      <4>1. \A p \in Found' : Precedes(p, k, j, r)
        BY <3>1, <3>3, <3>4, <2>7
      <4>2. QED BY <4>1, <3>2, <2>1
    <3>5. QED BY <3>4
  <2>10. LookedAt'
    BY <2>1, <2>8, <2>9 DEF LookedAt
  <2>11. QED BY <2>2, <2>3, <2>5, <2>10 DEF SearchInv
<1>17. QED BY <1>15, <1>16

LEMMA SearchStep == SearchInv /\ Search => SearchInv'
BY EndKindStep, NextRightStep, RefuseStep, AcceptStep DEF Search

LEMMA SearchExact == SearchInv => PathsExact
<1> SUFFICES ASSUME SearchInv, kind = "done" PROVE PathsExact
  BY DEF PathsExact
<1>1. DOMAIN LeftAct = Kinds
  BY DEF LeftAct, Kinds
<1>2. \A k \in Kinds : \A l, r \in Positions :
        IsExchange(k, l, r) =>
           \/ <<k, l, r>> \in Found
           \/ ~Native(l, r) /\ \A ref \in Shared(l, r) : l \notin Indexed(ref)
           \/ Len(paths) = MaxPaths /\ \A p \in Found : Precedes(p, k, l, r)
  BY OfferedUnlessHidden DEF SearchInv, LookedAt
<1>3. QED BY <1>1, <1>2 DEF PathsExact, SearchInv, Counted, InOrder
(* PathsExact: of all exchanges among the messages of a cluster, the search
   misses only those that the two bounds of the code hide, for any cluster
   (any reply graph, cycles too) and any bounds. *)
THEOREM SearchIsExact == TSpec => []PathsExact
<1>1. TInit => SearchInv
  BY SearchInit DEF TInit
<1>2. ASSUME SearchInv, [TNext]_vars PROVE SearchInv'
  <2>1. CASE Searching
    BY <2>1, <1>2, SearchStep DEF Searching
  <2>2. CASE ~ Searching
    <3>1. UNCHANGED <<msgs, search>>
      BY <2>2, <1>2 DEF TNext, DetectExchange, DetectReuse, DetectOther, Detect, vars
    <3>2. QED BY <3>1, <1>2, SearchKept
  <2>3. QED BY <2>1, <2>2
<1>3. QED BY <1>1, <1>2, SearchExact, PTL DEF TSpec

-----------------------------------------------------------------------------
(* A finite set of integers that is not empty has its extremes. *)
LEMMA MaxIn ==
  ASSUME NEW T, IsFiniteSet(T), T \subseteq Int, T # {}
  PROVE  Max(T) \in T /\ \A j \in T : j <= Max(T)
<1> DEFINE above(x) == {y \in T : y > x}
           F == {above(x) : x \in T}
           R == StrictSubsetOrdering(T)
<1>1. \A x \in T : above(x) \in FiniteSubsetsOf(T)
  BY FS_Subset DEF FiniteSubsetsOf
<1>2. F \subseteq FiniteSubsetsOf(T) /\ F # {}
  BY <1>1
<1> HIDE DEF F
<1>3. PICK f \in F : \A g \in F : ~ (<<g, f>> \in R)
  BY <1>2, FS_StrictSubsetOrderingWellFounded, WFMin
<1>4. PICK m \in T : f = above(m)
  BY <1>3 DEF F
<1>5. ASSUME NEW j \in T, j > m PROVE FALSE
  <2>1. j \in Int /\ m \in Int
    OBVIOUS
  <2>2. j \in above(m) /\ j \notin above(j) /\ above(j) \subseteq above(m)
    <3>1. \A y \in T : y > j => y > m
      BY <2>1, <1>5
    <3>2. ~ (j > j)
      BY <2>1
    <3>3. QED BY <3>1, <3>2, <1>5
  <2>3. <<above(j), above(m)>> \in R
    BY <2>2, <1>1 DEF StrictSubsetOrdering, FiniteSubsetsOf
  <2>4. above(j) \in F
    BY DEF F
  <2>5. QED BY <2>3, <2>4, <1>3, <1>4
<1>6. \A j \in T : m >= j
  BY <1>5
<1>7. QED BY <1>6 DEF Max

LEMMA MinIn ==
  ASSUME NEW T, IsFiniteSet(T), T \subseteq Int, T # {}
  PROVE  Min(T) \in T /\ \A j \in T : Min(T) <= j
<1> DEFINE below(x) == {y \in T : y < x}
           F == {below(x) : x \in T}
           R == StrictSubsetOrdering(T)
<1>1. \A x \in T : below(x) \in FiniteSubsetsOf(T)
  BY FS_Subset DEF FiniteSubsetsOf
<1>2. F \subseteq FiniteSubsetsOf(T) /\ F # {}
  BY <1>1
<1> HIDE DEF F
<1>3. PICK f \in F : \A g \in F : ~ (<<g, f>> \in R)
  BY <1>2, FS_StrictSubsetOrderingWellFounded, WFMin
<1>4. PICK m \in T : f = below(m)
  BY <1>3 DEF F
<1>5. ASSUME NEW j \in T, j < m PROVE FALSE
  <2>1. j \in Int /\ m \in Int
    OBVIOUS
  <2>2. j \in below(m) /\ j \notin below(j) /\ below(j) \subseteq below(m)
    <3>1. \A y \in T : y < j => y < m
      BY <2>1, <1>5
    <3>2. ~ (j < j)
      BY <2>1
    <3>3. QED BY <3>1, <3>2, <1>5
  <2>3. <<below(j), below(m)>> \in R
    BY <2>2, <1>1 DEF StrictSubsetOrdering, FiniteSubsetsOf
  <2>4. below(j) \in F
    BY DEF F
  <2>5. QED BY <2>3, <2>4, <1>3, <1>4
<1>6. \A j \in T : m =< j
  BY <1>5
<1>7. QED BY <1>6 DEF Min

(* The image of a finite set under a function. *)
LEMMA ImageFinite ==
  ASSUME NEW S, IsFiniteSet(S), NEW f, f \in [S -> {f[x] : x \in S}]
  PROVE  IsFiniteSet({f[x] : x \in S})
<1>1. f \in Surjection(S, {f[x] : x \in S})
  BY DEF Surjection
<1>2. QED BY <1>1, FS_Surjection

LEMMA PairFinite ==
  ASSUME NEW a, NEW b
  PROVE  IsFiniteSet({a, b})
<1>1. {a, b} = {a} \cup {b}
  OBVIOUS
<1>2. IsFiniteSet({a})
  BY FS_Singleton
<1>3. IsFiniteSet({a} \cup {b})
  BY <1>2, FS_AddElement
<1>4. QED BY <1>1, <1>3

-----------------------------------------------------------------------------
(* The signals of the run so far, and what the verdict is of. *)
TierType ==
  /\ stage \in {"exchange", "reuse", "others"}
  /\ stage # "exchange" => kind = "done"
  /\ stage = "exchange" => signals = << >>
  /\ signals \in Seq(Signal)

Decided == verdict = Verdict(signals)

(* Only the exchange detector verifies, of all the search has found. *)
Verifier ==
  \A i \in 1 .. Len(signals) : signals[i].native \/ signals[i].across =>
    paths # << >> /\ signals[i] = ExchangeSignal

TierInv == SearchInv /\ TierType /\ Decided /\ Verifier

LEMMA ScoreLimit ==
  ASSUME NEW n \in Nat
  PROVE  AtMost(98, n) \in 0 .. 98 /\ AtMost(95, n) \in 0 .. 95
BY DEF AtMost

LEMMA ExchangeTyped ==
  ASSUME SearchInv, paths # << >>
  PROVE  ExchangeSignal \in Signal
<1>1. Len(paths) \in Nat /\ Len(paths) >= 1
  BY DEF SearchInv, SearchType
<1> DEFINE base == IF \E p \in Found : FirstAck(p) # {} THEN 94
                   ELSE IF \E p \in Found : p[1] = "checkpoint" THEN 90 ELSE 78
<1>2. base \in {78, 90, 94}
  OBVIOUS
<1>3. ExchangeScore = AtMost(98, base + 2 * (Len(paths) - 1))
  BY DEF ExchangeScore
<1> HIDE DEF base
<1>4. base + 2 * (Len(paths) - 1) \in Nat
  BY <1>1, <1>2
<1>5. ExchangeScore \in 0 .. 100
  <2>1. PICK n \in Nat : n = base + 2 * (Len(paths) - 1)
    BY <1>4
  <2>2. ExchangeScore = AtMost(98, n)
    BY <1>3, <2>1
  <2>3. AtMost(98, n) \in 0 .. 98
    BY ScoreLimit
  <2>4. QED BY <2>2, <2>3
<1>6. "semantic" \in Families /\ "artifact" \in Families
  BY DEF Families, Reliability
<1>7. (IF \E p \in Found : ~Native(p[2], p[3]) THEN {"artifact"} ELSE {}) \in SUBSET Families
  BY <1>6
<1>8. QED BY <1>5, <1>6, <1>7 DEF ExchangeSignal, Plain, Signal

LEMMA ReuseTyped ==
  ASSUME msgs \in Clusters, Reused # {}
  PROVE  Plain("artifact", ReuseScore) \in Signal
<1> DEFINE strengths == {ArtifactStrength(ref) : ref \in Reused}
           spread == {Cardinality(ActorsOf(ref)) : ref \in Reused}
<1>1. IsFiniteSet(Reused)
  BY FS_Subset, TiersAssumption DEF Reused
<1>2. \A ref : IsFiniteSet(ActorsOf(ref)) /\ IsFiniteSet(ContextsOf(ref))
  <2> TAKE ref
  <2>1. IsFiniteSet(Holders(ref))
    BY MessageFacts, FS_Subset DEF Holders
  <2> DEFINE f == [i \in Holders(ref) |-> Actor(i)]
             g == [i \in Holders(ref) |-> msgs[i].context]
  <2>2. ActorsOf(ref) = {f[i] : i \in Holders(ref)}
    BY DEF ActorsOf
  <2>3. ContextsOf(ref) = {g[i] : i \in Holders(ref)}
    BY DEF ContextsOf
  <2>4. f \in [Holders(ref) -> {f[i] : i \in Holders(ref)}]
    OBVIOUS
  <2>5. g \in [Holders(ref) -> {g[i] : i \in Holders(ref)}]
    OBVIOUS
  <2> HIDE DEF f, g
  <2>6. QED BY <2>1, <2>2, <2>3, <2>4, <2>5, ImageFinite
<1>3. \A ref \in Reused : Cardinality(ActorsOf(ref)) \in Nat /\ Cardinality(ActorsOf(ref)) >= 2
  BY <1>2, FS_CardinalityType DEF Reused
<1>4. \A ref \in Reused : ArtifactStrength(ref) \in 0 .. 95
  <2> TAKE ref \in Reused
  <2>1. Cardinality(ContextsOf(ref)) \in Nat
    BY <1>2, FS_CardinalityType
  <2>2. 82 + 8 * (Cardinality(ContextsOf(ref)) - 1) \in Nat
    BY <2>1
  <2>3. QED BY <2>2, ScoreLimit DEF ArtifactStrength
<1>5. IsFiniteSet(strengths) /\ IsFiniteSet(spread)
  <2> DEFINE f == [ref \in Reused |-> ArtifactStrength(ref)]
             g == [ref \in Reused |-> Cardinality(ActorsOf(ref))]
  <2>1. strengths = {f[ref] : ref \in Reused} /\ spread = {g[ref] : ref \in Reused}
    OBVIOUS
  <2>2. f \in [Reused -> {f[ref] : ref \in Reused}]
    OBVIOUS
  <2>3. g \in [Reused -> {g[ref] : ref \in Reused}]
    OBVIOUS
  <2> HIDE DEF f, g, strengths, spread
  <2>4. QED BY <1>1, <2>1, <2>2, <2>3, ImageFinite
<1>6. strengths \subseteq 0 .. 95 /\ strengths # {}
  BY <1>4
<1>7. spread \subseteq Nat \ {0, 1} /\ spread # {}
  BY <1>3
<1>8. Cardinality(Reused) \in Nat \ {0}
  BY <1>1, FS_CardinalityType, FS_EmptySet
<1>9. ReuseScore = AtMost(98, Max(strengths) + 4 * (Max(spread) - 2) + 3 * (Cardinality(Reused) - 1))
  BY DEF ReuseScore
<1> HIDE DEF strengths, spread
<1>10. Max(strengths) \in Nat /\ Max(spread) \in Nat \ {0, 1}
  <2>1. strengths \subseteq Int /\ spread \subseteq Int
    BY <1>6, <1>7
  <2>2. Max(strengths) \in strengths /\ Max(spread) \in spread
    BY <2>1, <1>5, <1>6, <1>7, MaxIn
  <2>3. Max(strengths) \in 0 .. 95
    BY <2>2, <1>6
  <2>4. Max(spread) \in Nat \ {0, 1}
    BY <2>2, <1>7
  <2>5. QED BY <2>3, <2>4
<1>11. Max(strengths) + 4 * (Max(spread) - 2) + 3 * (Cardinality(Reused) - 1) \in Nat
  BY <1>8, <1>10
<1>12. ReuseScore \in 0 .. 100
  BY <1>9, <1>11, ScoreLimit
<1>13. "artifact" \in Families
  BY DEF Families, Reliability
<1>14. QED BY <1>12, <1>13 DEF Plain, Signal

LEMMA SameExchange ==
  ASSUME msgs' = msgs, paths' = paths
  PROVE  ExchangeSignal' = ExchangeSignal /\ Handles' = Handles
<1>1. Found' = Found /\ Positions' = Positions
  BY DEF Found, Positions
<1>2. \A a, p : Acknowledges(a, p)' <=> Acknowledges(a, p)
  BY SameMessages DEF Acknowledges
<1>3. \A p : FirstAck(p)' = FirstAck(p)
  BY <1>1, <1>2 DEF FirstAck
<1>4. \A p : Complete(p)' <=> Complete(p)
  BY <1>3 DEF Complete
<1>5. VerifiedNative' = VerifiedNative
  BY <1>1, <1>4, SameMessages DEF VerifiedNative
<1>6. VerifiedAcross' = VerifiedAcross
  BY <1>1, <1>3, <1>4, SameMessages DEF VerifiedAcross
<1>7. ExchangeScore' = ExchangeScore
  BY <1>1, <1>3 DEF ExchangeScore
<1>8. ExchangeSignal' = ExchangeSignal
  BY <1>1, <1>5, <1>6, <1>7, SameMessages DEF ExchangeSignal
<1>9. QED BY <1>1, <1>8 DEF Handles

-----------------------------------------------------------------------------
(* Signals of the types above: how strong they can be, and how many. *)
LEMMA SignalFacts ==
  ASSUME NEW x \in Signal
  PROVE  x.family \in Families /\ x.score \in 0 .. 100
BY DEF Signal

LEMMA RetainedFinite ==
  ASSUME NEW S \in Seq(Signal)
  PROVE  /\ Retained(S) \subseteq Signal /\ IsFiniteSet(Retained(S))
         /\ Fired(S) \subseteq Retained(S) /\ IsFiniteSet(Fired(S))
         /\ \A x \in Fired(S) : x.family \in DOMAIN Reliability /\ Effective(x) \in Nat
<1>1. Retained(S) \subseteq {S[i] : i \in 1 .. Len(S)}
  BY DEF Retained
<1>2. S \in [1 .. Len(S) -> {S[i] : i \in 1 .. Len(S)}] /\ Len(S) \in Nat
  OBVIOUS
<1>3. IsFiniteSet({S[i] : i \in 1 .. Len(S)})
  <2>1. IsFiniteSet(1 .. Len(S))
    <3>1. 1 \in Int /\ Len(S) \in Int
      BY <1>2
    <3>2. QED BY <3>1, FS_Interval
  <2>2. QED BY <1>2, <2>1, ImageFinite
<1>4. Retained(S) \subseteq Signal /\ IsFiniteSet(Retained(S))
  BY <1>1, <1>3, FS_Subset
<1>5. Fired(S) \subseteq Retained(S)
  BY DEF Fired
<1>6. IsFiniteSet(Fired(S))
  BY <1>4, <1>5, FS_Subset
<1>7. \A x \in Fired(S) : x.family \in DOMAIN Reliability /\ Effective(x) \in Nat
  <2> TAKE x \in Fired(S)
  <2>1. x \in Signal /\ x.family \in DOMAIN Reliability
    BY <1>4 DEF Fired
  <2>2. Effective(x) \in Nat
    <3>1. PICK a \in Nat : a = Reliability[x.family]
      BY <2>1 DEF Reliability
    <3>2. Effective(x) = a * x.score
      BY <3>1 DEF Effective
    <3>3. PICK b \in Nat : b = x.score
      BY <2>1, SignalFacts
    <3>4. a * b \in Nat
      BY <3>1
    <3>5. QED BY <3>2, <3>3, <3>4
  <2>3. QED BY <2>1, <2>2
<1>8. QED BY <1>4, <1>5, <1>6, <1>7

(* Sets of fired families that share nothing with the others. *)
Closed(fired) == {C \in SUBSET fired : \A x \in C, y \in fired : Tied(x, y) => y \in C}

LEMMA ComponentsAre ==
  ASSUME NEW fired
  PROVE  /\ Components(fired) \subseteq Closed(fired)
         /\ {} \notin Components(fired)
         /\ \A C \in Closed(fired) :
              C \in Components(fired) <=>
                C # {} /\ \A D \in Closed(fired) : D \subseteq C => D = {} \/ D = C
BY DEF Components, Closed

LEMMA ComponentsApart ==
  ASSUME NEW fired, NEW C \in Components(fired), NEW D \in Components(fired), C # D
  PROVE  C \cap D = {}
<1>1. C \in Closed(fired) /\ D \in Closed(fired) /\ C # {} /\ D # {}
  BY ComponentsAre
<1>2. C \cap D \in Closed(fired)
  BY <1>1 DEF Closed
<1>3. C \cap D \subseteq C /\ C \cap D \subseteq D
  OBVIOUS
<1>4. C \cap D \in {{}, C} /\ C \cap D \in {{}, D}
  BY <1>1, <1>2, <1>3, ComponentsAre
<1>5. QED BY <1>1, <1>4

LEMMA ComponentsFinite ==
  ASSUME NEW fired, IsFiniteSet(fired)
  PROVE  /\ IsFiniteSet(Components(fired)) /\ Cardinality(Components(fired)) \in Nat
         /\ \A C \in Components(fired) : C \subseteq fired /\ IsFiniteSet(C) /\ C # {}
         /\ Cardinality(Components(fired)) <= Cardinality(fired)
<1>1. Components(fired) \in SUBSET (SUBSET fired)
  BY DEF Components
<1>2. IsFiniteSet(SUBSET fired)
  BY FS_SUBSET
<1>3. IsFiniteSet(Components(fired))
  BY <1>1, <1>2, FS_Subset
<1>4. \A C \in Components(fired) : C \subseteq fired /\ IsFiniteSet(C) /\ C # {}
  BY <1>1, FS_Subset, ComponentsAre
<1> DEFINE member == [C \in Components(fired) |-> CHOOSE x \in C : TRUE]
<1>5. \A C \in Components(fired) : member[C] \in C
  BY <1>4
<1> HIDE DEF member
<1>6. member \in Injection(Components(fired), fired)
  <2>1. member \in [Components(fired) -> fired]
    BY <1>4, <1>5 DEF member
  <2>2. \A C, D \in Components(fired) : member[C] = member[D] => C = D
    BY <1>5, ComponentsApart
  <2>3. QED BY <2>1, <2>2 DEF Injection, IsInjective
<1>7. Cardinality(Components(fired)) <= Cardinality(fired)
  BY <1>6, FS_Injection
<1>8. QED BY <1>3, <1>4, <1>7, FS_CardinalityType

(* Two components have nothing in common, and nothing to do with each other. *)
LEMMA ComponentsIndependent ==
  ASSUME NEW C \in Components(Fired(signals)), NEW D \in Components(Fired(signals)), C # D,
         NEW x \in C, NEW y \in D
  PROVE  x \in Fired(signals) /\ y \in Fired(signals) /\ Independent(x, y)
<1>1. /\ C \in SUBSET Fired(signals) /\ D \in SUBSET Fired(signals)
      /\ \A u \in C, v \in Fired(signals) : Tied(u, v) => v \in C
  BY ComponentsAre DEF Closed
<1>2. y \notin C
  BY ComponentsApart
<1>3. \A u \in C, v \in Fired(signals) \ C : ~Declares(u, v)
  BY <1>1 DEF Declares, Tied
<1>4. QED BY <1>1, <1>2, <1>3 DEF Independent

LEMMA TwoMembers ==
  ASSUME NEW S, IsFiniteSet(S), Cardinality(S) >= 2
  PROVE  \E x, y \in S : x # y
<1>1. S # {}
  BY FS_EmptySet
<1>2. PICK x \in S : TRUE
  BY <1>1
<1>3. S # {x}
  BY FS_Singleton
<1>4. QED BY <1>2, <1>3

-----------------------------------------------------------------------------
LEMMA TierInit == TInit => TierInv
<1> SUFFICES ASSUME TInit PROVE TierInv
  OBVIOUS
<1>1. SearchInv
  BY SearchInit DEF TInit
<1>2. signals = << >> /\ Len(signals) = 0
  BY DEF TInit
<1>3. TierType /\ Decided /\ Verifier
  BY <1>2 DEF TInit, TierType, Decided, Verifier
<1>4. QED BY <1>1, <1>3 DEF TierInv

(* A detector that adds at most one signal of its type, and verifies no
   trajectory unless it is the exchange detector. *)
LEMMA DetectStep ==
  ASSUME TierInv, NEW from, NEW to \in {"reuse", "others"}, NEW found \in Seq(Signal),
         Detect(from, to, found), kind = "done",
         \A i \in 1 .. Len(found) : found[i].native \/ found[i].across =>
            paths # << >> /\ found[i] = ExchangeSignal
  PROVE  TierInv'
<1>1. /\ UNCHANGED <<msgs, search>> /\ msgs' = msgs /\ paths' = paths /\ kind' = kind
      /\ stage' = to /\ sourced' = sourced
      /\ signals' = signals \o found /\ verdict' = Verdict(signals \o found)
      /\ signals \in Seq(Signal)
  BY DEF Detect, search, TierInv, TierType
<1>2. SearchInv'
  BY <1>1, SearchKept DEF TierInv
<1>3. signals' \in Seq(Signal)
  BY <1>1
<1>4. TierType'
  BY <1>1, <1>3 DEF TierType
<1>5. Decided'
  BY <1>1, SameExchange DEF Decided, Verdict
<1>6. Verifier'
  <2> SUFFICES ASSUME NEW i \in 1 .. Len(signals'), signals'[i].native \/ signals'[i].across
               PROVE  paths # << >> /\ signals'[i] = ExchangeSignal
    BY <1>1, SameExchange DEF Verifier
  <2>1. \/ i \in 1 .. Len(signals) /\ signals'[i] = signals[i]
        \/ i - Len(signals) \in 1 .. Len(found) /\ signals'[i] = found[i - Len(signals)]
    BY <1>1
  <2>2. QED BY <2>1 DEF TierInv, Verifier
<1>7. QED BY <1>2, <1>4, <1>5, <1>6 DEF TierInv

LEMMA TierStep == TierInv /\ [TNext]_vars => TierInv'
<1> SUFFICES ASSUME TierInv, [TNext]_vars PROVE TierInv'
  OBVIOUS
<1> USE DEF TierInv
<1>1. CASE Searching
  <2>1. /\ stage' = stage /\ sourced' = sourced /\ signals' = signals /\ verdict' = verdict
        /\ stage = "exchange" /\ signals = << >> /\ msgs' = msgs
    BY <1>1 DEF Searching, TierType, Search, EndKind, NextRight, RefuseLeft, AcceptLeft
  <2>2. SearchInv'
    BY <1>1, SearchStep DEF Searching
  <2>3. TierType'
    BY <2>1 DEF TierType
  <2>4. Handles' = Handles
    BY <2>1 DEF Handles, Positions
  <2>5. Decided'
    BY <2>1, <2>4 DEF Decided, Verdict
  <2>6. Verifier'
    BY <2>1 DEF Verifier
  <2>7. QED BY <2>2, <2>3, <2>5, <2>6
<1>2. CASE DetectExchange
  <2> DEFINE found == IF paths = << >> THEN << >> ELSE <<ExchangeSignal>>
  <2>1. Detect("exchange", "reuse", found) /\ kind = "done"
    BY <1>2 DEF DetectExchange
  <2>2. found \in Seq(Signal)
    BY ExchangeTyped
  <2>3. \A i \in 1 .. Len(found) : paths # << >> /\ found[i] = ExchangeSignal
    OBVIOUS
  <2> HIDE DEF found
  <2>4. QED BY <2>1, <2>2, <2>3, DetectStep
<1>3. CASE DetectReuse
  <2> DEFINE found == IF Reused = {} THEN << >> ELSE <<Plain("artifact", ReuseScore)>>
  <2>1. Detect("reuse", "others", found) /\ kind = "done"
    BY <1>3 DEF DetectReuse, Detect, TierType
  <2>2. found \in Seq(Signal)
    BY ReuseTyped DEF SearchInv, SearchType
  <2>3. \A i \in 1 .. Len(found) : ~ (found[i].native \/ found[i].across)
    BY DEF Plain
  <2> HIDE DEF found
  <2>4. QED BY <2>1, <2>2, <2>3, DetectStep
<1>4. ASSUME NEW n \in 1 .. Len(Others), DetectOther(n) PROVE TierInv'
  <2> DEFINE found == <<Others[n]>>
  <2>1. Detect("others", "others", found) /\ kind = "done"
    BY <1>4 DEF DetectOther, Detect, TierType
  <2>2. Others[n] \in Signal /\ ~Others[n].native /\ ~Others[n].across
    BY TiersAssumption
  <2>3. found \in Seq(Signal) /\ \A i \in 1 .. Len(found) : ~ (found[i].native \/ found[i].across)
    BY <2>2
  <2> HIDE DEF found
  <2>4. QED BY <2>1, <2>3, DetectStep
<1>5. CASE UNCHANGED vars
  <2>1. /\ UNCHANGED <<msgs, search>> /\ msgs' = msgs /\ paths' = paths /\ kind' = kind
        /\ stage' = stage /\ sourced' = sourced /\ signals' = signals /\ verdict' = verdict
    BY <1>5 DEF vars, search
  <2>2. SearchInv'
    BY <2>1, SearchKept
  <2>3. TierType' /\ Decided' /\ Verifier'
    BY <2>1, SameExchange DEF TierType, Decided, Verdict, Verifier
  <2>4. QED BY <2>2, <2>3
<1>6. QED BY <1>1, <1>2, <1>3, <1>4, <1>5 DEF TNext

(* What the exchange detector has verified is among the messages. *)
LEMMA VerifiedTrajectory ==
  ASSUME TierInv, Verified(signals)
  PROVE  Trajectory
<1>1. PICK i \in 1 .. Len(signals) : signals[i].native \/ signals[i].across
  BY DEF Verified, Retained
<1>2. SearchInv /\ signals[i] = ExchangeSignal
  BY <1>1 DEF TierInv, Verifier
<1>3. PICK p \in VerifiedNative \cup VerifiedAcross : TRUE
  BY <1>1, <1>2 DEF ExchangeSignal, Plain
<1> DEFINE k == p[1]  l == p[2]  r == p[3]
<1>4. p \in Found /\ Complete(p)
  BY <1>3 DEF VerifiedNative, VerifiedAcross
<1>5. k \in Kinds /\ l \in Positions /\ r \in Positions
  BY <1>2, <1>4, SearchTyped DEF SearchInv
<1>6. IsExchange(k, l, r)
  BY <1>2, <1>4 DEF SearchInv, InOrder
<1>7. k = "checkpoint" \/ FirstAck(p) # {}
  BY <1>4 DEF Complete
<1>8. FirstAck(p) \in SUBSET {a \in Positions : Acknowledges(a, <<k, l, r>>)}
  BY DEF FirstAck, Acknowledges
<1>9. DOMAIN LeftAct = Kinds
  BY DEF LeftAct, Kinds
<1> HIDE DEF k, l, r
<1>10. CASE p \in VerifiedNative
  <2>1. Native(l, r)
    BY <1>10 DEF VerifiedNative, l, r
  <2>2. ASSUME k = "checkpoint" PROVE ByReply(l, r)
    <3>1. IsExchange("checkpoint", l, r)
      BY <2>2, <1>6
    <3>2. QED BY <3>1, <2>1 DEF ByReply
  <2>3. ASSUME k = "delegate" PROVE ByReply(l, r)
    <3>1. FirstAck(p) # {}
      BY <2>3, <1>7
    <3>2. PICK a \in Positions : Acknowledges(a, <<k, l, r>>)
      BY <3>1, <1>8
    <3>3. IsExchange("delegate", l, r) /\ Acknowledges(a, <<"delegate", l, r>>)
      BY <2>3, <3>2, <1>6
    <3>4. QED BY <3>3, <2>1 DEF ByReply
  <2>4. ByReply(l, r)
    BY <2>2, <2>3, <1>5 DEF Kinds
  <2>5. QED BY <2>4, <1>5 DEF Trajectory
<1>11. CASE p \in VerifiedAcross
  <2>1. ~Native(l, r) /\ Cardinality({msgs[j].context : j \in {l, r} \cup FirstAck(p)}) >= 2
    BY <1>11 DEF VerifiedAcross, l, r
  <2>2. Shared(l, r) # {}
    BY <2>1, <1>6 DEF IsExchange, IsPath
  <2>3. {l, r} \cup FirstAck(p) = FirstAck(p) \cup {l, r}
    OBVIOUS
  <2>4. k = "delegate" => FirstAck(p) # {}
    BY <1>7
  <2>5. ByReference(l, r)
    BY <2>1, <2>2, <2>3, <2>4, <1>5, <1>6, <1>8, <1>9 DEF ByReference
  <2>6. QED BY <2>5, <1>5 DEF Trajectory
<1>12. QED BY <1>3, <1>10, <1>11

LEMMA HighRoutes == TierInv => HighHasRoute
<1> SUFFICES ASSUME TierInv, verdict.decision >= 2 PROVE HighHasRoute
  BY DEF HighHasRoute
<1>1. verdict.decision = Decision(signals, Handles, sourced)
  BY DEF TierInv, Decided, Verdict
<1>2. Reviewable(signals, Handles, sourced)
  BY <1>1 DEF Decision
<1>3. CASE Cardinality(StrongAnchors(signals)) >= 2
  <2>1. IsFiniteSet(Components(Fired(signals)))
    BY RetainedFinite, ComponentsFinite DEF TierInv, TierType
  <2>2. StrongAnchors(signals) \in SUBSET Components(Fired(signals))
    BY DEF StrongAnchors
  <2>3. IsFiniteSet(StrongAnchors(signals))
    BY <2>1, <2>2, FS_Subset
  <2>4. PICK C, D \in StrongAnchors(signals) : C # D
    BY <2>3, <1>3, TwoMembers
  <2>5. PICK x \in C, y \in D : IsStrong(x) /\ IsStrong(y)
    BY <2>4 DEF StrongAnchors
  <2>6. x \in Fired(signals) /\ y \in Fired(signals) /\ Independent(x, y)
    BY <2>2, <2>4, ComponentsIndependent
  <2>7. QED BY <2>5, <2>6 DEF HighHasRoute
<1>4. CASE Verified(signals)
  BY <1>4, VerifiedTrajectory DEF HighHasRoute
<1>5. CASE Exceptional(signals) # {}
  BY <1>5 DEF Exceptional, HighHasRoute
<1>6. QED BY <1>2, <1>3, <1>4, <1>5 DEF Reviewable

(* HighHasRoute: whatever the messages and whatever the other detectors find,
   a cluster is put up for review only for two strong anchors in components
   that share no evidence, an exceptional signal, or a trajectory that is
   there, in full, among the messages. *)
THEOREM HighTierHasReason == TSpec => []HighHasRoute
BY TierInit, TierStep, HighRoutes, PTL DEF TSpec

-----------------------------------------------------------------------------
(* How strong components are, and how they rank. *)
LEMMA StrengthType ==
  ASSUME NEW S \in Seq(Signal), NEW C \in Components(Fired(S))
  PROVE  Strength(C) \in Nat
<1> DEFINE values == {Effective(x) : x \in C}
           f == [x \in C |-> Effective(x)]
<1>1. C \subseteq Fired(S) /\ IsFiniteSet(C) /\ C # {}
  BY RetainedFinite, ComponentsFinite
<1>2. \A x \in C : Effective(x) \in Nat
  BY <1>1, RetainedFinite
<1>3. values = {f[x] : x \in C} /\ f \in [C -> {f[x] : x \in C}]
  OBVIOUS
<1>4. (\A v \in values : v \in Nat) /\ values # {}
  BY <1>1, <1>2
<1> HIDE DEF f, values
<1>5. IsFiniteSet(values)
  BY <1>1, <1>3, ImageFinite
<1>6. values \subseteq Int
  BY <1>4
<1>7. PICK m \in values : m = Max(values)
  BY <1>4, <1>5, <1>6, MaxIn
<1>8. Strength(C) = m
  BY <1>7 DEF Strength, values
<1>9. QED BY <1>4, <1>8

Above(comps, v) == {C \in comps : Strength(C) > v}
AtLeast(comps, v) == {C \in comps : Strength(C) >= v}

LEMMA RankExists ==
  ASSUME NEW comps, IsFiniteSet(comps), \A C \in comps : Strength(C) \in Nat,
         NEW n \in Nat \ {0}, n <= Cardinality(comps)
  PROVE  \E v \in {Strength(C) : C \in comps} :
           Cardinality(Above(comps, v)) < n /\ Cardinality(AtLeast(comps, v)) >= n
<1> DEFINE values == {Strength(C) : C \in comps}
           f == [C \in comps |-> Strength(C)]
           V == {v \in values : Cardinality(AtLeast(comps, v)) >= n}
<1>1. values = {f[C] : C \in comps} /\ f \in [comps -> {f[C] : C \in comps}]
  OBVIOUS
<1>2. IsFiniteSet(values) /\ values \subseteq Int
  <2>1. \A v \in values : v \in Int
    OBVIOUS
  <2> HIDE DEF f, values
  <2>2. QED BY <2>1, <1>1, ImageFinite
<1> HIDE DEF f
<1>3. Cardinality(comps) \in Nat /\ comps # {}
  BY FS_CardinalityType, FS_EmptySet
<1>4. values # {}
  BY <1>3
<1>5. PICK low \in values : \A w \in values : low <= w
  <2> HIDE DEF values
  <2>1. QED BY <1>2, <1>4, MinIn
<1>6. AtLeast(comps, low) = comps
  BY <1>5 DEF AtLeast
<1>7. V # {} /\ V \subseteq values
  BY <1>5, <1>6
<1>8. IsFiniteSet(V) /\ V \subseteq Int
  BY <1>2, <1>7, FS_Subset
<1>9. PICK v \in V : \A w \in V : w <= v
  <2> HIDE DEF V
  <2>1. QED BY <1>7, <1>8, MaxIn
<1>10. v \in values /\ v \in Int /\ Cardinality(AtLeast(comps, v)) >= n
  BY <1>2, <1>9
<1>11. ASSUME Cardinality(Above(comps, v)) >= n PROVE FALSE
  <2>1. Above(comps, v) # {}
    BY <1>11, FS_EmptySet
  <2> DEFINE W == {w \in values : w > v}
  <2>2. W # {} /\ W \subseteq values
    BY <2>1 DEF Above
  <2>3. IsFiniteSet(W) /\ W \subseteq Int
    BY <1>2, <2>2, FS_Subset
  <2>4. PICK u \in W : \A w \in W : u <= w
    <3> HIDE DEF W
    <3>1. QED BY <2>2, <2>3, MinIn
  <2>5. u \in values /\ u > v /\ u \in Int
    BY <1>2, <2>4
  <2>6. AtLeast(comps, u) = Above(comps, v)
    <3>1. \A C \in comps : Strength(C) >= u => Strength(C) > v
      BY <2>5, <1>10
    <3>2. \A C \in comps : Strength(C) > v => Strength(C) >= u
      BY <2>4
    <3>3. QED BY <3>1, <3>2 DEF AtLeast, Above
  <2>7. u \in V
    BY <2>5, <2>6, <1>11
  <2>8. u <= v
    BY <2>7, <1>9
  <2>9. QED BY <2>5, <2>8, <1>10
<1>12. Cardinality(Above(comps, v)) \in Nat
  <2>1. Above(comps, v) \in SUBSET comps
    BY DEF Above
  <2>2. QED BY <2>1, FS_Subset, FS_CardinalityType
<1>13. Cardinality(Above(comps, v)) < n
  BY <1>11, <1>12
<1>14. QED BY <1>10, <1>13

LEMMA RankedIs ==
  ASSUME NEW comps, IsFiniteSet(comps), \A C \in comps : Strength(C) \in Nat,
         NEW n \in 1 .. 3
  PROVE  /\ Ranked(comps)[n] \in Nat
         /\ n > Cardinality(comps) => Ranked(comps)[n] = 0
         /\ n <= Cardinality(comps) =>
              /\ Cardinality(Above(comps, Ranked(comps)[n])) < n
              /\ Cardinality(AtLeast(comps, Ranked(comps)[n])) >= n
<1>1. Cardinality(comps) \in Nat
  BY FS_CardinalityType
<1>2. CASE n > Cardinality(comps)
  <2>1. Ranked(comps)[n] = 0
    BY <1>2 DEF Ranked
  <2>2. ~ (n <= Cardinality(comps))
    BY <1>1, <1>2
  <2>3. QED BY <2>1, <2>2
<1>3. CASE ~ (n > Cardinality(comps))
  <2>1. n <= Cardinality(comps)
    BY <1>1, <1>3
  <2>2. Ranked(comps)[n] =
          CHOOSE v \in {Strength(C) : C \in comps} :
            /\ Cardinality(Above(comps, v)) < n
            /\ Cardinality(AtLeast(comps, v)) >= n
    BY <1>3 DEF Ranked, Above, AtLeast
  <2>3. \E v \in {Strength(C) : C \in comps} :
            Cardinality(Above(comps, v)) < n /\ Cardinality(AtLeast(comps, v)) >= n
    <3>1. n \in Nat \ {0} /\ \A C \in comps : Strength(C) \in Nat
      OBVIOUS
    <3>2. QED BY <2>1, <3>1, RankExists
  <2>4. /\ Ranked(comps)[n] \in {Strength(C) : C \in comps}
        /\ Cardinality(Above(comps, Ranked(comps)[n])) < n
        /\ Cardinality(AtLeast(comps, Ranked(comps)[n])) >= n
    BY <2>2, <2>3
  <2>5. QED BY <2>4, <1>3
<1>4. QED BY <1>2, <1>3

(* A further component lowers no rank. *)
LEMMA RankedGrows ==
  ASSUME NEW few, NEW many, few \subseteq many, IsFiniteSet(many),
         \A C \in many : Strength(C) \in Nat, NEW n \in 1 .. 3
  PROVE  Ranked(few)[n] <= Ranked(many)[n]
<1>1. IsFiniteSet(few) /\ \A C \in few : Strength(C) \in Nat
  BY FS_Subset
<1>2. Cardinality(few) \in Nat /\ Cardinality(many) \in Nat /\ Cardinality(few) <= Cardinality(many)
  BY <1>1, FS_CardinalityType, FS_Subset
<1> DEFINE r == Ranked(few)[n]  s == Ranked(many)[n]
<1>3. r \in Nat /\ s \in Nat
  BY <1>1, RankedIs
<1>4. n > Cardinality(few) => r = 0
  BY <1>1, RankedIs
<1>5. n <= Cardinality(few) => Cardinality(AtLeast(few, r)) >= n
  BY <1>1, RankedIs
<1>6. n <= Cardinality(many) => Cardinality(Above(many, s)) < n
  BY RankedIs
<1> HIDE DEF r, s
<1>7. ASSUME n <= Cardinality(few), s < r PROVE FALSE
  <2>1. AtLeast(few, r) \subseteq Above(many, s)
    <3>1. \A C \in few : Strength(C) >= r => Strength(C) > s
      BY <1>1, <1>3, <1>7
    <3>2. QED BY <3>1 DEF AtLeast, Above
  <2>2. IsFiniteSet(Above(many, s)) /\ IsFiniteSet(AtLeast(few, r))
    BY <1>1, FS_Subset DEF Above, AtLeast
  <2>3. /\ Cardinality(AtLeast(few, r)) <= Cardinality(Above(many, s))
        /\ Cardinality(AtLeast(few, r)) \in Nat /\ Cardinality(Above(many, s)) \in Nat
    BY <2>1, <2>2, FS_Subset, FS_CardinalityType
  <2>4. n <= Cardinality(many)
    BY <1>2, <1>7
  <2>5. QED BY <2>3, <2>4, <1>5, <1>6, <1>7
<1>8. r <= s
  BY <1>2, <1>3, <1>4, <1>7
<1>9. QED BY <1>8 DEF r, s

LEMMA WeightedType ==
  ASSUME NEW S \in Seq(Signal)
  PROVE  Weighted(Components(Fired(S))) \in Nat
<1> DEFINE comps == Components(Fired(S))
<1>1. IsFiniteSet(comps) /\ \A C \in comps : Strength(C) \in Nat
  BY RetainedFinite, ComponentsFinite, StrengthType
<1> HIDE DEF comps
<1>2. \A n \in 1 .. 3 : Ranked(comps)[n] \in Nat
  BY <1>1, RankedIs
<1>3. PICK a, b, c \in Nat : a = Ranked(comps)[1] /\ b = Ranked(comps)[2] /\ c = Ranked(comps)[3]
  BY <1>2
<1>4. Weighted(comps) = 52 * a + 31 * b + 17 * c
  BY <1>3 DEF Weighted, Coefficients
<1>5. Weighted(comps) \in Nat
  BY <1>4
<1>6. QED BY <1>5 DEF comps

(* The bonus that n components with k families collapsed bring. *)
BonusOf(n, k) ==
  (IF n >= 2 THEN 30000 ELSE 0) + (IF n >= 3 THEN 30000 ELSE 0) + Min({60000, 30000 * k})

LEMMA BonusType ==
  ASSUME NEW k \in Nat
  PROVE  /\ \A n \in Nat : BonusOf(n, k) \in Nat
         /\ \A n, m \in Nat : n <= m => BonusOf(n, k) <= BonusOf(m, k)
<1> DEFINE a == 60000  b == 30000 * k
<1>1. a \in Nat /\ b \in Nat
  BY SMT
<1>2. Min({60000, 30000 * k}) = Min({a, b})
  BY SMT
<1> HIDE DEF a, b
<1>3. IsFiniteSet({a, b}) /\ {a, b} # {} /\ {a, b} \subseteq Int
  <2>1. IsFiniteSet({a, b})
    BY PairFinite
  <2>2. a \in Int /\ b \in Int
    BY <1>1
  <2>3. QED BY <2>1, <2>2
<1>4. PICK z \in {a, b} : z = Min({a, b})
  BY <1>3, MinIn
<1>5. z \in Nat /\ \A n : BonusOf(n, k) =
        (IF n >= 2 THEN 30000 ELSE 0) + (IF n >= 3 THEN 30000 ELSE 0) + z
  BY SMT, <1>1, <1>2, <1>4 DEF BonusOf
<1>6. QED BY SMT, <1>5

LEMMA BonusIs ==
  ASSUME NEW S \in Seq(Signal)
  PROVE  /\ Cardinality(Components(Fired(S))) \in Nat /\ Collapsed(Fired(S)) \in Nat
         /\ Bonus(Fired(S)) = BonusOf(Cardinality(Components(Fired(S))), Collapsed(Fired(S)))
<1>1. IsFiniteSet(Fired(S)) /\ Cardinality(Fired(S)) \in Nat
  BY RetainedFinite, FS_CardinalityType
<1>2. /\ Cardinality(Components(Fired(S))) \in Nat
      /\ Cardinality(Components(Fired(S))) <= Cardinality(Fired(S))
  BY <1>1, ComponentsFinite
<1>3. Collapsed(Fired(S)) \in Nat
  BY <1>1, <1>2 DEF Collapsed
<1>4. QED BY <1>2, <1>3 DEF Bonus, BonusOf

(* The reasons for a priority, of which the strongest counts. *)
Grounds(S) ==
  {Weighted(Components(Fired(S))) + Bonus(Fired(S))}
  \cup {100 * Effective(x) : x \in Exceptional(S)}
  \cup (IF Verified(S) THEN {800000} ELSE {})

LEMMA PositiveIs ==
  ASSUME NEW S \in Seq(Signal)
  PROVE  /\ Positive(S) = Max(Grounds(S)) /\ Positive(S) \in Nat
         /\ Grounds(S) \subseteq Nat
         /\ Positive(S) \in Grounds(S) /\ \A g \in Grounds(S) : g <= Positive(S)
<1>1. Positive(S) = Max(Grounds(S))
  BY DEF Positive, Grounds
<1> DEFINE first == Weighted(Components(Fired(S))) + Bonus(Fired(S))
           f == [x \in Exceptional(S) |-> 100 * Effective(x)]
           some == {f[x] : x \in Exceptional(S)}
           last == IF Verified(S) THEN {800000} ELSE {}
<1>2. first \in Nat
  <2>1. Bonus(Fired(S)) \in Nat
    BY BonusIs, BonusType
  <2>2. QED BY <2>1, WeightedType
<1>3. IsFiniteSet(some) /\ some \subseteq Nat
  <2>1. Exceptional(S) \subseteq Fired(S)
    BY DEF Exceptional
  <2>2. IsFiniteSet(Exceptional(S))
    BY <2>1, RetainedFinite, FS_Subset
  <2>3. f \in [Exceptional(S) -> {f[x] : x \in Exceptional(S)}]
    OBVIOUS
  <2>4. \A x \in Exceptional(S) : Effective(x) \in Nat
    BY <2>1, RetainedFinite
  <2>5. some \subseteq Nat
    BY <2>4
  <2> HIDE DEF f
  <2>6. QED BY <2>2, <2>3, <2>5, ImageFinite
<1>4. IsFiniteSet(last) /\ last \subseteq Nat
  <2> DEFINE priority == 800000
  <2>1. priority \in Nat
    BY SMT
  <2>2. last \in {{priority}, {}}
    BY SMT
  <2> HIDE DEF priority, last
  <2>3. IsFiniteSet({priority}) /\ IsFiniteSet({})
    BY FS_Singleton, FS_EmptySet
  <2>4. CASE last = {priority}
    BY <2>1, <2>3, <2>4
  <2>5. CASE last = {}
    BY <2>3, <2>5
  <2>6. QED BY <2>2, <2>4, <2>5
<1>5. Grounds(S) = ({first} \cup some) \cup last
  BY SMT DEF Grounds
<1> HIDE DEF first, some, last
<1>6. IsFiniteSet({first})
  BY FS_Singleton
<1>7. IsFiniteSet({first} \cup some)
  BY <1>3, <1>6, FS_Union
<1>8. IsFiniteSet(Grounds(S))
  BY <1>4, <1>5, <1>7, FS_Union
<1>9. Grounds(S) \subseteq Nat /\ Grounds(S) # {}
  BY <1>2, <1>3, <1>4, <1>5
<1>10. Grounds(S) \subseteq Int
  BY <1>9
<1>11. Max(Grounds(S)) \in Grounds(S) /\ \A g \in Grounds(S) : g <= Max(Grounds(S))
  BY <1>8, <1>9, <1>10, MaxIn
<1>12. QED BY <1>1, <1>9, <1>11

(* What is grounded at least as well has at least the priority. *)
LEMMA PositiveGrows ==
  ASSUME NEW S \in Seq(Signal), NEW T \in Seq(Signal),
         \A g \in Grounds(S) : \E h \in Grounds(T) : g <= h
  PROVE  Positive(S) <= Positive(T)
<1>1. Positive(S) \in Grounds(S) /\ Positive(S) \in Nat
  BY PositiveIs
<1>2. PICK h \in Grounds(T) : Positive(S) <= h
  BY <1>1
<1>3. h <= Positive(T) /\ h \in Nat /\ Positive(T) \in Nat
  BY PositiveIs
<1>4. QED BY <1>1, <1>2, <1>3

-----------------------------------------------------------------------------
(* Every family that has a signal has one that is retained. *)
LEMMA FamilyRetained ==
  ASSUME NEW S \in Seq(Signal), NEW i \in 1 .. Len(S)
  PROVE  \E y \in Retained(S) : y.family = S[i].family
<1> DEFINE F == {j \in 1 .. Len(S) : S[j].family = S[i].family}
           f == [j \in F |-> S[j].score]
           scores == {f[j] : j \in F}
<1>1. Len(S) \in Nat /\ \A j \in 1 .. Len(S) : S[j] \in Signal
  OBVIOUS
<1>2. IsFiniteSet(F) /\ i \in F
  <2>1. 1 \in Int /\ Len(S) \in Int
    BY <1>1
  <2>2. IsFiniteSet(1 .. Len(S))
    BY <2>1, FS_Interval
  <2>3. F \in SUBSET (1 .. Len(S)) /\ i \in F
    OBVIOUS
  <2> HIDE DEF F
  <2>4. QED BY <2>2, <2>3, FS_Subset
<1>3. \A j \in F : f[j] = S[j].score /\ S[j].score \in Int
  <2> TAKE j \in F
  <2>1. S[j] \in Signal
    BY <1>1
  <2>2. S[j].score \in 0 .. 100
    BY <2>1, SignalFacts
  <2>3. f[j] = S[j].score
    OBVIOUS
  <2>4. S[j].score \in Int
    <3>1. \A v \in 0 .. 100 : v \in Int
      OBVIOUS
    <3>2. QED BY <2>2, <3>1
  <2>5. QED BY <2>3, <2>4
<1>4. f \in [F -> scores]
  OBVIOUS
<1>5. scores # {} /\ scores \subseteq Int
  BY <1>2, <1>3
<1> HIDE DEF f
<1>6. IsFiniteSet(scores)
  <2> HIDE DEF F
  <2>1. QED BY <1>2, <1>4, ImageFinite
<1>7. PICK top \in scores : \A v \in scores : v <= top
  <2> HIDE DEF scores
  <2>1. QED BY <1>5, <1>6, MaxIn
<1> DEFINE G == {j \in F : S[j].score = top}
<1>8. G # {} /\ G \subseteq F
  BY <1>3, <1>7
<1>9. IsFiniteSet(G) /\ G \subseteq Int
  <2>1. \A j \in G : j \in Int
    OBVIOUS
  <2>2. G \in SUBSET F
    BY <1>8
  <2> HIDE DEF G, F
  <2>3. QED BY <2>1, <2>2, <1>2, FS_Subset
<1>10. PICK n \in G : \A m \in G : n <= m
  <2> HIDE DEF G
  <2>1. QED BY <1>8, <1>9, MinIn
<1>11. n \in 1 .. Len(S) /\ S[n].family = S[i].family /\ S[n].score = top
  BY <1>10
<1>12. ASSUME NEW m \in 1 .. Len(S), S[m].family = S[n].family
       PROVE  \/ S[m].score < S[n].score
              \/ S[m].score = S[n].score /\ n <= m
  <2>1. m \in F
    BY <1>11, <1>12
  <2>2. S[m].score <= top /\ S[m].score \in Int /\ top \in Int
    BY <2>1, <1>3, <1>5, <1>7
  <2>3. S[m].score = top => n <= m
    BY <2>1, <1>10
  <2>4. QED BY <2>2, <2>3, <1>11
<1>13. S[n] \in Retained(S)
  BY <1>11, <1>12 DEF Retained
<1>14. QED BY <1>11, <1>13

(* A signal of a family that had none is retained, and displaces nothing. *)
LEMMA RetainedGrows ==
  ASSUME NEW S \in Seq(Signal), NEW x \in Signal,
         \A y \in Retained(S) : y.family # x.family
  PROVE  /\ S \o <<x>> \in Seq(Signal)
         /\ Retained(S \o <<x>>) = Retained(S) \cup {x}
<1> DEFINE T == S \o <<x>>
<1>1. /\ T \in Seq(Signal) /\ Len(S) \in Nat /\ Len(T) = Len(S) + 1
      /\ \A j \in 1 .. Len(S) : T[j] = S[j]
      /\ T[Len(S) + 1] = x
  OBVIOUS
<1> HIDE DEF T
<1>2. \A j \in 1 .. Len(S) : T[j].family # x.family
  BY <1>1, FamilyRetained
<1> DEFINE Kept(Q, n) == \A m \in 1 .. Len(Q) : Q[m].family = Q[n].family =>
             \/ Q[m].score < Q[n].score
             \/ Q[m].score = Q[n].score /\ n <= m
<1>3. Retained(T) = {T[n] : n \in {j \in 1 .. Len(T) : Kept(T, j)}}
  BY DEF Retained
<1>4. Retained(S) = {S[n] : n \in {j \in 1 .. Len(S) : Kept(S, j)}}
  BY DEF Retained
<1>5. ASSUME NEW n \in 1 .. Len(S) PROVE Kept(T, n) <=> Kept(S, n)
  <2>1. n \in 1 .. Len(T) /\ T[n] = S[n]
    BY <1>1
  <2>2. ASSUME Kept(T, n), NEW m \in 1 .. Len(S), S[m].family = S[n].family
        PROVE  S[m].score < S[n].score \/ (S[m].score = S[n].score /\ n <= m)
    BY <2>1, <2>2, <1>1
  <2>3. ASSUME Kept(S, n), NEW m \in 1 .. Len(T), T[m].family = T[n].family
        PROVE  T[m].score < T[n].score \/ (T[m].score = T[n].score /\ n <= m)
    <3>1. m # Len(S) + 1
      BY <2>3, <1>1, <1>2
    <3>2. m \in 1 .. Len(S)
      BY <3>1, <1>1
    <3>3. QED BY <2>1, <2>3, <3>2, <1>1
  <2>4. QED BY <2>2, <2>3
<1>6. Kept(T, Len(S) + 1)
  <2> TAKE m \in 1 .. Len(T)
  <2>1. CASE m = Len(S) + 1
    BY <2>1, <1>1
  <2>2. CASE m # Len(S) + 1
    <3>1. m \in 1 .. Len(S)
      BY <2>2, <1>1
    <3>2. QED BY <3>1, <1>1, <1>2
  <2>3. QED BY <2>1, <2>2
<1> HIDE DEF Kept
<1>7. ASSUME NEW y \in Retained(T) PROVE y \in Retained(S) \cup {x}
  <2>1. PICK n \in 1 .. Len(T) : Kept(T, n) /\ y = T[n]
    BY <1>3
  <2>2. CASE n = Len(S) + 1
    BY <2>1, <2>2, <1>1
  <2>3. CASE n # Len(S) + 1
    <3>1. n \in 1 .. Len(S)
      BY <2>3, <1>1
    <3>2. QED BY <3>1, <2>1, <1>1, <1>4, <1>5
  <2>4. QED BY <2>2, <2>3
<1>8. ASSUME NEW y \in Retained(S) PROVE y \in Retained(T)
  <2>1. PICK n \in 1 .. Len(S) : Kept(S, n) /\ y = S[n]
    BY <1>4
  <2>2. n \in 1 .. Len(T)
    BY <1>1
  <2>3. QED BY <2>1, <2>2, <1>1, <1>3, <1>5
<1>9. x \in Retained(T)
  <2>1. Len(S) + 1 \in 1 .. Len(T)
    BY <1>1
  <2>2. QED BY <2>1, <1>1, <1>3, <1>6
<1>10. Retained(T) = Retained(S) \cup {x}
  BY <1>7, <1>8, <1>9
<1>11. QED BY <1>1, <1>10 DEF T

(* A family that is tied to none is a component of its own. *)
LEMMA ComponentsGrow ==
  ASSUME NEW fired, NEW x, x \notin fired, \A y \in fired : ~Tied(x, y)
  PROVE  Components(fired \cup {x}) = Components(fired) \cup {{x}}
<1> DEFINE all == fired \cup {x}
<1>1. \A y \in fired : ~Tied(y, x)
  BY DEF Tied
<1>2. \A D \in SUBSET fired : D \in Closed(all) <=> D \in Closed(fired)
  BY <1>1 DEF Closed
<1>3. {x} \in Closed(all)
  BY DEF Closed
<1>4. {x} \in Components(all)
  <2>1. \A D \in Closed(all) : D \subseteq {x} => D = {} \/ D = {x}
    OBVIOUS
  <2>2. QED BY <2>1, <1>3, ComponentsAre
<1>5. ASSUME NEW C \in Components(fired) PROVE C \in Components(all)
  <2>1. C \in Closed(fired) /\ C # {} /\ C \in SUBSET fired
    BY ComponentsAre DEF Closed
  <2>2. C \in Closed(all)
    BY <2>1, <1>2
  <2>3. ASSUME NEW D \in Closed(all), D \subseteq C PROVE D = {} \/ D = C
    <3>1. D \in Closed(fired)
      BY <2>1, <2>3, <1>2
    <3>2. QED BY <3>1, <2>1, <2>3, ComponentsAre
  <2>4. QED BY <2>1, <2>2, <2>3, ComponentsAre
<1>6. ASSUME NEW C \in Components(all), C # {x} PROVE C \in Components(fired)
  <2>1. C \in Closed(all) /\ C # {}
    BY ComponentsAre
  <2>2. x \notin C
    <3>1. SUFFICES ASSUME x \in C PROVE FALSE
      OBVIOUS
    <3>2. {x} \subseteq C
      BY <3>1
    <3>3. {x} = {} \/ {x} = C
      BY <2>1, <3>2, <1>3, ComponentsAre
    <3>4. QED BY <3>3, <1>6
  <2>3. C \in SUBSET fired
    BY <2>1, <2>2 DEF Closed
  <2>4. C \in Closed(fired)
    BY <2>1, <2>3, <1>2
  <2>5. ASSUME NEW D \in Closed(fired), D \subseteq C PROVE D = {} \/ D = C
    <3>1. D \in Closed(all)
      BY <2>3, <2>5, <1>2
    <3>2. QED BY <3>1, <2>1, <2>5, ComponentsAre
  <2>6. QED BY <2>1, <2>4, <2>5, ComponentsAre
<1>7. QED BY <1>4, <1>5, <1>6

-----------------------------------------------------------------------------
LEMMA BenignScoreIs ==
  ASSUME NEW S \in Seq(Signal)
  PROVE  /\ BenignScore(S) \in 0 .. 100
         /\ (\A y \in Retained(S) : y.family # "benign") => BenignScore(S) = 0
<1> DEFINE benign == {y \in Retained(S) : y.family = "benign"}
           f == [y \in benign |-> y.score]
           scores == {f[y] : y \in benign}
<1>1. Retained(S) \subseteq Signal /\ IsFiniteSet(Retained(S))
  BY RetainedFinite
<1>2. BenignScore(S) = Max({0} \cup scores)
  BY DEF BenignScore
<1>3. \A y \in benign : f[y] \in 0 .. 100
  BY <1>1, SignalFacts
<1>4. f \in [benign -> scores]
  OBVIOUS
<1>5. benign \in SUBSET Retained(S)
  OBVIOUS
<1>6. \A v \in scores : v \in 0 .. 100
  BY <1>3
<1>7. (\A y \in Retained(S) : y.family # "benign") => scores = {}
  OBVIOUS
<1> HIDE DEF f, benign
<1>8. IsFiniteSet(scores)
  <2>1. IsFiniteSet(benign)
    BY <1>1, <1>5, FS_Subset
  <2>2. QED BY <2>1, <1>4, ImageFinite
<1> HIDE DEF scores
<1>9. IsFiniteSet({0})
  BY FS_Singleton
<1>10. IsFiniteSet({0} \cup scores)
  BY <1>8, <1>9, FS_Union
<1>11. {0} \cup scores \subseteq Int /\ {0} \cup scores # {}
  <2>1. \A v \in scores : v \in Int
    <3>1. \A v \in 0 .. 100 : v \in Int
      OBVIOUS
    <3>2. QED BY <1>6, <3>1
  <2>2. 0 \in Int
    OBVIOUS
  <2>3. QED BY <2>1, <2>2
<1>12. PICK b \in {0} \cup scores : b = Max({0} \cup scores)
  BY <1>10, <1>11, MaxIn
<1>13. b \in 0 .. 100
  <2>1. b = 0 \/ b \in scores
    BY <1>12
  <2>2. 0 \in 0 .. 100
    OBVIOUS
  <2>3. QED BY <2>1, <2>2, <1>6
<1>14. QED BY <1>2, <1>7, <1>12, <1>13

(* A benign score leaves a share of the priority, and all of it at zero. *)
LEMMA TotalIs ==
  ASSUME NEW S \in Seq(Signal)
  PROVE  /\ Total(S) \in Int /\ Total(S) <= Positive(S) * 400
         /\ BenignScore(S) = 0 => Total(S) = Positive(S) * 400
<1>1. Positive(S) \in Nat
  BY PositiveIs
<1>2. PICK b \in 0 .. 100 : b = BenignScore(S)
  BY BenignScoreIs
<1>3. PICK k \in Nat : k = b \div 5
  OBVIOUS
<1>4. /\ Total(S) = Positive(S) * (400 - 13 * k)
      /\ BenignScore(S) = 0 => k = 0
  BY <1>2, <1>3 DEF Total
<1>5. \A p, j \in Nat : /\ p * (400 - 13 * j) \in Int
                       /\ p * (400 - 13 * j) <= p * 400
                       /\ j = 0 => p * (400 - 13 * j) = p * 400
  <2> TAKE p, j \in Nat
  <2>1. p * j \in Nat
    OBVIOUS
  <2>2. p * (400 - 13 * j) = p * 400 - 13 * (p * j)
    OBVIOUS
  <2>3. QED BY <2>1, <2>2
<1>6. QED BY <1>1, <1>4, <1>5

LEMMA TotalGrows ==
  ASSUME NEW S \in Seq(Signal), NEW T \in Seq(Signal),
         Positive(S) <= Positive(T), BenignScore(S) = BenignScore(T)
  PROVE  Total(S) <= Total(T)
<1>1. PICK p, q \in Nat : p = Positive(S) /\ q = Positive(T)
  BY PositiveIs
<1>2. PICK b \in 0 .. 100 : b = BenignScore(S)
  BY BenignScoreIs
<1>3. PICK g \in Nat : g = 400 - 13 * (b \div 5)
  <2>1. b \div 5 \in 0 .. 20
    OBVIOUS
  <2>2. QED BY <2>1
<1>4. Total(S) = p * g /\ Total(T) = q * g
  BY <1>1, <1>2, <1>3 DEF Total
<1>5. p <= q
  BY <1>1
<1>6. p * g <= q * g
  <2>1. q = p + (q - p) /\ q - p \in Nat
    BY <1>5
  <2>2. (q - p) * g \in Nat
    BY <2>1
  <2>3. q * g = p * g + (q - p) * g
    OBVIOUS
  <2>4. p * g \in Nat
    OBVIOUS
  <2>5. QED BY <2>2, <2>3, <2>4
<1>7. QED BY <1>4, <1>6

-----------------------------------------------------------------------------
(* What a decision asks for, when one is asked for more than another. *)
LEMMA ReachesMore ==
  ASSUME NEW S \in Seq(Signal), NEW T \in Seq(Signal), NEW h \in Int,
         Total(S) <= Total(T), Reaches(S, h)
  PROVE  Reaches(T, h)
<1>1. PICK s, t \in Int : s = Total(S) /\ t = Total(T)
  BY TotalIs
<1>2. h * 10000 * 400 <= s /\ s <= t
  BY SMT, <1>1 DEF Reaches
<1>3. h * 10000 * 400 <= t
  BY SMT, <1>2
<1>4. QED BY SMT, <1>1, <1>3 DEF Reaches

LEMMA DecisionMore ==
  ASSUME NEW S \in Seq(Signal), NEW T \in Seq(Signal), NEW handles, NEW urls,
         Total(S) <= Total(T),
         Eligible(S, handles, urls) => Eligible(T, handles, urls),
         Verified(S) => Verified(T), Exceptional(S) \subseteq Exceptional(T),
         Components(Fired(S)) \subseteq Components(Fired(T)),
         Collapsed(Fired(S)) = Collapsed(Fired(T))
  PROVE  Decision(S, handles, urls) <= Decision(T, handles, urls)
<1> DEFINE pair == {45, Threshold - 25}
           low == Max(pair)
<1>1. Threshold \in Int /\ low \in Int
  <2>1. (\A v \in pair : v \in Int) /\ pair # {} /\ Threshold \in Int
    BY TiersAssumption
  <2>2. IsFiniteSet(pair)
    BY PairFinite
  <2> HIDE DEF pair
  <2>3. PICK m \in pair : m = low
    BY <2>1, <2>2, MaxIn
  <2>4. QED BY <2>1, <2>3
<1>2. /\ Reaches(S, Threshold) => Reaches(T, Threshold)
      /\ Reaches(S, low) => Reaches(T, low)
  BY <1>1, ReachesMore
<1> HIDE DEF low
<1>3. StrongAnchors(S) \subseteq StrongAnchors(T) /\ Anchors(S) \subseteq Anchors(T)
  BY DEF StrongAnchors, Anchors
<1>4. /\ IsFiniteSet(Components(Fired(T)))
      /\ StrongAnchors(T) \subseteq Components(Fired(T))
      /\ Anchors(T) \subseteq Components(Fired(T))
  BY RetainedFinite, ComponentsFinite DEF StrongAnchors, Anchors
<1>5. ASSUME NEW few, NEW many, few \subseteq many, many \subseteq Components(Fired(T))
      PROVE  /\ Cardinality(few) \in Nat /\ Cardinality(many) \in Nat
             /\ Cardinality(few) <= Cardinality(many)
  <2>1. IsFiniteSet(many)
    BY <1>4, <1>5, FS_Subset
  <2>2. IsFiniteSet(few) /\ Cardinality(few) <= Cardinality(many)
    BY <2>1, <1>5, FS_Subset
  <2>3. QED BY <2>1, <2>2, FS_CardinalityType
<1>6. /\ Cardinality(StrongAnchors(S)) \in Nat /\ Cardinality(StrongAnchors(T)) \in Nat
      /\ Cardinality(StrongAnchors(S)) <= Cardinality(StrongAnchors(T))
  BY <1>3, <1>4, <1>5
<1>7. /\ Cardinality(Anchors(S)) \in Nat /\ Cardinality(Anchors(T)) \in Nat
      /\ Cardinality(Anchors(S)) <= Cardinality(Anchors(T))
  BY <1>3, <1>4, <1>5
<1>8. /\ Cardinality(Components(Fired(S))) \in Nat /\ Cardinality(Components(Fired(T))) \in Nat
      /\ Cardinality(Components(Fired(S))) <= Cardinality(Components(Fired(T)))
  BY <1>5
<1>9. Reviewable(S, handles, urls) => Reviewable(T, handles, urls)
  <2>1. Cardinality(StrongAnchors(S)) >= 2 => Cardinality(StrongAnchors(T)) >= 2
    BY <1>6
  <2>2. Exceptional(S) # {} => Exceptional(T) # {}
    OBVIOUS
  <2>3. QED BY <2>1, <2>2, <1>2 DEF Reviewable
<1>10. Watchable(S, handles, urls) => Watchable(T, handles, urls)
  <2>1. /\ Cardinality(Components(Fired(S))) >= 2 => Cardinality(Components(Fired(T))) >= 2
        /\ Cardinality(Anchors(S)) >= 2 => Cardinality(Anchors(T)) >= 2
    BY <1>7, <1>8
  <2>2. StrongAnchors(S) # {} => StrongAnchors(T) # {}
    BY <1>3
  <2>3. QED BY <2>1, <2>2, <1>2 DEF Watchable, low
<1>11. Cardinality(StrongAnchors(S)) >= 3 => Cardinality(StrongAnchors(T)) >= 3
  BY <1>6
<1>12. QED BY <1>9, <1>10, <1>11 DEF Decision

(* A benign finding changes nothing but the factor, and what is eligible. *)
LEMMA BenignLowers ==
  ASSUME NEW S \in Seq(Signal), NEW T \in Seq(Signal), NEW x \in Signal,
         Retained(T) = Retained(S) \cup {x},
         \A y \in Retained(S) : y.family # x.family,
         x.family = "benign", ~x.longitudinal, NEW handles, NEW urls
  PROVE  /\ Decision(T, handles, urls) <= Decision(S, handles, urls)
         /\ Total(T) <= Total(S)
<1>1. x.family \notin DOMAIN Reliability /\ x.family # "semantic"
  BY DEF Reliability
<1>2. Fired(T) = Fired(S)
  BY <1>1 DEF Fired
<1>3. Verified(T) <=> Verified(S)
  BY <1>1, <1>2 DEF Verified
<1>4. Exceptional(T) = Exceptional(S)
  BY <1>2 DEF Exceptional
<1>5. Positive(T) = Positive(S)
  <2> DEFINE first(Q) == {Weighted(Components(Fired(Q))) + Bonus(Fired(Q))}
             some(Q) == {100 * Effective(y) : y \in Exceptional(Q)}
             last(Q) == IF Verified(Q) THEN {800000} ELSE {}
  <2>1. first(T) = first(S) /\ some(T) = some(S)
    BY <1>2, <1>4
  <2>2. last(T) = last(S)
    BY SMT, <1>3
  <2>3. \A Q : Grounds(Q) = first(Q) \cup some(Q) \cup last(Q)
    BY SMT DEF Grounds
  <2> HIDE DEF first, some, last
  <2>4. QED BY <2>1, <2>2, <2>3, PositiveIs<1>6. BenignScore(S) = 0 /\ BenignScore(T) \in 0 .. 100
  BY BenignScoreIs
<1>7. Total(S) = Positive(S) * 400 /\ Total(T) <= Positive(T) * 400
  BY <1>6, TotalIs
<1>8. Total(T) <= Total(S)
  BY <1>5, <1>7
<1>9. Longitudinal(T) <=> Longitudinal(S)
  BY DEF Longitudinal
<1>10. Eligible(T, handles, urls) => Eligible(S, handles, urls)
  BY <1>6, <1>9 DEF Eligible
<1>11. Decision(T, handles, urls) <= Decision(S, handles, urls)
  BY <1>2, <1>3, <1>4, <1>8, <1>10, DecisionMore
<1>12. QED BY <1>8, <1>11

(* Evidence of a new family that is tied to none is a component more. *)
LEMMA EvidenceRaises ==
  ASSUME NEW S \in Seq(Signal), NEW T \in Seq(Signal), NEW x \in Signal,
         Retained(T) = Retained(S) \cup {x},
         \A y \in Retained(S) : y.family # x.family /\ ~Tied(x, y),
         x.family # "benign", NEW handles, NEW urls
  PROVE  /\ Decision(S, handles, urls) <= Decision(T, handles, urls)
         /\ Total(S) <= Total(T)
<1> DEFINE few == Components(Fired(S))  many == Components(Fired(T))
<1>1. /\ IsFiniteSet(Fired(S)) /\ IsFiniteSet(Fired(T)) /\ Fired(S) \subseteq Retained(S)
      /\ IsFiniteSet(few) /\ IsFiniteSet(many)
  BY RetainedFinite, ComponentsFinite
<1>2. Fired(S) \subseteq Fired(T)
  BY DEF Fired
<1>3. /\ few \subseteq many /\ Collapsed(Fired(S)) = Collapsed(Fired(T))
      /\ Cardinality(few) \in Nat /\ Cardinality(many) \in Nat /\ Cardinality(few) <= Cardinality(many)
  <2>1. CASE x \in Fired(T)
    <3>1. Fired(T) = Fired(S) \cup {x} /\ x \notin Fired(S)
      BY <2>1, <1>1 DEF Fired
    <3>2. many = few \cup {{x}}
      BY <3>1, <1>1, ComponentsGrow
    <3>3. {x} \notin few
      BY <3>1, <1>1, ComponentsFinite
    <3>4. Cardinality(many) = Cardinality(few) + 1
      BY <3>2, <3>3, <1>1, FS_AddElement
    <3>5. Cardinality(Fired(T)) = Cardinality(Fired(S)) + 1
      BY <3>1, <1>1, FS_AddElement
    <3>6. Cardinality(few) \in Nat /\ Cardinality(Fired(S)) \in Nat
      BY <1>1, FS_CardinalityType
    <3> HIDE DEF few, many
    <3>7. Collapsed(Fired(S)) = Collapsed(Fired(T))
      BY <3>4, <3>5, <3>6 DEF Collapsed, few, many
    <3>8. QED BY <3>2, <3>4, <3>6, <3>7
  <2>2. CASE x \notin Fired(T)
    <3>1. Fired(T) = Fired(S)
      BY <2>2 DEF Fired
    <3>2. Cardinality(few) \in Nat
      BY <1>1, FS_CardinalityType
    <3>3. QED BY <3>1, <3>2
  <2>3. QED BY <2>1, <2>2
<1>4. Verified(S) => Verified(T)
  BY <1>2 DEF Verified
<1>5. Exceptional(S) \subseteq Exceptional(T)
  BY <1>2 DEF Exceptional
<1>6. Weighted(few) <= Weighted(many)
  <2>1. \A C \in many : Strength(C) \in Nat
    BY StrengthType
  <2>2. \A C \in few : Strength(C) \in Nat
    BY StrengthType
  <2> HIDE DEF few, many
  <2>3. \A n \in 1 .. 3 : /\ Ranked(few)[n] \in Nat /\ Ranked(many)[n] \in Nat
                          /\ Ranked(few)[n] <= Ranked(many)[n]
    BY <2>1, <2>2, <1>1, <1>3, RankedIs, RankedGrows
  <2>4. PICK a, b, c \in Nat : a = Ranked(few)[1] /\ b = Ranked(few)[2] /\ c = Ranked(few)[3]
    BY <2>3
  <2>5. PICK d, e, f \in Nat : d = Ranked(many)[1] /\ e = Ranked(many)[2] /\ f = Ranked(many)[3]
    BY <2>3
  <2>6. a <= d /\ b <= e /\ c <= f
    BY <2>3, <2>4, <2>5
  <2>7. Weighted(few) = 52 * a + 31 * b + 17 * c /\ Weighted(many) = 52 * d + 31 * e + 17 * f
    BY <2>4, <2>5 DEF Weighted, Coefficients
  <2>8. QED BY <2>6, <2>7
<1>7. Bonus(Fired(S)) <= Bonus(Fired(T))
  <2>1. /\ Bonus(Fired(S)) = BonusOf(Cardinality(few), Collapsed(Fired(S)))
        /\ Bonus(Fired(T)) = BonusOf(Cardinality(many), Collapsed(Fired(T)))
        /\ Collapsed(Fired(S)) \in Nat
    BY BonusIs
  <2>2. QED BY <2>1, <1>3, BonusType
<1>8. \A g \in Grounds(S) : \E h \in Grounds(T) : g <= h
  <2> TAKE g \in Grounds(S)
  <2> DEFINE a == Weighted(few) + Bonus(Fired(S))  b == Weighted(many) + Bonus(Fired(T))
  <2>1. g \in Nat
    BY PositiveIs
  <2>2. a <= b
    <3>1. /\ Weighted(few) \in Nat /\ Weighted(many) \in Nat
          /\ Bonus(Fired(S)) \in Nat /\ Bonus(Fired(T)) \in Nat
      BY WeightedType, BonusIs, BonusType
    <3>2. QED BY <3>1, <1>6, <1>7
  <2>3. b \in Grounds(T)
    BY SMT DEF Grounds
  <2>4. CASE g = a
    BY <2>2, <2>3, <2>4
  <2>5. CASE g # a
    <3>1. g \in Grounds(T)
      BY SMT, <2>5, <1>4, <1>5 DEF Grounds
    <3>2. g <= g
      BY <2>1
    <3>3. QED BY <3>1, <3>2
  <2>6. QED BY <2>4, <2>5
<1>9. Positive(S) <= Positive(T)
  BY <1>8, PositiveGrows
<1>10. BenignScore(T) = BenignScore(S)
  <2>1. {y \in Retained(T) : y.family = "benign"} = {y \in Retained(S) : y.family = "benign"}
    OBVIOUS
  <2>2. QED BY <2>1 DEF BenignScore
<1>11. Total(S) <= Total(T)
  BY <1>9, <1>10, TotalGrows
<1>12. Longitudinal(S) => Longitudinal(T)
  BY DEF Longitudinal
<1>13. Eligible(S, handles, urls) => Eligible(T, handles, urls)
  BY <1>10, <1>12 DEF Eligible
<1>14. Decision(S, handles, urls) <= Decision(T, handles, urls)
  BY <1>3, <1>4, <1>5, <1>11, <1>13, DecisionMore
<1>15. QED BY <1>11, <1>14

LEMMA OtherStep ==
  ASSUME TierInv, NEW n \in 1 .. Len(Others), DetectOther(n), New(Others[n])
  PROVE  IF Others[n].family = "benign"
         THEN verdict'.decision <= verdict.decision /\ verdict'.total <= verdict.total
         ELSE verdict'.decision >= verdict.decision /\ verdict'.total >= verdict.total
<1> DEFINE x == Others[n]  T == signals \o <<x>>
<1>1. /\ signals \in Seq(Signal) /\ x \in Signal /\ (x.family = "benign" => ~x.longitudinal)
      /\ verdict = Verdict(signals) /\ verdict' = Verdict(T)
      /\ \A y \in Retained(signals) : y.family # x.family /\ ~Tied(x, y)
  BY TiersAssumption DEF TierInv, TierType, Decided, DetectOther, Detect, New
<1>2. T \in Seq(Signal) /\ Retained(T) = Retained(signals) \cup {x}
  BY <1>1, RetainedGrows
<1> HIDE DEF x, T
<1>3. /\ verdict.decision = Decision(signals, Handles, sourced) /\ verdict.total = Total(signals)
      /\ verdict'.decision = Decision(T, Handles, sourced) /\ verdict'.total = Total(T)
  BY <1>1 DEF Verdict
<1>4. CASE x.family = "benign"
  <2>1. Decision(T, Handles, sourced) <= Decision(signals, Handles, sourced) /\ Total(T) <= Total(signals)
    BY <1>1, <1>2, <1>4, BenignLowers
  <2>2. QED BY <2>1, <1>3, <1>4 DEF x
<1>5. CASE x.family # "benign"
  <2>1. Decision(signals, Handles, sourced) <= Decision(T, Handles, sourced) /\ Total(signals) <= Total(T)
    BY <1>1, <1>2, <1>5, EvidenceRaises
  <2>2. /\ Total(signals) \in Int /\ Total(T) \in Int
        /\ Decision(signals, Handles, sourced) \in Int /\ Decision(T, Handles, sourced) \in Int
    BY <1>1, <1>2, TotalIs DEF Decision
  <2>3. QED BY <2>1, <2>2, <1>3, <1>5 DEF x
<1>6. QED BY <1>4, <1>5

(* EvidenceMonotone: whatever has been found so far, evidence of a new family
   that shares nothing with what fired lowers neither the tier nor the
   priority, and a benign finding raises neither, for any threshold. *)
THEOREM EvidenceNeverHurts == TSpec => EvidenceMonotone
<1>1. TierInv /\ [TNext]_vars =>
        [\A n \in 1 .. Len(Others) : (DetectOther(n) /\ New(Others[n])) =>
           IF Others[n].family = "benign"
           THEN verdict'.decision <= verdict.decision /\ verdict'.total <= verdict.total
           ELSE verdict'.decision >= verdict.decision /\ verdict'.total >= verdict.total]_vars
  BY OtherStep
<1>2. QED BY <1>1, TierInit, TierStep, PTL DEF TSpec, EvidenceMonotone
=============================================================================
