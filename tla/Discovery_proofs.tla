-------------------------- MODULE Discovery_proofs --------------------------
(***************************************************************************)
(* What the cursors keep true, for any queries, sources, options and       *)
(* numbers of results, and any number of kills and restarts.               *)
(*                                                                         *)
(* The searches are recursive functions of the place a collector is at.    *)
(* The first parts prove that there are such functions, since every turn   *)
(* takes at least one result towards the limit, and what they return.      *)
(***************************************************************************)
EXTENDS Discovery, FiniteSetTheorems, WellFoundedInduction, TLAPS

-----------------------------------------------------------------------------
(* Numbers.                                                                *)

LEMMA MinOf ==
  ASSUME NEW a \in Int, NEW b \in Int
  PROVE  Min({a, b}) = IF a <= b THEN a ELSE b
BY DEF Min

LEMMA MaxOf ==
  ASSUME NEW a \in Int, NEW b \in Int, NEW T, T \subseteq {a, b}, T # {}
  PROVE  Max(T) \in T /\ \A x \in T : x <= Max(T)
<1>1. \E m \in T : \A x \in T : m >= x
  <2>1. \A x \in T : x = a \/ x = b
    OBVIOUS
  <2>2. CASE a \in T /\ (b \in T => b <= a)
    <3>1. \A x \in T : a >= x
      BY <2>1, <2>2
    <3>2. QED BY <3>1, <2>2
  <2>3. CASE b \in T /\ (a \in T => a <= b)
    <3>1. \A x \in T : b >= x
      BY <2>1, <2>3
    <3>2. QED BY <3>1, <2>3
  <2>4. a <= b \/ b <= a
    OBVIOUS
  <2>5. a \in T \/ b \in T
    BY <2>1
  <2>6. QED BY <2>2, <2>3, <2>4, <2>5
<1>2. PICK m \in T : m = Max(T) /\ \A x \in T : m >= x
  BY <1>1 DEF Max
<1>3. QED BY <1>2

(* A set of naturals that is not empty has a least member. *)
LEMMA LeastMember ==
  ASSUME NEW T, T \subseteq Nat, T # {}
  PROVE  \E m \in T : \A j \in T : m <= j
<1> DEFINE below(x) == 0 .. x - 1
           F == {below(x) : x \in T}
           R == StrictSubsetOrdering(Nat)
<1>1. \A x \in T : below(x) \in FiniteSubsetsOf(Nat)
  BY FS_Interval DEF FiniteSubsetsOf
<1>2. F \subseteq FiniteSubsetsOf(Nat) /\ F # {}
  BY <1>1
<1> HIDE DEF F
<1>3. PICK f \in F : \A g \in F : ~ (<<g, f>> \in R)
  BY <1>2, FS_StrictSubsetOrderingWellFounded, WFMin
<1>4. PICK m \in T : f = below(m)
  BY <1>3 DEF F
<1>5. ASSUME NEW j \in T, j < m PROVE FALSE
  <2>1. below(j) \subseteq below(m) /\ below(j) # below(m)
    <3>1. m \in Nat /\ j \in Nat
      OBVIOUS
    <3>2. j \in below(m) /\ j \notin below(j)
      BY <3>1, <1>5
    <3>3. QED BY <3>1, <3>2, <1>5
  <2>2. <<below(j), below(m)>> \in R
    BY <2>1, <1>1 DEF StrictSubsetOrdering, FiniteSubsetsOf
  <2>3. below(j) \in F
    BY DEF F
  <2>4. QED BY <2>2, <2>3, <1>3, <1>4
<1>6. \A j \in T : m <= j
  BY <1>5
<1>7. QED BY <1>6

-----------------------------------------------------------------------------
(* The loop of a collector that asks for page after page: taken[at] is what
   it takes of the page at a place. *)
Loop(f, taken, at) ==
  IF at.fetched >= Limit THEN End(FALSE)
  ELSE IF taken[at] = << >> THEN End(TRUE)
  ELSE Then(taken[at], f[After(at, taken[at])])

IsLoop(f, taken) == f = [at \in Places |-> Loop(f, taken, at)]

(* f is the loop where at most n hits are still wanted. *)
LoopFrom(f, taken, n) ==
  \A at \in Places : Limit - at.fetched <= n => f[at] = Loop(f, taken, at)

LEMMA LoopOnce ==
  ASSUME NEW taken \in [Places -> Seq(Int)], Limit \in Nat, NEW n \in Nat,
         NEW g, LoopFrom(g, taken, n)
  PROVE  \E f : LoopFrom(f, taken, n + 1)
<1>0. PICK f : \A at \in Places : f[at] = Loop(g, taken, at)
  <2>1. \A at \in Places : [x \in Places |-> Loop(g, taken, x)][at] = Loop(g, taken, at)
    OBVIOUS
  <2>2. QED BY <2>1
<1>1. ASSUME NEW at \in Places, Limit - at.fetched <= n + 1
      PROVE  f[at] = Loop(f, taken, at)
  <2>1. f[at] = Loop(g, taken, at)
    BY <1>0
  <2>2. CASE at.fetched < Limit /\ taken[at] # << >>
    <3> DEFINE next == After(at, taken[at])
    <3>1. Len(taken[at]) \in Nat \ {0} /\ at.page \in Nat /\ at.fetched \in Nat
      BY <2>2 DEF Places
    <3>2. next \in Places /\ next.fetched = at.fetched + Len(taken[at])
      BY <3>1 DEF After, Places
    <3>3. Limit - next.fetched <= n
      BY <3>1, <3>2, <1>1
    <3>4. g[next] = Loop(g, taken, next)
      BY <3>2, <3>3 DEF LoopFrom
    <3>5. f[next] = g[next]
      BY <1>0, <3>2, <3>4
    <3>6. QED BY <2>1, <2>2, <3>5 DEF Loop
  <2>3. CASE ~(at.fetched < Limit /\ taken[at] # << >>)
    <3>1. at.fetched \in Nat
      BY DEF Places
    <3>2. at.fetched >= Limit \/ taken[at] = << >>
      BY <2>3, <3>1
    <3>3. QED BY Zenon, <2>1, <3>2 DEF Loop
  <2>4. QED BY <2>2, <2>3
<1>2. LoopFrom(f, taken, n + 1)
  BY <1>1 DEF LoopFrom
<1>3. QED BY <1>2

(* There is such a function: every turn of the loop takes a hit or ends. *)
LEMMA LoopExists ==
  ASSUME NEW taken \in [Places -> Seq(Int)], Limit \in Nat
  PROVE  \E f : IsLoop(f, taken)
<1> DEFINE Bad == {n \in Nat : ~ \E f : LoopFrom(f, taken, n)}
<1>1. Bad = {}
  <2> SUFFICES ASSUME Bad # {} PROVE FALSE
    OBVIOUS
  <2>1. PICK m \in Bad : \A j \in Bad : m <= j
    BY LeastMember
  <2>2. m # 0
    <3>0. PICK f : \A at \in Places : f[at] = End(FALSE)
      <4>1. \A at \in Places : [x \in Places |-> End(FALSE)][at] = End(FALSE)
        OBVIOUS
      <4>2. QED BY <4>1
    <3>1. ASSUME NEW at \in Places, Limit - at.fetched <= 0 PROVE f[at] = Loop(f, taken, at)
      <4>1. at.fetched \in Nat
        BY DEF Places
      <4>2. at.fetched >= Limit /\ ~(at.fetched < Limit)
        BY <4>1, <3>1
      <4>3. Loop(f, taken, at) = End(FALSE)
        BY Zenon, <4>2 DEF Loop
      <4>4. QED BY <3>0, <4>3
    <3>2. LoopFrom(f, taken, 0)
      BY <3>1 DEF LoopFrom
    <3>3. 0 \notin Bad
      BY <3>2
    <3>4. QED BY <3>3
  <2>3. m - 1 \in Nat /\ m - 1 \notin Bad /\ (m - 1) + 1 = m
    BY <2>1, <2>2
  <2>4. PICK g : LoopFrom(g, taken, m - 1)
    BY <2>3
  <2>5. \E f : LoopFrom(f, taken, (m - 1) + 1)
    BY <2>3, <2>4, LoopOnce
  <2>6. QED BY <2>3, <2>5
<1>2. PICK g : LoopFrom(g, taken, Limit)
  BY <1>1
<1> DEFINE f == [at \in Places |-> g[at]]
<1>3. ASSUME NEW at \in Places PROVE g[at] = Loop(f, taken, at)
  <2>1. at.fetched \in Nat /\ at.page \in Nat /\ Len(taken[at]) \in Nat
    BY DEF Places
  <2>2. g[at] = Loop(g, taken, at)
    BY <1>2, <2>1 DEF LoopFrom
  <2>3. After(at, taken[at]) \in Places
    BY <2>1 DEF After, Places
  <2>4. f[After(at, taken[at])] = g[After(at, taken[at])]
    BY <2>3
  <2>5. QED BY <2>2, <2>4 DEF Loop
<1>4. f = [at \in Places |-> Loop(f, taken, at)]
  BY <1>3
<1>5. QED BY <1>4 DEF IsLoop

(* What every loop has yielded when it ends, from a place on, if what it
   takes of a page is of that type. *)
Yield(total) == [items : Seq(1 .. total), exhausted : BOOLEAN]

OfType(taken, total) ==
  \A at \in Places : at.page >= 1 /\ at.fetched < Limit =>
    taken[at] \in Seq(1 .. total) /\ Len(taken[at]) <= Limit - at.fetched

LEMMA EndTyped ==
  ASSUME NEW total \in Nat
  PROVE  /\ End(TRUE) \in Yield(total) /\ Len(End(TRUE).items) = 0
         /\ End(FALSE) \in Yield(total) /\ Len(End(FALSE).items) = 0
BY DEF End, Yield

LEMMA LoopValue ==
  ASSUME NEW taken \in [Places -> Seq(Int)], Limit \in Nat,
         NEW f, IsLoop(f, taken), NEW at \in Places
  PROVE  /\ at.page \in Nat /\ at.fetched \in Nat
         /\ taken[at] \in Seq(Int) /\ Len(taken[at]) \in Nat
         /\ After(at, taken[at]) \in Places
         /\ After(at, taken[at]).page = at.page + 1
         /\ After(at, taken[at]).fetched = at.fetched + Len(taken[at])
         /\ at.fetched >= Limit \/ taken[at] = << >> =>
              \A total \in Nat : f[at] \in Yield(total) /\ Len(f[at].items) = 0
         /\ at.fetched < Limit /\ taken[at] # << >> =>
              f[at] = Then(taken[at], f[After(at, taken[at])]) /\ Len(taken[at]) >= 1
<1>0. at.page \in Nat /\ at.fetched \in Nat
  BY DEF Places
<1>1. at.page \in Nat /\ at.fetched \in Nat /\ taken[at] \in Seq(Int)
      /\ Len(taken[at]) \in Nat
  <2>1. taken[at] \in Seq(Int)
    OBVIOUS
  <2>2. QED BY <1>0, <2>1
<1>2. /\ After(at, taken[at]) \in Places
      /\ After(at, taken[at]).page = at.page + 1
      /\ After(at, taken[at]).fetched = at.fetched + Len(taken[at])
  BY <1>1 DEF After, Places
<1>3. f[at] = Loop(f, taken, at)
  <2>1. \A x \in Places : [y \in Places |-> Loop(f, taken, y)][x] = Loop(f, taken, x)
    OBVIOUS
  <2>2. QED BY Zenon, <2>1 DEF IsLoop
<1>4. taken[at] # << >> => Len(taken[at]) >= 1
  BY <1>1
<1>5. at.fetched >= Limit <=> ~(at.fetched < Limit)
  BY <1>1
<1>6. at.fetched >= Limit => f[at] = End(FALSE)
  BY Zenon, <1>3, <1>5 DEF Loop
<1>7. at.fetched < Limit /\ taken[at] = << >> => f[at] = End(TRUE)
  BY Zenon, <1>3, <1>5 DEF Loop
<1>8. at.fetched < Limit /\ taken[at] # << >> => f[at] = Then(taken[at], f[After(at, taken[at])])
  BY Zenon, <1>3, <1>5 DEF Loop
<1>9. ASSUME at.fetched >= Limit \/ taken[at] = << >>, NEW total \in Nat
      PROVE  f[at] \in Yield(total) /\ Len(f[at].items) = 0
  <2>1. f[at] = End(FALSE) \/ f[at] = End(TRUE)
    BY Zenon, <1>5, <1>6, <1>7, <1>9
  <2>2. /\ End(FALSE) \in Yield(total) /\ Len(End(FALSE).items) = 0
        /\ End(TRUE) \in Yield(total) /\ Len(End(TRUE).items) = 0
    BY Zenon, EndTyped
  <2>3. QED BY Zenon, <2>1, <2>2
<1>10. QED BY <1>1, <1>2, <1>4, <1>8, <1>9

LEMMA ThenTyped ==
  ASSUME NEW total \in Nat, NEW taken \in Seq(1 .. total), NEW rest \in Yield(total)
  PROVE  /\ Then(taken, rest) \in Yield(total)
         /\ Then(taken, rest).items = taken \o rest.items
         /\ Len(Then(taken, rest).items) = Len(taken) + Len(rest.items)
         /\ Len(taken) \in Nat /\ Len(rest.items) \in Nat
<1>1. taken \o rest.items \in Seq(1 .. total)
      /\ Len(taken \o rest.items) = Len(taken) + Len(rest.items)
      /\ Len(taken) \in Nat /\ Len(rest.items) \in Nat
  BY DEF Yield
<1>2. rest.exhausted \in BOOLEAN
  BY DEF Yield
<1>3. QED BY <1>1, <1>2 DEF Yield, Then

LEMMA LoopTyped ==
  ASSUME NEW taken \in [Places -> Seq(Int)], Limit \in Nat, NEW total \in Nat,
         OfType(taken, total), NEW f, IsLoop(f, taken)
  PROVE  \A at \in Places : at.page >= 1 /\ at.fetched <= Limit =>
           f[at] \in Yield(total) /\ Len(f[at].items) <= Limit - at.fetched
<1> DEFINE Fine(at) == f[at] \in Yield(total) /\ Len(f[at].items) <= Limit - at.fetched
           Bad == {n \in Nat : \E at \in Places :
                     at.page >= 1 /\ at.fetched <= Limit /\ Limit - at.fetched = n /\ ~Fine(at)}
<1>1. Bad = {}
  <2> SUFFICES ASSUME Bad # {} PROVE FALSE
    OBVIOUS
  <2>1. PICK m \in Bad : \A j \in Bad : m <= j
    BY LeastMember
  <2>2. PICK at \in Places :
          at.page >= 1 /\ at.fetched <= Limit /\ Limit - at.fetched = m /\ ~Fine(at)
    BY <2>1
  <2> DEFINE next == After(at, taken[at])
  <2> m \in Nat
    BY <2>1
  <2> HIDE DEF Bad

  <2>3. /\ at.page \in Nat /\ at.fetched \in Nat
        /\ taken[at] \in Seq(Int) /\ Len(taken[at]) \in Nat
        /\ next \in Places /\ next.page = at.page + 1
        /\ next.fetched = at.fetched + Len(taken[at])
        /\ at.fetched >= Limit \/ taken[at] = << >> =>
             f[at] \in Yield(total) /\ Len(f[at].items) = 0
        /\ at.fetched < Limit /\ taken[at] # << >> =>
             f[at] = Then(taken[at], f[next]) /\ Len(taken[at]) >= 1
    <3>1. /\ at.page \in Nat /\ at.fetched \in Nat
          /\ taken[at] \in Seq(Int) /\ Len(taken[at]) \in Nat
      BY LoopValue
    <3>2. /\ next \in Places /\ next.page = at.page + 1
          /\ next.fetched = at.fetched + Len(taken[at])
      BY LoopValue
    <3>3. at.fetched >= Limit \/ taken[at] = << >> =>
            f[at] \in Yield(total) /\ Len(f[at].items) = 0
      BY LoopValue
    <3>4. at.fetched < Limit /\ taken[at] # << >> =>
             f[at] = Then(taken[at], f[next]) /\ Len(taken[at]) >= 1
      BY LoopValue
    <3>5. QED BY <3>1, <3>2, <3>3, <3>4
  <2> HIDE DEF next, Fine
  <2>4. CASE at.fetched >= Limit \/ taken[at] = << >>
    <3>1. f[at] \in Yield(total) /\ Len(f[at].items) = 0
      BY <2>3, <2>4
    <3>2. 0 <= Limit - at.fetched
      BY <2>2, <2>3
    <3>3. Fine(at)
      BY <3>1, <3>2 DEF Fine
    <3>4. QED BY <3>3, <2>2
  <2>5. CASE at.fetched < Limit /\ taken[at] # << >>
    <3>1. taken[at] \in Seq(1 .. total) /\ Len(taken[at]) <= Limit - at.fetched
      BY <2>2, <2>5 DEF OfType
    <3>2. /\ next \in Places /\ next.page = at.page + 1
          /\ next.fetched = at.fetched + Len(taken[at])
          /\ f[at] = Then(taken[at], f[next]) /\ Len(taken[at]) >= 1 /\ Len(taken[at]) \in Nat
      BY <2>3, <2>5
    <3>3. /\ next.page >= 1 /\ next.fetched <= Limit
          /\ Limit - next.fetched \in Nat /\ Limit - next.fetched < m
      BY <3>1, <3>2, <2>2, <2>3
    <3>4. Limit - next.fetched \notin Bad
      BY <3>3, <2>1, <2>3
    <3>5. Fine(next)
      BY <3>2, <3>3, <3>4 DEF Bad
    <3>6. f[next] \in Yield(total) /\ Len(f[next].items) <= Limit - next.fetched
      BY <3>5 DEF Fine
    <3>7. /\ f[at] \in Yield(total) /\ Len(f[at].items) = Len(taken[at]) + Len(f[next].items)
          /\ Len(f[next].items) \in Nat
      <4>1. /\ Then(taken[at], f[next]) \in Yield(total)
            /\ Len(Then(taken[at], f[next]).items) = Len(taken[at]) + Len(f[next].items)
            /\ Len(f[next].items) \in Nat
        BY <3>1, <3>6, ThenTyped
      <4>2. QED BY <4>1, <3>2
    <3>8. Fine(at)
      <4>1. Len(f[at].items) <= Limit - at.fetched
        <5>1. /\ Len(f[next].items) <= Limit - (at.fetched + Len(taken[at]))
              /\ at.fetched \in Nat /\ Len(taken[at]) \in Nat
          BY <3>2, <3>6, <2>3
        <5>2. Len(f[at].items) = Len(taken[at]) + Len(f[next].items) /\ Len(f[next].items) \in Nat
          BY <3>7
        <5>3. QED BY <5>1, <5>2
      <4>2. QED BY <4>1, <3>7 DEF Fine
    <3>9. QED BY <3>8, <2>2
  <2>6. QED BY <2>3, <2>4, <2>5
<1>2. ASSUME NEW at \in Places, at.page >= 1, at.fetched <= Limit
      PROVE  Fine(at)
  <2> HIDE DEF Fine
  <2>1. at.fetched \in Nat
    BY DEF Places
  <2>2. Limit - at.fetched \in Nat
    BY <1>2, <2>1
  <2>3. Limit - at.fetched \notin Bad
    BY <1>1
  <2>4. QED BY <1>2, <2>2, <2>3
<1>3. QED BY <1>2

-----------------------------------------------------------------------------
(* A page: what it is, given how many results there are before it and on it. *)
PageShape(total, p, size, before, count) ==
  /\ before = (p - 1) * size /\ (p >= 1 => before \in Nat)
  /\ OnPage(total, p, size) \in Seq(Int) /\ Len(OnPage(total, p, size)) = count
  /\ \A i \in 1 .. count : OnPage(total, p, size)[i] = before + i
  /\ count <= size
  /\ before + count <= total \/ count = 0
  /\ count < size => total <= before + count \/ total <= before

LEMMA PageIs ==
  ASSUME NEW total \in Nat, NEW p \in Nat, NEW size \in Nat \ {0}
  PROVE  \E before \in Int, count \in Nat : PageShape(total, p, size, before, count)
<1>1. PICK before \in Int : before = (p - 1) * size
  OBVIOUS
<1>2. p >= 1 => before \in Nat
  BY <1>1
<1>3. PICK count \in Nat : 
        /\ count = IF total > before THEN Min({size, total - before}) ELSE 0
        /\ count <= size
        /\ before + count <= total \/ count = 0
        /\ count < size => total <= before + count \/ total <= before
  <2>1. Min({size, total - before}) = IF size <= total - before THEN size ELSE total - before
    BY MinOf
  <2>2. QED BY <2>1
<1>4. OnPage(total, p, size) = [i \in 1 .. count |-> before + i]
  BY <1>1, <1>3 DEF OnPage
<1>5. /\ OnPage(total, p, size) \in Seq(Int) /\ Len(OnPage(total, p, size)) = count
      /\ \A i \in 1 .. count : OnPage(total, p, size)[i] = before + i
  BY <1>4
<1>6. QED BY <1>1, <1>2, <1>3, <1>5 DEF PageShape

LEMMA PageTyped ==
  ASSUME NEW total \in Nat, NEW p \in Nat, NEW size \in Nat \ {0}, p >= 1
  PROVE  OnPage(total, p, size) \in Seq(1 .. total) /\ Len(OnPage(total, p, size)) <= size
<1>0. PICK before \in Int, count \in Nat : PageShape(total, p, size, before, count)
  BY PageIs
<1>1. /\ before = (p - 1) * size /\ (p >= 1 => before \in Nat)
      /\ OnPage(total, p, size) \in Seq(Int) /\ Len(OnPage(total, p, size)) = count
      /\ \A i \in 1 .. count : OnPage(total, p, size)[i] = before + i
      /\ count <= size
      /\ before + count <= total \/ count = 0
  BY <1>0 DEF PageShape
<1>2. \A i \in 1 .. count : OnPage(total, p, size)[i] \in 1 .. total
  BY <1>1
<1>3. OnPage(total, p, size) \in [1 .. count -> 1 .. total]
  BY <1>1, <1>2
<1>4. QED BY <1>1, <1>3

LEMMA PageCovers ==
  ASSUME NEW total \in Nat, NEW p \in Nat, NEW size \in Nat \ {0}, p >= 1,
         NEW r \in 1 .. total, r > (p - 1) * size
  PROVE  /\ r <= (p - 1) * size + size =>
              \E i \in 1 .. Len(OnPage(total, p, size)) : OnPage(total, p, size)[i] = r
         /\ r > (p - 1) * size + size => Len(OnPage(total, p, size)) = size
<1>0. PICK before \in Int, count \in Nat : PageShape(total, p, size, before, count)
  BY PageIs
<1>1. /\ Len(OnPage(total, p, size)) = count /\ count <= size /\ before \in Nat
      /\ count < size => total <= before + count \/ total <= before
  BY <1>0 DEF PageShape
<1>2. \A i \in 1 .. count : OnPage(total, p, size)[i] = before + i
  BY Zenon, <1>0 DEF PageShape
<1>3. before = (p - 1) * size
  BY Zenon, <1>0 DEF PageShape
<1>4. before < r /\ r <= total /\ r \in Nat
  BY <1>3
<1>5. count < size => total <= before + count
  BY <1>1, <1>4
<1>6. ASSUME r <= before + size
      PROVE  \E i \in 1 .. Len(OnPage(total, p, size)) : OnPage(total, p, size)[i] = r
  <2>1. r - before \in 1 .. count /\ before + (r - before) = r
    BY <1>1, <1>4, <1>5, <1>6
  <2>2. OnPage(total, p, size)[r - before] = before + (r - before)
    BY <2>1, <1>2
  <2>3. QED BY <2>1, <2>2, <1>1
<1>7. ASSUME r > before + size PROVE count = size
  BY <1>1, <1>4, <1>5, <1>7
<1>8. QED BY <1>1, <1>3, <1>6, <1>7

(* Whatever of the pages from a place on the loop has not taken yet, it takes. *)
Takes(f, total, size, at) ==
  \A r \in 1 .. total :
    r > (at.page - 1) * size /\ r <= (at.page - 1) * size + (Limit - at.fetched) =>
      \E i \in 1 .. Len(f[at].items) : f[at].items[i] = r

LEMMA InConcat ==
  ASSUME NEW S, NEW s \in Seq(S), NEW t \in Seq(S), NEW r
  PROVE  (\E i \in 1 .. Len(s) : s[i] = r) => \E i \in 1 .. Len(s \o t) : (s \o t)[i] = r
<1>1. /\ Len(s \o t) = Len(s) + Len(t) /\ Len(s) \in Nat /\ Len(t) \in Nat
      /\ \A i \in 1 .. Len(s) : (s \o t)[i] = s[i]
  OBVIOUS
<1>2. ASSUME NEW i \in 1 .. Len(s), s[i] = r
      PROVE  \E k \in 1 .. Len(s \o t) : (s \o t)[k] = r
  <2>1. i \in 1 .. Len(s \o t)
    BY <1>1
  <2>2. QED BY <2>1, <1>1, <1>2
<1>3. QED BY <1>2

LEMMA LoopCovers ==
  ASSUME NEW taken \in [Places -> Seq(Int)], Limit \in Nat, NEW total \in Nat,
         OfType(taken, total), NEW f, IsLoop(f, taken),
         NEW size \in Nat \ {0},
         \A at \in Places : \A j \in Nat :
           at.page >= 1 /\ at.fetched < Limit /\ at.fetched = j * size =>
             taken[at] = OnPage(total, at.page, size)
  PROVE  \A at \in Places : \A j \in Nat :
           at.page >= 1 /\ at.fetched <= Limit /\ at.fetched = j * size => Takes(f, total, size, at)
<1> DEFINE Fine(at) == Takes(f, total, size, at)
           Whole(at) == \E j \in Nat : at.fetched = j * size
           Bad == {n \in Nat : \E at \in Places :
                     at.page >= 1 /\ at.fetched <= Limit /\ Whole(at) /\ Limit - at.fetched = n
                     /\ ~Fine(at)}
<1>0. \A at \in Places : at.page >= 1 /\ at.fetched < Limit /\ Whole(at) =>
        taken[at] = OnPage(total, at.page, size)
  OBVIOUS
<1> HIDE DEF Fine, Whole
<1>1. Bad = {}
  <2> SUFFICES ASSUME Bad # {} PROVE FALSE
    OBVIOUS
  <2>1. PICK m \in Bad : \A j \in Bad : m <= j
    BY LeastMember
  <2>2. PICK at \in Places : at.page >= 1 /\ at.fetched <= Limit /\ Whole(at)
                              /\ Limit - at.fetched = m /\ ~Fine(at)
    BY <2>1
  <2> DEFINE next == After(at, taken[at])
  <2>3. m \in Nat
    BY <2>1
  <2> HIDE DEF Bad
  <2>4. /\ at.page \in Nat /\ at.fetched \in Nat
        /\ taken[at] \in Seq(Int) /\ Len(taken[at]) \in Nat
    BY LoopValue
  <2>5. /\ next \in Places /\ next.page = at.page + 1
        /\ next.fetched = at.fetched + Len(taken[at])
    BY LoopValue
  <2>6. at.fetched < Limit /\ taken[at] # << >> =>
          f[at] = Then(taken[at], f[next]) /\ Len(taken[at]) >= 1
    BY LoopValue
  <2> HIDE DEF next
  <2>7. PICK r \in 1 .. total :
          /\ r > (at.page - 1) * size /\ r <= (at.page - 1) * size + (Limit - at.fetched)
          /\ ~ \E i \in 1 .. Len(f[at].items) : f[at].items[i] = r
    BY <2>2 DEF Fine, Takes
  <2>8. at.fetched < Limit
    <3>1. PICK b \in Int : b = (at.page - 1) * size
      BY <2>4
    <3>2. r > b /\ r <= b + (Limit - at.fetched) /\ r \in Nat
      BY <3>1, <2>7
    <3>3. QED BY <3>2, <2>4
  <2>9. taken[at] = OnPage(total, at.page, size)
    BY <1>0, <2>2, <2>8
  <2>10. /\ r <= (at.page - 1) * size + size => \E i \in 1 .. Len(taken[at]) : taken[at][i] = r
         /\ r > (at.page - 1) * size + size => Len(taken[at]) = size
    <3> DEFINE reply == OnPage(total, at.page, size)
    <3>1. /\ r <= (at.page - 1) * size + size => \E i \in 1 .. Len(reply) : reply[i] = r
          /\ r > (at.page - 1) * size + size => Len(reply) = size
      BY <2>2, <2>4, <2>7, PageCovers
    <3> HIDE DEF reply
    <3>2. taken[at] = reply
      BY <2>9 DEF reply
    <3>3. QED BY <3>1, <3>2
  <2>11. taken[at] # << >>
    <3>1. (\E i \in 1 .. Len(taken[at]) : TRUE) \/ Len(taken[at]) = size
      <4>1. PICK b \in Int : b = (at.page - 1) * size
        BY <2>4
      <4>2. r <= b + size \/ r > b + size
        OBVIOUS
      <4>3. QED BY <4>1, <4>2, <2>10
    <3>2. Len(taken[at]) # 0
      BY <3>1, <2>4
    <3>3. QED BY <3>2
  <2>12. taken[at] \in Seq(1 .. total) /\ Len(taken[at]) <= Limit - at.fetched
    BY <2>2, <2>8 DEF OfType
  <2>13. next.page >= 1 /\ next.fetched <= Limit /\ next.fetched \in Nat
    BY <2>5, <2>12, <2>4
  <2>14. f[next] \in Yield(total)
    BY <2>13, <2>5, LoopTyped
  <2>15. f[at].items = taken[at] \o f[next].items /\ f[next].items \in Seq(1 .. total)
    <3>1. f[at] = Then(taken[at], f[next])
      BY <2>6, <2>8, <2>11
    <3>2. QED BY <3>1, <2>14 DEF Then, Yield
  <2>16. CASE r <= (at.page - 1) * size + size
    <3>1. \E i \in 1 .. Len(taken[at]) : taken[at][i] = r
      BY <2>10, <2>16
    <3>2. QED BY <3>1, <2>7, <2>12, <2>15, InConcat
  <2>17. CASE r > (at.page - 1) * size + size
    <3>1. Len(taken[at]) = size
      BY <2>10, <2>17
    <3>2. Whole(next)
      <4>1. PICK j \in Nat : at.fetched = j * size
        BY <2>2 DEF Whole
      <4>2. (j + 1) * size = j * size + size /\ j + 1 \in Nat
        OBVIOUS
      <4>3. next.fetched = (j + 1) * size
        BY <4>1, <4>2, <3>1, <2>5
      <4>4. QED BY <4>2, <4>3 DEF Whole
    <3>3. Limit - next.fetched \in Nat /\ Limit - next.fetched < m
      BY <2>2, <2>3, <2>4, <2>5, <2>13, <3>1
    <3>4. Limit - next.fetched \notin Bad
      BY <3>3, <2>1, <2>3
    <3>5. Takes(f, total, size, next)
      BY <3>2, <3>3, <3>4, <2>13, <2>5 DEF Bad, Fine
    <3>6. PICK b \in Int : b = (at.page - 1) * size
      BY <2>4
    <3>7. (next.page - 1) * size = b + size
      BY <2>4, <2>5, <3>6
    <3>8. r > b + size /\ r <= (b + size) + (Limit - next.fetched)
      <4>1. r > b + size /\ r <= b + (Limit - at.fetched) /\ next.fetched = at.fetched + size
        BY <3>1, <3>6, <2>5, <2>7, <2>17
      <4>2. QED BY <4>1, <2>4
    <3>9. r > (next.page - 1) * size /\ r <= (next.page - 1) * size + (Limit - next.fetched)
      BY <3>7, <3>8
    <3>10. \E i \in 1 .. Len(f[next].items) : f[next].items[i] = r
      BY <3>5, <3>9 DEF Takes
    <3>11. taken[at] \in Seq(1 .. total) /\ f[next].items \in Seq(1 .. total)
      BY <2>12, <2>15
    <3>12. \E i \in 1 .. Len(taken[at] \o f[next].items) : (taken[at] \o f[next].items)[i] = r
      <4>1. PICK s, t : s = taken[at] /\ t = f[next].items
        OBVIOUS
      <4>2. s \in Seq(1 .. total) /\ t \in Seq(1 .. total) /\ \E i \in 1 .. Len(t) : t[i] = r
        BY <4>1, <3>10, <3>11
      <4>3. PICK i \in 1 .. Len(t) : t[i] = r
        BY <4>2
      <4>4. Len(s) + i \in 1 .. Len(s \o t) /\ (s \o t)[Len(s) + i] = t[i]
        BY <4>2
      <4>5. QED BY <4>1, <4>3, <4>4
    <3>13. QED BY <3>12, <2>7, <2>15
  <2>18. QED
    <3>1. PICK b \in Int : b = (at.page - 1) * size
      BY <2>4
    <3>2. b + size \in Int /\ (r <= b + size \/ r > b + size)
      OBVIOUS
    <3>3. ~(r <= (at.page - 1) * size + size)
      BY <2>16
    <3>4. ~(r > (at.page - 1) * size + size)
      BY <2>17
    <3>5. ~(r <= b + size) /\ ~(r > b + size)
      BY <3>1, <3>3, <3>4
    <3>6. QED BY <3>2, <3>5
<1>2. ASSUME NEW at \in Places, NEW j \in Nat, at.page >= 1, at.fetched <= Limit,
             at.fetched = j * size
      PROVE  Fine(at)
  <2>1. at.fetched \in Nat
    BY DEF Places
  <2>2. Limit - at.fetched \in Nat
    BY <1>2, <2>1
  <2>3. Whole(at)
    BY <1>2 DEF Whole
  <2>4. Limit - at.fetched \notin Bad
    BY <1>1
  <2>5. QED BY <1>2, <2>2, <2>3, <2>4
<1>3. QED BY <1>2 DEF Fine

-----------------------------------------------------------------------------
(* The loops of the two collectors are loops of that kind. *)
CodeTurn(f, total, at) ==
  LET reply == OnPage(total, at.page, Min({CodePage, Limit - at.fetched}))
  IN IF at.fetched >= Limit THEN End(FALSE)
     ELSE IF reply = << >> THEN End(TRUE)
     ELSE Then(reply, f[After(at, reply)])

GrepTurn(f, total, at) ==
  LET reply == OnPage(total, at.page, GrepPage)
      taken == SubSeq(reply, 1, Min({Len(reply), Limit - at.fetched}))
  IN IF at.fetched >= Limit THEN End(FALSE)
     ELSE IF reply = << >> THEN End(TRUE)
     ELSE Then(taken, f[After(at, taken)])

LEMMA CodeUnfold ==
  ASSUME NEW total, NEW start, \E f : f = [at \in Places |-> CodeTurn(f, total, at)]
  PROVE  \E f : /\ f = [at \in Places |-> CodeTurn(f, total, at)]
                /\ CodeSearch(total, start) = f[[page |-> start, fetched |-> 0]]
<1> DEFINE Good(f) ==
             f = [at \in Places |->
             LET reply == OnPage(total, at.page, Min({CodePage, Limit - at.fetched}))
             IN IF at.fetched >= Limit THEN End(FALSE)
                ELSE IF reply = << >> THEN End(TRUE)
                ELSE Then(reply, f[After(at, reply)])]
           F == CHOOSE f : Good(f)
<1>1. CodeSearch(total, start) = F[[page |-> start, fetched |-> 0]]
  BY SMT DEF CodeSearch
<1>2. \E f : Good(f)
  BY Zenon DEF CodeTurn
<1>3. Good(F)
  <2> HIDE DEF Good
  <2>1. QED BY Zenon, <1>2
<1> HIDE DEF F
<1>4. F = [at \in Places |-> CodeTurn(F, total, at)]
  BY Zenon, <1>3 DEF CodeTurn
<1>5. QED BY <1>1, <1>4

LEMMA GrepUnfold ==
  ASSUME NEW total, NEW start, \E f : f = [at \in Places |-> GrepTurn(f, total, at)]
  PROVE  \E f : /\ f = [at \in Places |-> GrepTurn(f, total, at)]
                /\ GrepSearch(total, start) = f[[page |-> start, fetched |-> 0]]
<1> DEFINE Good(f) ==
             f = [at \in Places |->
             LET reply == OnPage(total, at.page, GrepPage)
                 taken == SubSeq(reply, 1, Min({Len(reply), Limit - at.fetched}))
             IN IF at.fetched >= Limit THEN End(FALSE)
                ELSE IF reply = << >> THEN End(TRUE)
                ELSE Then(taken, f[After(at, taken)])]
           F == CHOOSE f : Good(f)
<1>1. GrepSearch(total, start) = F[[page |-> start, fetched |-> 0]]
  BY SMT DEF GrepSearch
<1>2. \E f : Good(f)
  BY Zenon DEF GrepTurn
<1>3. Good(F)
  <2> HIDE DEF Good
  <2>1. QED BY Zenon, <1>2
<1> HIDE DEF F
<1>4. F = [at \in Places |-> GrepTurn(F, total, at)]
  BY Zenon, <1>3 DEF GrepTurn
<1>5. QED BY <1>1, <1>4

LEMMA OptionFacts ==
  ASSUME options \in Options
  PROVE  /\ Limit \in Nat \ {0} /\ Threads \in Nat \ {0}
         /\ CodePage \in Nat \ {0} /\ GrepPage \in Nat \ {0}
         /\ SearchCap \in Nat \ {0} /\ GrepPages \in Nat \ {0}
<1>1. options \in [limit : Nat \ {0}, threads : Nat \ {0}]
      /\ {CodePage, GrepPage, SearchCap, GrepPages} \subseteq Nat \ {0}
  BY DiscoveryAssumption
<1>2. QED BY <1>1 DEF Limit, Threads

(* The items hold the results after the first so many, so many of them. *)
Within(items, total, before, count) ==
  \A r \in 1 .. total : r > before /\ r <= before + count =>
    \E i \in 1 .. Len(items) : items[i] = r

LEMMA Multiples ==
  ASSUME NEW a \in Nat, NEW b \in Nat, NEW s \in Nat \ {0}, a * s < b * s
  PROVE  b * s - a * s >= s
<1>1. ~(b <= a)
  <2> SUFFICES ASSUME b <= a PROVE FALSE
    OBVIOUS
  <2>1. PICK k \in Nat : a = b + k
    OBVIOUS
  <2>2. (b + k) * s = b * s + k * s /\ k * s \in Nat
    OBVIOUS
  <2>3. QED BY <2>1, <2>2
<1>2. PICK k \in Nat : b = a + 1 + k
  BY <1>1
<1>3. (a + 1 + k) * s = a * s + s + k * s /\ k * s \in Nat /\ a * s \in Nat
  OBVIOUS
<1>4. QED BY <1>2, <1>3

LEMMA CodeSearchFacts ==
  ASSUME options \in Options, NEW total \in Nat, NEW start \in Nat \ {0}
  PROVE  /\ CodeSearch(total, start) \in Yield(total)
         /\ Len(CodeSearch(total, start).items) <= Limit
         /\ (\E n \in Nat : Limit = n * Min({CodePage, Limit})) =>
              Within(CodeSearch(total, start).items, total,
                     (start - 1) * Min({CodePage, Limit}), Limit)
<1>0. Limit \in Nat \ {0} /\ CodePage \in Nat \ {0}
  BY OptionFacts
<1> DEFINE ask(at) == Min({CodePage, Limit - at.fetched})
           take(at) == IF at.fetched < Limit THEN OnPage(total, at.page, ask(at)) ELSE << >>
           first == [page |-> start, fetched |-> 0]
           size == Min({CodePage, Limit})
<1>1. \A at \in Places : at.page \in Nat /\ at.fetched \in Nat
  BY DEF Places
<1>2. ASSUME NEW at \in Places, at.fetched < Limit
      PROVE  /\ ask(at) \in Nat \ {0} /\ ask(at) <= Limit - at.fetched
             /\ ask(at) = IF CodePage <= Limit - at.fetched THEN CodePage ELSE Limit - at.fetched
  BY <1>0, <1>1, <1>2, MinOf
<1>3. size \in Nat \ {0} /\ size = IF CodePage <= Limit THEN CodePage ELSE Limit
  BY <1>0, MinOf
<1> HIDE DEF ask, size
<1>4. ASSUME NEW at \in Places, at.fetched < Limit
      PROVE  OnPage(total, at.page, ask(at)) \in Seq(Int)
  BY <1>1, <1>2, <1>4, PageIs DEF PageShape
<1>5. \A at \in Places : take(at) \in Seq(Int)
  BY <1>4
<1> HIDE DEF take
<1>6. PICK taken \in [Places -> Seq(Int)] : \A at \in Places : taken[at] = take(at)
  <2>1. [at \in Places |-> take(at)] \in [Places -> Seq(Int)]
    BY <1>5
  <2>2. \A at \in Places : [x \in Places |-> take(x)][at] = take(at)
    OBVIOUS
  <2>3. QED BY <2>1, <2>2
<1>7. ASSUME NEW at \in Places, at.fetched < Limit
      PROVE  taken[at] = OnPage(total, at.page, ask(at))
  BY <1>6, <1>7 DEF take
<1>8. OfType(taken, total)
  <2>1. ASSUME NEW at \in Places, at.page >= 1, at.fetched < Limit
        PROVE  taken[at] \in Seq(1 .. total) /\ Len(taken[at]) <= Limit - at.fetched
    <3>1. ask(at) \in Nat \ {0} /\ ask(at) <= Limit - at.fetched /\ at.page \in Nat /\ at.fetched \in Nat
      BY <2>1, <1>1, <1>2
    <3>2. OnPage(total, at.page, ask(at)) \in Seq(1 .. total)
          /\ Len(OnPage(total, at.page, ask(at))) <= ask(at)
      BY <3>1, <2>1, PageTyped
    <3>3. taken[at] = OnPage(total, at.page, ask(at))
      BY <2>1, <1>7
    <3>4. taken[at] \in Seq(1 .. total) /\ Len(taken[at]) <= ask(at) /\ Len(taken[at]) \in Nat
      BY <3>2, <3>3
    <3>5. QED BY <3>1, <3>4, <1>0
  <2>2. QED BY <2>1 DEF OfType
<1>9. ASSUME NEW f, NEW at \in Places PROVE CodeTurn(f, total, at) = Loop(f, taken, at)
  <2>1. CASE at.fetched >= Limit
    BY Zenon, <2>1 DEF CodeTurn, Loop
  <2>2. CASE ~(at.fetched >= Limit)
    <3>1. at.fetched < Limit
      BY <2>2, <1>0, <1>1
    <3>2. taken[at] = OnPage(total, at.page, Min({CodePage, Limit - at.fetched}))
      BY <3>1, <1>7 DEF ask
    <3>3. QED BY Zenon, <3>2 DEF CodeTurn, Loop
  <2>3. QED BY <2>1, <2>2
<1>10. \A f : (f = [at \in Places |-> CodeTurn(f, total, at)]) <=> IsLoop(f, taken)
  <2>1. ASSUME NEW f PROVE [at \in Places |-> CodeTurn(f, total, at)] = [at \in Places |-> Loop(f, taken, at)]
    BY <1>9
  <2>2. QED BY Zenon, <2>1 DEF IsLoop
<1>11. PICK f : IsLoop(f, taken) /\ CodeSearch(total, start) = f[first]
  <2>1. \E f : IsLoop(f, taken)
    BY <1>0, LoopExists
  <2>2. \E f : f = [at \in Places |-> CodeTurn(f, total, at)]
    BY <1>10, <2>1
  <2>3. PICK f : /\ f = [at \in Places |-> CodeTurn(f, total, at)]
                 /\ CodeSearch(total, start) = f[first]
    BY <2>2, CodeUnfold
  <2>4. QED BY <2>3, <1>10
<1>12. first \in Places /\ first.page = start /\ first.fetched = 0
  BY DEF Places
<1> HIDE DEF first
<1>13. f[first] \in Yield(total) /\ Len(f[first].items) <= Limit
  <2>1. first.page >= 1 /\ first.fetched <= Limit /\ Limit - first.fetched = Limit
    BY <1>0, <1>12
  <2>2. f[first] \in Yield(total) /\ Len(f[first].items) <= Limit - first.fetched
    BY <1>0, <1>8, <1>11, <1>12, <2>1, LoopTyped
  <2>3. QED BY <2>1, <2>2
<1>14. ASSUME NEW n \in Nat, Limit = n * size
       PROVE  Within(f[first].items, total, (start - 1) * size, Limit)
  <2>1. ASSUME NEW at \in Places, NEW j \in Nat, at.page >= 1, at.fetched < Limit, at.fetched = j * size
        PROVE  taken[at] = OnPage(total, at.page, size)
    <3>1. Limit - at.fetched >= size
      <4>1. j * size < n * size
        BY <2>1, <1>14
      <4>2. n * size - j * size >= size
        BY <4>1, <1>3, Multiples
      <4>3. QED BY <4>2, <2>1, <1>14
    <3>2. ask(at) = size
      BY <3>1, <1>0, <1>1, <1>2, <1>3, <2>1
    <3>3. QED BY <3>2, <1>7, <2>1
  <2>2. Takes(f, total, size, first)
    <3>1. 0 \in Nat /\ 0 = 0 * size /\ first.page >= 1 /\ first.fetched <= Limit /\ first.fetched = 0 * size
      BY <1>0, <1>3, <1>12
    <3>2. QED BY <3>1, <2>1, <1>0, <1>3, <1>8, <1>11, <1>12, LoopCovers
  <2>3. Limit - first.fetched = Limit
    BY <1>0, <1>12
  <2>4. QED BY <2>2, <2>3, <1>12 DEF Takes, Within
<1>15. QED BY <1>11, <1>13, <1>14 DEF size

LEMMA GrepSearchFacts ==
  ASSUME options \in Options, NEW total \in Nat, NEW start \in Nat \ {0}
  PROVE  /\ GrepSearch(total, start) \in Yield(total)
         /\ Len(GrepSearch(total, start).items) <= Limit
         /\ (\E n \in Nat : Limit = n * GrepPage) =>
              Within(GrepSearch(total, start).items, total,
                     (start - 1) * GrepPage, Limit)
<1>0. Limit \in Nat \ {0} /\ GrepPage \in Nat \ {0}
  BY OptionFacts
<1> DEFINE reply(at) == OnPage(total, at.page, GrepPage)
           cut(at) == SubSeq(reply(at), 1, Min({Len(reply(at)), Limit - at.fetched}))
           take(at) == IF at.fetched < Limit THEN cut(at) ELSE << >>
           first == [page |-> start, fetched |-> 0]
<1>1. \A at \in Places : at.page \in Nat /\ at.fetched \in Nat
  BY DEF Places
<1>2. ASSUME NEW at \in Places
      PROVE  reply(at) \in Seq(Int) /\ Len(reply(at)) \in Nat /\ Len(reply(at)) <= GrepPage
  <2>1. at.page \in Nat
    BY <1>1
  <2>2. PICK before \in Int, count \in Nat : PageShape(total, at.page, GrepPage, before, count)
    BY <1>0, <2>1, PageIs
  <2>3. OnPage(total, at.page, GrepPage) \in Seq(Int)
        /\ Len(OnPage(total, at.page, GrepPage)) = count /\ count <= GrepPage
    BY <2>2 DEF PageShape
  <2> QED BY <2>3
<1>3. ASSUME NEW at \in Places, at.page >= 1
      PROVE  reply(at) \in Seq(1 .. total)
  BY <1>0, <1>1, <1>3, PageTyped
<1> HIDE DEF reply
<1>4. ASSUME NEW at \in Places, at.fetched < Limit
      PROVE  /\ cut(at) \in Seq(Int) /\ Len(cut(at)) <= Limit - at.fetched
             /\ reply(at) # << >> => cut(at) # << >>
             /\ reply(at) = << >> => cut(at) = << >>
             /\ \A S : reply(at) \in Seq(S) => cut(at) \in Seq(S)
             /\ GrepPage <= Limit - at.fetched => cut(at) = reply(at)
  <2>1. PICK left \in Nat \ {0} : left = Limit - at.fetched
    BY <1>0, <1>1, <1>4
  <2>2. PICK r \in Seq(Int) : r = reply(at) /\ Len(r) <= GrepPage
    BY <1>2
  <2>3. PICK m \in Nat : m = Min({Len(r), left}) /\ m = IF Len(r) <= left THEN Len(r) ELSE left
    BY MinOf
  <2>4. cut(at) = SubSeq(r, 1, m) /\ m <= Len(r) /\ m <= left
    <3>1. m = Min({Len(reply(at)), Limit - at.fetched})
      BY <2>1, <2>2, <2>3
    <3>2. cut(at) = SubSeq(r, 1, m)
      BY <3>1, <2>2
    <3>3. m <= Len(r) /\ m <= left
      BY <2>3
    <3>4. QED BY <3>2, <3>3
  <2>5. Len(SubSeq(r, 1, m)) = m /\ \A i \in 1 .. m : SubSeq(r, 1, m)[i] = r[i]
    BY <2>4
  <2>6. r # << >> => m # 0
    BY <2>3
  <2>7. ASSUME NEW S, r \in Seq(S) PROVE SubSeq(r, 1, m) \in Seq(S)
    BY <2>4, <2>7
  <2>8. r = << >> => m = 0
    BY <2>4
  <2>9. GrepPage <= left => m = Len(r)
    BY <2>2, <2>3, <1>0
  <2>10. m = Len(r) => SubSeq(r, 1, m) = r
    OBVIOUS
  <2>11. /\ SubSeq(r, 1, m) \in Seq(Int) /\ Len(SubSeq(r, 1, m)) <= left
         /\ r # << >> => SubSeq(r, 1, m) # << >>
    BY <2>4, <2>5, <2>6, <2>7
  <2>12. r = << >> => SubSeq(r, 1, m) = << >>
    BY <2>8, <2>10
  <2> HIDE DEF cut
  <2>13. QED BY <2>1, <2>2, <2>4, <2>7, <2>9, <2>10, <2>11, <2>12
<1> HIDE DEF cut
<1>5. \A at \in Places : take(at) \in Seq(Int)
  BY <1>4
<1> HIDE DEF take
<1>6. PICK taken \in [Places -> Seq(Int)] : \A at \in Places : taken[at] = take(at)
  <2>1. [at \in Places |-> take(at)] \in [Places -> Seq(Int)]
    BY <1>5
  <2>2. \A at \in Places : [x \in Places |-> take(x)][at] = take(at)
    OBVIOUS
  <2>3. QED BY <2>1, <2>2
<1>7. ASSUME NEW at \in Places, at.fetched < Limit
      PROVE  taken[at] = cut(at)
  BY <1>6, <1>7 DEF take
<1>8. OfType(taken, total)
  <2>1. ASSUME NEW at \in Places, at.page >= 1, at.fetched < Limit
        PROVE  taken[at] \in Seq(1 .. total) /\ Len(taken[at]) <= Limit - at.fetched
    <3>1. cut(at) \in Seq(1 .. total) /\ Len(cut(at)) <= Limit - at.fetched
      BY <2>1, <1>3, <1>4
    <3>2. QED BY <3>1, <2>1, <1>7
  <2>2. QED BY <2>1 DEF OfType
<1>9. ASSUME NEW f, NEW at \in Places PROVE GrepTurn(f, total, at) = Loop(f, taken, at)
  <2>1. CASE at.fetched >= Limit
    BY Zenon, <2>1 DEF GrepTurn, Loop
  <2>2. CASE ~(at.fetched >= Limit)
    <3>1. at.fetched < Limit
      BY <2>2, <1>0, <1>1
    <3>2. taken[at] = cut(at) /\ (reply(at) = << >> <=> cut(at) = << >>)
      BY <3>1, <1>4, <1>7
    <3>3. CASE reply(at) = << >>
      BY Zenon, <3>2, <3>3, <2>2 DEF GrepTurn, Loop, reply, cut
    <3>4. CASE reply(at) # << >>
      BY Zenon, <3>2, <3>4, <2>2 DEF GrepTurn, Loop, reply, cut
    <3>5. QED BY <3>3, <3>4
  <2>3. QED BY <2>1, <2>2
<1>10. \A f : (f = [at \in Places |-> GrepTurn(f, total, at)]) <=> IsLoop(f, taken)
  <2>1. ASSUME NEW f PROVE [at \in Places |-> GrepTurn(f, total, at)] = [at \in Places |-> Loop(f, taken, at)]
    BY <1>9
  <2>2. QED BY Zenon, <2>1 DEF IsLoop
<1>11. PICK f : IsLoop(f, taken) /\ GrepSearch(total, start) = f[first]
  <2>1. \E f : IsLoop(f, taken)
    BY <1>0, LoopExists
  <2>2. \E f : f = [at \in Places |-> GrepTurn(f, total, at)]
    BY <1>10, <2>1
  <2>3. PICK f : /\ f = [at \in Places |-> GrepTurn(f, total, at)]
                 /\ GrepSearch(total, start) = f[first]
    BY <2>2, GrepUnfold
  <2>4. QED BY <2>3, <1>10
<1>12. first \in Places /\ first.page = start /\ first.fetched = 0
  BY DEF Places
<1> HIDE DEF first
<1>13. f[first] \in Yield(total) /\ Len(f[first].items) <= Limit
  <2>1. first.page >= 1 /\ first.fetched <= Limit /\ Limit - first.fetched = Limit
    BY <1>0, <1>12
  <2>2. f[first] \in Yield(total) /\ Len(f[first].items) <= Limit - first.fetched
    BY <1>0, <1>8, <1>11, <1>12, <2>1, LoopTyped
  <2>3. QED BY <2>1, <2>2
<1>14. ASSUME NEW n \in Nat, Limit = n * GrepPage
       PROVE  Within(f[first].items, total, (start - 1) * GrepPage, Limit)
  <2>1. ASSUME NEW at \in Places, NEW j \in Nat, at.page >= 1, at.fetched < Limit, at.fetched = j * GrepPage
        PROVE  taken[at] = OnPage(total, at.page, GrepPage)
    <3>1. Limit - at.fetched >= GrepPage
      <4>1. j * GrepPage < n * GrepPage
        BY <2>1, <1>14
      <4>2. n * GrepPage - j * GrepPage >= GrepPage
        BY <4>1, <1>0, Multiples
      <4>3. QED BY <4>2, <2>1, <1>14
    <3>2. cut(at) = reply(at)
      <4>1. GrepPage <= Limit - at.fetched
        BY <3>1, <1>0, <1>1
      <4>2. QED BY <4>1, <1>4, <2>1
    <3>3. QED BY <3>2, <1>7, <2>1 DEF reply
  <2>2. Takes(f, total, GrepPage, first)
    <3>1. 0 \in Nat /\ 0 = 0 * GrepPage /\ first.page >= 1 /\ first.fetched <= Limit /\ first.fetched = 0 * GrepPage
      BY <1>0, <1>12
    <3>2. QED BY <3>1, <2>1, <1>0, <1>8, <1>11, <1>12, LoopCovers
  <2>3. Limit - first.fetched = Limit
    BY <1>0, <1>12
  <2>4. QED BY <2>2, <2>3, <1>12 DEF Takes, Within
<1>15. QED BY <1>11, <1>13, <1>14

LEMMA ThreadSearchFacts ==
  ASSUME options \in Options, NEW total \in Nat, NEW start \in Nat \ {0}
  PROVE  /\ ThreadSearch(total, start) \in Yield(total)
         /\ Len(ThreadSearch(total, start).items) <= Threads
         /\ Within(ThreadSearch(total, start).items, total, (start - 1) * Threads, Threads)
<1>0. Threads \in Nat \ {0}
  BY OptionFacts
<1>1. PICK reply : reply = OnPage(total, start, Threads)
  OBVIOUS
<1>2. reply \in Seq(1 .. total) /\ Len(reply) <= Threads
  <2>1. start >= 1
    OBVIOUS
  <2>2. OnPage(total, start, Threads) \in Seq(1 .. total) /\ Len(OnPage(total, start, Threads)) <= Threads
    BY <1>0, <2>1, PageTyped
  <2>3. QED BY <1>1, <2>2
<1>3. ThreadSearch(total, start) = [items |-> reply, exhausted |-> (reply = << >>)]
  BY <1>1 DEF ThreadSearch, End
<1>4. ThreadSearch(total, start) \in Yield(total) /\ ThreadSearch(total, start).items = reply
  BY <1>2, <1>3 DEF Yield
<1>5. ASSUME NEW r \in 1 .. total, r > (start - 1) * Threads,
             r <= (start - 1) * Threads + Threads
      PROVE  \E i \in 1 .. Len(reply) : reply[i] = r
  <2>1. start >= 1
    OBVIOUS
  <2>2. r <= (start - 1) * Threads + Threads =>
          \E i \in 1 .. Len(OnPage(total, start, Threads)) : OnPage(total, start, Threads)[i] = r
    <3>1. PICK size \in Nat \ {0}, p \in Nat : size = Threads /\ p = start
      BY <1>0
    <3>2. p >= 1 /\ r > (p - 1) * size
      BY <3>1, <2>1, <1>5
    <3>3. /\ r <= (p - 1) * size + size =>
               \E i \in 1 .. Len(OnPage(total, p, size)) : OnPage(total, p, size)[i] = r
          /\ r > (p - 1) * size + size => Len(OnPage(total, p, size)) = size
      BY <3>2, PageCovers
    <3>4. QED BY <3>1, <3>3
  <2>3. \E i \in 1 .. Len(OnPage(total, start, Threads)) : OnPage(total, start, Threads)[i] = r
    BY Zenon, <1>5, <2>2
  <2>4. QED BY <1>1, <2>3
<1>6. QED BY <1>2, <1>4, <1>5 DEF Within

-----------------------------------------------------------------------------
(* Jobs and pages.                                                         *)

LEMMA Division ==
  ASSUME NEW d \in Nat \ {0}, NEW q \in Nat, NEW r \in 0 .. d - 1
  PROVE  (q * d + r) \div d = q /\ (q * d + r) % d = r
OBVIOUS

LEMMA DivisionOf ==
  ASSUME NEW a \in Nat, NEW d \in Nat \ {0}
  PROVE  /\ a \div d \in Nat /\ a % d \in 0 .. d - 1
         /\ a = (a \div d) * d + (a % d)
         /\ a % d <= a
OBVIOUS

LEMMA SourceFacts ==
  /\ SourceSet \subseteq SourceNames /\ SourceSet # {}
  /\ Len(Sources) \in Nat \ {0} /\ DOMAIN Sources = 1 .. Len(Sources)
  /\ NumQueries \in Nat \ {0} /\ BatchSize \in Nat \ {0}
  /\ \A s \in SourceNames, q \in Queries : Total[s][q] \in Nat /\ Total[s][q] <= SearchCap
<1>1. Sources \in Seq(SourceNames) /\ Sources # << >>
  BY DiscoveryAssumption
<1>2. /\ Len(Sources) \in Nat \ {0} /\ DOMAIN Sources = 1 .. Len(Sources)
      /\ \A k \in DOMAIN Sources : Sources[k] \in SourceNames
  BY <1>1
<1>3. SourceSet \subseteq SourceNames
  BY <1>2 DEF SourceSet
<1>4. SourceSet # {}
  <2>1. 1 \in DOMAIN Sources
    BY <1>2
  <2>2. Sources[1] \in SourceSet
    BY <2>1 DEF SourceSet
  <2>3. QED BY <2>2
<1>5. ASSUME NEW s \in SourceNames, NEW q \in Queries
      PROVE  Total[s][q] \in Nat /\ Total[s][q] <= SearchCap
  <2>1. Total \in [SourceNames -> [Queries -> 0 .. SearchCap]] /\ SearchCap \in Nat
    BY DiscoveryAssumption DEF Queries
  <2>2. Total[s] \in [Queries -> 0 .. SearchCap]
    BY <2>1
  <2>3. Total[s][q] \in 0 .. SearchCap
    BY <2>2
  <2>4. QED BY <2>1, <2>3
<1>6. NumQueries \in Nat \ {0} /\ BatchSize \in Nat \ {0}
  BY DiscoveryAssumption
<1>7. QED BY <1>2, <1>3, <1>4, <1>5, <1>6

LEMMA PageLimitIn ==
  ASSUME options \in Options, NEW s \in SourceSet
  PROVE  PageLimit(s) \in Nat \ {0}
<1>1. ASSUME NEW n \in Nat PROVE AtLeastOne(n) \in Nat \ {0}
  <2>1. Max({1, n}) \in {1, n} /\ 1 <= Max({1, n})
    BY MaxOf
  <2>2. QED BY <2>1 DEF AtLeastOne
<1>2. /\ Limit \in Nat \ {0} /\ Threads \in Nat \ {0} /\ CodePage \in Nat \ {0}
      /\ SearchCap \in Nat /\ GrepPages \in Nat \ {0}
  BY OptionFacts
<1>3. Min({CodePage, Limit}) \in Nat \ {0}
  BY <1>2, MinOf
<1>4. SearchCap \div Threads \in Nat /\ SearchCap \div Min({CodePage, Limit}) \in Nat
  BY <1>2, <1>3, DivisionOf
<1>5. s \in {"github-thread", "github-code", "grep"}
  BY SourceFacts DEF SourceNames
<1>6. QED BY <1>1, <1>2, <1>4, <1>5 DEF PageLimit

(* A start page is a page, and not beyond the cursor. *)
LEMMA StartIn ==
  ASSUME options \in Options, NEW s \in SourceSet, NEW q, page[s][q] \in Nat \ {0}
  PROVE  StartPage(s, q) \in Nat \ {0} /\ StartPage(s, q) <= page[s][q]
BY DEF StartPage

(* Every limit is a whole number of pages, as the defaults are (20 hits): a
   page that the cursor counts is a page that the collector asks for.  The run
   DiscoverySkips shows what happens without. *)
LimitsAreWholePages ==
  \A o \in Options :
    /\ "github-code" \in SourceSet => o.limit % Min({CodePage, o.limit}) = 0
    /\ "grep" \in SourceSet => o.limit % GrepPage = 0

LEMMA SizesIn ==
  ASSUME options \in Options, NEW s \in SourceSet
  PROVE  /\ PageSize(s) \in Nat \ {0} /\ PageStep(s) \in Nat /\ AnswerSize(s) \in Nat \ {0}
         /\ AnswerSize(s) \in {Limit, Threads}
         /\ LimitsAreWholePages => PageStep(s) * PageSize(s) = AnswerSize(s)
<1>1. /\ Limit \in Nat \ {0} /\ Threads \in Nat \ {0} /\ CodePage \in Nat \ {0}
      /\ GrepPage \in Nat \ {0}
  BY OptionFacts
<1>2. s \in {"github-thread", "github-code", "grep"}
  BY SourceFacts DEF SourceNames
<1>3. ASSUME NEW n \in Nat \ {0}, NEW d \in Nat \ {0}
      PROVE  /\ Ceiling(n, d) \in Nat
             /\ n % d = 0 => Ceiling(n, d) * d = n
             /\ n <= d => Ceiling(n, d) = 1
  <2>1. n + d - 1 \in Nat
    OBVIOUS
  <2>2. Ceiling(n, d) \in Nat
    BY <2>1, DivisionOf DEF Ceiling
  <2>3. ASSUME n % d = 0 PROVE Ceiling(n, d) * d = n
    <3>1. PICK k \in Nat : n = k * d
      <4>1. n \div d \in Nat /\ n = (n \div d) * d + (n % d)
        BY DivisionOf
      <4>2. n = (n \div d) * d
        BY <4>1, <2>3
      <4>3. QED BY <4>1, <4>2
    <3>2. d - 1 \in 0 .. d - 1 /\ n + d - 1 = k * d + (d - 1)
      BY <3>1
    <3>3. Ceiling(n, d) = k
      BY <3>2, Division DEF Ceiling
    <3>4. QED BY <3>1, <3>3
  <2>4. ASSUME n <= d PROVE Ceiling(n, d) = 1
    <3>1. n - 1 \in 0 .. d - 1 /\ n + d - 1 = 1 * d + (n - 1) /\ 1 \in Nat
      BY <2>4
    <3>2. QED BY <3>1, Division DEF Ceiling
  <2>5. QED BY <2>2, <2>3, <2>4
<1>4. Min({CodePage, Limit}) = IF CodePage <= Limit THEN CodePage ELSE Limit
  BY <1>1, MinOf
<1>5. CASE s = "github-thread"
  <2>1. PageSize(s) = Threads /\ PageStep(s) = 1 /\ AnswerSize(s) = Threads
    BY <1>5 DEF PageSize, PageStep, AnswerSize
  <2>2. QED BY <2>1, <1>1
<1>6. CASE s = "grep"
  <2>1. PageSize(s) = GrepPage /\ PageStep(s) = Ceiling(Limit, GrepPage) /\ AnswerSize(s) = Limit
    BY <1>6 DEF PageSize, PageStep, AnswerSize
  <2>2. LimitsAreWholePages => Limit % GrepPage = 0
    BY <1>6 DEF LimitsAreWholePages, Limit
  <2>3. QED BY <2>1, <2>2, <1>1, <1>3
<1>7. CASE s = "github-code"
  <2>1. /\ PageSize(s) = Min({CodePage, Limit}) /\ PageStep(s) = Ceiling(Limit, CodePage)
        /\ AnswerSize(s) = Limit
    BY <1>7 DEF PageSize, PageStep, AnswerSize
  <2>2. LimitsAreWholePages => Limit % Min({CodePage, Limit}) = 0
    BY <1>7 DEF LimitsAreWholePages, Limit
  <2>3. CASE CodePage <= Limit
    <3>1. PageSize(s) = CodePage /\ (LimitsAreWholePages => Limit % CodePage = 0)
      BY <2>1, <2>2, <2>3, <1>4
    <3>2. QED BY <3>1, <2>1, <1>1, <1>3
  <2>4. CASE ~(CodePage <= Limit)
    <3>1. PageSize(s) = Limit
      BY <2>1, <2>4, <1>4
    <3>2. PageStep(s) = 1
      <4>1. Limit <= CodePage
        BY <2>4, <1>1
      <4>2. QED BY <4>1, <2>1, <1>1, <1>3
    <3>3. PageStep(s) * PageSize(s) = AnswerSize(s)
      <4>1. 1 * Limit = Limit
        BY <1>1
      <4>2. AnswerSize(s) = Limit
        BY <2>1
      <4>3. QED BY Zenon, <3>1, <3>2, <4>1, <4>2
    <3>4. QED BY <3>1, <3>2, <3>3, <2>1, <1>1
  <2>5. QED BY <2>3, <2>4
<1>8. QED BY <1>2, <1>5, <1>6, <1>7

LEMMA CollectedFacts ==
  ASSUME options \in Options, NEW s \in SourceSet, NEW q \in Queries, NEW start \in Nat \ {0}
  PROVE  /\ Collected(s, q, start) \in Yield(Total[s][q])
         /\ Len(Collected(s, q, start).items) <= AnswerSize(s)
         /\ LimitsAreWholePages =>
              Within(Collected(s, q, start).items, Total[s][q],
                     (start - 1) * PageSize(s), AnswerSize(s))
<1>1. /\ Limit \in Nat \ {0} /\ Threads \in Nat \ {0} /\ CodePage \in Nat \ {0}
      /\ GrepPage \in Nat \ {0}
  BY OptionFacts
<1>2. s \in {"github-thread", "github-code", "grep"} /\ Total[s][q] \in Nat
  BY SourceFacts DEF SourceNames
<1>3. CASE s = "github-thread"
  <2>1. /\ PageSize(s) = Threads /\ AnswerSize(s) = Threads
        /\ Collected(s, q, start) = ThreadSearch(Total[s][q], start)
    BY <1>3 DEF PageSize, AnswerSize, Collected
  <2>2. /\ ThreadSearch(Total[s][q], start) \in Yield(Total[s][q])
        /\ Len(ThreadSearch(Total[s][q], start).items) <= Threads
        /\ Within(ThreadSearch(Total[s][q], start).items, Total[s][q], (start - 1) * Threads, Threads)
    BY <1>2, ThreadSearchFacts
  <2>3. QED BY Zenon, <2>1, <2>2
<1>4. CASE s = "grep"
  <2>1. /\ PageSize(s) = GrepPage /\ AnswerSize(s) = Limit
        /\ Collected(s, q, start) = GrepSearch(Total[s][q], start)
    BY <1>4 DEF PageSize, AnswerSize, Collected
  <2>2. /\ GrepSearch(Total[s][q], start) \in Yield(Total[s][q])
        /\ Len(GrepSearch(Total[s][q], start).items) <= Limit
        /\ (\E n \in Nat : Limit = n * GrepPage) =>
             Within(GrepSearch(Total[s][q], start).items, Total[s][q], (start - 1) * GrepPage, Limit)
    BY <1>2, GrepSearchFacts
  <2>3. ASSUME LimitsAreWholePages PROVE \E n \in Nat : Limit = n * GrepPage
    <3>1. Limit % GrepPage = 0
      BY <1>4, <2>3 DEF LimitsAreWholePages, Limit
    <3>2. Limit \div GrepPage \in Nat /\ Limit = (Limit \div GrepPage) * GrepPage + (Limit % GrepPage)
      BY <1>1, DivisionOf
    <3>3. Limit = (Limit \div GrepPage) * GrepPage
      BY <1>1, <3>1, <3>2
    <3>4. QED BY <3>2, <3>3
  <2>4. QED BY Zenon, <2>1, <2>2, <2>3
<1>5. CASE s = "github-code"
  <2> DEFINE size == Min({CodePage, Limit})
  <2>1. /\ PageSize(s) = size /\ AnswerSize(s) = Limit
        /\ Collected(s, q, start) = CodeSearch(Total[s][q], start)
    BY <1>5 DEF PageSize, AnswerSize, Collected
  <2>2. /\ CodeSearch(Total[s][q], start) \in Yield(Total[s][q])
        /\ Len(CodeSearch(Total[s][q], start).items) <= Limit
        /\ (\E n \in Nat : Limit = n * size) =>
             Within(CodeSearch(Total[s][q], start).items, Total[s][q], (start - 1) * size, Limit)
    BY <1>2, CodeSearchFacts
  <2>3. ASSUME LimitsAreWholePages PROVE \E n \in Nat : Limit = n * size
    <3>1. Limit % size = 0
      BY <1>5, <2>3 DEF LimitsAreWholePages, Limit
    <3>2. size \in Nat \ {0}
      BY <1>1, MinOf
    <3> HIDE DEF size
    <3>3. Limit \div size \in Nat /\ Limit = (Limit \div size) * size + (Limit % size)
      BY <1>1, <3>2, DivisionOf
    <3>4. Limit = (Limit \div size) * size
      BY <1>1, <3>1, <3>2, <3>3
    <3>5. QED BY <3>3, <3>4
  <2>4. QED BY Zenon, <2>1, <2>2, <2>3
<1>6. QED BY <1>2, <1>3, <1>4, <1>5

LEMMA Apart ==
  ASSUME NEW n \in Nat \ {0}, NEW a \in Nat, NEW b \in Nat, a % n = b % n, a <= b, b - a < n
  PROVE  a = b
<1>1. PICK i \in Nat, j \in Nat, r \in Nat : a = i * n + r /\ b = j * n + r
  <2>1. a \div n \in Nat /\ a % n \in 0 .. n - 1 /\ a = (a \div n) * n + (a % n)
    BY DivisionOf
  <2>2. b \div n \in Nat /\ b = (b \div n) * n + (b % n)
    BY DivisionOf
  <2>3. PICK r \in Nat : r = a % n /\ r = b % n
    BY <2>1
  <2>4. a = (a \div n) * n + r /\ b = (b \div n) * n + r
    BY <2>1, <2>2, <2>3
  <2>5. QED BY Zenon, <2>1, <2>2, <2>3, <2>4
<1>2. j * n - i * n < n
  BY <1>1
<1>3. ~(i * n < j * n)
  BY <1>2, Multiples
<1>4. QED BY <1>1, <1>3

(* No query is twice in a batch. *)
NoneTwice(b) == \A j, k \in DOMAIN b : b[j] = b[k] => j = k

LEMMA BatchFacts ==
  ASSUME query \in Queries, TakeQueryBatch
  PROVE  batch' \in Seq(Queries) /\ NoneTwice(batch') /\ query' \in Queries
<1>1. NumQueries \in Nat \ {0} /\ BatchSize \in Nat \ {0}
  BY SourceFacts
<1>2. PICK size \in Nat \ {0} : size = Min({NumQueries, BatchSize}) /\ size <= NumQueries
  BY <1>1, MinOf
<1>3. /\ batch' = [k \in 1 .. size |-> (query + k - 1) % NumQueries]
      /\ query' = (query + size) % NumQueries
  BY <1>2 DEF TakeQueryBatch
<1>4. query \in Nat
  BY <1>1 DEF Queries
<1>5. \A k \in 1 .. size : query + k - 1 \in Nat /\ (query + k - 1) % NumQueries \in Queries
  BY <1>1, <1>4, DivisionOf DEF Queries
<1>6. batch' \in Seq(Queries) /\ DOMAIN batch' = 1 .. size
  <2>1. batch' \in [1 .. size -> Queries]
    BY <1>3, <1>5
  <2>2. QED BY <2>1
<1>7. ASSUME NEW j \in 1 .. size, NEW k \in 1 .. size, batch'[j] = batch'[k], j <= k
      PROVE  j = k
  <2>1. (query + j - 1) % NumQueries = (query + k - 1) % NumQueries
    BY <1>3, <1>7
  <2>2. /\ query + j - 1 \in Nat /\ query + k - 1 \in Nat
        /\ query + j - 1 <= query + k - 1 /\ (query + k - 1) - (query + j - 1) < NumQueries
    BY <1>1, <1>2, <1>4, <1>7
  <2>3. query + j - 1 = query + k - 1
    BY <2>1, <2>2, <1>1, Apart
  <2>4. QED BY <2>3, <1>4
<1>8. NoneTwice(batch')
  <2>1. ASSUME NEW j \in 1 .. size, NEW k \in 1 .. size, batch'[j] = batch'[k]
        PROVE  j = k
    <3>1. j <= k \/ k <= j
      OBVIOUS
    <3>2. QED BY <3>1, <2>1, <1>7
  <2>2. QED BY <2>1, <1>6 DEF NoneTwice
<1>9. query' \in Queries
  <2>1. query + size \in Nat
    BY <1>4
  <2>2. QED BY <2>1, <1>1, <1>3, DivisionOf DEF Queries
<1>10. QED BY <1>6, <1>8, <1>9

(* The places of a job in the sources and in the batch. *)
LEMMA JobPlaces ==
  ASSUME batch \in Seq(Queries), NEW k \in 1 .. JobCount
  PROVE  /\ ((k - 1) % Len(Sources)) + 1 \in DOMAIN Sources
         /\ ((k - 1) \div Len(Sources)) + 1 \in DOMAIN batch
         /\ (k - 1) % Len(Sources) \in Nat /\ (k - 1) \div Len(Sources) \in Nat
         /\ k - 1 = ((k - 1) \div Len(Sources)) * Len(Sources) + ((k - 1) % Len(Sources))
<1> DEFINE n == Len(Sources)
           w == Len(batch)
<1>1. n \in Nat \ {0} /\ w \in Nat /\ DOMAIN Sources = 1 .. n /\ DOMAIN batch = 1 .. w
  BY SourceFacts
<1>2. k \in 1 .. w * n
  BY DEF JobCount
<1> HIDE DEF n, w
<1>3. w * n \in Nat
  BY <1>1
<1>4. k - 1 \in Nat /\ k - 1 < w * n
  BY <1>2, <1>3
<1>5. PICK q \in Nat, r \in 0 .. n - 1 :
        q = (k - 1) \div n /\ r = (k - 1) % n /\ k - 1 = q * n + r
  BY <1>4, <1>1, DivisionOf
<1>6. q < w
  <2>1. q * n < w * n
    BY <1>4, <1>5, <1>1
  <2>2. ~(w <= q)
    <3> SUFFICES ASSUME w <= q PROVE FALSE
      OBVIOUS
    <3>1. PICK d \in Nat : q = w + d
      BY <1>1
    <3>2. (w + d) * n = w * n + d * n /\ d * n \in Nat /\ w * n \in Nat
      BY <1>1
    <3>3. QED BY <2>1, <3>1, <3>2
  <2>3. QED BY <2>2, <1>1
<1>7. r + 1 \in 1 .. n /\ q + 1 \in 1 .. w /\ r \in Nat
  BY <1>6, <1>1
<1>8. /\ ((k - 1) % n) + 1 \in 1 .. n /\ ((k - 1) \div n) + 1 \in 1 .. w
      /\ (k - 1) % n \in Nat /\ (k - 1) \div n \in Nat
      /\ k - 1 = ((k - 1) \div n) * n + ((k - 1) % n)
  BY <1>5, <1>7
<1>9. QED BY <1>1, <1>8 DEF n

LEMMA JobsIn ==
  ASSUME batch \in Seq(Queries)
  PROVE  /\ JobCount \in Nat
         /\ \A k \in 1 .. JobCount : JobSource(k) \in SourceSet /\ JobQuery(k) \in Queries
<1>1. JobCount \in Nat
  BY SourceFacts DEF JobCount
<1>2. ASSUME NEW k \in 1 .. JobCount
      PROVE  JobSource(k) \in SourceSet /\ JobQuery(k) \in Queries
  <2>1. PICK i \in DOMAIN Sources, j \in DOMAIN batch :
          i = ((k - 1) % Len(Sources)) + 1 /\ j = ((k - 1) \div Len(Sources)) + 1
    BY JobPlaces
  <2>2. Sources[i] \in SourceSet /\ batch[j] \in Queries
    BY DEF SourceSet
  <2>3. QED BY <2>1, <2>2 DEF JobSource, JobQuery
<1>3. QED BY <1>1, <1>2

LEMMA JobsApart ==
  ASSUME batch \in Seq(Queries), NoneTwice(batch),
         NEW j \in 1 .. JobCount, NEW k \in 1 .. JobCount,
         JobSource(j) = JobSource(k), JobQuery(j) = JobQuery(k)
  PROVE  j = k
<1> DEFINE row(i) == (i - 1) \div Len(Sources)
           col(i) == (i - 1) % Len(Sources)
<1>1. \A i \in 1 .. JobCount : /\ col(i) + 1 \in DOMAIN Sources /\ row(i) + 1 \in DOMAIN batch
                               /\ col(i) \in Nat /\ row(i) \in Nat
                               /\ i - 1 = row(i) * Len(Sources) + col(i)
  BY JobPlaces
<1>2. Sources[col(j) + 1] = Sources[col(k) + 1] /\ batch[row(j) + 1] = batch[row(k) + 1]
  BY DEF JobSource, JobQuery
<1> HIDE DEF row, col
<1>3. col(j) + 1 = col(k) + 1
  BY <1>1, <1>2, DiscoveryAssumption
<1>4. row(j) + 1 = row(k) + 1
  BY <1>1, <1>2 DEF NoneTwice
<1>5. col(j) = col(k) /\ row(j) = row(k)
  <2>1. col(j) \in Nat /\ row(j) \in Nat /\ col(k) \in Nat /\ row(k) \in Nat
    BY <1>1
  <2>2. QED BY <2>1, <1>3, <1>4
<1>6. j - 1 = k - 1
  BY <1>1, <1>5
<1>7. j \in Int /\ k \in Int
  BY JobsIn
<1>8. QED BY <1>6, <1>7

-----------------------------------------------------------------------------
(* The type invariant knows in addition that no answer holds a position its *)
(* list does not have.                                                     *)
Ends == {"error", "exhausted", "more"}
Answered ==
  {a \in [source : SourceSet, query : Queries, items : Seq(Nat), end : Ends] :
     a.items \in Seq(1 .. Total[a.source][a.query])}

TypeInv == TypeOK /\ answers \in Seq(Answered)

(* The answer holds the whole of the pages from the cursor to the next one. *)
Covers(a) ==
  Within(a.items, Total[a.source][a.query],
         (StartPage(a.source, a.query) - 1) * PageSize(a.source), AnswerSize(a.source))

LEMMA PrefixIn ==
  ASSUME NEW S, NEW s \in Seq(S), NEW n \in Nat
  PROVE  /\ SubSeq(s, 1, Min({n, Len(s)})) \in Seq(S)
         /\ Len(SubSeq(s, 1, Min({n, Len(s)}))) <= Len(s)
<1>1. PICK m \in Nat : m = Min({n, Len(s)}) /\ m <= Len(s)
  BY MinOf
<1>2. SubSeq(s, 1, m) \in Seq(S) /\ Len(SubSeq(s, 1, m)) = m
  <2>1. m \in Nat /\ m <= Len(s)
    BY <1>1
  <2>2. Len(SubSeq(s, 1, m)) = m
    BY <2>1
  <2>3. SubSeq(s, 1, m) \in Seq(S)
    BY <2>1
  <2>4. QED BY <2>2, <2>3
<1>3. QED BY <1>1, <1>2

LEMMA CutsIn ==
  ASSUME options \in Options, NEW cut \in Cuts, NEW k \in DOMAIN cut
  PROVE  cut[k] \in Nat
<1>1. Limit \in Nat \ {0} /\ Threads \in Nat \ {0}
  BY OptionFacts
<1>2. Max({Limit, Threads}) \in Nat
  <2>1. Max({Limit, Threads}) \in {Limit, Threads}
    BY <1>1, MaxOf
  <2>2. QED BY <2>1, <1>1
<1>3. PICK failed \in SUBSET (1 .. JobCount) : cut \in [failed -> 0 .. Max({Limit, Threads})]
  BY DEF Cuts
<1>4. cut[k] \in 0 .. Max({Limit, Threads})
  BY <1>3
<1>5. QED BY <1>2, <1>4

LEMMA AnswerFacts ==
  ASSUME options \in Options, batch \in Seq(Queries),
         page \in [SourceSet -> [Queries -> Nat \ {0}]],
         NEW cut \in Cuts, NEW k \in 1 .. JobCount
  PROVE  /\ Answer(k, cut) \in Answered
         /\ Answer(k, cut).source = JobSource(k) /\ Answer(k, cut).query = JobQuery(k)
         /\ Len(Answer(k, cut).items) <= AnswerSize(JobSource(k))
         /\ LimitsAreWholePages /\ Answer(k, cut).end = "more" => Covers(Answer(k, cut))
<1>1. PICK s \in SourceSet, q \in Queries : s = JobSource(k) /\ q = JobQuery(k)
  BY JobsIn
<1>2. page[s][q] \in Nat \ {0}
  OBVIOUS
<1>3. PICK start \in Nat \ {0} : start = StartPage(s, q)
  BY <1>2, StartIn
<1>4. PICK total \in Nat : total = Total[s][q]
  BY SourceFacts
<1>5. PICK c : c = Collected(s, q, start)
  OBVIOUS
<1>6. /\ c \in Yield(total) /\ Len(c.items) <= AnswerSize(s)
      /\ LimitsAreWholePages => Within(c.items, total, (start - 1) * PageSize(s), AnswerSize(s))
  <2>1. /\ Collected(s, q, start) \in Yield(Total[s][q])
        /\ Len(Collected(s, q, start).items) <= AnswerSize(s)
        /\ LimitsAreWholePages =>
             Within(Collected(s, q, start).items, Total[s][q], (start - 1) * PageSize(s), AnswerSize(s))
    BY CollectedFacts
  <2>2. QED BY Zenon, <2>1, <1>4, <1>5
<1>7. c.items \in Seq(1 .. total) /\ Len(c.items) \in Nat /\ AnswerSize(s) \in Nat
  BY <1>6, SizesIn DEF Yield
<1>8. PICK a : a = Answer(k, cut)
  OBVIOUS
<1>9. /\ a.source = s /\ a.query = q
      /\ a.items = IF k \in DOMAIN cut THEN SubSeq(c.items, 1, Min({cut[k], Len(c.items)}))
                                       ELSE c.items
      /\ a.end \in Ends /\ (k \in DOMAIN cut => a.end = "error")
      /\ a = [source |-> a.source, query |-> a.query, items |-> a.items, end |-> a.end]
  BY <1>1, <1>3, <1>5, <1>8 DEF Answer, Ends
<1>10. a.items \in Seq(1 .. total) /\ Len(a.items) <= AnswerSize(s)
  <2>1. CASE k \in DOMAIN cut
    <3>1. cut[k] \in Nat
      BY <2>1, CutsIn
    <3>2. PICK t : t = SubSeq(c.items, 1, Min({cut[k], Len(c.items)}))
      OBVIOUS
    <3>3. t \in Seq(1 .. total) /\ Len(t) <= Len(c.items)
      BY <3>1, <3>2, <1>7, PrefixIn
    <3>4. a.items = t /\ Len(t) \in Nat
      <4>1. a.items = SubSeq(c.items, 1, Min({cut[k], Len(c.items)}))
        BY Zenon, <2>1, <1>9
      <4>2. Len(t) \in Nat
        BY <3>3
      <4>3. QED BY <4>1, <4>2, <3>2
    <3>5. QED BY <3>3, <3>4, <1>6, <1>7
  <2>2. CASE k \notin DOMAIN cut
    BY <2>2, <1>6, <1>7, <1>9
  <2>3. QED BY <2>1, <2>2
<1>11. a \in Answered
  <2>1. a.items \in Seq(Nat)
    BY <1>10
  <2>2. a \in [source : SourceSet, query : Queries, items : Seq(Nat), end : Ends]
    BY <2>1, <1>9
  <2>3. a.items \in Seq(1 .. Total[a.source][a.query])
    BY <1>4, <1>9, <1>10
  <2>4. QED BY <2>2, <2>3 DEF Answered
<1>12. ASSUME LimitsAreWholePages, a.end = "more" PROVE Covers(a)
  <2>1. k \notin DOMAIN cut
    BY <1>9, <1>12
  <2>2. a.items = c.items
    BY <2>1, <1>9
  <2>3. QED BY Zenon, <2>2, <1>3, <1>4, <1>6, <1>9, <1>12 DEF Covers
<1>13. QED BY Zenon, <1>1, <1>8, <1>9, <1>10, <1>11, <1>12

LEMMA HeadAndTail ==
  ASSUME NEW S, NEW s \in Seq(S), s # << >>
  PROVE  /\ Head(s) \in S /\ Tail(s) \in Seq(S)
         /\ Len(s) \in Nat \ {0} /\ Head(s) = s[1] /\ 1 \in DOMAIN s
         /\ Len(Tail(s)) = Len(s) - 1 /\ DOMAIN Tail(s) = 1 .. Len(s) - 1
         /\ \A k \in DOMAIN Tail(s) : k + 1 \in DOMAIN s /\ Tail(s)[k] = s[k + 1]
OBVIOUS

LEMMA WiderSeq ==
  ASSUME NEW S, NEW T, S \subseteq T, NEW s \in Seq(S)
  PROVE  s \in Seq(T) /\ DOMAIN s = 1 .. Len(s) /\ Len(s) \in Nat
         /\ \A k \in DOMAIN s : s[k] \in S
<1>1. Len(s) \in Nat /\ DOMAIN s = 1 .. Len(s) /\ \A k \in 1 .. Len(s) : s[k] \in S
  OBVIOUS
<1>2. s \in [1 .. Len(s) -> T]
  <2>1. \A k \in 1 .. Len(s) : s[k] \in T
    BY <1>1
  <2>2. s = [k \in 1 .. Len(s) |-> s[k]]
    BY <1>1
  <2>3. QED BY <2>1, <2>2
<1>3. QED BY <1>1, <1>2

LEMMA TypeInit == Init => TypeInv
<1> SUFFICES ASSUME Init PROVE TypeInv
  OBVIOUS
<1>1. MaxCrashes \in Nat /\ MaxChanges \in Nat /\ 0 \in Queries
  BY DiscoveryAssumption, SourceFacts DEF Queries
<1>2. page \in [SourceSet -> [Queries -> Nat \ {0}]]
  BY DEF Init
<1>3. answers \in Seq(Answered) /\ batch \in Seq(Queries) /\ hand \in Seq(Results)
      /\ DOMAIN answers = {}
  BY DEF Init
<1>4. QED BY <1>1, <1>2, <1>3 DEF Init, TypeInv, TypeOK

(* The answers are as TypeOK has them. *)
LEMMA AnswersTyped ==
  ASSUME NEW s \in Seq(Answered)
  PROVE  \A k \in DOMAIN s :
           /\ s[k].source \in SourceSet /\ s[k].query \in Queries
           /\ s[k].items \in Seq(1 .. SearchCap)
           /\ s[k].end \in {"error", "exhausted", "more"}
<1> SUFFICES ASSUME NEW k \in DOMAIN s
             PROVE  /\ s[k].source \in SourceSet /\ s[k].query \in Queries
                    /\ s[k].items \in Seq(1 .. SearchCap)
                    /\ s[k].end \in {"error", "exhausted", "more"}
  OBVIOUS
<1>1. PICK a \in Answered : a = s[k]
  OBVIOUS
<1>2. /\ a.source \in SourceSet /\ a.query \in Queries /\ a.end \in Ends
      /\ a.items \in Seq(1 .. Total[a.source][a.query])
  BY DEF Answered
<1>3. PICK total \in Nat : total = Total[a.source][a.query] /\ total <= SearchCap
  BY <1>2, SourceFacts
<1>4. SearchCap \in Nat
  BY DiscoveryAssumption
<1>5. a.items \in Seq(1 .. total) /\ 1 .. total \subseteq 1 .. SearchCap
  BY <1>2, <1>3, <1>4
<1>6. a.items \in Seq(1 .. SearchCap)
  BY <1>5, WiderSeq
<1>7. QED BY <1>1, <1>2, <1>6 DEF Ends

LEMMA TypeFacts ==
  ASSUME TypeInv
  PROVE  /\ options \in Options /\ query \in Queries /\ batch \in Seq(Queries)
         /\ page \in [SourceSet -> [Queries -> Nat \ {0}]]
         /\ answers \in Seq(Answered) /\ hand \in Seq(Results) /\ claimed \subseteq Results
         /\ crashes \in Nat
         /\ \A s \in SourceSet, q \in Queries : page[s][q] \in Nat \ {0}
<1>1. MaxCrashes \in Nat
  BY DiscoveryAssumption
<1>2. QED BY <1>1 DEF TypeInv, TypeOK

(* The cursor after an answer is a page. *)
LEMMA NextPageIn ==
  ASSUME options \in Options, NEW s \in SourceSet, NEW q, page[s][q] \in Nat \ {0}
  PROVE  NextPage(s, q) \in Nat \ {0} /\ NextPage(s, q) - 1 <= StartPage(s, q) - 1 + PageStep(s)
<1>1. StartPage(s, q) \in Nat \ {0} /\ PageStep(s) \in Nat /\ PageLimit(s) \in Nat \ {0}
  BY StartIn, SizesIn, PageLimitIn
<1>2. PICK n \in Nat : n = StartPage(s, q) - 1 + PageStep(s)
  BY <1>1
<1>3. n % PageLimit(s) \in Nat /\ n % PageLimit(s) <= n
  <2>1. n % PageLimit(s) \in 0 .. PageLimit(s) - 1 /\ n % PageLimit(s) <= n
    BY <1>1, DivisionOf
  <2>2. QED BY <2>1, <1>1
<1>4. NextPage(s, q) = (n % PageLimit(s)) + 1
  BY <1>2 DEF NextPage
<1>5. QED BY <1>2, <1>3, <1>4

LEMMA CursorAfterIn ==
  ASSUME TypeInv, NEW a \in Answered
  PROVE  /\ a.source \in SourceSet /\ a.query \in Queries
         /\ CursorAfter(a) \in Nat \ {0}
         /\ a.end = "error" => CursorAfter(a) = page[a.source][a.query]
         /\ a.end = "exhausted" => CursorAfter(a) = 1
         /\ a.end = "more" => CursorAfter(a) = NextPage(a.source, a.query)
<1>1. a.source \in SourceSet /\ a.query \in Queries /\ a.end \in Ends
  BY DEF Answered
<1>2. page[a.source][a.query] \in Nat \ {0} /\ NextPage(a.source, a.query) \in Nat \ {0}
  BY <1>1, TypeFacts, NextPageIn
<1>3. /\ a.end = "error" => CursorAfter(a) = page[a.source][a.query]
      /\ a.end = "exhausted" => CursorAfter(a) = 1
      /\ a.end = "more" => CursorAfter(a) = NextPage(a.source, a.query)
  BY DEF CursorAfter
<1>4. QED BY <1>1, <1>2, <1>3 DEF Ends

LEMMA MoveCursorFacts ==
  ASSUME TypeInv, MoveCursor
  PROVE  /\ Head(answers) \in Answered
         /\ page' \in [SourceSet -> [Queries -> Nat \ {0}]]
         /\ \A s \in SourceSet, q \in Queries :
              page'[s][q] = IF s = Head(answers).source /\ q = Head(answers).query
                            THEN CursorAfter(Head(answers)) ELSE page[s][q]
         /\ hand' \in Seq(Results) /\ Len(hand') = Len(Head(answers).items)
         /\ \A k \in DOMAIN hand' :
              hand'[k] = [source |-> Head(answers).source, query |-> Head(answers).query,
                          pos |-> Head(answers).items[k]]
         /\ DOMAIN hand' = DOMAIN Head(answers).items
<1>1. answers \in Seq(Answered) /\ answers # << >>
  BY TypeFacts DEF MoveCursor
<1>2. PICK a \in Answered : a = Head(answers)
  BY <1>1, HeadAndTail
<1>3. /\ page' = [page EXCEPT ![a.source][a.query] = CursorAfter(a)]
      /\ hand' = [k \in DOMAIN a.items |->
                    [source |-> a.source, query |-> a.query, pos |-> a.items[k]]]
  BY <1>2 DEF MoveCursor
<1>4. a.source \in SourceSet /\ a.query \in Queries /\ CursorAfter(a) \in Nat \ {0}
  BY CursorAfterIn
<1>5. page \in [SourceSet -> [Queries -> Nat \ {0}]]
  BY TypeFacts
<1>6. PICK t \in Seq(1 .. SearchCap) : t = a.items /\ \A k \in DOMAIN t : t[k] <= Total[a.source][a.query]
  <2>1. PICK total \in Nat : total = Total[a.source][a.query] /\ total <= SearchCap
    BY <1>4, SourceFacts
  <2>2. a.items \in Seq(1 .. total)
    BY <2>1 DEF Answered
  <2>3. SearchCap \in Nat
    BY DiscoveryAssumption
  <2>4. 1 .. total \subseteq 1 .. SearchCap
    BY <2>1, <2>3
  <2>5. /\ a.items \in Seq(1 .. SearchCap)
        /\ \A k \in DOMAIN a.items : a.items[k] \in 1 .. total
    BY <2>2, <2>4, WiderSeq
  <2>6. QED BY <2>1, <2>5
<1>7. DOMAIN t = 1 .. Len(t) /\ Len(t) \in Nat /\ \A k \in DOMAIN t : t[k] \in 1 .. SearchCap
  BY WiderSeq
<1>8. \A k \in 1 .. Len(t) : [source |-> a.source, query |-> a.query, pos |-> t[k]] \in Results
  <2> SUFFICES ASSUME NEW k \in 1 .. Len(t)
               PROVE  [source |-> a.source, query |-> a.query, pos |-> t[k]] \in Results
    OBVIOUS
  <2>1. t[k] \in 1 .. SearchCap /\ t[k] <= Total[a.source][a.query]
    <3>1. k \in DOMAIN t
      BY <1>7
    <3>2. t[k] <= Total[a.source][a.query]
      BY Zenon, <3>1, <1>6
    <3>3. t[k] \in 1 .. SearchCap
      BY <3>1, <1>7
    <3>4. QED BY <3>2, <3>3
  <2>2. QED BY <2>1, <1>4 DEF Results
<1>9. /\ hand' \in Seq(Results) /\ Len(hand') = Len(t) /\ DOMAIN hand' = DOMAIN t
      /\ \A k \in DOMAIN hand' : hand'[k] = [source |-> a.source, query |-> a.query, pos |-> t[k]]
  <2>1. hand' = [k \in 1 .. Len(t) |-> [source |-> a.source, query |-> a.query, pos |-> t[k]]]
    BY <1>3, <1>6, <1>7
  <2>2. hand' \in [1 .. Len(t) -> Results]
    BY <2>1, <1>8
  <2>3. QED BY <2>1, <2>2, <1>7
<1>10. /\ page' \in [SourceSet -> [Queries -> Nat \ {0}]]
       /\ \A s \in SourceSet, q \in Queries :
            page'[s][q] = IF s = a.source /\ q = a.query THEN CursorAfter(a) ELSE page[s][q]
  BY <1>3, <1>4, <1>5
<1>11. QED BY <1>2, <1>6, <1>9, <1>10

LEMMA GatherFacts ==
  ASSUME TypeInv, NEW cut \in Cuts, GatherWith(cut)
  PROVE  /\ answers' \in Seq(Answered) /\ DOMAIN answers' = 1 .. JobCount
         /\ \A k \in 1 .. JobCount : answers'[k] = Answer(k, cut)
<1>1. /\ options \in Options /\ batch \in Seq(Queries)
      /\ page \in [SourceSet -> [Queries -> Nat \ {0}]]
  BY TypeFacts
<1>2. JobCount \in Nat
  BY <1>1, JobsIn
<1>3. \A k \in 1 .. JobCount : Answer(k, cut) \in Answered
  BY <1>1, AnswerFacts
<1>4. answers' = [k \in 1 .. JobCount |-> Answer(k, cut)]
  BY DEF GatherWith
<1>5. answers' \in [1 .. JobCount -> Answered]
  BY <1>3, <1>4
<1>6. QED BY <1>2, <1>4, <1>5

(* The type invariant in one piece. *)
LEMMA TypeIs ==
  TypeInv <=>
    /\ options \in Options /\ query \in Queries /\ batch \in Seq(Queries)
    /\ page \in [SourceSet -> [Queries -> Nat \ {0}]]
    /\ answers \in Seq(Answered) /\ hand \in Seq(Results) /\ claimed \subseteq Results
    /\ dpc \in {"idle", "gather", "ingest"}
    /\ crashes \in 0 .. MaxCrashes /\ changes \in 0 .. MaxChanges
BY AnswersTyped DEF TypeInv, TypeOK

LEMMA TypeStep == TypeInv /\ [Next]_vars => TypeInv'
<1> DEFINE Fine ==
             /\ options \in Options /\ query \in Queries /\ batch \in Seq(Queries)
             /\ page \in [SourceSet -> [Queries -> Nat \ {0}]]
             /\ answers \in Seq(Answered) /\ hand \in Seq(Results) /\ claimed \subseteq Results
             /\ dpc \in {"idle", "gather", "ingest"}
             /\ crashes \in 0 .. MaxCrashes /\ changes \in 0 .. MaxChanges
<1> SUFFICES ASSUME TypeInv, [Next]_vars PROVE Fine'
  BY TypeIs, PTL
<1>0. Fine /\ MaxCrashes \in Nat /\ MaxChanges \in Nat
  BY TypeIs, DiscoveryAssumption
<1>1. CASE TakeQueryBatch
  <2>1. batch' \in Seq(Queries) /\ query' \in Queries
    BY <1>0, <1>1, BatchFacts
  <2>2. QED BY <1>0, <1>1, <2>1 DEF TakeQueryBatch
<1>2. CASE Gather
  <2>1. PICK cut \in Cuts : GatherWith(cut)
    BY <1>2 DEF Gather
  <2>2. answers' \in Seq(Answered)
    BY <2>1, GatherFacts
  <2>3. QED BY <1>0, <2>1, <2>2 DEF GatherWith
<1>3. CASE MoveCursor
  <2>1. page' \in [SourceSet -> [Queries -> Nat \ {0}]] /\ hand' \in Seq(Results)
    BY <1>3, MoveCursorFacts
  <2>2. answers' \in Seq(Answered)
    BY <1>0, <1>3, HeadAndTail DEF MoveCursor
  <2>3. QED BY <1>0, <1>3, <2>1, <2>2 DEF MoveCursor
<1>4. CASE ClaimNext
  <2>1. Head(hand) \in Results /\ Tail(hand) \in Seq(Results)
    BY <1>0, <1>4, HeadAndTail DEF ClaimNext
  <2>2. QED BY <1>0, <1>4, <2>1 DEF ClaimNext
<1>5. CASE EndCampaign
  BY <1>0, <1>5 DEF EndCampaign
<1>6. CASE Crash
  BY <1>0, <1>6 DEF Crash
<1>7. CASE Restart
  BY <1>0, <1>7 DEF Restart
<1>8. CASE UNCHANGED vars
  <2>1. /\ options' = options /\ query' = query /\ page' = page /\ claimed' = claimed
        /\ dpc' = dpc /\ batch' = batch /\ answers' = answers /\ hand' = hand
        /\ crashes' = crashes /\ changes' = changes
    BY <1>8 DEF vars
  <2>2. QED BY <1>0, <2>1
<1>9. QED BY <1>1, <1>2, <1>3, <1>4, <1>5, <1>6, <1>7, <1>8 DEF Next, Work

(* Every cursor is a page, every query of a batch one of the file's, and every
   result at hand or claimed one that its source has. *)
THEOREM CursorsAreTyped == Spec => []TypeOK
<1>1. TypeInv => TypeOK
  BY DEF TypeInv
<1>2. QED BY <1>1, TypeInit, TypeStep, PTL DEF Spec

-----------------------------------------------------------------------------
(* What bounds the results passed over.                                    *)

Largest == Max({AnswerSize(s) : s \in SourceSet})
Skipped == Behind \ (claimed \cup InHand)

(* No two answers are for one source and query. *)
OneEach ==
  \A j, k \in DOMAIN answers :
    answers[j].source = answers[k].source /\ answers[j].query = answers[k].query => j = k

(* An answer fits, and one that will move its cursor covers what the cursor
   will pass. *)
Fits(a) == Len(a.items) <= AnswerSize(a.source) /\ (a.end = "more" => Covers(a))

(* What the invariant counts while the options have not changed. *)
Counted ==
  /\ \A k \in DOMAIN answers : Fits(answers[k])
  /\ Len(hand) <= Largest
  /\ Cardinality(Skipped) <= crashes * Largest

SkipInv ==
  /\ TypeInv /\ OneEach
  /\ dpc = "gather" => NoneTwice(batch)
  /\ changes = 0 => Counted

LEMMA LargestIn ==
  ASSUME options \in Options
  PROVE  Largest \in Nat /\ \A s \in SourceSet : AnswerSize(s) <= Largest
<1> DEFINE T == {AnswerSize(s) : s \in SourceSet}
<1>1. /\ Limit \in Nat /\ Threads \in Nat /\ Limit \in Int /\ Threads \in Int
  BY OptionFacts
<1>2. T \subseteq {Limit, Threads} /\ T # {}
  <2>1. \A s \in SourceSet : AnswerSize(s) \in {Limit, Threads}
    BY SizesIn
  <2>2. QED BY <2>1, SourceFacts
<1> HIDE DEF T
<1>3. Max(T) \in T /\ \A x \in T : x <= Max(T)
  BY <1>1, <1>2, MaxOf
<1>4. Max(T) \in Nat
  BY <1>1, <1>2, <1>3
<1>5. \A s \in SourceSet : AnswerSize(s) \in T
  BY DEF T
<1>6. QED BY <1>3, <1>4, <1>5 DEF Largest, T

LEMMA ResultsFinite == IsFiniteSet(Results)
<1> DEFINE W == SourceSet \X (Queries \X (1 .. SearchCap))
           at(w) == [source |-> w[1], query |-> w[2][1], pos |-> w[2][2]]
           U == {at(w) : w \in W}
<1>1. IsFiniteSet(SourceSet)
  <2>1. IsFiniteSet(1 .. Len(Sources))
    BY SourceFacts, FS_Interval
  <2>2. Sources \in Surjection(1 .. Len(Sources), SourceSet)
    <3>1. Sources \in [1 .. Len(Sources) -> SourceSet]
      BY SourceFacts, DiscoveryAssumption DEF SourceSet
    <3>2. \A s \in SourceSet : \E k \in 1 .. Len(Sources) : Sources[k] = s
      BY SourceFacts DEF SourceSet
    <3>3. QED BY <3>1, <3>2 DEF Surjection
  <2>3. QED BY <2>1, <2>2, FS_Surjection
<1>2. IsFiniteSet(Queries) /\ IsFiniteSet(1 .. SearchCap)
  <2>1. NumQueries - 1 \in Int /\ SearchCap \in Int /\ 0 \in Int /\ 1 \in Int
    BY SourceFacts, DiscoveryAssumption
  <2>2. QED BY <2>1, FS_Interval DEF Queries
<1>3. IsFiniteSet(Queries \X (1 .. SearchCap))
  BY <1>2, FS_Product
<1>4. IsFiniteSet(W)
  BY <1>1, <1>3, FS_Product
<1>5. IsFiniteSet(U)
  <2>1. [w \in W |-> at(w)] \in Surjection(W, U)
    BY DEF Surjection
  <2>2. QED BY <2>1, <1>4, FS_Surjection
<1>6. Results \subseteq U
  <2> SUFFICES ASSUME NEW r \in Results PROVE r \in U
    OBVIOUS
  <2>1. r \in [source : SourceSet, query : Queries, pos : 1 .. SearchCap]
    BY DEF Results
  <2>2. PICK w \in W : w = <<r.source, <<r.query, r.pos>>>>
    BY <2>1
  <2>3. at(w) = r
    BY <2>1, <2>2
  <2>4. QED BY <2>3
<1>7. QED BY <1>5, <1>6, FS_Subset

LEMMA HandSize ==
  ASSUME NEW S, NEW s \in Seq(S)
  PROVE  /\ IsFiniteSet({s[k] : k \in DOMAIN s})
         /\ Cardinality({s[k] : k \in DOMAIN s}) <= Len(s)
<1> DEFINE T == {s[k] : k \in DOMAIN s}
<1>1. Len(s) \in Nat /\ DOMAIN s = 1 .. Len(s)
  OBVIOUS
<1>2. IsFiniteSet(1 .. Len(s)) /\ Cardinality(1 .. Len(s)) = Len(s)
  <2>1. Cardinality(1 .. Len(s)) = IF 1 > Len(s) THEN 0 ELSE Len(s) - 1 + 1
    BY <1>1, FS_Interval
  <2>2. IsFiniteSet(1 .. Len(s))
    BY <1>1, FS_Interval
  <2>3. QED BY <1>1, <2>1, <2>2
<1>3. s \in Surjection(1 .. Len(s), T)
  <2>1. s \in [1 .. Len(s) -> T]
    BY <1>1
  <2>2. QED BY <1>1, <2>1 DEF Surjection
<1>4. IsFiniteSet(T) /\ Cardinality(T) <= Cardinality(1 .. Len(s))
  BY <1>2, <1>3, FS_Surjection
<1>5. QED BY <1>2, <1>4

(* What fits goes on to fit, unless its own cursor moves. *)
LEMMA FitsStay ==
  ASSUME TypeInv, options' = options, NEW k \in DOMAIN answers',
         answers'[k] \in Answered, Fits(answers'[k]),
         page'[answers'[k].source][answers'[k].query] = page[answers'[k].source][answers'[k].query]
  PROVE  Fits(answers[k])'
<1>1. PICK a : a = answers'[k]
  OBVIOUS
<1>2. Fits(a) /\ page'[a.source][a.query] = page[a.source][a.query]
  BY <1>1
<1>3. /\ StartPage(a.source, a.query)' = StartPage(a.source, a.query)
      /\ PageSize(a.source)' = PageSize(a.source) /\ AnswerSize(a.source)' = AnswerSize(a.source)
  BY <1>2 DEF StartPage, PageSize, AnswerSize, PageLimit, Limit, Threads
<1>4. Fits(a)'
  BY Zenon, <1>2, <1>3 DEF Fits, Covers
<1>5. QED BY <1>1, <1>4 DEF Fits, Covers, StartPage, PageSize, AnswerSize, PageLimit, Limit, Threads

LEMMA SameSizes ==
  ASSUME options' = options
  PROVE  /\ Largest' = Largest
         /\ \A s : PageSize(s)' = PageSize(s) /\ AnswerSize(s)' = AnswerSize(s)
BY DEF Largest, PageSize, AnswerSize, Limit, Threads

LEMMA SkippedFinite == IsFiniteSet(Skipped) /\ Cardinality(Skipped) \in Nat
<1>1. Skipped \in SUBSET Results
  BY DEF Skipped, Behind
<1>2. QED BY <1>1, ResultsFinite, FS_Subset, FS_CardinalityType

LEMMA SkipInit == Init => SkipInv
<1> SUFFICES ASSUME Init PROVE SkipInv
  OBVIOUS
<1>1. TypeInv
  BY TypeInit
<1>2. /\ options \in Options /\ crashes = 0 /\ answers = << >> /\ hand = << >> /\ dpc = "idle"
      /\ \A s \in SourceSet, q \in Queries : page[s][q] = 1
  BY DEF Init
<1>3. DOMAIN answers = {} /\ Len(hand) = 0
  BY <1>2
<1>4. Behind = {}
  <2> SUFFICES ASSUME NEW r \in Behind PROVE FALSE
    OBVIOUS
  <2>1. r \in Results /\ r.pos <= (page[r.source][r.query] - 1) * PageSize(r.source)
    BY DEF Behind
  <2>2. r.source \in SourceSet /\ r.query \in Queries /\ r.pos \in Nat \ {0}
    BY <2>1 DEF Results
  <2>3. PageSize(r.source) \in Nat /\ page[r.source][r.query] = 1
    BY <1>2, <2>2, SizesIn
  <2>4. (1 - 1) * PageSize(r.source) = 0
    BY <2>3
  <2>5. r.pos <= 0
    BY <2>1, <2>3, <2>4
  <2>6. QED BY <2>2, <2>5
<1>5. Skipped = {} /\ Cardinality(Skipped) = 0
  BY <1>4, FS_EmptySet DEF Skipped
<1>6. Largest \in Nat /\ 0 * Largest = 0
  BY <1>2, LargestIn
<1>7. QED BY <1>1, <1>2, <1>3, <1>5, <1>6 DEF SkipInv, OneEach, Counted

(* What the cursor of an answer passes has been passed before or is at hand. *)
LEMMA CursorPasses ==
  ASSUME LimitsAreWholePages, TypeInv, MoveCursor, Fits(Head(answers))
  PROVE  Skipped' \subseteq Skipped
<1>1. answers \in Seq(Answered) /\ answers # << >> /\ options' = options /\ claimed' = claimed
      /\ hand = << >> /\ options \in Options
  BY TypeFacts DEF MoveCursor
<1>2. PICK a \in Answered : a = Head(answers)
  BY <1>1, HeadAndTail
<1>3. /\ \A s \in SourceSet, q \in Queries :
           page'[s][q] = IF s = a.source /\ q = a.query THEN CursorAfter(a) ELSE page[s][q]
      /\ DOMAIN hand' = DOMAIN a.items
      /\ \A k \in DOMAIN hand' :
           hand'[k] = [source |-> a.source, query |-> a.query, pos |-> a.items[k]]
  BY <1>2, MoveCursorFacts
<1>4. InHand = {}
  <2>1. DOMAIN hand = {}
    BY <1>1
  <2>2. QED BY <2>1 DEF InHand
<1>5. ASSUME NEW r \in Skipped' PROVE r \in Skipped
  <2>1. /\ r \in Results /\ r.pos <= (page'[r.source][r.query] - 1) * PageSize(r.source)
        /\ r \notin claimed /\ r \notin InHand'
    <3>1. r \in Behind' /\ r \notin claimed' /\ r \notin InHand'
      BY DEF Skipped
    <3>2. PageSize(r.source)' = PageSize(r.source)
      BY <1>1 DEF PageSize, Limit, Threads
    <3>3. r \in Results /\ r.pos <= (page'[r.source][r.query] - 1) * PageSize(r.source)'
      BY <3>1 DEF Behind
    <3>4. QED BY Zenon, <1>1, <3>1, <3>2, <3>3
  <2>2. PICK s \in SourceSet, q \in Queries, x \in 1 .. Total[r.source][r.query] :
          s = r.source /\ q = r.query /\ x = r.pos
    <3>1. r.source \in SourceSet /\ r.query \in Queries /\ r.pos \in 1 .. SearchCap
          /\ r.pos <= Total[r.source][r.query]
      BY <2>1 DEF Results
    <3>2. Total[r.source][r.query] \in Nat
      BY <3>1, SourceFacts
    <3>3. r.pos \in 1 .. Total[r.source][r.query]
      BY <3>1, <3>2
    <3>4. QED BY <3>1, <3>3
  <2>3. /\ PageSize(s) \in Nat \ {0} /\ AnswerSize(s) \in Nat
        /\ PageStep(s) \in Nat /\ PageStep(s) * PageSize(s) = AnswerSize(s)
        /\ page[s][q] \in Nat \ {0}
        /\ StartPage(s, q) \in Nat \ {0} /\ StartPage(s, q) <= page[s][q]
        /\ NextPage(s, q) \in Nat \ {0} /\ NextPage(s, q) - 1 <= StartPage(s, q) - 1 + PageStep(s)
        /\ Total[s][q] \in Nat
    <3>1. page[s][q] \in Nat \ {0}
      BY TypeFacts
    <3>2. StartPage(s, q) \in Nat \ {0} /\ StartPage(s, q) <= page[s][q]
      BY <1>1, <3>1, StartIn
    <3>3. NextPage(s, q) \in Nat \ {0} /\ NextPage(s, q) - 1 <= StartPage(s, q) - 1 + PageStep(s)
      BY <1>1, <3>1, NextPageIn
    <3>4. /\ PageSize(s) \in Nat \ {0} /\ AnswerSize(s) \in Nat
          /\ PageStep(s) \in Nat /\ PageStep(s) * PageSize(s) = AnswerSize(s)
      BY <1>1, SizesIn
    <3>5. QED BY <3>1, <3>2, <3>3, <3>4, SourceFacts
  <2>4. x \in Nat \ {0}
    BY <2>2, <2>3
  <2>5. SUFFICES x <= (page[s][q] - 1) * PageSize(s)
    BY <1>4, <2>1, <2>2 DEF Skipped, Behind
  <2>6. CASE ~(s = a.source /\ q = a.query)
    <3>1. page'[s][q] = page[s][q]
      BY <1>3, <2>6
    <3>2. QED BY <3>1, <2>1, <2>2
  <2>7. CASE s = a.source /\ q = a.query
    <3>1. page'[s][q] = CursorAfter(a)
      BY <1>3, <2>7
    <3>2. x <= (CursorAfter(a) - 1) * PageSize(s)
      BY Zenon, <3>1, <2>1, <2>2
    <3>3. CASE a.end = "error"
      <4>1. CursorAfter(a) = page[s][q]
        BY <3>3, <2>7 DEF CursorAfter
      <4>2. QED BY Zenon, <4>1, <3>2
    <3>4. CASE a.end = "exhausted"
      <4>1. CursorAfter(a) = 1
        BY <3>4 DEF CursorAfter
      <4>2. (1 - 1) * PageSize(s) = 0
        BY <2>3
      <4>3. QED BY <4>1, <4>2, <3>2, <2>4
    <3>5. CASE a.end = "more"
      <4>1. CursorAfter(a) = NextPage(s, q)
        BY <3>5, <2>7 DEF CursorAfter
      <4>2. PICK before \in Nat : before = (StartPage(s, q) - 1) * PageSize(s)
        BY <2>3
      <4>3. x <= before + AnswerSize(s)
        <5>0. PICK st, nx, step \in Nat :
                st = StartPage(s, q) - 1 /\ nx = NextPage(s, q) - 1 /\ step = PageStep(s)
          <6>1. PICK u, v \in Nat \ {0} : u = StartPage(s, q) /\ v = NextPage(s, q)
            BY <2>3
          <6>2. u - 1 \in Nat /\ v - 1 \in Nat
            BY ONLY u \in Nat \ {0}, v \in Nat \ {0}
          <6>3. QED BY <6>1, <6>2, <2>3
        <5>9. nx <= st + step
          BY <5>0, <2>3
        <5>8. st + step - nx \in Nat /\ st + step = nx + (st + step - nx)
          BY ONLY <5>9, st \in Nat, nx \in Nat, step \in Nat
        <5>1. PICK d \in Nat : StartPage(s, q) - 1 + PageStep(s) = (NextPage(s, q) - 1) + d
          BY ONLY <5>0, <5>8
        <5>2. (StartPage(s, q) - 1 + PageStep(s)) * PageSize(s)
                = (NextPage(s, q) - 1) * PageSize(s) + d * PageSize(s)
          BY <5>1, <2>3
        <5>3. (StartPage(s, q) - 1 + PageStep(s)) * PageSize(s) = before + AnswerSize(s)
          BY <4>2, <2>3
        <5>4. d * PageSize(s) \in Nat /\ (NextPage(s, q) - 1) * PageSize(s) \in Int
          BY <2>3
        <5>5. x <= (NextPage(s, q) - 1) * PageSize(s)
          BY Zenon, <3>2, <4>1
        <5>6. QED BY <5>2, <5>3, <5>4, <5>5, <2>4
      <4>4. ~(x > before)
        <5> SUFFICES ASSUME x > before PROVE FALSE
          OBVIOUS
        <5>1. Within(a.items, Total[s][q], before, AnswerSize(s))
          BY Zenon, <1>2, <2>7, <3>5, <4>2 DEF Fits, Covers
        <5>2. PICK i \in 1 .. Len(a.items) : a.items[i] = x
          BY <5>1, <4>3, <2>2 DEF Within
        <5>3. i \in DOMAIN hand'
          <6>1. a.items \in Seq(Nat)
            BY DEF Answered
          <6>2. QED BY <6>1, <1>3
        <5>4. hand'[i] = [source |-> s, query |-> q, pos |-> x]
          BY <5>2, <5>3, <1>3, <2>7
        <5>5. r = [source |-> s, query |-> q, pos |-> x]
          BY <2>1, <2>2 DEF Results
        <5>6. r \in InHand'
          BY <5>3, <5>4, <5>5 DEF InHand
        <5>7. QED BY <5>6, <2>1
      <4>5. x <= before
        BY <4>2, <4>4, <2>4
      <4>6. before <= (page[s][q] - 1) * PageSize(s)
        <5>0. PICK st, pg \in Nat : st = StartPage(s, q) /\ pg = page[s][q] /\ st <= pg
          BY <2>3
        <5>8. pg - st \in Nat /\ pg - 1 = (st - 1) + (pg - st)
          BY ONLY <5>0, st \in Nat, pg \in Nat
        <5>1. PICK d \in Nat : page[s][q] - 1 = (StartPage(s, q) - 1) + d
          BY ONLY <5>0, <5>8
        <5>2. (page[s][q] - 1) * PageSize(s) = before + d * PageSize(s) /\ d * PageSize(s) \in Nat
          BY <5>1, <4>2, <2>3
        <5>3. QED BY <5>2, <4>2
      <4>7. (page[s][q] - 1) * PageSize(s) \in Int
        BY <2>3
      <4>8. QED BY <4>5, <4>6, <4>7, <4>2, <2>4
    <3>6. a.end \in {"error", "exhausted", "more"}
      BY DEF Answered, Ends
    <3>7. QED BY <3>3, <3>4, <3>5, <3>6
  <2>8. QED BY <2>6, <2>7
<1>6. QED BY <1>5

(* Without a new page or new options, what is behind the cursors stays. *)
LEMMA BehindStays ==
  ASSUME page' = page, options' = options
  PROVE  Behind' = Behind
<1>1. \A s : PageSize(s)' = PageSize(s)
  BY SameSizes
<1>2. QED BY <1>1 DEF Behind

LEMMA FewerSkipped ==
  ASSUME Skipped' \subseteq Skipped
  PROVE  Cardinality(Skipped') <= Cardinality(Skipped)
BY SkippedFinite, FS_Subset

(* A step that fetches and moves nothing and loses no result at hand. *)
LEMMA QuietStep ==
  ASSUME TypeInv, TypeInv', Counted, page' = page, options' = options, crashes' = crashes,
         answers' = answers, Len(hand') <= Len(hand),
         claimed \cup InHand \subseteq claimed' \cup InHand'
  PROVE  Counted'
<1>1. Skipped' \subseteq Skipped
  BY BehindStays DEF Skipped
<1>2. Cardinality(Skipped') <= Cardinality(Skipped)
  BY <1>1, FewerSkipped
<1>3. Largest' = Largest
  BY SameSizes
<1>4. ASSUME NEW k \in DOMAIN answers' PROVE Fits(answers[k])'
  <2>1. answers'[k] \in Answered /\ Fits(answers'[k])
    <3>1. answers' \in Seq(Answered)
      BY DEF TypeInv
    <3>2. answers'[k] \in Answered
      BY <3>1
    <3>3. QED BY <3>2 DEF Counted
  <2>2. QED BY <2>1, FitsStay
<1>5. /\ Len(hand') \in Nat /\ Len(hand) \in Nat /\ Largest \in Nat
  <2>1. hand \in Seq(Results) /\ hand' \in Seq(Results) /\ options \in Options
    BY DEF TypeInv, TypeOK
  <2>2. QED BY <2>1, LargestIn
<1>6. Len(hand') <= Largest'
  BY <1>3, <1>5 DEF Counted
<1>7. Cardinality(Skipped)' <= (crashes * Largest)'
  <2>1. PICK n \in Int : n = crashes * Largest /\ n = (crashes * Largest)'
    BY <1>3, <1>5, TypeFacts
  <2>2. Cardinality(Skipped) \in Nat /\ Cardinality(Skipped)' \in Nat
    <3>1. Cardinality(Skipped) \in Nat
      BY SkippedFinite
    <3>2. (IsFiniteSet(Skipped) /\ Cardinality(Skipped) \in Nat)'
      BY SkippedFinite, PTL
    <3>3. QED BY <3>1, <3>2
  <2>3. Cardinality(Skipped) <= n
    BY <2>1 DEF Counted
  <2>4. Cardinality(Skipped)' <= n
    BY <1>2, <2>2, <2>3
  <2>5. QED BY <2>1, <2>4
<1>8. QED BY <1>4, <1>6, <1>7 DEF Counted

(* The numbers of the invariant. *)
LEMMA CountsIn ==
  ASSUME TypeInv
  PROVE  /\ Largest \in Nat /\ crashes * Largest \in Nat /\ Cardinality(Skipped) \in Nat
         /\ Cardinality(Skipped') \in Nat
<1>1. Largest \in Nat /\ crashes \in Nat
  BY TypeFacts, LargestIn
<1>2. crashes * Largest \in Nat
  BY <1>1
<1>3. Cardinality(Skipped) \in Nat
  BY SkippedFinite
<1>4. (IsFiniteSet(Skipped) /\ Cardinality(Skipped) \in Nat)'
  BY SkippedFinite, PTL
<1>5. QED BY <1>1, <1>2, <1>3, <1>4

(* The jobs have returned. *)
LEMMA GatherKeeps ==
  ASSUME LimitsAreWholePages, SkipInv, TypeInv', Gather
  PROVE  OneEach' /\ (changes = 0 => Counted')
<1>1. PICK cut \in Cuts : GatherWith(cut)
  BY DEF Gather
<1>2. TypeInv /\ dpc = "gather" /\ NoneTwice(batch)
  BY <1>1 DEF SkipInv, GatherWith
<1>3. /\ answers' \in Seq(Answered) /\ DOMAIN answers' = 1 .. JobCount
      /\ \A k \in 1 .. JobCount : answers'[k] = Answer(k, cut)
  BY <1>1, <1>2, GatherFacts
<1>4. /\ options' = options /\ page' = page /\ crashes' = crashes
      /\ hand' = hand /\ claimed' = claimed /\ changes' = changes
  BY <1>1 DEF GatherWith
<1>5. /\ options \in Options /\ batch \in Seq(Queries)
      /\ page \in [SourceSet -> [Queries -> Nat \ {0}]]
  BY <1>2, TypeFacts
<1>6. \A k \in 1 .. JobCount :
        /\ Answer(k, cut).source = JobSource(k) /\ Answer(k, cut).query = JobQuery(k)
        /\ Fits(Answer(k, cut))
  BY <1>5, AnswerFacts DEF Fits
<1>7. OneEach'
  <2> SUFFICES ASSUME NEW j \in DOMAIN answers', NEW k \in DOMAIN answers',
                      answers'[j].source = answers'[k].source,
                      answers'[j].query = answers'[k].query
               PROVE  j = k
    BY DEF OneEach
  <2>1. j \in 1 .. JobCount /\ k \in 1 .. JobCount
    BY <1>3
  <2>2. JobSource(j) = JobSource(k) /\ JobQuery(j) = JobQuery(k)
    BY <2>1, <1>3, <1>6
  <2>3. QED BY <2>1, <2>2, <1>2, <1>5, JobsApart
<1>8. ASSUME changes = 0 PROVE Counted'
  <2>1. Counted
    BY <1>8 DEF SkipInv
  <2>2. ASSUME NEW k \in DOMAIN answers' PROVE Fits(answers[k])'
    <3>1. answers'[k] \in Answered
      <4>1. answers' \in Seq(Answered)
        BY <1>3
      <4>2. QED BY <4>1
    <3>2. k \in 1 .. JobCount /\ answers'[k] = Answer(k, cut)
      BY <1>3
    <3>3. Fits(answers'[k])
      BY Zenon, <3>2, <1>6
    <3>4. QED BY <3>1, <3>3, <1>2, <1>4, FitsStay
  <2>3. Largest' = Largest
    BY <1>4, SameSizes
  <2>4. Skipped' = Skipped
    BY <1>4, BehindStays DEF Skipped, InHand
  <2>5. Len(hand') <= Largest' /\ Cardinality(Skipped)' <= (crashes * Largest)'
    BY <1>4, <2>1, <2>3, <2>4 DEF Counted
  <2>6. QED BY <2>2, <2>5 DEF Counted
<1>9. QED BY <1>7, <1>8

(* An answer is taken up and its cursor moved. *)
LEMMA MoveKeeps ==
  ASSUME LimitsAreWholePages, SkipInv, TypeInv', MoveCursor
  PROVE  OneEach' /\ (changes = 0 => Counted')
<1>1. TypeInv /\ OneEach
  BY DEF SkipInv
<1>2. /\ answers \in Seq(Answered) /\ answers # << >> /\ answers' = Tail(answers)
      /\ options' = options /\ crashes' = crashes /\ changes' = changes
  BY <1>1, TypeFacts DEF MoveCursor
<1>3. /\ Head(answers) \in Answered /\ Head(answers) = answers[1] /\ 1 \in DOMAIN answers
      /\ answers' \in Seq(Answered) /\ DOMAIN answers' = 1 .. Len(answers) - 1
      /\ \A k \in DOMAIN answers' : k + 1 \in DOMAIN answers /\ answers'[k] = answers[k + 1]
  BY <1>2, HeadAndTail
<1>4. \A k \in DOMAIN answers' : k \in Nat \ {0}
  <2>1. Len(answers) \in Nat
    BY <1>2
  <2>2. QED BY <2>1, <1>3
<1>5. OneEach'
  <2> SUFFICES ASSUME NEW j \in DOMAIN answers', NEW k \in DOMAIN answers',
                      answers'[j].source = answers'[k].source,
                      answers'[j].query = answers'[k].query
               PROVE  j = k
    BY DEF OneEach
  <2>1. /\ j + 1 \in DOMAIN answers /\ k + 1 \in DOMAIN answers
        /\ answers[j + 1].source = answers[k + 1].source
        /\ answers[j + 1].query = answers[k + 1].query
    BY <1>3
  <2>2. j + 1 = k + 1
    BY <2>1, <1>1 DEF OneEach
  <2>3. QED BY <2>2, <1>4
<1>6. ASSUME changes = 0 PROVE Counted'
  <2>1. Counted
    BY <1>6 DEF SkipInv
  <2>2. ASSUME NEW k \in DOMAIN answers' PROVE Fits(answers[k])'
    <3>1. PICK a \in Answered : a = answers'[k] /\ a = answers[k + 1] /\ k + 1 \in DOMAIN answers
      BY <1>3
    <3>2. Fits(a)
      BY <3>1, <2>1 DEF Counted
    <3>3. a.source \in SourceSet /\ a.query \in Queries
      BY DEF Answered
    <3>4. ~(a.source = Head(answers).source /\ a.query = Head(answers).query)
      <4> SUFFICES ASSUME a.source = Head(answers).source, a.query = Head(answers).query
                   PROVE  FALSE
        OBVIOUS
      <4>1. k + 1 = 1
        BY <1>1, <1>3, <3>1 DEF OneEach
      <4>2. QED BY <4>1, <1>4
    <3>5. page'[a.source][a.query] = page[a.source][a.query]
      BY <1>1, <3>3, <3>4, MoveCursorFacts
    <3>6. QED BY <1>1, <1>2, <3>1, <3>2, <3>5, FitsStay
  <2>3. Fits(Head(answers))
    BY <2>1, <1>3 DEF Counted
  <2>4. Cardinality(Skipped') <= Cardinality(Skipped)
    BY <1>1, <2>3, CursorPasses, FewerSkipped
  <2>5. Largest' = Largest /\ Largest \in Nat
    BY <1>1, <1>2, SameSizes, CountsIn
  <2>6. Len(hand') <= Largest
    <3>1. PICK a \in Answered : a = Head(answers)
      BY <1>3
    <3>2. Len(hand') = Len(a.items)
      BY <1>1, <3>1, MoveCursorFacts
    <3>3. Len(a.items) <= AnswerSize(a.source)
      BY <2>3, <3>1 DEF Fits
    <3>4. a.source \in SourceSet /\ Len(a.items) \in Nat
      BY DEF Answered
    <3>5. options \in Options
      BY <1>1, TypeFacts
    <3>6. AnswerSize(a.source) <= Largest /\ AnswerSize(a.source) \in Nat
      BY <3>4, <3>5, LargestIn, SizesIn
    <3>7. QED BY <3>2, <3>3, <3>4, <3>6, <2>5
  <2>7. Cardinality(Skipped') <= crashes * Largest
    <3>1. PICK n \in Nat : n = crashes * Largest
      BY <1>1, CountsIn
    <3>2. Cardinality(Skipped) <= n
      BY <2>1, <3>1 DEF Counted
    <3>3. Cardinality(Skipped) \in Nat /\ Cardinality(Skipped') \in Nat
      BY <1>1, CountsIn
    <3>4. Cardinality(Skipped') <= n
      BY <2>4, <3>2, <3>3
    <3>5. QED BY <3>1, <3>4
  <2>8. QED BY <1>2, <2>2, <2>5, <2>6, <2>7 DEF Counted
<1>7. QED BY <1>5, <1>6

(* A kill loses what is at hand. *)
LEMMA CrashKeeps ==
  ASSUME SkipInv, TypeInv', Crash, changes = 0
  PROVE  Counted'
<1>1. TypeInv /\ Counted
  BY DEF SkipInv
<1>2. /\ page' = page /\ options' = options /\ claimed' = claimed /\ crashes' = crashes + 1
      /\ DOMAIN answers' = {} /\ Len(hand') = 0
  BY DEF Crash
<1>3. /\ hand \in Seq(Results) /\ crashes \in Nat /\ Largest \in Nat /\ Largest' = Largest
      /\ crashes * Largest \in Nat
  BY <1>1, <1>2, TypeFacts, CountsIn, SameSizes
<1>4. IsFiniteSet(InHand) /\ Cardinality(InHand) \in Nat /\ Cardinality(InHand) <= Largest
  <2>1. IsFiniteSet(InHand) /\ Cardinality(InHand) <= Len(hand)
    BY <1>3, HandSize DEF InHand
  <2>2. Cardinality(InHand) \in Nat
    BY <2>1, FS_CardinalityType
  <2>3. Len(hand) <= Largest /\ Len(hand) \in Nat
    BY <1>1, <1>3 DEF Counted
  <2>4. QED BY <1>3, <2>1, <2>2, <2>3
<1>5. Skipped' \subseteq Skipped \cup InHand
  BY <1>2, BehindStays DEF Skipped
<1>6. IsFiniteSet(Skipped) /\ Cardinality(Skipped) \in Nat
  BY SkippedFinite
<1>7. /\ IsFiniteSet(Skipped \cup InHand)
      /\ Cardinality(Skipped \cup InHand)
           = Cardinality(Skipped) + Cardinality(InHand) - Cardinality(Skipped \cap InHand)
  BY <1>4, <1>6, FS_Union
<1>8. Cardinality(Skipped \cap InHand) \in Nat
  <2>1. IsFiniteSet(Skipped \cap InHand)
    BY <1>6, FS_Intersection
  <2>2. QED BY <2>1, FS_CardinalityType
<1>9. Cardinality(Skipped') <= Cardinality(Skipped \cup InHand)
  BY <1>5, <1>7, FS_Subset
<1>10. Cardinality(Skipped') \in Nat
  BY <1>1, CountsIn
<1>11. Cardinality(Skipped') <= Cardinality(Skipped) + Largest
  <2>1. PICK a \in Nat, b \in Nat, c \in Nat, d \in Nat :
          /\ a = Cardinality(Skipped) /\ b = Cardinality(InHand)
          /\ c = Cardinality(Skipped \cap InHand) /\ d = Cardinality(Skipped')
    BY <1>4, <1>6, <1>8, <1>10
  <2>2. d <= a + b - c /\ b <= Largest
    BY <2>1, <1>4, <1>7, <1>9
  <2>3. QED BY <2>1, <2>2, <1>3
<1>12. Cardinality(Skipped') <= (crashes + 1) * Largest
  <2>1. PICK n \in Nat : n = crashes * Largest
    BY <1>3
  <2>2. (crashes + 1) * Largest = n + Largest
    BY <2>1, <1>3
  <2>3. Cardinality(Skipped) <= n
    BY <2>1, <1>1 DEF Counted
  <2>4. QED BY <2>2, <2>3, <1>3, <1>6, <1>10, <1>11
<1>13. QED BY <1>2, <1>3, <1>12 DEF Counted

LEMMA SkipStep ==
  ASSUME LimitsAreWholePages, SkipInv, [Next]_vars
  PROVE  SkipInv'
<1>1. TypeInv /\ OneEach /\ (dpc = "gather" => NoneTwice(batch)) /\ (changes = 0 => Counted)
  BY DEF SkipInv
<1>2. TypeInv'
  BY <1>1, TypeStep
<1>3. /\ hand \in Seq(Results) /\ options \in Options /\ changes \in Nat
      /\ query \in Queries
  <2>1. MaxChanges \in Nat
    BY DiscoveryAssumption
  <2>2. QED BY <2>1, <1>1 DEF TypeInv, TypeOK
<1> SUFFICES OneEach' /\ (dpc' = "gather" => NoneTwice(batch')) /\ (changes' = 0 => Counted')
  BY <1>2 DEF SkipInv, OneEach, NoneTwice
<1>4. CASE TakeQueryBatch
  <2>1. NoneTwice(batch')
    BY <1>3, <1>4, BatchFacts
  <2>2. /\ page' = page /\ options' = options /\ crashes' = crashes /\ changes' = changes
        /\ answers' = answers /\ hand' = hand /\ claimed' = claimed
    BY <1>4 DEF TakeQueryBatch
  <2>3. changes' = 0 => Counted'
    <3>1. claimed \cup InHand \subseteq claimed' \cup InHand' /\ Len(hand') <= Len(hand)
      BY <1>3, <2>2 DEF InHand
    <3>2. QED BY <3>1, <1>1, <1>2, <2>2, QuietStep
  <2>4. OneEach'
    BY <1>1, <2>2 DEF OneEach
  <2>5. QED BY <2>1, <2>3, <2>4
<1>5. CASE Gather
  <2>1. dpc' = "ingest" /\ changes' = changes
    BY <1>5 DEF Gather, GatherWith
  <2>2. QED BY <2>1, <1>2, <1>5, GatherKeeps
<1>6. CASE MoveCursor
  <2>1. dpc' = "ingest" /\ changes' = changes
    BY <1>6 DEF MoveCursor
  <2>2. QED BY <2>1, <1>2, <1>6, MoveKeeps
<1>7. CASE ClaimNext
  <2>1. /\ page' = page /\ options' = options /\ crashes' = crashes /\ changes' = changes
        /\ answers' = answers /\ dpc' = dpc /\ batch' = batch
        /\ hand' = Tail(hand) /\ claimed' = claimed \cup {Head(hand)} /\ hand # << >>
    BY <1>7 DEF ClaimNext
  <2>2. /\ Head(hand) = hand[1] /\ Len(hand') = Len(hand) - 1 /\ Len(hand) \in Nat \ {0}
        /\ DOMAIN hand' = 1 .. Len(hand) - 1 /\ DOMAIN hand = 1 .. Len(hand)
        /\ \A k \in DOMAIN hand' : hand'[k] = hand[k + 1]
    BY <1>3, <2>1, HeadAndTail
  <2>3. claimed \cup InHand \subseteq claimed' \cup InHand'
    <3> SUFFICES ASSUME NEW r \in InHand PROVE r \in claimed' \cup InHand'
      BY <2>1
    <3>1. PICK k \in 1 .. Len(hand) : r = hand[k]
      BY <2>2 DEF InHand
    <3>2. CASE k = 1
      BY <3>1, <3>2, <2>1, <2>2
    <3>3. CASE k # 1
      <4>1. k - 1 \in DOMAIN hand' /\ (k - 1) + 1 = k
        BY <3>3, <2>2
      <4>2. hand'[k - 1] = r
        BY <4>1, <3>1, <2>2
      <4>3. QED BY <4>1, <4>2 DEF InHand
    <3>4. QED BY <3>2, <3>3
  <2>4. Len(hand') <= Len(hand)
    BY <2>2
  <2>5. changes' = 0 => Counted'
    BY <2>1, <2>3, <2>4, <1>1, <1>2, QuietStep
  <2>6. OneEach' /\ (dpc' = "gather" => NoneTwice(batch'))
    BY <1>1, <2>1 DEF OneEach
  <2>7. QED BY <2>5, <2>6
<1>8. CASE EndCampaign \/ UNCHANGED vars
  <2>1. /\ page' = page /\ options' = options /\ crashes' = crashes /\ changes' = changes
        /\ answers' = answers /\ hand' = hand /\ claimed' = claimed
        /\ dpc' = "gather" => dpc = "gather" /\ batch' = batch
    BY <1>8 DEF EndCampaign, vars
  <2>2. changes' = 0 => Counted'
    <3>1. claimed \cup InHand \subseteq claimed' \cup InHand' /\ Len(hand') <= Len(hand)
      BY <1>3, <2>1 DEF InHand
    <3>2. QED BY <3>1, <1>1, <1>2, <2>1, QuietStep
  <2>3. OneEach' /\ (dpc' = "gather" => NoneTwice(batch'))
    BY <1>1, <2>1 DEF OneEach
  <2>4. QED BY <2>2, <2>3
<1>9. CASE Crash
  <2>1. dpc' = "idle" /\ changes' = changes /\ DOMAIN answers' = {}
    BY <1>9 DEF Crash
  <2>2. OneEach'
    BY <2>1 DEF OneEach
  <2>3. changes' = 0 => Counted'
    BY <2>1, <1>2, <1>9, CrashKeeps
  <2>4. QED BY <2>1, <2>2, <2>3
<1>10. CASE Restart
  <2>1. /\ dpc = "idle" /\ dpc' = dpc /\ answers' = answers /\ changes' = changes + 1
    BY <1>10 DEF Restart
  <2>2. changes' # 0
    BY <2>1, <1>3
  <2>3. OneEach'
    BY <1>1, <2>1 DEF OneEach
  <2>4. QED BY <2>1, <2>2, <2>3
<1>11. QED BY <1>4, <1>5, <1>6, <1>7, <1>8, <1>9, <1>10 DEF Next, Work

(* The watcher's cursors pass no result that was not at hand or claimed, but
   for those of the job a kill interrupts: with every limit a whole number of
   pages, so that no page counts more than its answer holds. *)
THEOREM KillsBoundSkips ==
  ASSUME LimitsAreWholePages
  PROVE  Spec => []SkipsBoundedByCrashes
<1>1. SkipInv => SkipsBoundedByCrashes
  BY DEF SkipInv, Counted, SkipsBoundedByCrashes, Largest, Skipped
<1>2. SkipInv /\ [Next]_vars => SkipInv'
  BY SkipStep
<1>3. QED BY <1>1, <1>2, SkipInit, PTL DEF Spec
=============================================================================
