------------------------------ MODULE Linking ------------------------------
(***************************************************************************)
(* Clusters of observations: one bucket per conversation, resource or      *)
(* event; buckets joined by typed artifacts in a union-find whose          *)
(* components are bounded; each group cut into windows of time.            *)
(*                                                                         *)
(* Bucket keys are strings in the code and positive integers here: both    *)
(* are compared only by < and =, and 0 is the empty string.  The scan is   *)
(* sequential; what varies is its input and the order of the artifacts of  *)
(* one observation, which the code takes from a set.                       *)
(***************************************************************************)
EXTENDS Integers, Sequences, FiniteSets

CONSTANTS
  Inputs,            \* lists of observations that may be clustered
  Typed,             \* artifacts that may link: markers and code blocks
  Urls,              \* artifacts that may not
  MaxLinkedBuckets,  \* MAX_LINKED_BUCKETS
  MaxKeys,           \* buckets an artifact may touch and still link
  Window             \* window_minutes

Observation == [conversation : Nat, resource : Nat, event : Nat \ {0},
                actor : Nat, platform : Nat, time : Nat,
                artifacts : SUBSET (Typed \cup Urls)]

ASSUME LinkingAssumption ==
  /\ Inputs \subseteq Seq(Observation)
  /\ IsFiniteSet(Typed)
  /\ MaxLinkedBuckets \in Nat \ {0}
  /\ MaxKeys \in Nat /\ Window \in Nat

VARIABLES
  obs,       \* the observations, as listed
  pc,        \* the step of the scan
  todo,      \* artifacts not looked at yet
  rest,      \* keys not handled yet: of the artifact, or of the gathering
  first,     \* keys[0] of the artifact
  left,      \* the key find() is at, in the first call
  right,     \* the key find() is at, in the second call
  parent,    \* union-find: parent of a key
  size,      \* union-find: component_size of a root
  group,     \* the root a key is gathered under, 0 before
  place,     \* the window of an observation within its group, 0 before
  start,     \* the time at which the last window of a group begins
  count      \* the windows of a group so far

finds == <<parent, size>>
cuts == <<place, start, count>>
vars == <<obs, pc, todo, rest, first, left, right, finds, group, cuts>>

-----------------------------------------------------------------------------
KeyOf(o) ==
  CASE o.conversation # 0 -> o.conversation
    [] o.conversation = 0 /\ o.resource # 0 -> o.resource
    [] OTHER -> o.event

Positions == 1 .. Len(obs)
Key(i) == KeyOf(obs[i])
Keys == {Key(i) : i \in Positions}

Matches(a) == {i \in Positions : a \in obs[i].artifacts}
KeysOf(a) == {Key(i) : i \in Matches(a)}
Least(S) == CHOOSE k \in S : \A j \in S : k <= j

(* An artifact links when it is in two to ten buckets, of two actors, and
   of two platforms or two resources. *)
Linkable ==
  {a \in Typed :
     /\ Cardinality(KeysOf(a)) \in 2 .. MaxKeys
     /\ Cardinality({obs[i].actor : i \in Matches(a)}) >= 2
     /\ \/ Cardinality({obs[i].platform : i \in Matches(a)}) >= 2
        \/ Cardinality({obs[i].resource : i \in Matches(a)} \ {0}) >= 2}

(* Buckets are visited in the order of their first observation. *)
Bucket(i) == {j \in Positions : Key(j) = Key(i)}
Visited(i, j) ==
  \/ Least(Bucket(i)) < Least(Bucket(j))
  \/ Least(Bucket(i)) = Least(Bucket(j)) /\ i <= j

(* The artifacts met first in that order: those of one observation. *)
FirstMet ==
  {a \in todo : \A b \in todo :
     \A j \in Matches(b) : \E i \in Matches(a) : Visited(i, j)}

-----------------------------------------------------------------------------
Init ==
  /\ obs \in Inputs
  /\ pc = "artifact"
  /\ todo = {a \in Typed : Matches(a) # {}}
  /\ rest = {} /\ first = 0 /\ left = 0 /\ right = 0
  /\ parent = [k \in Keys |-> k]
  /\ size = [k \in Keys |-> 1]
  /\ group = [k \in Keys |-> 0]
  /\ place = [i \in Positions |-> 0]
  /\ start = [k \in Keys |-> 0]
  /\ count = [k \in Keys |-> 0]

(* A wrong form of NextArtifact: keys[0] is that of the first artifact. *)
NextArtifactStale(a) ==
  /\ pc = "artifact" /\ a \in FirstMet
  /\ todo' = todo \ {a}
  /\ \/ /\ a \notin Linkable
        /\ UNCHANGED <<pc, rest, first>>
     \/ /\ a \in Linkable
        /\ pc' = "key"
        /\ first' = IF first = 0 THEN Least(KeysOf(a)) ELSE first
        /\ rest' = KeysOf(a) \ {first'}
  /\ UNCHANGED <<obs, left, right, finds, group, cuts>>

(* The artifacts of the dictionary in the order they were met; one that
   links gives its keys in their order. *)
NextArtifact(a) ==
  /\ pc = "artifact" /\ a \in FirstMet
  /\ todo' = todo \ {a}
  /\ \/ /\ a \notin Linkable
        /\ UNCHANGED <<pc, rest, first>>
     \/ /\ a \in Linkable
        /\ pc' = "key"
        /\ first' = Least(KeysOf(a))
        /\ rest' = KeysOf(a) \ {first'}
  /\ UNCHANGED <<obs, left, right, finds, group, cuts>>

(* union(keys[0], key), for the other keys in their order. *)
NextKey ==
  /\ pc = "key" /\ rest # {}
  /\ left' = first /\ right' = Least(rest)
  /\ rest' = rest \ {Least(rest)}
  /\ pc' = "left"
  /\ UNCHANGED <<obs, todo, first, finds, group, cuts>>

EndKeys ==
  /\ pc = "key" /\ rest = {}
  /\ pc' = "artifact"
  /\ UNCHANGED <<obs, todo, rest, first, left, right, finds, group, cuts>>

(* A wrong form of Halve: the grandparent is taken for the root. *)
HalveOff(k) == parent' = [parent EXCEPT ![k] = k]

(* One turn of the loop of find: the path is halved on the way up. *)
Halve(k) == parent' = [parent EXCEPT ![k] = parent[parent[k]]]

(* A wrong form of FindLeft: the walk does not move up. *)
FindLeftStuck ==
  /\ pc = "left"
  /\ \/ /\ parent[left] # left
        /\ Halve(left) /\ UNCHANGED <<left, pc>>
     \/ /\ parent[left] = left
        /\ pc' = "right" /\ UNCHANGED <<left, parent>>
  /\ UNCHANGED <<obs, todo, rest, first, right, size, group, cuts>>

FindLeft ==
  /\ pc = "left"
  /\ \/ /\ parent[left] # left
        /\ Halve(left) /\ left' = parent[parent[left]]
        /\ UNCHANGED pc
     \/ /\ parent[left] = left
        /\ pc' = "right" /\ UNCHANGED <<left, parent>>
  /\ UNCHANGED <<obs, todo, rest, first, right, size, group, cuts>>

(* A wrong form of FindRight: the key itself is joined, not its root. *)
FindRightNot ==
  /\ pc = "right" /\ pc' = "join"
  /\ UNCHANGED <<obs, todo, rest, first, left, right, finds, group, cuts>>

FindRight ==
  /\ pc = "right"
  /\ \/ /\ parent[right] # right
        /\ Halve(right) /\ right' = parent[parent[right]]
        /\ UNCHANGED pc
     \/ /\ parent[right] = right
        /\ pc' = "join" /\ UNCHANGED <<right, parent>>
  /\ UNCHANGED <<obs, todo, rest, first, left, size, group, cuts>>

Fits == size[left] + size[right] <= MaxLinkedBuckets

(* A wrong form of Join: the size of the smaller part is added as one. *)
JoinOne ==
  /\ pc = "join" /\ pc' = "key"
  /\ \/ /\ left # right /\ Fits
        /\ parent' = [parent EXCEPT ![right] = left]
        /\ size' = [size EXCEPT ![left] = size[left] + 1]
     \/ /\ left = right \/ ~Fits
        /\ UNCHANGED finds
  /\ UNCHANGED <<obs, todo, rest, first, left, right, group, cuts>>

(* A wrong form of Join: the bound is not looked at. *)
JoinAnyway ==
  /\ pc = "join" /\ pc' = "key"
  /\ parent' = [parent EXCEPT ![right] = left]
  /\ size' = IF left = right THEN size
             ELSE [size EXCEPT ![left] = size[left] + size[right]]
  /\ UNCHANGED <<obs, todo, rest, first, left, right, group, cuts>>

(* Two roots become one, unless the component would grow above its bound. *)
Join ==
  /\ pc = "join" /\ pc' = "key"
  /\ \/ /\ left # right /\ Fits
        /\ parent' = [parent EXCEPT ![right] = left]
        /\ size' = [size EXCEPT ![left] = size[left] + size[right]]
     \/ /\ left = right \/ ~Fits
        /\ UNCHANGED finds
  /\ UNCHANGED <<obs, todo, rest, first, left, right, group, cuts>>

(* members[find(key)].append(key), for every bucket. *)
EndArtifacts ==
  /\ pc = "artifact" /\ todo = {}
  /\ pc' = "gather" /\ rest' = Keys
  /\ UNCHANGED <<obs, todo, first, left, right, finds, group, cuts>>

NextMember ==
  /\ pc = "gather" /\ rest # {}
  /\ first' = Least(rest) /\ left' = first'
  /\ pc' = "member"
  /\ UNCHANGED <<obs, todo, rest, right, finds, group, cuts>>

FindMember ==
  /\ pc = "member"
  /\ \/ /\ parent[left] # left
        /\ Halve(left) /\ left' = parent[parent[left]]
        /\ UNCHANGED <<pc, rest, group>>
     \/ /\ parent[left] = left
        /\ group' = [group EXCEPT ![first] = left]
        /\ rest' = rest \ {first}
        /\ pc' = "gather" /\ UNCHANGED <<left, parent>>
  /\ UNCHANGED <<obs, todo, first, right, size, cuts>>

EndGather ==
  /\ pc = "gather" /\ rest = {}
  /\ pc' = "cut"
  /\ UNCHANGED <<obs, todo, rest, first, left, right, finds, group, cuts>>

-----------------------------------------------------------------------------
GroupOf(i) == group[Key(i)]

(* The order of the stable sort by time of a group's members. *)
Sorted(i, j) ==
  \/ obs[i].time < obs[j].time
  \/ obs[i].time = obs[j].time /\ Key(i) < Key(j)
  \/ obs[i].time = obs[j].time /\ Key(i) = Key(j) /\ i <= j

Uncut == {i \in Positions : place[i] = 0}

(* The next observation; one group after the other, in any order. *)
NextUncut ==
  {i \in Uncut : \A j \in Uncut :
     \/ GroupOf(i) < GroupOf(j)
     \/ GroupOf(i) = GroupOf(j) /\ Sorted(i, j)}

(* A window begins with a group and with each observation too late for
   the last one. *)
Begins(i) ==
  ~ (count[GroupOf(i)] # 0 /\ obs[i].time - start[GroupOf(i)] <= Window)

(* A wrong form of Cut: the start of the group is never moved. *)
CutFromFirst(i) ==
  LET g == GroupOf(i) IN
  /\ pc = "cut" /\ i \in NextUncut
  /\ count' = IF Begins(i) THEN [count EXCEPT ![g] = count[g] + 1] ELSE count
  /\ start' = IF count[g] = 0 THEN [start EXCEPT ![g] = obs[i].time] ELSE start
  /\ place' = [place EXCEPT ![i] = count'[g]]
  /\ UNCHANGED <<obs, pc, todo, rest, first, left, right, finds, group>>

Cut(i) ==
  LET g == GroupOf(i) IN
  /\ pc = "cut" /\ i \in NextUncut
  /\ count' = IF Begins(i) THEN [count EXCEPT ![g] = count[g] + 1] ELSE count
  /\ start' = IF Begins(i) THEN [start EXCEPT ![g] = obs[i].time] ELSE start
  /\ place' = [place EXCEPT ![i] = count'[g]]
  /\ UNCHANGED <<obs, pc, todo, rest, first, left, right, finds, group>>

EndCuts ==
  /\ pc = "cut" /\ Uncut = {}
  /\ pc' = "done"
  /\ UNCHANGED <<obs, todo, rest, first, left, right, finds, group, cuts>>

Link ==
  \/ \E a \in todo : NextArtifact(a)
  \/ EndArtifacts \/ NextKey \/ EndKeys
  \/ FindLeft \/ FindRight \/ Join

Next ==
  \/ Link
  \/ NextMember \/ FindMember \/ EndGather
  \/ \E i \in Uncut : Cut(i)
  \/ EndCuts

Spec == Init /\ [][Next]_vars

(* The scan is one thread: it goes on while it can. *)
FairSpec == Spec /\ WF_vars(Next)

-----------------------------------------------------------------------------
(* Every variable has its type; a component's size is within the bound. *)
TypeOK ==
  /\ obs \in Seq(Observation)
  /\ pc \in {"artifact", "key", "left", "right", "join", "gather", "member",
             "cut", "done"}
  /\ todo \subseteq Typed /\ rest \subseteq Keys
  /\ {first, left, right} \subseteq Keys \cup {0}
  /\ parent \in [Keys -> Keys]
  /\ size \in [Keys -> 1 .. MaxLinkedBuckets]
  /\ group \in [Keys -> Keys \cup {0}]
  /\ place \in [Positions -> Nat]
  /\ start \in [Keys -> Nat] /\ count \in [Keys -> Nat]

Gathered == pc \in {"cut", "done"}
Members(k) == {j \in Keys : group[j] = group[k]}

(* No group that is gathered has more buckets than the bound, whatever the
   order in which artifacts were met and paths were halved. *)
CapKept == Gathered => \A k \in Keys : Cardinality(Members(k)) <= MaxLinkedBuckets

(* Two buckets are in one group only when a chain of linking artifacts
   leads from one to the other: a set of buckets that no such artifact
   leaves is left by no group. *)
LinksHaveReason ==
  Gathered =>
    \A S \in SUBSET Keys :
      (\A a \in Linkable :
         KeysOf(a) \subseteq S \/ KeysOf(a) \cap S = {})
      => \A k \in S : Members(k) \subseteq S

(* A link is refused only for the bound, and stays refused: the buckets of
   a linking artifact end in one group, or the two groups are together too
   large.  So whatever the hash order of a set of artifacts, the groups are
   the same unless the bound was met. *)
AllLinksUnlessFull ==
  Gathered =>
    \A a \in Linkable :
      \A k \in KeysOf(a) : LET f == Least(KeysOf(a)) IN
        \/ group[k] = group[f]
        \/ Cardinality(Members(k)) + Cardinality(Members(f)) > MaxLinkedBuckets

(* A cluster spans no more than the window, clusters of a group do not
   overlap in time, and a new one begins only where the old one could not
   go on: its first observation is too late for the first of the old. *)
WindowsTight ==
  pc = "done" =>
    \A i, j \in Positions : (GroupOf(i) = GroupOf(j) /\ place[i] <= place[j]) =>
      IF place[i] = place[j]
      THEN obs[j].time - obs[i].time <= Window
      ELSE /\ obs[i].time <= obs[j].time
           /\ \E f \in Positions :
                /\ GroupOf(f) = GroupOf(i) /\ place[f] = place[i]
                /\ obs[j].time - obs[f].time > Window

(* The walks up the halved paths end, and the clustering with them. *)
Terminates == <>(pc = "done")

-----------------------------------------------------------------------------
(* The components of the union-find: the least sets of keys that hold a
   key exactly when they hold its parent. *)
Components ==
  LET closed == {S \in SUBSET DOMAIN parent :
                   \A k \in DOMAIN parent : k \in S <=> parent[k] \in S}
  IN {S \in closed \ {{}} : \A T \in closed : T \subseteq S => T \in {{}, S}}

Abstract == INSTANCE Partition WITH
  Bound <- MaxLinkedBuckets,
  links <- {KeysOf(a) : a \in Linkable},
  blocks <- Components

(* Halving paths changes no component, and a union joins two components
   that a linking artifact touches, within the bound. *)
ImplementsPartition == Abstract!Spec
=============================================================================
