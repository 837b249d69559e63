---------------------------- MODULE Files_proofs ----------------------------
(***************************************************************************)
(* Proofs about the files that the monitor and the commands share, for any *)
(* repositories, reports, processes and policies, and any number of        *)
(* commands, findings and kills.                                           *)
(***************************************************************************)
EXTENDS Files, FiniteSetTheorems, TLAPS

-----------------------------------------------------------------------------
(* The disk.                                                               *)

DiskType ==
  /\ dir \in [Names -> Inodes \cup {0}]
  /\ data \in [Inodes -> [whole : BOOLEAN, says : Nat]]
  /\ fd \in [Procs -> Inodes \cup {0}]

(* No two names are links to one inode. *)
NoLinks == \A f, g \in Names : dir[f] = dir[g] /\ dir[f] # 0 => f = g

LEMMA InodeFacts == 0 \notin Inodes /\ Inodes \subseteq Nat \ {0}
<1>1. Cardinality(Names) \in Nat /\ Cardinality(Procs) \in Nat
  BY FS_CardinalityType, DiskAssumption
<1> QED
  BY <1>1, DiskAssumption

(* A function takes at most as many values as its domain has elements. *)
LEMMA ImageFacts ==
  ASSUME NEW S, IsFiniteSet(S), NEW f, DOMAIN f = S
  PROVE  /\ IsFiniteSet({f[x] : x \in S})
         /\ Cardinality({f[x] : x \in S}) \in Nat
         /\ Cardinality({f[x] : x \in S}) <= Cardinality(S)
<1> DEFINE g == [x \in S |-> f[x]]
           T == {f[x] : x \in S}
<1>1. g \in Surjection(S, T)
  BY DEF Surjection
<1> QED
  BY <1>1, FS_Surjection, FS_CardinalityType

(* When a name has no inode, one is free for it. *)
LEMMA SpareInode ==
  ASSUME DiskType, NEW f \in Names, dir[f] = 0
  PROVE  Unused # {}
<1> DEFINE Others == Names \ {f}
           d == [g \in Others |-> dir[g]]
           Dirs == {d[g] : g \in Others}
           Fds == {fd[p] : p \in Procs}
<1>1. /\ IsFiniteSet(Names) /\ IsFiniteSet(Procs)
      /\ Cardinality(Names) \in Nat /\ Cardinality(Procs) \in Nat
  BY DiskAssumption, FS_CardinalityType
<1>2. IsFiniteSet(Others) /\ Cardinality(Others) = Cardinality(Names) - 1
  BY <1>1, FS_RemoveElement
<1>3. /\ IsFiniteSet(Dirs) /\ Cardinality(Dirs) \in Nat
      /\ Cardinality(Dirs) <= Cardinality(Names) - 1
  <2>1. DOMAIN d = Others
    OBVIOUS
  <2> HIDE DEF d, Others
  <2> QED
    BY <1>2, <2>1, ImageFacts
<1>4. /\ IsFiniteSet(Fds) /\ Cardinality(Fds) \in Nat
      /\ Cardinality(Fds) <= Cardinality(Procs)
  <2>1. DOMAIN fd = Procs
    BY DEF DiskType
  <2> QED
    BY <1>1, <2>1, ImageFacts
<1>5. /\ IsFiniteSet(Dirs \cup Fds) /\ Cardinality(Dirs \cup Fds) \in Nat
      /\ Cardinality(Dirs \cup Fds) <= Cardinality(Dirs) + Cardinality(Fds)
  <2>1. /\ IsFiniteSet(Dirs \cup Fds) /\ IsFiniteSet(Dirs \cap Fds)
        /\ Cardinality(Dirs \cup Fds) =
             Cardinality(Dirs) + Cardinality(Fds) - Cardinality(Dirs \cap Fds)
    BY <1>3, <1>4, FS_Union, FS_Intersection
  <2>2. Cardinality(Dirs \cap Fds) \in Nat /\ Cardinality(Dirs \cup Fds) \in Nat
    BY <2>1, FS_CardinalityType
  <2> QED
    BY <1>3, <1>4, <2>1, <2>2
<1>6. Cardinality(Inodes) = Cardinality(Names) + Cardinality(Procs)
  BY <1>1, FS_Interval, DiskAssumption
<1>7. ~(Inodes \subseteq Dirs \cup Fds)
  <2> SUFFICES ASSUME Inodes \subseteq Dirs \cup Fds PROVE FALSE
    OBVIOUS
  <2>1. Cardinality(Inodes) <= Cardinality(Dirs \cup Fds)
    BY <1>5, FS_Subset
  <2> QED
    BY <1>1, <1>3, <1>4, <1>5, <1>6, <2>1
<1>8. PICK i \in Inodes : i \notin Dirs /\ i \notin Fds
  BY <1>7
<1>9. i # dir[f] /\ \A g \in Names : i # dir[g]
  BY <1>8, InodeFacts
<1> QED
  BY <1>8, <1>9 DEF Unused

(* Opening a file cuts its inode, or takes one that nobody has. *)
LEMMA OpenFacts ==
  ASSUME DiskType, NoLinks, NEW p \in Procs, NEW f \in Names, Open(p, f)
  PROVE  /\ DiskType' /\ NoLinks'
         /\ \E i \in Inodes :
              /\ dir' = [dir EXCEPT ![f] = i]
              /\ data' = [data EXCEPT ![i] = Empty]
              /\ fd' = [fd EXCEPT ![p] = i]
              /\ \A g \in Names \ {f} : dir[g] # i
              /\ dir[f] = i \/ (dir[f] = 0 /\ \A q \in Procs : fd[q] # i)
<1> DEFINE i == IF dir[f] # 0 THEN dir[f] ELSE CHOOSE j \in Unused : TRUE
<1>1. /\ dir' = [dir EXCEPT ![f] = i] /\ data' = [data EXCEPT ![i] = Empty]
      /\ fd' = [fd EXCEPT ![p] = i]
  BY DEF Open, Exists
<1>2. /\ i \in Inodes /\ (\A g \in Names \ {f} : dir[g] # i)
      /\ dir[f] = i \/ (dir[f] = 0 /\ \A q \in Procs : fd[q] # i)
  <2>1. CASE dir[f] # 0
    BY <2>1 DEF DiskType, NoLinks
  <2>2. CASE dir[f] = 0
    <3>1. i \in Unused
      BY <2>2, SpareInode
    <3> QED
      BY <2>2, <3>1 DEF Unused
  <2> QED
    BY <2>1, <2>2
<1> HIDE DEF i
<1>3. Empty \in [whole : BOOLEAN, says : Nat]
  BY DEF Empty
<1>4. DiskType' /\ NoLinks'
  BY <1>1, <1>2, <1>3 DEF DiskType, NoLinks
<1> QED
  BY <1>1, <1>2, <1>4

LEMMA WriteFacts ==
  ASSUME DiskType, NoLinks, NEW p \in Procs, fd[p] # 0, NEW text \in Nat, Write(p, text)
  PROVE  /\ DiskType' /\ NoLinks' /\ dir' = dir
         /\ fd' = [fd EXCEPT ![p] = 0]
         /\ \A i \in Inodes : i # fd[p] => data'[i] = data[i]
         /\ data'[fd[p]].says = text
         /\ data[fd[p]] = Empty => data'[fd[p]] = [whole |-> TRUE, says |-> text]
<1>1. PICK whole \in IF data[fd[p]] = Empty THEN {TRUE} ELSE BOOLEAN :
        data' = [data EXCEPT ![fd[p]] = [whole |-> whole, says |-> text]]
  BY DEF Write
<1>2. dir' = dir /\ fd' = [fd EXCEPT ![p] = 0] /\ fd[p] \in Inodes
  BY DEF Write, DiskType
<1>3. [whole |-> whole, says |-> text] \in [whole : BOOLEAN, says : Nat]
  OBVIOUS
<1>4. DiskType' /\ NoLinks'
  BY <1>1, <1>2, <1>3 DEF DiskType, NoLinks
<1> QED
  BY <1>1, <1>2, <1>4 DEF DiskType

LEMMA ReplaceFacts ==
  ASSUME DiskType, NoLinks, NEW from \in Names, NEW to \in Names, from # to,
         Replace(from, to)
  PROVE  /\ DiskType' /\ NoLinks' /\ fd' = fd
         /\ dir[from] # 0 /\ dir' = [dir EXCEPT ![to] = dir[from], ![from] = 0]
         /\ \A i \in Inodes : i # dir[to] => data'[i] = data[i]
         /\ \A i \in Inodes : data'[i] \in {data[i], Empty}
<1>1. /\ fd' = fd /\ dir[from] # 0
      /\ dir' = [dir EXCEPT ![to] = dir[from], ![from] = 0]
      /\ data' = [i \in Inodes |->
           IF i = dir[to] /\ \A q \in Procs : fd[q] # i THEN Empty ELSE data[i]]
  BY DEF Replace, Exists
<1>2. Empty \in [whole : BOOLEAN, says : Nat]
  BY DEF Empty
<1>3. DiskType'
  BY <1>1, <1>2 DEF DiskType
<1>4. NoLinks'
  BY <1>1 DEF DiskType, NoLinks
<1> QED
  BY <1>1, <1>3, <1>4

-----------------------------------------------------------------------------
(* The names of the files.                                                 *)

ReportNames == {Reports[n] : n \in DOMAIN Reports}

LEMMA NameFacts ==
  /\ \A r \in Repos : Record(r) \in Names
  /\ \A f \in ReportNames : Report(f) \in Names /\ Tmp(f) \in Names
  /\ \A r, f : Record(r) # Report(f) /\ Record(r) # Tmp(f)
  /\ \A f, g : Report(f) # Tmp(g)
  /\ \A r, q : Record(r) = Record(q) => r = q
  /\ \A f, g : Report(f) = Report(g) => f = g
  /\ \A f, g : Tmp(f) = Tmp(g) => f = g
<1>1. Names = {Record(r) : r \in Repos} \cup
              {Report(Reports[n]) : n \in DOMAIN Reports} \cup
              {Tmp(Reports[n]) : n \in DOMAIN Reports}
  BY FilesAssumption
<1> QED
  BY <1>1 DEF Record, Report, Tmp, ReportNames

-----------------------------------------------------------------------------
(* The invariant.  Without another writer a report is rendered from all the *)
(* findings there are, and its draft is the process's own from the moment   *)
(* it is opened.  What is open is a draft or a record, never both, and no   *)
(* report that is to be whole is open at all.                               *)

Labels ==
  {"idle", "ingest", "claim", "store", "record", "review", "open", "write", "replace"}

RepType ==
  /\ pc \in [Procs -> Labels]
  /\ findings \in Nat
  /\ seen \in [Procs -> Nat]
  /\ at \in [Procs -> DOMAIN Reports]
  /\ together \in [Procs -> BOOLEAN]

Solo(p) == Reporting(p) /\ ~together[p]

Alone == \A p, q \in Procs : p # q /\ Solo(p) => ~Reporting(q)

IsRecord(i) == \E r \in Repos : i = dir[Record(r)]

OpenFiles ==
  \A p \in Procs :
    /\ fd[p] # 0 => pc[p] \in {"write", "record"}
    /\ pc[p] = "write" => fd[p] # 0 /\ ~IsRecord(fd[p])
    /\ pc[p] = "record" /\ fd[p] # 0 => IsRecord(fd[p])

Draft(p) == Tmp(Reports[at[p]])

Drafts ==
  \A p \in Procs : Solo(p) =>
    /\ pc[p] = "write" => fd[p] = dir[Draft(p)] /\ data[fd[p]] = Empty
    /\ pc[p] = "replace" =>
         Exists(Draft(p)) /\ Content(Draft(p)) = [whole |-> TRUE, says |-> seen[p]]

Rendered ==
  /\ \A p \in Procs : seen[p] <= findings /\ (Solo(p) => seen[p] = findings)
  /\ \A f \in ReportNames :
       Content(Report(f)).says <= findings /\ Content(Tmp(f)).says <= findings

Published ==
  \A f \in ReportNames \ mixed : Exists(Report(f)) =>
    Content(Report(f)).whole /\ \A p \in Procs : fd[p] # dir[Report(f)]

ReportInv ==
  /\ DiskType /\ NoLinks /\ RepType
  /\ Alone /\ OpenFiles /\ Drafts /\ Rendered /\ Published

LEMMA ReportingFacts ==
  \A p \in Procs : Reporting(p) <=> pc[p] \in {"open", "write", "replace"}
BY DEF Reporting

(* A step outside of the reports: the files stay, and so does what the
   processes that write reports know. *)
LEMMA QuietStep ==
  ASSUME ReportInv, UNCHANGED <<dir, data, findings, mixed>>,
         RepType', fd' \in [Procs -> Inodes \cup {0}],
         \A q \in Procs :
           \/ /\ pc'[q] = pc[q] /\ fd'[q] = fd[q] /\ seen'[q] = seen[q]
              /\ at'[q] = at[q] /\ together'[q] = together[q]
           \/ /\ pc'[q] \notin {"open", "write", "replace"} /\ fd'[q] = 0
              /\ seen'[q] <= findings
  PROVE  ReportInv'
<1> USE DEF ReportInv
<1>1. DiskType' /\ NoLinks'
  BY DEF DiskType, NoLinks
<1>2. \A q \in Procs : Reporting(q)' =>
        /\ Reporting(q) /\ pc'[q] = pc[q] /\ fd'[q] = fd[q] /\ seen'[q] = seen[q]
        /\ at'[q] = at[q] /\ together'[q] = together[q]
  BY DEF Reporting
<1>3. Alone'
  BY <1>2 DEF Alone, Solo
<1>4. OpenFiles'
  BY DEF OpenFiles, IsRecord
<1>5. Drafts'
  <2> SUFFICES ASSUME NEW p \in Procs, Solo(p)'
               PROVE  /\ pc'[p] = "write" => fd'[p] = dir[Draft(p)'] /\ data[fd'[p]] = Empty
                      /\ pc'[p] = "replace" =>
                           /\ Exists(Draft(p))'
                           /\ Content(Draft(p))' = [whole |-> TRUE, says |-> seen'[p]]
    BY DEF Drafts
  <2>1. Solo(p) /\ pc'[p] = pc[p] /\ fd'[p] = fd[p] /\ seen'[p] = seen[p] /\ at'[p] = at[p]
    BY <1>2 DEF Solo
  <2> QED
    BY <2>1 DEF Drafts, Draft, Exists, Content
<1>6. Rendered'
  BY <1>2 DEF Rendered, Solo, Content, Exists, Reporting
<1>7. Published'
  BY InodeFacts DEF Published, Content, Exists
<1> QED
  BY <1>1, <1>3, <1>4, <1>5, <1>6, <1>7

(* A process that begins reports reads all the findings; who was writing
   reports knows that it is not alone any more. *)
LEMMA BeginStep ==
  ASSUME ReportInv, NEW p \in Procs, BeginReports(p), UNCHANGED disk,
         pc[p] \in {"idle", "review"}, findings' \in Nat, findings <= findings'
  PROVE  ReportInv'
<1> USE DEF ReportInv
<1>1. /\ pc' = [pc EXCEPT ![p] = "open"]
      /\ seen' = [seen EXCEPT ![p] = findings']
      /\ together' = [q \in Procs |->
           IF q = p THEN \E o \in Procs : Reporting(o) ELSE together[q] \/ Reporting(q)]
      /\ UNCHANGED <<at, mixed, dir, data, fd>>
  BY DEF BeginReports, Goto, disk
<1>2. RepType'
  BY <1>1 DEF RepType, Labels
<1>3. \A q \in Procs \ {p} : pc'[q] = pc[q] /\ ~Solo(q)'
  BY <1>1 DEF RepType, Solo, Reporting
<1>4. pc'[p] = "open" /\ fd[p] = 0 /\ seen'[p] = findings'
  BY <1>1 DEF RepType, OpenFiles
<1>5. Alone'
  <2> SUFFICES ASSUME NEW q \in Procs \ {p}, Solo(p)', Reporting(q)' PROVE FALSE
    BY <1>3 DEF Alone
  <2>1. together'[p] /\ ~together'[p]
    BY <1>1, <1>3 DEF Solo, Reporting, RepType
  <2> QED
    BY <2>1
<1>6. OpenFiles'
  BY <1>1, <1>3, <1>4 DEF OpenFiles, IsRecord
<1>7. Drafts'
  BY <1>3, <1>4 DEF Drafts
<1>8. Rendered'
  <2>1. \A q \in Procs : seen'[q] <= findings' /\ (Solo(q)' => seen'[q] = findings')
    BY <1>1, <1>3, <1>4 DEF Rendered, RepType
  <2>2. \A f \in ReportNames :
          /\ Content(Report(f))' = Content(Report(f)) /\ Content(Tmp(f))' = Content(Tmp(f))
          /\ Content(Report(f)).says \in Nat /\ Content(Tmp(f)).says \in Nat
    BY <1>1, NameFacts DEF Content, Exists, DiskType, Empty
  <2> QED
    BY <2>1, <2>2 DEF Rendered, RepType
<1>9. Published'
  BY <1>1 DEF Published, Content, Exists
<1> QED
  BY <1>1, <1>2, <1>5, <1>6, <1>7, <1>8, <1>9 DEF DiskType, NoLinks

(* Records are opened and written beside the reports. *)
LEMMA OpenRecordStep ==
  ASSUME ReportInv, todo \in [Procs -> SUBSET Repos], NEW p \in Procs, OpenRecord(p)
  PROVE  ReportInv'
<1> USE DEF ReportInv
<1>1. PICK r \in Repos : Open(p, Record(r))
  BY DEF OpenRecord
<1>2. pc[p] = "record" /\ fd[p] = 0 /\ UNCHANGED <<findings, pc, seen, at, together, mixed>>
  BY DEF OpenRecord, rep
<1>3. PICK i \in Inodes :
        /\ dir' = [dir EXCEPT ![Record(r)] = i]
        /\ data' = [data EXCEPT ![i] = Empty]
        /\ fd' = [fd EXCEPT ![p] = i]
        /\ \A g \in Names \ {Record(r)} : dir[g] # i
        /\ dir[Record(r)] = i \/ (dir[Record(r)] = 0 /\ \A q \in Procs : fd[q] # i)
  BY <1>1, OpenFacts, NameFacts
<1>4. DiskType' /\ NoLinks'
  BY <1>1, OpenFacts, NameFacts
<1>5. \A f \in ReportNames :
        /\ dir'[Report(f)] = dir[Report(f)] /\ dir'[Tmp(f)] = dir[Tmp(f)]
        /\ dir[Report(f)] # i /\ dir[Tmp(f)] # i
        /\ Content(Report(f))' = Content(Report(f)) /\ Content(Tmp(f))' = Content(Tmp(f))
  BY <1>3, NameFacts DEF Content, Exists, DiskType
<1>6. \A q \in Procs : at[q] \in DOMAIN Reports /\ Reports[at[q]] \in ReportNames
  BY DEF RepType, ReportNames
<1>7. RepType' /\ Alone'
  BY <1>2 DEF RepType, Alone, Solo, Reporting
<1>8. OpenFiles'
  <2>1. \E o \in Repos : i = dir'[Record(o)]
    BY <1>3, NameFacts DEF DiskType
  <2>2. \A o \in Repos \ {r} : dir'[Record(o)] = dir[Record(o)]
    BY <1>3, NameFacts DEF DiskType
  <2>3. dir'[Record(r)] = i
    BY <1>3, NameFacts DEF DiskType
  <2>4. \A q \in Procs \ {p} : fd[q] # 0 =>
          ((\E o \in Repos : fd[q] = dir'[Record(o)]) <=> (\E o \in Repos : fd[q] = dir[Record(o)]))
    BY <1>3, <2>2, <2>3
  <2>5. fd'[p] = i /\ \A q \in Procs \ {p} : fd'[q] = fd[q]
    BY <1>3 DEF DiskType
  <2>6. \A q \in Procs \ {p} :
          /\ fd'[q] # 0 => pc[q] \in {"write", "record"}
          /\ pc[q] = "write" => fd'[q] # 0 /\ ~(\E o \in Repos : fd'[q] = dir'[Record(o)])
          /\ pc[q] = "record" /\ fd'[q] # 0 => \E o \in Repos : fd'[q] = dir'[Record(o)]
    BY <2>4, <2>5 DEF OpenFiles, IsRecord
  <2> QED
    BY <1>2, <2>1, <2>5, <2>6, InodeFacts DEF OpenFiles, IsRecord
<1>9. Drafts'
  <2> SUFFICES ASSUME NEW q \in Procs, Solo(q)
               PROVE  /\ pc[q] = "write" =>
                           fd'[q] = dir'[Draft(q)] /\ data'[fd'[q]] = Empty
                      /\ pc[q] = "replace" =>
                           /\ dir'[Draft(q)] # 0
                           /\ Content(Draft(q))' = [whole |-> TRUE, says |-> seen[q]]
    BY <1>2 DEF Drafts, Solo, Reporting, Draft, Exists
  <2>1. q # p
    BY <1>2 DEF Solo, Reporting
  <2>2. fd'[q] = fd[q] /\ dir'[Draft(q)] = dir[Draft(q)] /\ dir[Draft(q)] # i
    BY <1>3, <1>5, <1>6, <2>1 DEF Draft, DiskType
  <2>3. Content(Draft(q))' = Content(Draft(q))
    BY <1>2, <1>5, <1>6 DEF Draft
  <2> QED
    BY <1>3, <2>2, <2>3 DEF Drafts, Exists, DiskType, OpenFiles
<1>10. Rendered'
  BY <1>2, <1>5 DEF Rendered, Solo, Reporting
<1>11. Published'
  BY <1>2, <1>3, <1>5 DEF Published, Exists, DiskType
<1> QED
  BY <1>4, <1>7, <1>8, <1>9, <1>10, <1>11

(* A step that changes data of records only, and closes at most a record. *)
LEMMA RecordDataStep ==
  ASSUME ReportInv, UNCHANGED <<dir, findings, pc, seen, at, together, mixed>>, DiskType',
         \A q \in Procs : fd'[q] = fd[q] \/ (fd'[q] = 0 /\ pc[q] = "record"),
         \A i \in Inodes : ~IsRecord(i) => data'[i] = data[i]
  PROVE  ReportInv'
<1> USE DEF ReportInv
<1>1. NoLinks' /\ RepType' /\ Alone'
  BY DEF NoLinks, RepType, Alone, Solo, Reporting
<1>2. \A f \in ReportNames :
        /\ dir[Report(f)] # 0 => ~IsRecord(dir[Report(f)])
        /\ dir[Tmp(f)] # 0 => ~IsRecord(dir[Tmp(f)])
  BY NameFacts DEF NoLinks, IsRecord
<1>3. \A f \in ReportNames :
        Content(Report(f))' = Content(Report(f)) /\ Content(Tmp(f))' = Content(Tmp(f))
  BY <1>2, NameFacts DEF Content, Exists, DiskType
<1>4. OpenFiles'
  BY DEF OpenFiles, IsRecord
<1>5. Drafts'
  <2> SUFFICES ASSUME NEW q \in Procs, Solo(q)
               PROVE  /\ pc[q] = "write" =>
                           fd'[q] = dir[Draft(q)] /\ data'[fd'[q]] = Empty
                      /\ pc[q] = "replace" =>
                           /\ dir[Draft(q)] # 0
                           /\ Content(Draft(q))' = [whole |-> TRUE, says |-> seen[q]]
    BY DEF Drafts, Solo, Reporting, Draft, Exists
  <2>1. Content(Draft(q))' = Content(Draft(q))
    BY <1>3 DEF Draft, RepType, ReportNames
  <2>2. pc[q] = "write" => fd'[q] = fd[q] /\ fd[q] \in Inodes /\ ~IsRecord(fd[q])
    BY DEF OpenFiles, DiskType
  <2> QED
    BY <2>1, <2>2 DEF Drafts, Exists
<1>6. Rendered'
  BY <1>3 DEF Rendered, Solo, Reporting
<1>7. Published'
  BY <1>3 DEF Published, Exists
<1> QED
  BY <1>1, <1>4, <1>5, <1>6, <1>7

LEMMA WriteRecordStep ==
  ASSUME ReportInv, NEW p \in Procs, WriteRecord(p)
  PROVE  ReportInv'
<1>1. /\ pc[p] = "record" /\ fd[p] # 0 /\ Write(p, 0)
      /\ UNCHANGED <<findings, pc, seen, at, together, mixed>>
  BY DEF WriteRecord, rep
<1>2. IsRecord(fd[p]) /\ fd \in [Procs -> Inodes \cup {0}]
  BY <1>1 DEF ReportInv, OpenFiles, DiskType
<1>3. /\ DiskType' /\ dir' = dir /\ fd' = [fd EXCEPT ![p] = 0]
      /\ \A i \in Inodes : i # fd[p] => data'[i] = data[i]
  BY <1>1, WriteFacts DEF ReportInv
<1>4. \A q \in Procs : fd'[q] = fd[q] \/ (fd'[q] = 0 /\ pc[q] = "record")
  BY <1>1, <1>2, <1>3
<1>5. \A i \in Inodes : ~IsRecord(i) => data'[i] = data[i]
  BY <1>2, <1>3
<1> QED
  BY <1>1, <1>3, <1>4, <1>5, RecordDataStep

LEMMA TickStep ==
  ASSUME ReportInv, Tick
  PROVE  ReportInv'
<1> DEFINE fresh == {r \in Repos : Recorded(r) /\ ~Old(r)}
<1>1. /\ data' = [i \in Inodes |->
           IF \E r \in fresh : dir[Record(r)] = i THEN [data[i] EXCEPT !.says = 1] ELSE data[i]]
      /\ UNCHANGED <<dir, fd, findings, pc, seen, at, together, mixed>>
  BY DEF Tick, rep
<1>2. DiskType'
  BY <1>1 DEF ReportInv, DiskType
<1>3. \A i \in Inodes : ~IsRecord(i) => data'[i] = data[i]
  BY <1>1 DEF IsRecord
<1> QED
  BY <1>1, <1>2, <1>3, RecordDataStep

(* A draft is opened, written and moved to its place. *)
LEMMA OpenTmpStep ==
  ASSUME ReportInv, NEW p \in Procs, OpenTmp(p)
  PROVE  ReportInv'
<1> USE DEF ReportInv
<1>1. PICK f \in ReportNames : f = Reports[at[p]]
  BY DEF RepType, ReportNames
<1>2. /\ pc[p] = "open" /\ Open(p, Tmp(f)) /\ pc' = [pc EXCEPT ![p] = "write"]
      /\ UNCHANGED <<findings, seen, at, together, mixed>>
  BY <1>1 DEF OpenTmp, Goto, rep
<1>3. PICK i \in Inodes :
        /\ dir' = [dir EXCEPT ![Tmp(f)] = i]
        /\ data' = [data EXCEPT ![i] = Empty]
        /\ fd' = [fd EXCEPT ![p] = i]
        /\ \A g \in Names \ {Tmp(f)} : dir[g] # i
        /\ dir[Tmp(f)] = i \/ (dir[Tmp(f)] = 0 /\ \A q \in Procs : fd[q] # i)
  BY <1>2, OpenFacts, NameFacts
<1>4. DiskType' /\ NoLinks'
  BY <1>2, OpenFacts, NameFacts
<1>5. RepType' /\ Alone'
  BY <1>2 DEF RepType, Labels, Alone, Solo, Reporting
<1>6. /\ pc'[p] = "write" /\ fd'[p] = i
      /\ \A q \in Procs \ {p} : pc'[q] = pc[q] /\ fd'[q] = fd[q] /\ ~Solo(q)'
  <2>1. Reporting(p) /\ \A q \in Procs \ {p} : pc'[q] = pc[q] /\ fd'[q] = fd[q]
    BY <1>2, <1>3 DEF RepType, DiskType, Reporting
  <2> QED
    BY <1>2, <1>3, <2>1 DEF RepType, DiskType, Reporting, Alone, Solo
<1>7. /\ \A r \in Repos : dir'[Record(r)] = dir[Record(r)] /\ dir[Record(r)] # i
      /\ \A g \in ReportNames : dir'[Report(g)] = dir[Report(g)] /\ dir[Report(g)] # i
      /\ \A g \in ReportNames \ {f} : dir'[Tmp(g)] = dir[Tmp(g)] /\ dir[Tmp(g)] # i
      /\ dir'[Tmp(f)] = i
  BY <1>3, NameFacts DEF DiskType
<1>8. /\ \A g \in ReportNames : Content(Report(g))' = Content(Report(g))
      /\ \A g \in ReportNames \ {f} : Content(Tmp(g))' = Content(Tmp(g))
      /\ Content(Tmp(f))' = Empty /\ data'[i] = Empty
  BY <1>3, <1>7, NameFacts DEF Content, Exists, DiskType
<1>9. OpenFiles'
  BY <1>6, <1>7, InodeFacts DEF OpenFiles, IsRecord
<1>10. Drafts'
  <2>1. Draft(p)' = Tmp(f)
    BY <1>1, <1>2 DEF Draft
  <2>2. fd'[p] = dir'[Draft(p)'] /\ data'[fd'[p]] = Empty
    BY <1>6, <1>7, <1>8, <2>1
  <2> QED
    BY <1>6, <2>2 DEF Drafts
<1>11. Rendered'
  <2>1. Solo(p)' => Solo(p)
    BY <1>2 DEF Solo, Reporting
  <2>2. \A q \in Procs : seen'[q] <= findings' /\ (Solo(q)' => seen'[q] = findings')
    BY <1>2, <1>6, <2>1 DEF Rendered
  <2>3. \A g \in ReportNames : Content(Tmp(g))'.says <= findings
    BY <1>8 DEF Rendered, RepType, Empty
  <2>4. \A g \in ReportNames : Content(Report(g))'.says <= findings
    BY <1>8 DEF Rendered
  <2> QED
    BY <1>2, <2>2, <2>3, <2>4 DEF Rendered
<1>12. Published'
  BY <1>2, <1>6, <1>7, <1>8 DEF Published, Exists
<1> QED
  BY <1>4, <1>5, <1>9, <1>10, <1>11, <1>12

LEMMA WriteTmpStep ==
  ASSUME ReportInv, NEW p \in Procs, WriteTmp(p)
  PROVE  ReportInv'
<1> USE DEF ReportInv
<1>1. /\ pc[p] = "write" /\ Write(p, seen[p]) /\ pc' = [pc EXCEPT ![p] = "replace"]
      /\ UNCHANGED <<findings, seen, at, together, mixed>>
  BY DEF WriteTmp, Goto, rep
<1>2. seen[p] \in Nat /\ fd[p] # 0 /\ fd[p] \in Inodes /\ ~IsRecord(fd[p])
  BY <1>1 DEF RepType, OpenFiles, DiskType
<1>3. /\ DiskType' /\ NoLinks' /\ dir' = dir /\ fd' = [fd EXCEPT ![p] = 0]
      /\ \A i \in Inodes : i # fd[p] => data'[i] = data[i]
      /\ data'[fd[p]].says = seen[p]
      /\ data[fd[p]] = Empty => data'[fd[p]] = [whole |-> TRUE, says |-> seen[p]]
  BY <1>1, <1>2, WriteFacts
<1>4. RepType' /\ Alone'
  BY <1>1 DEF RepType, Labels, Alone, Solo, Reporting
<1>5. /\ pc'[p] = "replace" /\ fd'[p] = 0 /\ (Solo(p)' => Solo(p))
      /\ \A q \in Procs \ {p} : pc'[q] = pc[q] /\ fd'[q] = fd[q] /\ ~Solo(q)'
  <2>1. Reporting(p) /\ \A q \in Procs \ {p} : pc'[q] = pc[q] /\ fd'[q] = fd[q]
    BY <1>1, <1>3 DEF RepType, DiskType, Reporting
  <2> QED
    BY <1>1, <1>3, <2>1 DEF RepType, DiskType, Reporting, Alone, Solo
<1>6. OpenFiles'
  BY <1>3, <1>5 DEF OpenFiles, IsRecord
<1>7. Drafts'
  <2> SUFFICES ASSUME Solo(p)
               PROVE  dir'[Draft(p)'] # 0 /\
                      Content(Draft(p))' = [whole |-> TRUE, says |-> seen'[p]]
    BY <1>5 DEF Drafts, Exists
  <2>1. Draft(p)' = Draft(p) /\ fd[p] = dir[Draft(p)] /\ data[fd[p]] = Empty
    BY <1>1 DEF Drafts, Draft
  <2>2. dir'[Draft(p)] = fd[p] /\ data'[fd[p]] = [whole |-> TRUE, says |-> seen[p]]
    BY <1>3, <2>1
  <2> QED
    BY <1>1, <1>2, <2>1, <2>2 DEF Exists, Content
<1>8. Rendered'
  <2>1. \A q \in Procs : seen'[q] <= findings' /\ (Solo(q)' => seen'[q] = findings')
    BY <1>1, <1>5 DEF Rendered, Solo
  <2>2. \A g \in Names : Content(g)'.says = Content(g).says \/ Content(g)'.says = seen[p]
    BY <1>3 DEF Content, Exists, DiskType
  <2>3. seen[p] <= findings
    BY DEF Rendered
  <2> QED
    BY <1>1, <2>1, <2>2, <2>3, NameFacts DEF Rendered
<1>9. Published'
  <2> SUFFICES ASSUME NEW g \in ReportNames \ mixed, dir[Report(g)] # 0
               PROVE  Content(Report(g))'.whole /\ \A q \in Procs : fd'[q] # dir[Report(g)]
    BY <1>1, <1>3 DEF Published, Exists
  <2>1. dir[Report(g)] \in Inodes /\ Content(Report(g)).whole /\
        \A q \in Procs : fd[q] # dir[Report(g)]
    BY NameFacts DEF Published, Exists, DiskType
  <2> QED
    BY <1>3, <1>5, <2>1, InodeFacts DEF Content, Exists
<1> QED
  BY <1>3, <1>4, <1>6, <1>7, <1>8, <1>9

LEMMA PublishFacts ==
  ASSUME ReportInv, NEW p \in Procs, Publish(p), NEW f \in ReportNames, f = Reports[at[p]]
  PROVE  /\ DiskType' /\ NoLinks' /\ fd' = fd /\ fd[p] = 0
         /\ dir[Tmp(f)] # 0 /\ dir' = [dir EXCEPT ![Report(f)] = dir[Tmp(f)], ![Tmp(f)] = 0]
         /\ Content(Report(f))' = Content(Tmp(f)) /\ Content(Tmp(f))' = Empty
         /\ \A g \in Names \ {Report(f), Tmp(f)} :
              dir'[g] = dir[g] /\ Content(g)' = Content(g)
<1> USE DEF ReportInv
<1>1. pc[p] = "replace" /\ Replace(Tmp(f), Report(f))
  BY DEF Publish
<1>2. Report(f) \in Names /\ Tmp(f) \in Names /\ Report(f) # Tmp(f)
  BY NameFacts
<1>3. /\ DiskType' /\ NoLinks' /\ fd' = fd
      /\ dir[Tmp(f)] # 0 /\ dir' = [dir EXCEPT ![Report(f)] = dir[Tmp(f)], ![Tmp(f)] = 0]
      /\ \A i \in Inodes : i # dir[Report(f)] => data'[i] = data[i]
  BY <1>1, <1>2, ReplaceFacts
<1>4. fd[p] = 0
  BY <1>1 DEF OpenFiles
<1>5. dir'[Report(f)] = dir[Tmp(f)] /\ dir'[Tmp(f)] = 0
  BY <1>2, <1>3 DEF DiskType
<1>6. dir[Tmp(f)] \in Inodes /\ dir[Tmp(f)] # dir[Report(f)]
  BY <1>2, <1>3 DEF DiskType, NoLinks
<1>7. Content(Report(f))' = Content(Tmp(f)) /\ Content(Tmp(f))' = Empty
  BY <1>3, <1>5, <1>6 DEF Content, Exists
<1>8. \A g \in Names \ {Report(f), Tmp(f)} : dir'[g] = dir[g] /\ Content(g)' = Content(g)
  <2> TAKE g \in Names \ {Report(f), Tmp(f)}
  <2>1. dir'[g] = dir[g]
    BY <1>3 DEF DiskType
  <2>2. dir[g] # 0 => dir[g] \in Inodes /\ dir[g] # dir[Report(f)]
    BY <1>2 DEF DiskType, NoLinks
  <2> QED
    BY <1>3, <2>1, <2>2 DEF Content, Exists
<1> QED
  BY <1>3, <1>4, <1>7, <1>8

(* After it has moved a report, a process is at the next one or at its end. *)
LEMMA PublishControl ==
  ASSUME ReportInv, NEW p \in Procs, Publish(p)
  PROVE  /\ RepType' /\ findings' = findings
         /\ pc'[p] \in {"idle", "open"}
         /\ pc'[p] = "open" => together' = together /\ seen'[p] \in {seen[p], findings}
         /\ seen'[p] \in {0, seen[p], findings}
         /\ \A q \in Procs \ {p} :
              /\ pc'[q] = pc[q] /\ seen'[q] = seen[q]
              /\ at'[q] = at[q] /\ together'[q] = together[q]
<1> USE DEF ReportInv, RepType
<1>1. findings' = findings
  BY DEF Publish
<1>2. CASE at[p] = Len(Reports)
  <2>1. /\ pc' = [pc EXCEPT ![p] = "idle"] /\ seen' = [seen EXCEPT ![p] = 0]
        /\ at' = [at EXCEPT ![p] = 1] /\ together' = [together EXCEPT ![p] = FALSE]
    BY <1>2 DEF Publish, Goto, Forget
  <2>2. 1 \in DOMAIN Reports
    BY FilesAssumption
  <2> QED
    BY <1>1, <2>1, <2>2 DEF Labels
<1>3. CASE at[p] # Len(Reports)
  <2>1. /\ pc' = [pc EXCEPT ![p] = "open"] /\ at' = [at EXCEPT ![p] = @ + 1]
        /\ seen' = [seen EXCEPT ![p] = IF p = "watch" THEN findings ELSE @]
        /\ together' = together
    BY <1>3 DEF Publish, Goto
  <2>2. at[p] + 1 \in DOMAIN Reports
    BY <1>3, FilesAssumption
  <2> QED
    BY <1>1, <2>1, <2>2 DEF Labels
<1> QED
  BY <1>2, <1>3

LEMMA PublishStep ==
  ASSUME ReportInv, NEW p \in Procs, Publish(p)
  PROVE  ReportInv'
<1> USE DEF ReportInv
<1>1. PICK f \in ReportNames : f = Reports[at[p]]
  BY DEF RepType, ReportNames
<1>2. /\ DiskType' /\ NoLinks' /\ fd' = fd /\ fd[p] = 0
      /\ dir[Tmp(f)] # 0 /\ dir' = [dir EXCEPT ![Report(f)] = dir[Tmp(f)], ![Tmp(f)] = 0]
      /\ Content(Report(f))' = Content(Tmp(f)) /\ Content(Tmp(f))' = Empty
      /\ \A g \in Names \ {Report(f), Tmp(f)} : dir'[g] = dir[g] /\ Content(g)' = Content(g)
  BY <1>1, PublishFacts
<1>3. /\ RepType' /\ findings' = findings
      /\ pc'[p] \in {"idle", "open"}
      /\ pc'[p] = "open" => together' = together /\ seen'[p] \in {seen[p], findings}
      /\ seen'[p] \in {0, seen[p], findings}
      /\ \A q \in Procs \ {p} :
           /\ pc'[q] = pc[q] /\ seen'[q] = seen[q]
           /\ at'[q] = at[q] /\ together'[q] = together[q]
  BY PublishControl
<1>4. pc[p] = "replace" /\ Reporting(p)
  BY DEF Publish, Reporting
<1>5. \A q \in Procs : /\ Reporting(q)' => Reporting(q)
                       /\ Solo(q)' => Solo(q)
  BY <1>3, <1>4 DEF Reporting, Solo
<1>6. \A q \in Procs \ {p} : ~Solo(q)
  BY <1>4 DEF Alone
<1>7. \A r \in Repos : dir'[Record(r)] = dir[Record(r)]
  BY <1>2, NameFacts
<1>8. Alone'
  BY <1>5 DEF Alone
<1>9. OpenFiles'
  <2>1. \A q \in Procs \ {p} :
          /\ fd[q] # 0 => pc[q] \in {"write", "record"}
          /\ pc[q] = "write" => fd[q] # 0 /\ ~(\E r \in Repos : fd[q] = dir'[Record(r)])
          /\ pc[q] = "record" /\ fd[q] # 0 => \E r \in Repos : fd[q] = dir'[Record(r)]
    BY <1>7 DEF OpenFiles, IsRecord
  <2> QED
    BY <1>2, <1>3, <2>1 DEF OpenFiles, IsRecord
<1>10. Drafts'
  BY <1>3, <1>5, <1>6 DEF Drafts
<1>11. Rendered'
  <2>1. \A q \in Procs : seen'[q] <= findings' /\ (Solo(q)' => seen'[q] = findings')
    <3>1. seen'[p] <= findings
      BY <1>3 DEF Rendered, RepType
    <3>2. Solo(p)' => seen'[p] = findings
      BY <1>3, <1>5 DEF Rendered, Solo, Reporting
    <3> QED
      BY <1>3, <1>5, <1>6, <3>1, <3>2 DEF Rendered
  <2>2. \A g \in ReportNames : Content(Report(g))'.says <= findings
    BY <1>2, NameFacts DEF Rendered
  <2>3. \A g \in ReportNames : Content(Tmp(g))'.says <= findings
    BY <1>2, NameFacts DEF Rendered, RepType, Empty
  <2> QED
    BY <1>3, <2>1, <2>2, <2>3 DEF Rendered
<1>12. Published'
  <2> SUFFICES ASSUME NEW g \in ReportNames, g \notin mixed', dir'[Report(g)] # 0
               PROVE  Content(Report(g))'.whole /\ \A q \in Procs : fd[q] # dir'[Report(g)]
    BY <1>2 DEF Published, Exists
  <2>1. mixed' = IF together[p] THEN mixed \cup {f} ELSE mixed \ {f}
    BY <1>1 DEF Publish
  <2>2. CASE g = f
    <3>1. Solo(p)
      BY <1>4, <2>1, <2>2 DEF Solo, RepType
    <3>2. Content(Tmp(f)).whole
      <4>1. Content(Draft(p)) = [whole |-> TRUE, says |-> seen[p]]
        BY <1>4, <3>1 DEF Drafts
      <4> QED
        BY <1>1, <4>1 DEF Draft
    <3>3. dir'[Report(f)] = dir[Tmp(f)]
      BY <1>2, NameFacts DEF DiskType
    <3>4. ~IsRecord(dir[Tmp(f)])
      BY <1>2, NameFacts DEF NoLinks, IsRecord
    <3>5. \A q \in Procs \ {p} : fd[q] # 0 => IsRecord(fd[q])
      BY <3>1 DEF OpenFiles, Alone, Reporting
    <3> QED
      BY <1>2, <2>2, <3>2, <3>3, <3>4, <3>5
  <2>3. CASE g # f
    <3>1. Report(g) \in Names \ {Report(f), Tmp(f)}
      BY <2>3, NameFacts
    <3> QED
      BY <1>2, <2>1, <2>3, <3>1 DEF Published, Exists
  <2> QED
    BY <2>2, <2>3
<1> QED
  BY <1>2, <1>3, <1>8, <1>9, <1>10, <1>11, <1>12

(* What the end of a process leaves behind. *)
LEMMA StopStep ==
  ASSUME ReportInv, NEW p \in Procs, Stop(p)
  PROVE  ReportInv'
<1>1. /\ pc' = [pc EXCEPT ![p] = "idle"] /\ fd' = [fd EXCEPT ![p] = 0]
      /\ seen' = [seen EXCEPT ![p] = 0] /\ at' = [at EXCEPT ![p] = 1]
      /\ together' = [together EXCEPT ![p] = FALSE]
      /\ UNCHANGED <<dir, data, findings, mixed>>
  BY DEF Stop, Goto, Forget
<1>2. 1 \in DOMAIN Reports
  BY FilesAssumption
<1>3. RepType' /\ fd' \in [Procs -> Inodes \cup {0}]
  BY <1>1, <1>2 DEF ReportInv, RepType, Labels, DiskType
<1>4. \A q \in Procs :
        \/ /\ pc'[q] = pc[q] /\ fd'[q] = fd[q] /\ seen'[q] = seen[q]
           /\ at'[q] = at[q] /\ together'[q] = together[q]
        \/ /\ pc'[q] \notin {"open", "write", "replace"} /\ fd'[q] = 0
           /\ seen'[q] <= findings
  <2> TAKE q \in Procs
  <2>1. CASE q = p
    <3>1. pc'[p] = "idle" /\ fd'[p] = 0 /\ seen'[p] = 0 /\ findings \in Nat
      BY <1>1 DEF ReportInv, RepType, DiskType
    <3> QED
      BY <2>1, <3>1
  <2>2. CASE q # p
    BY <1>1, <2>2 DEF ReportInv, RepType, DiskType
  <2> QED
    BY <2>1, <2>2
<1> QED
  BY <1>1, <1>3, <1>4, QuietStep

-----------------------------------------------------------------------------
(* The invariant of a run: unless the record of a repository has changed    *)
(* since the run began, the record decides now as it decided then.          *)

RunType ==
  /\ DOMAIN policy = Procs /\ DOMAIN offers = Procs /\ DOMAIN news = Procs
  /\ DOMAIN hand = Procs /\ DOMAIN refused = Procs /\ DOMAIN changed = Procs
  /\ todo \in [Procs -> SUBSET Repos]
  /\ \A p \in Procs : refused[p] \subseteq Repos

(* What the run has ingested, or has in hand since it looked at the record. *)
Took(p) == news[p] \cup hand[p]

RestKnowsNothing ==
  \A p \in Procs : pc[p] = "idle" => Took(p) = {} /\ refused[p] = {} /\ changed[p] = {}

DecidedAsNow ==
  \A p \in Procs : pc[p] \in Ingesting => \A r \in Repos \ changed[p] :
    /\ r \in refused[p] => ShouldSkip(policy[p], r)
    /\ (\E e \in Took(p) : RepoOf[e] = r) => ~ShouldSkip(policy[p], r)

RunInv == RunType /\ RestKnowsNothing /\ DecidedAsNow

SameRecord(r) == Content(Record(r))' = Content(Record(r))

(* The records stay; every process goes on, leaves its run or begins one. *)
LEMMA RunStep ==
  ASSUME RunInv, RunType', \A r \in Repos : SameRecord(r),
         \A q \in Procs :
           \/ /\ pc'[q] = pc[q] \/ (pc[q] \in Ingesting /\ pc'[q] \in Ingesting)
              /\ Took(q)' \subseteq Took(q) /\ refused'[q] = refused[q]
              /\ changed'[q] = changed[q] /\ policy'[q] = policy[q]
           \/ pc'[q] # "idle" /\ pc'[q] \notin Ingesting
           \/ Took(q)' = {} /\ refused'[q] = {} /\ changed'[q] = {}
  PROVE  RunInv'
<1> USE DEF RunInv
<1>1. RestKnowsNothing'
  BY DEF RestKnowsNothing, Ingesting
<1>2. DecidedAsNow'
  <2> SUFFICES ASSUME NEW q \in Procs, pc'[q] \in Ingesting, NEW r \in Repos \ changed'[q]
               PROVE  /\ r \in refused'[q] => ShouldSkip(policy[q], r)'
                      /\ (\E e \in Took(q)' : RepoOf[e] = r) => ~ShouldSkip(policy[q], r)'
    BY DEF DecidedAsNow, Ingesting
  <2>1. ShouldSkip(policy[q], r)' <=> ShouldSkip(policy'[q], r)
    BY DEF ShouldSkip, Recorded, Old, SameRecord
  <2>2. CASE /\ pc[q] \in Ingesting
             /\ Took(q)' \subseteq Took(q) /\ refused'[q] = refused[q]
             /\ changed'[q] = changed[q] /\ policy'[q] = policy[q]
    BY <2>1, <2>2 DEF DecidedAsNow
  <2>3. CASE Took(q)' = {} /\ refused'[q] = {}
    BY <2>3
  <2> QED
    BY <2>2, <2>3
<1> QED
  BY <1>1, <1>2

(* Records of S change, and every run knows it. *)
LEMMA ChangingStep ==
  ASSUME RunInv, RunType', NEW S, Changing(S), UNCHANGED <<pc, policy, news, hand, refused>>,
         \A r \in Repos \ S : SameRecord(r)
  PROVE  RunInv'
<1> USE DEF RunInv
<1>1. \A q \in Procs : changed'[q] = IF pc[q] = "idle" THEN {} ELSE changed[q] \cup S
  BY DEF Changing
<1>2. RestKnowsNothing'
  BY <1>1 DEF RestKnowsNothing, Took
<1>3. DecidedAsNow'
  <2> SUFFICES ASSUME NEW q \in Procs, pc[q] \in Ingesting, NEW r \in Repos \ changed'[q]
               PROVE  /\ r \in refused[q] => ShouldSkip(policy[q], r)'
                      /\ (\E e \in Took(q) : RepoOf[e] = r) => ~ShouldSkip(policy[q], r)'
    BY DEF DecidedAsNow, Took, Ingesting
  <2>1. r \notin changed[q] /\ SameRecord(r)
    BY <1>1 DEF Ingesting
  <2>2. ShouldSkip(policy[q], r)' <=> ShouldSkip(policy[q], r)
    BY <2>1 DEF ShouldSkip, Recorded, Old, SameRecord
  <2> QED
    BY <2>1, <2>2 DEF DecidedAsNow
<1> QED
  BY <1>2, <1>3

(* An observation is refused, or taken in hand, by what the record says. *)
LEMMA LookStep ==
  ASSUME pc \in [Procs -> Labels], RunInv, NEW p \in Procs, Look(p)
  PROVE  RunInv'
<1> USE DEF RunInv
<1>1. pc[p] = "ingest" /\ UNCHANGED <<disk, policy, news, todo, changed>>
  BY DEF Look
<1>2. \A r, args : ShouldSkip(args, r)' <=> ShouldSkip(args, r)
  BY <1>1 DEF disk, ShouldSkip, Recorded, Old, Content, Exists
<1>3. PICK e \in offers[p] : /\ Refuse(p, e) \/ Allow(p, e)
                             /\ offers' = [offers EXCEPT ![p] = @ \ {e}]
  BY DEF Look
<1>4. CASE Refuse(p, e)
  <2>1. /\ ShouldSkip(policy[p], RepoOf[e]) /\ RepoOf[e] \in Repos
        /\ pc' = pc /\ hand' = hand
        /\ refused' = [refused EXCEPT ![p] = @ \cup {RepoOf[e]}]
    BY <1>4 DEF Refuse, ShouldSkip
  <2>2. RunType'
    BY <1>1, <1>3, <2>1 DEF RunType
  <2>3. RestKnowsNothing'
    BY <1>1, <2>1 DEF RestKnowsNothing, RunType, Took
  <2>4. DecidedAsNow'
    BY <1>1, <1>2, <2>1 DEF DecidedAsNow, RunType, Took
  <2> QED
    BY <2>2, <2>3, <2>4
<1>5. CASE Allow(p, e)
  <2>1. /\ ~ShouldSkip(policy[p], RepoOf[e]) /\ refused' = refused
        /\ hand' = [hand EXCEPT ![p] = {e}] /\ pc' = [pc EXCEPT ![p] = "claim"]
    BY <1>5 DEF Allow, Goto
  <2>2. RunType'
    BY <1>1, <1>3, <2>1 DEF RunType
  <2>3. pc'[p] = "claim" /\ \A q \in Procs \ {p} : pc'[q] = pc[q]
    BY <2>1
  <2>4. Took(p)' \subseteq Took(p) \cup {e} /\ \A q \in Procs \ {p} : Took(q)' = Took(q)
    BY <1>1, <2>1 DEF RunType, Took
  <2>5. RestKnowsNothing'
    BY <1>1, <2>1, <2>3, <2>4 DEF RestKnowsNothing
  <2>6. DecidedAsNow'
    <3> SUFFICES ASSUME NEW q \in Procs, pc'[q] \in Ingesting, NEW r \in Repos \ changed[q]
                 PROVE  /\ r \in refused[q] => ShouldSkip(policy[q], r)
                        /\ (\E o \in Took(q)' : RepoOf[o] = r) => ~ShouldSkip(policy[q], r)
      BY <1>1, <1>2, <2>1 DEF DecidedAsNow
    <3>1. pc[q] \in Ingesting
      BY <1>1, <2>3 DEF Ingesting
    <3> QED
      BY <2>1, <2>4, <3>1 DEF DecidedAsNow
  <2> QED
    BY <2>2, <2>5, <2>6
<1> QED
  BY <1>3, <1>4, <1>5

(* What is in hand is claimed by another, claimed, or ingested. *)
LEMMA HandStep ==
  ASSUME pc \in [Procs -> Labels], RunInv, NEW p \in Procs, Claim(p) \/ Store(p)
  PROVE  RunInv'
<1>1. /\ pc[p] \in {"claim", "store"}
      /\ UNCHANGED <<disk, policy, offers, refused, todo, changed>>
      /\ \E label \in {"store", "ingest"} : pc' = [pc EXCEPT ![p] = label]
  BY DEF Claim, Store, Goto
<1>2. /\ DOMAIN news' = Procs /\ DOMAIN hand' = Procs
      /\ Took(p)' \subseteq Took(p) /\ \A q \in Procs \ {p} : Took(q)' = Took(q)
  BY DEF Claim, Store, RunInv, RunType, Took
<1>3. RunType'
  BY <1>1, <1>2 DEF RunInv, RunType
<1>4. \A r \in Repos : SameRecord(r)
  BY <1>1 DEF disk, SameRecord, Content, Exists
<1>5. pc'[p] \in Ingesting /\ pc[p] \in Ingesting /\ \A q \in Procs \ {p} : pc'[q] = pc[q]
  BY <1>1 DEF Ingesting
<1>6. \A q \in Procs :
        /\ pc'[q] = pc[q] \/ (pc[q] \in Ingesting /\ pc'[q] \in Ingesting)
        /\ Took(q)' \subseteq Took(q)
        /\ refused'[q] = refused[q] /\ changed'[q] = changed[q] /\ policy'[q] = policy[q]
  BY <1>1, <1>2, <1>5
<1> QED
  BY <1>3, <1>4, <1>6, RunStep

-----------------------------------------------------------------------------
(* All steps.                                                              *)

FilesInv == ReportInv /\ RunInv

LEMMA InitFiles == Init => FilesInv
<1> SUFFICES ASSUME Init PROVE FilesInv
  OBVIOUS
<1>1. /\ dir = [f \in Names |-> 0] /\ data = [i \in Inodes |-> Empty]
      /\ fd = [q \in Procs |-> 0] /\ findings = 0 /\ mixed = {}
      /\ pc = [q \in Procs |-> "idle"] /\ seen = [q \in Procs |-> 0]
      /\ at = [q \in Procs |-> 1] /\ together = [q \in Procs |-> FALSE]
  BY DEF Init, DiskInit
<1>2. DiskType /\ NoLinks
  BY <1>1 DEF DiskType, NoLinks, Empty
<1>3. RepType
  BY <1>1, FilesAssumption DEF RepType, Labels
<1>4. \A p \in Procs : ~Reporting(p)
  BY <1>1 DEF Reporting
<1>5. Alone /\ OpenFiles /\ Drafts
  BY <1>1, <1>4 DEF Alone, OpenFiles, Drafts, Solo
<1>6. \A f \in Names : Content(f) = Empty /\ ~Exists(f)
  BY <1>1 DEF Content, Exists
<1>7. Rendered /\ Published
  BY <1>1, <1>4, <1>6, NameFacts DEF Rendered, Published, Solo, Empty
<1>8. RunInv
  BY <1>1 DEF Init, RunInv, RunType, RestKnowsNothing, DecidedAsNow, Took, Ingesting
<1> QED
  BY <1>2, <1>3, <1>5, <1>7, <1>8 DEF FilesInv, ReportInv

(* A process goes from one thing that is not a report to another. *)
LEMMA PlainStep ==
  ASSUME ReportInv, NEW p \in Procs, NEW label \in Labels \ {"open", "write", "replace"},
         pc[p] \notin {"open", "write", "replace"}, fd[p] = 0, Goto(p, label),
         UNCHANGED <<disk, findings, rep>>
  PROVE  ReportInv'
<1>1. /\ pc' = [pc EXCEPT ![p] = label]
      /\ UNCHANGED <<dir, data, fd, findings, seen, at, together, mixed>>
  BY DEF Goto, disk, rep
<1>2. RepType' /\ fd' \in [Procs -> Inodes \cup {0}]
  BY <1>1 DEF ReportInv, RepType, Labels, DiskType
<1>3. pc'[p] \notin {"open", "write", "replace"} /\ fd'[p] = 0 /\ seen'[p] <= findings
  BY <1>1 DEF ReportInv, Rendered, RepType
<1>4. \A q \in Procs \ {p} : pc'[q] = pc[q] /\ fd'[q] = fd[q] /\ seen'[q] = seen[q]
                             /\ at'[q] = at[q] /\ together'[q] = together[q]
  BY <1>1 DEF ReportInv, RepType
<1> QED
  BY <1>1, <1>2, <1>3, <1>4, QuietStep

LEMMA EndRunStep ==
  ASSUME ReportInv, NEW p \in Procs, EndRun(p)
  PROVE  ReportInv'
<1>1. /\ pc' = [pc EXCEPT ![p] = "idle"] /\ fd[p] = 0
      /\ seen' = [seen EXCEPT ![p] = 0] /\ at' = [at EXCEPT ![p] = 1]
      /\ together' = [together EXCEPT ![p] = FALSE]
      /\ UNCHANGED <<dir, data, fd, findings, mixed>>
  BY DEF EndRun, Goto, Forget, disk
<1>2. RepType' /\ fd' \in [Procs -> Inodes \cup {0}]
  BY <1>1, FilesAssumption DEF ReportInv, RepType, Labels, DiskType
<1>3. pc'[p] = "idle" /\ fd'[p] = 0 /\ seen'[p] = 0 /\ findings \in Nat
  BY <1>1 DEF ReportInv, RepType
<1>4. \A q \in Procs \ {p} : pc'[q] = pc[q] /\ fd'[q] = fd[q] /\ seen'[q] = seen[q]
                             /\ at'[q] = at[q] /\ together'[q] = together[q]
  BY <1>1 DEF ReportInv, RepType
<1>5. \A q \in Procs :
        \/ /\ pc'[q] = pc[q] /\ fd'[q] = fd[q] /\ seen'[q] = seen[q]
           /\ at'[q] = at[q] /\ together'[q] = together[q]
        \/ /\ pc'[q] \notin {"open", "write", "replace"} /\ fd'[q] = 0
           /\ seen'[q] <= findings
  BY <1>3, <1>4
<1> QED
  BY <1>1, <1>2, <1>5, QuietStep

(* A step that leaves files, findings, control and reports. *)
LEMMA StillStep ==
  ASSUME ReportInv, UNCHANGED <<disk, findings, pc, rep>>
  PROVE  ReportInv'
<1>1. UNCHANGED <<dir, data, fd, findings, pc, seen, at, together, mixed>>
  BY DEF disk, rep
<1>2. RepType' /\ fd' \in [Procs -> Inodes \cup {0}]
  BY <1>1 DEF ReportInv, RepType, DiskType
<1> QED
  BY <1>1, <1>2, QuietStep

LEMMA ReportsKept ==
  ASSUME ReportInv, todo \in [Procs -> SUBSET Repos], [Next]_vars
  PROVE  ReportInv'
<1>1. ASSUME NEW p \in Procs, Begin(p) PROVE ReportInv'
  <2>1. CASE pc[p] = "idle"
    <3>1. fd[p] = 0
      BY <2>1 DEF ReportInv, OpenFiles
    <3>2. CASE Gather(p)
      BY <2>1, <3>1, <3>2, PlainStep DEF Gather, Labels
    <3>3. CASE Backlog(p)
      BY <2>1, <3>1, <3>3, PlainStep DEF Backlog, Labels
    <3>4. CASE ExportLedger(p)
      BY <2>1, <3>1, <3>4, PlainStep DEF ExportLedger, Labels
    <3>5. CASE ExportFindings(p)
      <4>1. BeginReports(p) /\ UNCHANGED disk /\ findings' = findings
        BY <3>5 DEF ExportFindings
      <4> QED
        BY <2>1, <4>1, BeginStep DEF ReportInv, RepType
    <3>6. CASE Rescore(p)
      BY <2>1, <3>1, <3>6, PlainStep DEF Rescore, Labels
    <3> QED
      BY <1>1, <3>2, <3>3, <3>4, <3>5, <3>6 DEF Begin
  <2> QED
    BY <1>1, <2>1 DEF Begin, Gather, Backlog, ExportLedger, ExportFindings, Rescore,
                      Command, NextCycle
<1>2. ASSUME NEW p \in Procs, Step(p) PROVE ReportInv'
  <2>1. CASE Look(p) \/ Claim(p) \/ Store(p)
    <3>1. pc[p] \in Ingesting /\ fd[p] = 0 /\ UNCHANGED <<disk, findings, rep>>
      BY <2>1 DEF Look, Claim, Store, Ingesting, ReportInv, OpenFiles
    <3>2. pc' = pc \/ \E label \in Ingesting : Goto(p, label)
      BY <2>1 DEF Look, Refuse, Allow, Claim, Store, Ingesting
    <3> QED
      BY <3>1, <3>2, StillStep, PlainStep DEF Ingesting, Labels
  <2>2. CASE EndIngest(p)
    <3>1. pc[p] = "ingest" /\ fd[p] = 0
      BY <2>2 DEF EndIngest, ReportInv, OpenFiles
    <3> QED
      BY <2>2, <3>1, PlainStep DEF EndIngest, Labels
  <2>3. CASE OpenRecord(p)
    BY <2>3, OpenRecordStep
  <2>4. CASE WriteRecord(p)
    BY <2>4, WriteRecordStep
  <2>5. CASE EndRun(p)
    BY <2>5, EndRunStep
  <2>6. CASE FindCandidates(p)
    BY <2>6, PlainStep DEF FindCandidates, Labels
  <2>7. CASE Review(p)
    <3>1. BeginReports(p) /\ UNCHANGED disk /\ findings' = findings + 1 /\ pc[p] = "review"
      BY <2>7 DEF Review
    <3> QED
      BY <3>1, BeginStep DEF ReportInv, RepType
  <2>8. CASE OpenTmp(p)
    BY <2>8, OpenTmpStep
  <2>9. CASE WriteTmp(p)
    BY <2>9, WriteTmpStep
  <2>10. CASE Publish(p)
    BY <2>10, PublishStep
  <2>11. CASE PublishFails(p)
    BY <2>11, StopStep DEF PublishFails
  <2> QED
    BY <1>2, <2>1, <2>2, <2>3, <2>4, <2>5, <2>6, <2>7, <2>8, <2>9, <2>10, <2>11 DEF Step
<1>3. ASSUME NEW p \in Procs, Kill(p) PROVE ReportInv'
  BY <1>3, StopStep DEF Kill
<1>4. CASE Happen
  BY <1>4, StillStep DEF Happen
<1>5. CASE Tick
  BY <1>5, TickStep
<1>6. CASE UNCHANGED vars
  BY <1>6, StillStep DEF vars
<1> QED
  BY <1>1, <1>2, <1>3, <1>4, <1>5, <1>6 DEF Next

(* Which records a step on files leaves as they are. *)
LEMMA RecordsStay ==
  ASSUME ReportInv, NEW p \in Procs, OpenTmp(p) \/ WriteTmp(p) \/ Publish(p)
  PROVE  \A r \in Repos : SameRecord(r)
<1> USE DEF ReportInv
<1>1. PICK f \in ReportNames : f = Reports[at[p]]
  BY DEF RepType, ReportNames
<1>2. CASE OpenTmp(p)
  <2>1. Open(p, Tmp(f))
    BY <1>1, <1>2 DEF OpenTmp
  <2>2. PICK i \in Inodes :
          /\ dir' = [dir EXCEPT ![Tmp(f)] = i] /\ data' = [data EXCEPT ![i] = Empty]
          /\ \A g \in Names \ {Tmp(f)} : dir[g] # i
    BY <2>1, OpenFacts, NameFacts
  <2> QED
    BY <2>2, NameFacts DEF SameRecord, Content, Exists, DiskType
<1>3. CASE WriteTmp(p)
  <2>1. pc[p] = "write" /\ Write(p, seen[p]) /\ seen[p] \in Nat
    BY <1>3 DEF WriteTmp, RepType
  <2>2. fd[p] # 0 /\ ~IsRecord(fd[p])
    BY <2>1 DEF OpenFiles
  <2>3. dir' = dir /\ \A i \in Inodes : i # fd[p] => data'[i] = data[i]
    BY <2>1, <2>2, WriteFacts
  <2>4. \A r \in Repos : dir[Record(r)] \in Inodes \cup {0} /\ dir[Record(r)] # fd[p]
    BY <2>2, NameFacts DEF IsRecord, DiskType
  <2> QED
    BY <2>3, <2>4 DEF SameRecord, Content, Exists
<1>4. CASE Publish(p)
  <2>1. \A g \in Names \ {Report(f), Tmp(f)} : Content(g)' = Content(g)
    BY <1>1, <1>4, PublishFacts
  <2> QED
    BY <2>1, NameFacts DEF SameRecord
<1> QED
  BY <1>2, <1>3, <1>4

LEMMA OthersRecordsStay ==
  ASSUME ReportInv, NEW p \in Procs, NEW r \in Repos, Open(p, Record(r)),
         NEW o \in Repos \ {r}
  PROVE  SameRecord(o)
<1> USE DEF ReportInv
<1>1. PICK i \in Inodes :
        /\ dir' = [dir EXCEPT ![Record(r)] = i] /\ data' = [data EXCEPT ![i] = Empty]
        /\ \A g \in Names \ {Record(r)} : dir[g] # i
  BY OpenFacts, NameFacts
<1>2. Record(o) \in Names \ {Record(r)}
  BY NameFacts
<1> QED
  BY <1>1, <1>2 DEF SameRecord, Content, Exists, DiskType

LEMMA MoveStep ==
  ASSUME FilesInv, NEW p \in Procs,
         NEW label \in {"record", "review", "open", "write", "replace"}, Goto(p, label),
         UNCHANGED <<policy, offers, news, hand, refused, changed>>,
         todo' \in [Procs -> SUBSET Repos], \A r \in Repos : SameRecord(r)
  PROVE  RunInv'
<1>1. pc' = [pc EXCEPT ![p] = label] /\ pc \in [Procs -> Labels]
  BY DEF Goto, FilesInv, ReportInv, RepType
<1>2. RunType'
  BY DEF FilesInv, RunInv, RunType
<1>3. \A q \in Procs : pc'[q] = pc[q] \/ (pc'[q] # "idle" /\ pc'[q] \notin Ingesting)
  BY <1>1 DEF Ingesting
<1> QED
  BY <1>2, <1>3, RunStep DEF FilesInv, Took

LEMMA ForgetStep ==
  ASSUME FilesInv, NEW p \in Procs, Goto(p, "idle"), NEW args, Forget(p, args),
         \A r \in Repos : SameRecord(r)
  PROVE  RunInv'
<1>1. pc' = [pc EXCEPT ![p] = "idle"] /\ pc \in [Procs -> Labels]
  BY DEF Goto, FilesInv, ReportInv, RepType
<1>2. /\ offers' = [offers EXCEPT ![p] = {}] /\ news' = [news EXCEPT ![p] = {}]
      /\ hand' = [hand EXCEPT ![p] = {}]
      /\ refused' = [refused EXCEPT ![p] = {}] /\ todo' = [todo EXCEPT ![p] = {}]
      /\ changed' = [changed EXCEPT ![p] = {}] /\ policy' = [policy EXCEPT ![p] = args]
  BY DEF Forget
<1>3. RunType'
  BY <1>2 DEF FilesInv, RunInv, RunType
<1>4. Took(p)' = {} /\ refused'[p] = {} /\ changed'[p] = {}
  BY <1>2 DEF FilesInv, RunInv, RunType, Took
<1>5. \A q \in Procs \ {p} :
        /\ pc'[q] = pc[q] /\ Took(q)' = Took(q) /\ refused'[q] = refused[q]
        /\ changed'[q] = changed[q] /\ policy'[q] = policy[q]
  BY <1>1, <1>2 DEF FilesInv, RunInv, RunType, Took
<1> QED
  BY <1>3, <1>4, <1>5, RunStep DEF FilesInv

LEMMA GatherStep ==
  ASSUME FilesInv, NEW p \in Procs, Gather(p)
  PROVE  RunInv'
<1>1. /\ pc[p] = "idle" /\ pc' = [pc EXCEPT ![p] = "ingest"] /\ pc \in [Procs -> Labels]
      /\ UNCHANGED <<disk, news, hand, refused, todo, changed>>
      /\ policy' = policy \/ \E c \in Policies : policy' = [policy EXCEPT ![p] = c]
      /\ DOMAIN offers' = DOMAIN offers
  BY DEF Gather, NextCycle, Command, Goto, FilesInv, ReportInv, RepType
<1>2. \A r \in Repos : SameRecord(r)
  BY <1>1 DEF disk, SameRecord, Content, Exists
<1>3. RunType'
  BY <1>1 DEF FilesInv, RunInv, RunType
<1>4. Took(p)' = {} /\ refused'[p] = {} /\ changed'[p] = {}
  BY <1>1 DEF FilesInv, RunInv, RestKnowsNothing, Took
<1>5. \A q \in Procs \ {p} :
        /\ pc'[q] = pc[q] /\ Took(q)' = Took(q) /\ refused'[q] = refused[q]
        /\ changed'[q] = changed[q] /\ policy'[q] = policy[q]
  BY <1>1 DEF FilesInv, RunInv, RunType, Took
<1> QED
  BY <1>2, <1>3, <1>4, <1>5, RunStep DEF FilesInv

LEMMA RecordChangeStep ==
  ASSUME FilesInv, (\E p \in Procs : OpenRecord(p) \/ WriteRecord(p)) \/ Tick
  PROVE  RunInv'
<1>1. ASSUME NEW p \in Procs, OpenRecord(p) PROVE RunInv'
  <2>1. PICK r \in todo[p] : /\ Open(p, Record(r)) /\ Changing({r})
                             /\ todo' = [todo EXCEPT ![p] = @ \ {r}]
    BY <1>1 DEF OpenRecord
  <2>2. UNCHANGED <<pc, policy, offers, news, hand, refused>>
    BY <1>1 DEF OpenRecord
  <2>3. r \in Repos /\ \A o \in Repos \ {r} : SameRecord(o)
    BY <2>1, OthersRecordsStay DEF FilesInv, RunInv, RunType
  <2>4. RunType'
    BY <2>1, <2>2 DEF FilesInv, RunInv, RunType, Changing
  <2> QED
    BY <2>1, <2>2, <2>3, <2>4, ChangingStep DEF FilesInv
<1>2. ASSUME NEW p \in Procs, WriteRecord(p) PROVE RunInv'
  <2> DEFINE S == {r \in Repos : dir[Record(r)] = fd[p]}
  <2>1. /\ fd[p] # 0 /\ Write(p, 0) /\ Changing(S)
        /\ UNCHANGED <<pc, policy, offers, news, hand, refused, todo>>
    BY <1>2 DEF WriteRecord, run
  <2>2. dir' = dir /\ \A i \in Inodes : i # fd[p] => data'[i] = data[i]
    BY <2>1, WriteFacts DEF FilesInv, ReportInv
  <2>3. \A r \in Repos \ S : SameRecord(r)
    BY <2>2, NameFacts DEF SameRecord, Content, Exists, FilesInv, ReportInv, DiskType
  <2>4. RunType'
    BY <2>1 DEF FilesInv, RunInv, RunType, Changing
  <2> QED
    BY <2>1, <2>3, <2>4, ChangingStep DEF FilesInv
<1>3. CASE Tick
  <2> DEFINE S == {r \in Repos : Recorded(r) /\ ~Old(r)}
  <2>1. /\ dir' = dir /\ Changing(S)
        /\ data' = [i \in Inodes |->
             IF \E r \in S : dir[Record(r)] = i THEN [data[i] EXCEPT !.says = 1] ELSE data[i]]
        /\ UNCHANGED <<pc, policy, offers, news, hand, refused, todo>>
    BY <1>3 DEF Tick, run
  <2>2. \A r \in Repos \ S, o \in S : dir[Record(r)] # 0 => dir[Record(o)] # dir[Record(r)]
    BY NameFacts DEF FilesInv, ReportInv, NoLinks
  <2>3. \A r \in Repos \ S : SameRecord(r)
    BY <2>1, <2>2, NameFacts DEF SameRecord, Content, Exists, FilesInv, ReportInv, DiskType
  <2>4. RunType'
    BY <2>1 DEF FilesInv, RunInv, RunType, Changing
  <2> QED
    BY <2>1, <2>3, <2>4, ChangingStep DEF FilesInv
<1> QED
  BY <1>1, <1>2, <1>3

LEMMA RunsKept ==
  ASSUME FilesInv, [Next]_vars
  PROVE  RunInv'
<1>0. /\ todo \in [Procs -> SUBSET Repos] /\ ReportInv /\ RunInv
      /\ \A S : RecordsOf(S) \in SUBSET Repos
  BY DEF FilesInv, RunInv, RunType, RecordsOf
<1>1. UNCHANGED disk => \A r \in Repos : SameRecord(r)
  BY DEF disk, SameRecord, Content, Exists
<1>2. ASSUME NEW p \in Procs, Begin(p) PROVE RunInv'
  <2>1. CASE Gather(p)
    BY <2>1, GatherStep
  <2>2. CASE Backlog(p)
    BY <1>0, <1>1, <2>2, MoveStep DEF Backlog, run
  <2>3. CASE ExportLedger(p)
    BY <1>0, <1>1, <2>3, MoveStep DEF ExportLedger
  <2>4. CASE ExportFindings(p)
    BY <1>0, <1>1, <2>4, MoveStep DEF ExportFindings, BeginReports, run
  <2>5. CASE Rescore(p)
    BY <1>0, <1>1, <2>5, MoveStep DEF Rescore, run
  <2> QED
    BY <1>2, <2>1, <2>2, <2>3, <2>4, <2>5 DEF Begin
<1>3. ASSUME NEW p \in Procs, Step(p) PROVE RunInv'
  <2>1. CASE Look(p) \/ Claim(p) \/ Store(p)
    BY <1>0, <2>1, LookStep, HandStep DEF ReportInv, RepType
  <2>2. CASE EndIngest(p)
    BY <1>0, <1>1, <2>2, MoveStep DEF EndIngest
  <2>3. CASE OpenRecord(p) \/ WriteRecord(p)
    BY <2>3, RecordChangeStep
  <2>4. CASE EndRun(p)
    BY <1>1, <2>4, ForgetStep DEF EndRun
  <2>5. CASE FindCandidates(p)
    BY <1>0, <1>1, <2>5, MoveStep DEF FindCandidates, run
  <2>6. CASE Review(p)
    BY <1>0, <1>1, <2>6, MoveStep DEF Review, BeginReports, run
  <2>7. CASE OpenTmp(p)
    BY <1>0, <2>7, RecordsStay, MoveStep DEF OpenTmp, run
  <2>8. CASE WriteTmp(p)
    BY <1>0, <2>8, RecordsStay, MoveStep DEF WriteTmp, run
  <2>9. CASE Publish(p)
    <3>1. \A r \in Repos : SameRecord(r)
      BY <1>0, <2>9, RecordsStay
    <3>2. CASE at[p] = Len(Reports)
      BY <2>9, <3>1, <3>2, ForgetStep DEF Publish
    <3>3. CASE at[p] # Len(Reports)
      BY <1>0, <2>9, <3>1, <3>3, MoveStep DEF Publish, run
    <3> QED
      BY <3>2, <3>3
  <2>10. CASE PublishFails(p)
    BY <2>10, ForgetStep DEF PublishFails, Stop, SameRecord, Content, Exists
  <2> QED
    BY <1>3, <2>1, <2>2, <2>3, <2>4, <2>5, <2>6, <2>7, <2>8, <2>9, <2>10 DEF Step
<1>4. ASSUME NEW p \in Procs, Kill(p) PROVE RunInv'
  BY <1>4, ForgetStep DEF Kill, Stop, SameRecord, Content, Exists
<1>5. CASE Happen
  BY <1>0, <1>1, <1>5, RunStep DEF Happen, run, RunInv, RunType, Took
<1>6. CASE Tick
  BY <1>6, RecordChangeStep
<1>7. CASE UNCHANGED vars
  BY <1>0, <1>1, <1>7, RunStep DEF vars, run, RunInv, RunType, Took
<1> QED
  BY <1>2, <1>3, <1>4, <1>5, <1>6, <1>7 DEF Next

LEMMA FilesInvariant == Spec => []FilesInv
<1>1. FilesInv /\ [Next]_vars => FilesInv'
  BY ReportsKept, RunsKept DEF FilesInv, RunInv, RunType
<1> QED
  BY InitFiles, <1>1, PTL DEF Spec

-----------------------------------------------------------------------------
(* A report that is there is complete at any moment, unless two processes  *)
(* were writing reports at once (write_findings_report).                   *)
THEOREM ReportsAreWhole == Spec => []PublishedWhole
<1>1. FilesInv => PublishedWhole
  BY DEF FilesInv, ReportInv, Published, PublishedWhole, ReportNames
<1> QED
  BY FilesInvariant, <1>1, PTL

(* A process alone with the reports moves a report over one with at most as *)
(* many findings (monitor.py, write_findings_report).                      *)
THEOREM ReportsGoForward == Spec => PublishedForward
<1>1. ASSUME FilesInv, NEW p \in Procs, NEW n \in DOMAIN Reports,
             at[p] = n, ~together[p], Publish(p)
      PROVE  Content(Report(Reports[n])).says <= Content(Report(Reports[n]))'.says
  <2> USE DEF FilesInv, ReportInv
  <2>1. Reports[n] \in ReportNames /\ Reports[n] = Reports[at[p]]
    BY <1>1 DEF ReportNames
  <2>2. Content(Report(Reports[n]))' = Content(Tmp(Reports[n]))
    BY <1>1, <2>1, PublishFacts
  <2>3. pc[p] = "replace" /\ Solo(p)
    BY <1>1 DEF Publish, Solo, Reporting
  <2>4. Content(Tmp(Reports[n])) = [whole |-> TRUE, says |-> seen[p]] /\ seen[p] = findings
    BY <1>1, <2>3 DEF Drafts, Draft, Rendered
  <2>5. Content(Report(Reports[n])).says <= findings
    BY <1>1, <2>1 DEF Rendered
  <2> QED
    BY <2>2, <2>4, <2>5
<1>2. FilesInv => \A p \in Procs, n \in DOMAIN Reports :
        (at[p] = n /\ ~together[p] /\ Publish(p)) =>
          Content(Report(Reports[n])).says <= Content(Report(Reports[n]))'.says
  BY <1>1
<1> QED
  BY FilesInvariant, <1>2, PTL DEF PublishedForward

(* A run takes all of a repository or nothing, unless its record changed   *)
(* under it (campaign.py, process_observation; ledger.py, should_skip).    *)
THEOREM RunsTakeAllOrNothing == Spec => []RunAllOrNothing
<1>1. FilesInv => RunAllOrNothing
  BY DEF FilesInv, RunInv, RunType, DecidedAsNow, RunAllOrNothing, Took
<1> QED
  BY FilesInvariant, <1>1, PTL
=============================================================================
