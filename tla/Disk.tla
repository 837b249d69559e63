-------------------------------- MODULE Disk --------------------------------
(***************************************************************************)
(* Files that several processes write with Path.write_text and             *)
(* Path.replace: names in a directory, the inodes behind them, and the     *)
(* inode each process has open.  What a file says is a number.             *)
(***************************************************************************)
EXTENDS Integers, FiniteSets

CONSTANTS
  Names, Procs,
  Inodes        \* bound: enough for all names and open files at once

ASSUME DiskAssumption ==
  /\ IsFiniteSet(Names) /\ IsFiniteSet(Procs)
  /\ Inodes = 1 .. Cardinality(Names) + Cardinality(Procs)

VARIABLES
  dir,     \* the inode of a name, 0 if there is none
  data,    \* what is in an inode
  fd       \* the inode that a process is writing, 0 if none

disk == <<dir, data, fd>>

Empty == [whole |-> FALSE, says |-> 0]

DiskInit ==
  /\ dir = [f \in Names |-> 0]
  /\ data = [i \in Inodes |-> Empty]
  /\ fd = [p \in Procs |-> 0]

Exists(f) == dir[f] # 0
Content(f) == IF Exists(f) THEN data[dir[f]] ELSE Empty

Unused == Inodes \ ({dir[f] : f \in Names} \cup {fd[p] : p \in Procs})

(* open(f, "w"): the file is created or cut to nothing, whoever else has it
   open or under another name. *)
Open(p, f) ==
  LET i == IF Exists(f) THEN dir[f] ELSE CHOOSE j \in Unused : TRUE
  IN /\ dir' = [dir EXCEPT ![f] = i]
     /\ data' = [data EXCEPT ![i] = Empty]
     /\ fd' = [fd EXCEPT ![p] = i]

(* The text is written from the start.  If another process has written since
   the file was opened, the end of its text may stay behind. *)
Write(p, text) ==
  /\ \E whole \in IF data[fd[p]] = Empty THEN {TRUE} ELSE BOOLEAN :
       data' = [data EXCEPT ![fd[p]] = [whole |-> whole, says |-> text]]
  /\ fd' = [fd EXCEPT ![p] = 0]
  /\ UNCHANGED dir

(* Whoever has the file open goes on writing to it under its new name; what
   it replaces is gone when nobody has that open. *)
Replace(from, to) ==
  /\ Exists(from)
  /\ dir' = [dir EXCEPT ![to] = dir[from], ![from] = 0]
  /\ data' = [i \in Inodes |->
       IF i = dir[to] /\ \A p \in Procs : fd[p] # i THEN Empty ELSE data[i]]
  /\ UNCHANGED fd
=============================================================================
