---------------------------- MODULE SavedConfig ----------------------------
(***************************************************************************)
(* What a configuration file promises the program that owns it: what is on *)
(* disk is at all times something the program had in memory, whole; a      *)
(* change of memory is on disk or is not; and a program that starts again  *)
(* finds what is on disk. ConfigStore implements it.                       *)
(***************************************************************************)
CONSTANTS Id,      \* keys: profile ids
          Value,   \* what is kept under one
          Absent   \* nothing kept

ASSUME ConfigAssumption == Absent \notin Value

Contents == [Id -> Value \cup {Absent}]
Empty    == [i \in Id |-> Absent]

VARIABLES memory,  \* the configuration in memory
          file     \* the configuration on disk

configVars == <<memory, file>>

InitConfig == memory = Empty /\ file = Empty

Change == \E i \in Id, v \in Value \cup {Absent} :
              memory' = [memory EXCEPT ![i] = v] /\ UNCHANGED file
Commit == file' = memory /\ UNCHANGED memory
Reload == memory' = file /\ UNCHANGED file

SpecConfig == InitConfig /\ [][Change \/ Commit \/ Reload]_configVars
=============================================================================
