---------------------------- MODULE MCTaskRunner ----------------------------
(* Model checking TaskRunner. Two tasks: one that empties the map, and one *)
(* started before the first has stopped the spinner. The spinner does not  *)
(* look at the generation, so at most one change of it is enough.          *)
EXTENDS TaskRunner

MCMaxTasks      == 2
MCMaxGeneration == 1
=============================================================================
