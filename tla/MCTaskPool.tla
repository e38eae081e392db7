---------------------------- MODULE MCTaskPool ----------------------------
(* Model checking TaskPool: three tasks are enough for one to be started   *)
(* while another leaves the map and a third waits in the queue. All that   *)
(* is asked of a generation is whether it is the present one, so that one  *)
(* change of it, by a disconnect or by adopting a connection, is enough.   *)
EXTENDS TaskPool

MCMaxTasks      == 3
MCMaxGeneration == 1
=============================================================================
