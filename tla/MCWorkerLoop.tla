---------------------------- MODULE MCWorkerLoop ----------------------------
(***************************************************************************)
(* WorkerLoop for TLC: all records can be read, or all but the second; and *)
(* the instance in which the first one cannot.                             *)
(***************************************************************************)
EXTENDS WorkerLoop

AllOrFirst == {{}, {2}}
NotFirst   == {{1}}
=============================================================================
