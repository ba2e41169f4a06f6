--------------------------- MODULE MCTaskWorker -----------------------------
(* Small instances of TaskWorker for TLC. *)
EXTENDS TaskWorker

CONSTANTS t1, t2, t3, w1, w2, k1

(* plain submissions *)
KeylessTasks == [t \in Tasks |-> NoKey]
(* the first submission carries an explicit key, the others do not *)
MixedTasks == [t \in Tasks |-> IF t = t1 THEN k1 ELSE NoKey]
=============================================================================
