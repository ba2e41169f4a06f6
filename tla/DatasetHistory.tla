--------------------------- MODULE DatasetHistory ---------------------------
(***************************************************************************)
(* What the versions of a dataset promise: an append-only history, in which *)
(* version n never changes once it exists.  DatasetVersions implements it.  *)
(***************************************************************************)
EXTENDS Sequences

CONSTANT Contents     \* canonical record lists

VARIABLE history      \* history[n] is the content of version n

HistoryInit == history = <<>>
HistoryNext == \E c \in Contents : history' = Append(history, c)
HistorySpec == HistoryInit /\ [][HistoryNext]_history
=============================================================================
