--------------------------- MODULE MCTaskManager ---------------------------
(* Two tasks, one of which ignores its context, and channels of one place. *)
EXTENDS TaskManager
CONSTANTS t1, t2, k1
MCTasks == {t1, t2}
MCObeys == {t1}
MCKillers == {k1}
=============================================================================
