----------------------------- MODULE MCScheduler -----------------------------
(* Instances of Scheduler for TLC: three tasks, so that wake can shift an  *)
(* entry past another one, and lists short enough to fill up.              *)
EXTENDS Scheduler, TLC

CONSTANTS t1, t2, t3, core, plugin

MCTasks == {t1, t2, t3}
TwoTasks == {t1, t2}
MCSources == {core, plugin}
NormalAndUp == {2, 4}
LowAndHigh == {0, 3}
OneSource == {core}

(* Tasks and sources are interchangeable.                                  *)
Interchangeable == Permutations(MCTasks) \cup Permutations(MCSources)
=============================================================================
