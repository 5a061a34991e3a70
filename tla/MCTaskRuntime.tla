---------------------------- MODULE MCTaskRuntime ----------------------------
(* Instances of TaskRuntime for TLC: three tasks, so that wake can shift   *)
(* an entry past another one and compaction has something to move, lists   *)
(* short enough to fill up, and two sources that share them.               *)
EXTENDS TaskRuntime, TLC

CONSTANTS core, plugin

MCTasks == 1..3
LowAndHigh == {1, 3}
TwoSources == {core, plugin}
BothTypes == {"DEMO", "DEMO_FAIL"}
OneType == {"DEMO_FAIL"}

Interchangeable == Permutations(TwoSources)
=============================================================================
