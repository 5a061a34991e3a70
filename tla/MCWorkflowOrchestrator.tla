----------------------- MODULE MCWorkflowOrchestrator -----------------------
(* The orchestrator in two shapes, each a smaller instance of its tables:   *)
(* "deep", one workflow with all the stages, and "wide", all the workflows  *)
(* with one stage between them.  One run explores both.                     *)
EXTENDS WorkflowOrchestrator

VARIABLE shape

MCInit == Init /\ shape \in {"deep", "wide"}

MCNext ==
    /\ Next
    /\ UNCHANGED shape
    /\ shape = "deep" => \A w \in Workflows \ {1} : wf'[w] = None
    /\ shape = "wide" => \A s \in Stages \ {1} : stage'[s] = None

MCSpec == MCInit /\ [][MCNext]_<<vars, shape>> /\ WF_vars(Tick) /\ WF_vars(Elapse)
=============================================================================
