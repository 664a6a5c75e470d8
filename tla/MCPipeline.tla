----------------------------- MODULE MCPipeline -----------------------------
(* Two workers and three flows: two flows share worker 0.                  *)
EXTENDS PipelineAudit

CONSTANTS f1, f2, f3

ThreeFlows == {f1, f2, f3}
ThreeFlowsWorkerOf == [f \in ThreeFlows |-> IF f = f3 THEN 1 ELSE 0]
=============================================================================
