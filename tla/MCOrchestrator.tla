--------------------------- MODULE MCOrchestrator ---------------------------
(***************************************************************************)
(* Instances of Orchestrator for TLC.                                      *)
(***************************************************************************)
EXTENDS Orchestrator, TLC

CONSTANTS a1, a2, r1, r2, c1, c2

\* Two steps: one with its own check, one that follows it.
TwoStepDeps == <<{}, {1}>>

OneRunHome == [r \in {r1} |-> a1]
OneServerHome == [r \in {r1, r2} |-> a1]
TwoServerHome == (r1 :> a1) @@ (r2 :> a2)

AllPlans == {Steps} \cup {{s} : s \in Steps}
PipelineOnly == {Steps}

\* _PIPELINE: 1 pricing, 2 fundamental, 3 entity_resolution, 4 cycle_select,
\* 5 quant_actions, 6 quant_returns, 7 quant_risk_model, 8 quant_optimize,
\* 9 quant_evaluate.
PipelineDeps == <<{}, {}, {}, {1, 2}, {1, 2}, {5}, {6}, {7}, {8, 4}>>
NoHome == [r \in {} |-> a1]
=============================================================================
