---------------------------- MODULE MCExperiment ----------------------------
(* Configurations for Experiment.                                          *)
EXTENDS ExperimentProperties, TLC

CONSTANTS e1, e2, hit, miss, base, other

MCPlans  == {hit, miss}
OnePlan  == {hit}
MCEvents == <<"first", "second">>
OneEvent == <<"first">>
OnePatch == {[id |-> "p1", plan |-> hit]}
NoPatches == {}

(* One experiment id with two configurations: the order of                 *)
(* experiments/notification_triage.pilot.yaml, shortened, with a phase the *)
(* executor does not know, and the other phases, on a workflow that was    *)
(* initialised by hand.                                                    *)
Pilot ==
  <<"weak_only", "optimize", "cps_unoptimized_heldout", "patch_validation", "future_phase",
    "cps_generalized_patch_heldout", "quality_eval", "report">>
Audits ==
  <<"split_events", "cps_exact_memo_heldout", "optimize", "cps_unoptimized_profile",
    "cps_generalized_patch_no_semantic_weak", "patch_validation",
    "cps_generalized_patch_heldout", "adversarial_audit", "shadow_audit", "quality_eval">>
Resumed == [e \in {e1} |-> {[base |-> base, phases |-> Pilot],
                            [base |-> NoProgram, phases |-> Audits]}]

(* Two experiments on one workflow.  The second either has a base of its   *)
(* own or takes the workflow as it finds it.                               *)
Validation == <<"patch_validation", "cps_generalized_patch_heldout">>
Shared == (e1 :> {[base |-> base, phases |-> Validation]}) @@
          (e2 :> {[base |-> other, phases |-> <<"cps_unoptimized_profile">>],
                  [base |-> NoProgram, phases |-> <<"patch_validation">>]})
=============================================================================
