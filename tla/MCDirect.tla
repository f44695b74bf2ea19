------------------------------- MODULE MCDirect -------------------------------
(* Instances of ModelCalls and DirectVariant: two places of the JoinSet,   *)
(* two different events, and one that repeats the first.                   *)
EXTENDS DirectVariant, TLC

CONSTANTS w1, w2, k1, k2, s1

OneScope == [w \in Worker |-> s1]
MCEvents == <<k1, k2, k1>>

(* For liveness: what a step may depend on.  No step reads a call log or a *)
(* history variable.                                                       *)
WithoutHistory == <<workerVars, reserved, cache, spend, ledger, faults, poolVars>>
=============================================================================
