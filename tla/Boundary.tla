------------------------------- MODULE Boundary -------------------------------
(***************************************************************************)
(* What the runtime promises whoever runs a program in it, with the        *)
(* program, the handlers and the budgets abstracted away: a boundary holds *)
(* at most one continuation, every continuation it issues is new, it is    *)
(* either resumed or dies with the boundary, a boundary finishes only when *)
(* it holds none, and once it has stopped it never acts again.             *)
(***************************************************************************)
EXTENDS Naturals

VARIABLES
  phase,    \* "running", "finished" or "aborted"
  issued,   \* how many continuations were captured
  held      \* the ids of captured continuations not yet resumed

vars == <<phase, issued, held>>

Init == phase = "running" /\ issued = 0 /\ held = {}

Running == phase = "running"

CaptureOne ==
  /\ Running /\ held = {}
  /\ issued' = issued + 1 /\ held' = {issued + 1}
  /\ UNCHANGED phase

ResumeHeld ==
  /\ Running /\ held # {}
  /\ held' = {}
  /\ UNCHANGED <<phase, issued>>

Finish ==
  /\ Running /\ held = {}
  /\ phase' = "finished"
  /\ UNCHANGED <<issued, held>>

Stop ==
  /\ Running
  /\ phase' = "aborted" /\ held' = {}
  /\ UNCHANGED issued

Next == CaptureOne \/ ResumeHeld \/ Finish \/ Stop

Spec == Init /\ [][Next]_vars
=============================================================================
