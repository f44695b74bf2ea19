---------------------------- MODULE DirectVariant ----------------------------
(***************************************************************************)
(* run_direct_variant of src/src/experiment/runner.rs: a JoinSet of at     *)
(* most experiment_concurrency tasks asks a model about every event of the *)
(* held-out split, each task one ModelCalls call, and the predictions are  *)
(* written when all tasks have been joined, in the order of the events.    *)
(*                                                                         *)
(* A worker of ModelCalls is a place in the JoinSet.  Whatever a call      *)
(* returns, an answer or an error, becomes a prediction, so a prediction   *)
(* is told by the index of its event.  The phase may be run again, in the  *)
(* same budget scope, when the process died in it or could not write.      *)
(***************************************************************************)
EXTENDS ModelCallsProperties, Sequences

CONSTANT Events   \* the request made for each event of the split, in file order

ASSUME EventsAssumption == Events \in Seq(Key) /\ Worker # {}

VARIABLES
  phase,     \* "idle", "running", "writing", "done" or "stopped"
  next,      \* index of the event the iterator is at
  toSpawn,   \* tasks the spawning loop has yet to spawn
  event,     \* place -> index of the event of its task, 0 if it has none
  returned,  \* places whose task has ended and is not joined
  records,   \* indices of the predictions, as they were joined
  file       \* indices of the predictions in the file, Torn for half a line

poolVars == <<phase, next, toSpawn, event, returned, records, file>>
Torn == 0
Free(w) == event[w] = 0

(* The variant's requests have not been made before.                       *)
DirectInit ==
  /\ Init /\ cache = [k \in Key |-> "absent"]
  /\ phase = "idle" /\ next = 1 /\ toSpawn = 0
  /\ event = [w \in Worker |-> 0] /\ returned = {} /\ records = <<>>
  /\ file = <<>>

(* Predictions an earlier attempt left are removed.                        *)
StartVariant ==
  /\ phase \in {"idle", "stopped"}
  /\ phase' = "running" /\ next' = 1 /\ toSpawn' = Cardinality(Worker)
  /\ event' = [w \in Worker |-> 0] /\ returned' = {} /\ records' = <<>>
  /\ file' = <<>>
  /\ UNCHANGED vars

(* spawn_direct_variant_tasks.  Any free place will do.                    *)
SpawnTask ==
  /\ phase = "running" /\ toSpawn > 0 /\ next <= Len(Events)
  /\ event' = [event EXCEPT ![CHOOSE w \in Worker : Free(w)] = next]
  /\ next' = next + 1 /\ toSpawn' = toSpawn - 1
  /\ UNCHANGED <<vars, phase, returned, records, file>>

NoEventLeft ==
  /\ phase = "running" /\ toSpawn > 0 /\ next > Len(Events)
  /\ toSpawn' = 0
  /\ UNCHANGED <<vars, phase, next, event, returned, records, file>>

(* run_direct_variant_event: one step of the call its handler makes.       *)
TaskStep(w) ==
  /\ phase = "running" /\ ~Free(w) /\ w \notin returned
  /\ Step(w, Events[event[w]])
  /\ returned' = IF pc'[w] = "lookup" THEN returned \cup {w} ELSE returned
  /\ UNCHANGED <<phase, next, toSpawn, event, records, file>>

JoinTask(w) ==
  /\ phase = "running" /\ toSpawn = 0 /\ w \in returned
  /\ records' = Append(records, event[w])
  /\ event' = [event EXCEPT ![w] = 0] /\ returned' = returned \ {w}
  /\ toSpawn' = 1
  /\ UNCHANGED <<vars, phase, next, file>>

AsJoined(joined) == joined
InEventOrder(joined) ==
  CHOOSE sorted \in [DOMAIN joined -> {joined[i] : i \in DOMAIN joined}] :
    \A i, j \in DOMAIN joined : i < j => sorted[i] < sorted[j]

AllJoined ==
  /\ phase = "running" /\ toSpawn = 0 /\ \A w \in Worker : Free(w)
  /\ phase' = "writing" /\ records' = InEventOrder(records)
  /\ UNCHANGED <<vars, next, toSpawn, event, returned, file>>

-----------------------------------------------------------------------------
Left == Len(records) - Len(file)

AppendPrediction ==
  /\ phase = "writing" /\ Left > 0
  /\ file' = Append(file, records[Len(file) + 1])
  /\ UNCHANGED <<vars, phase, next, toSpawn, event, returned, records>>

VariantDone ==
  /\ phase = "writing" /\ Left = 0
  /\ phase' = "done"
  /\ UNCHANGED <<vars, next, toSpawn, event, returned, records, file>>

MayTear == file' \in IF Left > 0 THEN {file, Append(file, Torn)} ELSE {file}

(* The process dies, or ends because an append fails; no call is in flight *)
(* then.                                                                   *)
ProcessDies ==
  /\ phase \in {"running", "writing"}
  /\ Crash
  /\ phase' = "stopped"
  /\ IF phase = "writing" THEN MayTear ELSE UNCHANGED file
  /\ next' = 1 /\ toSpawn' = 0 /\ returned' = {} /\ records' = <<>>
  /\ event' = [w \in Worker |-> 0]

(* budget-reset, another process, at any time.                             *)
OperatorResets == BudgetReset /\ UNCHANGED poolVars

Ended == phase = "done" /\ UNCHANGED <<vars, poolVars>>

(* What the phase does itself, in one task of the runtime.                 *)
PoolStep ==
  \/ SpawnTask \/ NoEventLeft \/ (\E w \in Worker : JoinTask(w)) \/ AllJoined
  \/ AppendPrediction \/ VariantDone

DirectNext ==
  StartVariant \/ PoolStep \/ (\E w \in Worker : TaskStep(w)) \/ ProcessDies \/ OperatorResets
  \/ Ended

(* The runtime polls some task as long as one can go on, and the provider  *)
(* answers or breaks the connection; nobody has to start the phase.        *)
DirectFairness == WF_<<vars, poolVars>>(PoolStep \/ \E w \in Worker : TaskStep(w))

DirectSpec == DirectInit /\ [][DirectNext]_<<vars, poolVars>> /\ DirectFairness

-----------------------------------------------------------------------------
(* runner.rs 805: whatever order calls end in, and whatever stopped the    *)
(* phase before, its predictions are one per event in the order of events. *)
PredictionsInEventOrder ==
  /\ phase = "writing" => \A i \in DOMAIN file : file[i] = i
  /\ phase = "done" => file = [i \in DOMAIN Events |-> i]

(* runner.rs 785: no refused, failed or cached call, no torn ledger and no *)
(* order of joins keeps the pool from coming to its end.                   *)
VariantEnds == phase = "running" ~> phase \in {"done", "stopped"}

=============================================================================
