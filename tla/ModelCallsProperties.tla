------------------------- MODULE ModelCallsProperties -------------------------
(***************************************************************************)
(* What is claimed of ModelCalls.                                          *)
(***************************************************************************)
EXTENDS ModelCalls

(* The reservation table holds exactly one projected cost per call that is *)
(* in flight, so no way out of a call leaks a reservation or returns one   *)
(* twice (BudgetReservation's Drop, budget_store.rs).                      *)
ReservationsMatch ==
  \A s \in Scope :
    reserved[s] = Projected * Cardinality({w \in Worker : holds[w] /\ ScopeOf[w] = s})

(* A call reaches the ledger only after both call logs, and no append      *)
(* looks at what a file ends in: whoever finds a call log that read_jsonl  *)
(* does not refuse finds in it the call of every spend record, after any   *)
(* crash and disk error.                                                   *)
Charged == {r.id : r \in spend}
LogsTellSpend ==
  /\ callLines = "whole" => Charged \subseteq callLog
  /\ runLines = "whole" => {id \in Charged : RunOf(id) = crashes} \subseteq runLog

(* model_call_store.rs 153: a line cut short takes at most one further     *)
(* record with it, the next one.  So in a log that is refused no more      *)
(* charged calls are missing than appends were cut short; a crash leaves   *)
(* the run's file behind, and costs it none.                               *)
FewUnattributed ==
  /\ Cardinality(Charged \ callLog) <= failures + crashes
  /\ Cardinality(Charged \ runLog) <= failures

(* record_call: what is charged can be traced to its call, as far as torn  *)
(* lines of the call logs allow.                                           *)
SpendIsAttributed == LogsTellSpend /\ FewUnattributed

(* record_call is reached from every way an answer is taken, and what it   *)
(* records stays: an answered call that is over is in the ledger, unless a *)
(* disk error hit it or a crash, or half a line they left took it along.   *)
Recording == {"put", "fill", "log", "log_run", "spend"}
Lost == answered \ (Charged \cup {CallId(w) : w \in {v \in Worker : pc[v] \in Recording}})
LossesBounded == Cardinality(Lost) <= 2 * failures + (Cardinality(Worker) + 1) * crashes

(* Every unit the provider charged is in the ledger, on its way there, or  *)
(* was lost to an unread answer, a disk error, a crash or budget-reset;    *)
(* the ledger charges nothing twice.                                       *)
BilledIsAccounted ==
  billed = Total(spend) + MapThenSumSet(LAMBDA w : cost[w], Worker) + unrecorded

(* tests/real_llm_experiment.rs, line 381: the guard counts in-flight      *)
(* reservations for the current scope, so that no scope spends more than   *)
(* the hard cap it refuses to exceed, as long as no answer costs more than *)
(* was projected.                                                          *)
HardCapHolds == \A s \in Scope : Spent(s) <= HardCap

(* Each worker can be misled by a stale ledger once before it reads it     *)
(* again, so but for one call per worker of the scope, whatever it cost,   *)
(* the ledger leaves room for a call: what is spent beyond the cap is what *)
(* the last calls of so many workers cost.                                 *)
Records(s) == {r \in spend : r.scope = s}
Workers(s) == {w \in Worker : ScopeOf[w] = s}
Room == IF Projected <= HardCap THEN HardCap - Projected ELSE 0
OverrunBounded ==
  \A s \in Scope : \E late \in SUBSET Records(s) :
    Cardinality(late) <= Cardinality(Workers(s)) /\ Total(Records(s) \ late) <= Room

(* budget_store.rs 399: a torn line makes the ledger unreadable until      *)
(* budget-reset removes it, and the guard refuses till then: no worker     *)
(* makes a second call behind a torn ledger, besides the one it was in     *)
(* when the line was cut short.                                            *)
HiddenCallsBounded == \A c, d \in hidden : c[1] = d[1] => c = d
=============================================================================
