------------------------------ MODULE ModelCalls ------------------------------
(***************************************************************************)
(* Model calls of an experiment, src/src/responses_client.rs with the      *)
(* budget guard, the model cache and the call and spend logs it uses.      *)
(* Worker threads share one ResponsesClient, hence one cache directory,    *)
(* one pair of logs and one reservation table; each runs                   *)
(* create_structured_internal again and again.  Every file operation and   *)
(* every critical section of the reservation lock is one step, because     *)
(* other workers run between them.                                         *)
(*                                                                         *)
(* Money is counted in units: a call is projected to cost Projected, and   *)
(* an answer costs one of AnswerCosts, more than projected if need be: the *)
(* request sets no limit to what the model may answer.                     *)
(* Schemas are not modelled: an answer is useful (it parses and validates) *)
(* or not.                                                                 *)
(***************************************************************************)
EXTENDS Integers, FiniteSets, FiniteSetsExt

CONSTANTS
  Worker,
  Key,           \* request hashes
  NoRequest,     \* of a worker that makes no call
  Scope,         \* budget scopes
  ScopeOf,       \* worker -> the scope it makes it in
  CacheMode,     \* ModelCacheMode
  HardCap,
  Projected,     \* projected_cost_usd, the same for every request
  AnswerCosts,   \* what an answer may cost
  MaxCalls,      \* bound: calls each worker makes
  MaxFaults      \* bound: how often a file operation fails, the process dies
                 \* or the operator removes a ledger that is whole

ASSUME MoneyAssumption ==
  /\ IsFiniteSet(Worker)
  /\ HardCap \in Nat /\ Projected \in Nat /\ AnswerCosts \subseteq Nat
  /\ ScopeOf \in [Worker -> Scope]
  /\ CacheMode \in {"read_write", "disabled", "refresh", "read_only"}
  /\ MaxCalls \in Nat /\ MaxFaults \in Nat

VARIABLES
  pc,         \* worker -> the step it takes next
  made,       \* worker -> calls it has finished
  asks,       \* worker -> the request of its call
  seen,       \* worker -> the spend it read from the ledger, till it is checked
  cost,       \* worker -> what its call will be recorded to cost
  holds,      \* worker -> has a BudgetReservation
  reserved,   \* scope -> in-flight reservations
  cache,      \* key -> "absent", "partial" or "entry"
  callLog,    \* model_calls/calls.jsonl: ids of its records
  callLines,  \* the lines of that file: "whole", or torn: it ends in a
              \* "half_line", or only holds a "bad_line" further up
  runLog,     \* model_calls/by_run: ids of the records in these files
  runLines,   \* the lines of the file of this run
  spend,      \* budgets/spend.jsonl: records [id, scope, cost]
  ledger,     \* the lines of that file
  answered,   \* history: calls with an answer, unless budget-reset removed
              \* their record
  billed,     \* history: what the provider charged
  unrecorded, \* history: what it charged that never reached the ledger, or was
              \* removed with it
  hidden,     \* history: calls that were let through and ended behind a torn
              \* ledger
  failures,
  crashes,
  resets      \* of a whole ledger

workerVars == <<pc, made, asks, seen, cost, holds>>
logs == <<callLog, callLines, runLog, runLines, spend, ledger>>
money == <<answered, billed, unrecorded, hidden>>
faults == <<failures, crashes, resets>>
Disturbed == failures + crashes + resets
vars == <<workerVars, reserved, cache, logs, money, faults>>

Reads  == CacheMode \in {"read_write", "read_only"}
Writes == CacheMode \in {"read_write", "refresh"}

(* A process that is started again is a new run, with a file of its own.   *)
CallId(w) == <<w, made[w], crashes>>
RunOf(id) == id[3]
Total(records) == MapThenSumSet(LAMBDA r : r.cost, records)

(* report_for_scope: what the ledger says a scope has spent.               *)
Spent(scope) == Total({r \in spend : r.scope = scope})

(* read_jsonl refuses a file with a line that is no record.                *)
SkippingBadLines == TRUE
Readable == ledger = "whole"

(* append_jsonl writes behind whatever the file ends in: what follows half *)
(* a line becomes part of a line that is no record, and ends that line.    *)
WithoutLineEnd(lines) == lines
Behind(lines) == IF lines = "half_line" THEN "bad_line" ELSE lines
OwnLine(lines) == lines # "half_line"

(* An append that is cut short may leave a part of its record.             *)
CutShort(lines, midway) == IF midway THEN {lines, "half_line"} ELSE {lines}

Goto(w, step) == pc' = [pc EXCEPT ![w] = step]

Init ==
  /\ pc = [w \in Worker |-> "lookup"] /\ made = [w \in Worker |-> 0]
  /\ asks = [w \in Worker |-> NoRequest]
  /\ seen = [w \in Worker |-> 0] /\ cost = [w \in Worker |-> 0]
  /\ holds = [w \in Worker |-> FALSE] /\ reserved = [s \in Scope |-> 0]
  /\ cache \in [Key -> {"absent", "entry"}]
  /\ callLog = {} /\ runLog = {} /\ spend = {}
  /\ callLines = "whole" /\ runLines = "whole" /\ ledger = "whole"
  /\ answered = {} /\ billed = 0 /\ unrecorded = 0 /\ hidden = {}
  /\ failures = 0 /\ crashes = 0 /\ resets = 0

-----------------------------------------------------------------------------
(* ModelCache::get.  A hit is recorded at no cost; a half-written entry    *)
(* and a read-only miss are errors the call returns without a record.      *)
LookUp(w, k) ==
  /\ pc[w] = "lookup" /\ made[w] < MaxCalls
  /\ asks' = [asks EXCEPT ![w] = k]
  /\ LET found == IF Reads THEN cache[k] ELSE "absent" IN
       Goto(w, IF found = "entry" THEN "log"
               ELSE IF found = "partial" \/ CacheMode = "read_only" THEN "release"
               ELSE "read_ledger")
  /\ cost' = [cost EXCEPT ![w] = 0]
  /\ UNCHANGED <<made, seen, holds, reserved, cache, logs, money, faults>>

(* check_call_allowed_for_scope reads the ledger before it takes the lock. *)
ReadLedger(w) ==
  /\ pc[w] = "read_ledger" /\ Readable
  /\ seen' = [seen EXCEPT ![w] = Spent(ScopeOf[w])]
  /\ Goto(w, "reserve")
  /\ UNCHANGED <<made, asks, cost, holds, reserved, cache, logs, money, faults>>

(* A ledger that cannot be read refuses the call, which is recorded.       *)
LedgerUnreadable(w) ==
  /\ pc[w] = "read_ledger" /\ ~Readable
  /\ Goto(w, "log")
  /\ UNCHANGED <<made, asks, seen, cost, holds, reserved, cache, logs, money, faults>>

OverCapAlready(w) == seen[w] + reserved[ScopeOf[w]] > HardCap
OverCap(w) == seen[w] + reserved[ScopeOf[w]] + Projected > HardCap

Reserve(w) ==
  /\ pc[w] = "reserve" /\ ~OverCap(w)
  /\ reserved' = [reserved EXCEPT ![ScopeOf[w]] = @ + Projected]
  /\ holds' = [holds EXCEPT ![w] = TRUE]
  /\ seen' = [seen EXCEPT ![w] = 0]
  /\ Goto(w, "send")
  /\ UNCHANGED <<made, asks, cost, cache, logs, money, faults>>

(* The refused call is recorded, at no cost.                               *)
RefuseAtProjectedCost(w) ==
  /\ pc[w] = "reserve" /\ OverCap(w)
  /\ cost' = [cost EXCEPT ![w] = Projected]
  /\ seen' = [seen EXCEPT ![w] = 0]
  /\ Goto(w, "log")
  /\ UNCHANGED <<made, asks, holds, reserved, cache, logs, money, faults>>

WaitForBudget(w) ==
  /\ pc[w] = "reserve" /\ OverCap(w)
  /\ seen' = [seen EXCEPT ![w] = 0]
  /\ Goto(w, "read_ledger")
  /\ UNCHANGED <<made, asks, cost, holds, reserved, cache, logs, money, faults>>

Refuse(w) ==
  /\ pc[w] = "reserve" /\ OverCap(w)
  /\ seen' = [seen EXCEPT ![w] = 0]
  /\ Goto(w, "log")
  /\ UNCHANGED <<made, asks, cost, holds, reserved, cache, logs, money, faults>>

(* The provider's answer, with its usage; only a useful one is cached.     *)
Answered(w) ==
  /\ pc[w] = "send"
  /\ answered' = answered \cup {CallId(w)}
  /\ \E c \in AnswerCosts :
       cost' = [cost EXCEPT ![w] = c] /\ billed' = billed + c
  /\ UNCHANGED <<made, asks, seen, holds, reserved, cache, logs, unrecorded, hidden, faults>>

RecordOnlyUseful(w) ==
  Answered(w) /\ \E useful \in BOOLEAN :
    Goto(w, IF ~useful THEN "release" ELSE IF Writes THEN "put" ELSE "log")

Answer(w) ==
  Answered(w) /\ \E useful \in BOOLEAN : Goto(w, IF useful /\ Writes THEN "put" ELSE "log")

(* No answer, or one that is not JSON: recorded at no cost, whatever the   *)
(* provider charged.                                                       *)
NoAnswer(w) ==
  /\ pc[w] = "send"
  /\ \E c \in AnswerCosts \cup {0} :
       billed' = billed + c /\ unrecorded' = unrecorded + c
  /\ Goto(w, "log")
  /\ UNCHANGED <<made, asks, seen, cost, holds, reserved, cache, logs, answered, hidden, faults>>

-----------------------------------------------------------------------------
(* ModelCache::put truncates the entry's file, then writes it.             *)
TruncateEntry(w) ==
  /\ pc[w] = "put"
  /\ cache' = [cache EXCEPT ![asks[w]] = "partial"]
  /\ Goto(w, "fill")
  /\ UNCHANGED <<made, asks, seen, cost, holds, reserved, logs, money, faults>>

FillEntry(w) ==
  /\ pc[w] = "fill"
  /\ cache' = [cache EXCEPT ![asks[w]] = "entry"]
  /\ Goto(w, "log")
  /\ UNCHANGED <<made, asks, seen, cost, holds, reserved, logs, money, faults>>

(* record_call: calls.jsonl, the run's own file, then the spend ledger.    *)
(* None of them looks at what the file ends in.                            *)
LogCall(w) ==
  /\ callLog' = IF OwnLine(callLines) THEN callLog \cup {CallId(w)} ELSE callLog
  /\ callLines' = Behind(callLines)
  /\ UNCHANGED <<made, asks, seen, cost, holds, reserved, cache, runLog, runLines, spend, ledger,
                 money, faults>>

AppendCallThenSpend(w) == pc[w] = "log" /\ LogCall(w) /\ Goto(w, "spend")
AppendCall(w) == pc[w] = "log" /\ LogCall(w) /\ Goto(w, "log_run")

AppendRun(w) ==
  /\ pc[w] = "log_run"
  /\ runLog' = IF OwnLine(runLines) THEN runLog \cup {CallId(w)} ELSE runLog
  /\ runLines' = Behind(runLines)
  /\ Goto(w, "spend")
  /\ UNCHANGED <<made, asks, seen, cost, holds, reserved, cache, callLog, callLines, spend, ledger,
                 money, faults>>

(* The calls of these workers end.  Behind a torn ledger, those that had   *)
(* been let through are hidden.                                            *)
Ending(w) == holds[w] /\ pc[w] # "release"
End(workers) ==
  hidden' = IF ledger' = "whole" THEN hidden
            ELSE hidden \cup {CallId(w) : w \in {v \in workers : Ending(v)}}

AppendSpend(w) ==
  /\ pc[w] = "spend"
  /\ ledger' = Behind(ledger)
  /\ IF OwnLine(ledger)
     THEN /\ spend' = spend \cup {[id |-> CallId(w), scope |-> ScopeOf[w], cost |-> cost[w]]}
          /\ UNCHANGED unrecorded
     ELSE unrecorded' = unrecorded + cost[w] /\ UNCHANGED spend
  /\ End({w})
  /\ cost' = [cost EXCEPT ![w] = 0]
  /\ Goto(w, "release")
  /\ UNCHANGED <<made, asks, seen, holds, reserved, cache, callLog, callLines, runLog, runLines,
                 answered, billed, faults>>

(* A file operation fails: the call returns the error and records no more, *)
(* unless it was the ledger's report, whose failure refuses the call.      *)
UsesDisk == {"lookup", "read_ledger", "put", "fill", "log", "log_run", "spend"}

DiskFails(w) ==
  /\ Disturbed < MaxFaults /\ pc[w] \in UsesDisk /\ made[w] < MaxCalls
  /\ callLines' \in CutShort(callLines, pc[w] = "log")
  /\ runLines' \in CutShort(runLines, pc[w] = "log_run")
  /\ ledger' \in CutShort(ledger, pc[w] = "spend")
  /\ End({w})
  /\ unrecorded' = unrecorded + cost[w]
  /\ cost' = [cost EXCEPT ![w] = 0]
  /\ Goto(w, IF pc[w] = "read_ledger" THEN "log" ELSE "release")
  /\ failures' = failures + 1
  /\ UNCHANGED <<made, asks, seen, holds, reserved, cache, callLog, runLog, spend,
                 answered, billed, crashes, resets>>

(* BudgetReservation is dropped however the call returns.                  *)
ReleaseOnlyIfCharged(w) ==
  /\ pc[w] = "release"
  /\ reserved' = IF holds[w] /\ CallId(w) \in callLog
                 THEN [reserved EXCEPT ![ScopeOf[w]] = @ - Projected] ELSE reserved
  /\ holds' = [holds EXCEPT ![w] = FALSE]
  /\ made' = [made EXCEPT ![w] = @ + 1]
  /\ asks' = [asks EXCEPT ![w] = NoRequest]
  /\ Goto(w, "lookup")
  /\ UNCHANGED <<seen, cost, cache, logs, money, faults>>

Release(w) ==
  /\ pc[w] = "release"
  /\ reserved' = IF holds[w] THEN [reserved EXCEPT ![ScopeOf[w]] = @ - Projected] ELSE reserved
  /\ holds' = [holds EXCEPT ![w] = FALSE]
  /\ made' = [made EXCEPT ![w] = @ + 1]
  /\ asks' = [asks EXCEPT ![w] = NoRequest]
  /\ Goto(w, "lookup")
  /\ UNCHANGED <<seen, cost, cache, logs, money, faults>>

(* The process dies and is started again: the files stay, the reservations *)
(* and the calls in flight are gone.  A call that was sent may be charged, *)
(* and any of the logs a call was appending to may end in half a line.     *)
Crash ==
  /\ Disturbed < MaxFaults
  /\ crashes' = crashes + 1
  /\ \E bill \in [{w \in Worker : pc[w] = "send"} -> AnswerCosts \cup {0}] :
       LET c == MapThenSumSet(LAMBDA w : bill[w], DOMAIN bill)
           inFlight == MapThenSumSet(LAMBDA w : cost[w], Worker)
       IN billed' = billed + c /\ unrecorded' = unrecorded + c + inFlight
  /\ callLines' \in CutShort(callLines, \E w \in Worker : pc[w] = "log")
  /\ ledger' \in CutShort(ledger, \E w \in Worker : pc[w] = "spend")
  /\ runLines' = "whole"
  /\ End(Worker)
  /\ pc' = [w \in Worker |-> "lookup"] /\ asks' = [w \in Worker |-> NoRequest]
  /\ seen' = [w \in Worker |-> 0] /\ cost' = [w \in Worker |-> 0]
  /\ holds' = [w \in Worker |-> FALSE] /\ reserved' = [s \in Scope |-> 0]
  /\ UNCHANGED <<made, cache, callLog, runLog, spend, answered, failures, resets>>

(* FileBudgetStore::reset: the operator removes the ledger, whole or torn,  *)
(* and no lock keeps it from the calls in flight.                          *)
BudgetReset ==
  /\ IF Readable THEN spend # {} /\ Disturbed < MaxFaults /\ resets' = resets + 1
                 ELSE UNCHANGED resets
  /\ spend' = {} /\ ledger' = "whole" /\ hidden' = {}
  /\ unrecorded' = unrecorded + Total(spend)
  /\ answered' = answered \ {r.id : r \in spend}
  /\ UNCHANGED <<workerVars, reserved, cache, callLog, callLines, runLog, runLines, billed,
                 failures, crashes>>

Step(w, k) ==
  \/ LookUp(w, k) \/ ReadLedger(w) \/ LedgerUnreadable(w) \/ Reserve(w) \/ Refuse(w)
  \/ Answer(w) \/ NoAnswer(w) \/ TruncateEntry(w) \/ FillEntry(w)
  \/ AppendCall(w) \/ AppendRun(w) \/ AppendSpend(w) \/ DiskFails(w) \/ Release(w)

Done == \A w \in Worker : pc[w] = "lookup" /\ made[w] = MaxCalls

Next == (\E w \in Worker, k \in Key : Step(w, k)) \/ Crash \/ BudgetReset \/ (Done /\ UNCHANGED vars)

Spec == Init /\ [][Next]_vars
=============================================================================
