----------------------------- MODULE TraceReplay -----------------------------
(***************************************************************************)
(* What `replay` checks of a recorded trace, src/src/trace.rs.  A trace is *)
(* a sequence of events [ev, id]; id matters for captures and resumes.     *)
(***************************************************************************)
EXTENDS Naturals, Sequences

Positions(trace, name) == {i \in DOMAIN trace : trace[i].ev = name}
Ids(trace, name)       == {trace[i].id : i \in Positions(trace, name)}

(* Ids captured and not resumed.                                           *)
Unresumed(trace) ==
  Ids(trace, "capture_continuation") \ Ids(trace, "resume_continuation")

(* replay_trace_events returns Ok.                                         *)
Replays(trace) ==
  /\ \A name \in {"capture_continuation", "resume_continuation"} :
       \A i, j \in Positions(trace, name) : trace[i].id = trace[j].id => i = j
  /\ \A j \in Positions(trace, "resume_continuation") :
       \E i \in Positions(trace, "capture_continuation") :
         i < j /\ trace[i].id = trace[j].id
  /\ Unresumed(trace) = {} \/ Positions(trace, "program_aborted") # {}
=============================================================================
