-------------------------- MODULE SemanticFastPath --------------------------
(***************************************************************************)
(* The semantic fast path of src/src/experiment/runner.rs: a strong model  *)
(* returns a plan of rules and negative guards, validate_semantic_patch_   *)
(* plan checks it against the evidence the model was given, the plan is    *)
(* rendered as the semantic patch of PatchOps, and the patched program     *)
(* then answers events: it asks the weak model for a rule, has the local   *)
(* tools of src/src/local_tools/mod.rs validate the match and render the   *)
(* answer, or goes on with the base program.                               *)
(*                                                                         *)
(* A regular expression is the set of texts it matches.  The patched main  *)
(* is executed as PatchOps left it, instruction by instruction; where it   *)
(* enters an instruction of the base, the base program answers.            *)
(***************************************************************************)
EXTENDS PatchOps

CONSTANTS
  Profile,      \* the gold labels of profile_train in file order: [cluster, kind]
  Negatives,    \* the optimizer's hard negatives: [text, related]
  Plans,        \* the plans the strong model may return
  Events,       \* the events: [id, text]
  Matches,      \* what the weak model may answer, of whatever shape
  Absent,       \* a field that is missing or is no string
  BadRegex      \* a pattern that does not compile

VARIABLES
  plan,     \* the plan returned, or NoPlan
  stage,    \* "plan", "patch", "run", "answered" or "refused"
  event,    \* the event being answered
  at,       \* the program counter in the patched main
  match,    \* the variable semantic_match
  passed,   \* the field passed of semantic_validation
  answer    \* what the prediction holds, and where it came from

fastVars == <<plan, stage, event, at, match, passed, answer>>

None == [by |-> "none"]

-----------------------------------------------------------------------------
(* build_profile_cluster_evidence: a cluster has the kind of its first     *)
(* label.                                                                  *)
Evidence ==
  {Profile[i] : i \in {j \in DOMAIN Profile :
     \A k \in 1 .. j - 1 : Profile[k].cluster # Profile[j].cluster}}

(* label_kind_can_fast_path, output_kind_for_label.                        *)
CanFastPath(kind) == kind # "needs_review"
OutputKind(kind) == IF kind = "no_action" THEN "ignore" ELSE kind
RuleId(cluster) == <<cluster, "v1">>

Eligible == {label \in Evidence : CanFastPath(label.kind)}

(* validate_semantic_patch_plan.                                           *)
RuleIds(p) == {r.id : r \in p.rules}
RuleFitsEvidence(r) ==
  /\ \E label \in Eligible :
       /\ r.cluster = label.cluster
       /\ r.id = RuleId(label.cluster)
       /\ r.kind = OutputKind(label.kind)
  /\ r.examples # {}
RulesFitEvidence(p) ==
  /\ p.rules # {}
  /\ \A r, s \in p.rules : r.id = s.id => r = s
  /\ \A r \in p.rules : RuleFitsEvidence(r)
  /\ \A label \in Eligible : \E r \in p.rules : r.cluster = label.cluster

GuardsCompile(p) ==
  /\ \A g, h \in p.guards : g.id = h.id => g = h
  /\ \A g \in p.guards : g.rule \in RuleIds(p) /\ g.pattern # BadRegex
Guarded(p, rule) == \E g \in p.guards : g.rule = rule
NegativeIsNamed(p, n) == \A rule \in n.related : Guarded(p, rule)
NegativeIsGuarded(p, n) ==
  \A rule \in n.related :
    /\ Guarded(p, rule)
    /\ n.text # Absent => \E g \in p.guards : g.rule = rule /\ n.text \in g.pattern

ValidPlan(p) ==
  /\ p.header
  /\ RulesFitEvidence(p)
  /\ GuardsCompile(p)
  /\ \A n \in Negatives : NegativeIsGuarded(p, n)

-----------------------------------------------------------------------------
(* semantic_patch_validators_value, as apply_validators evaluates it.      *)
Slotted(p, m, e) ==
  /\ m.wellFormed /\ m.matched = "true" /\ m.rule \in RuleIds(p) /\ m.sure
  /\ m.kind \notin {"", Absent} /\ e.text \notin {"", Absent}
KindOfSomeRule(r, m) == m.kind \in {s.kind : s \in plan.rules}
KindMatchesRule(r, m) == ~(m.rule = r.id /\ ~(m.kind = r.kind))
OutsideGuard(g, m, e) == ~(m.rule = g.rule /\ e.text # Absent /\ e.text \in g.pattern)

Passes(p, m, e) ==
  /\ Slotted(p, m, e)
  /\ \A r \in p.rules : KindMatchesRule(r, m)
  /\ \A g \in p.guards : OutsideGuard(g, m, e)

(* FieldIsTruthy of matched and of passed.                                 *)
Holds(cond) == IF cond.var = "semantic_match" THEN match.matched \in {"true", "text"} ELSE passed

-----------------------------------------------------------------------------
FastInit ==
  /\ Init
  /\ plan = None /\ event = None /\ match = None /\ answer = None
  /\ stage = IF author = "semantic" THEN "plan" ELSE "patch"
  /\ at = 0 /\ passed = FALSE

ReturnPlan(p) ==
  /\ stage = "plan"
  /\ plan' = p
  /\ stage' = IF ValidPlan(p) THEN "patch" ELSE "refused"
  /\ UNCHANGED <<vars, event, at, match, passed, answer>>

PatchStep == stage = "patch" /\ Next /\ UNCHANGED fastVars

StartEvent(e) ==
  /\ stage = "patch" /\ author = "semantic" /\ verdict = "accepted"
  /\ stage' = "run" /\ event' = e /\ at' = 1
  /\ UNCHANGED <<vars, plan, match, passed, answer>>

(* The instruction at pc is one of the base program's.                     *)
FromBase(pc) == marks[Main][pc].slot \in DOMAIN base.functions[Main].body
Here == program.functions[Main].body[at]
Running == stage = "run" /\ ~FromBase(at)
Performs(out) == Running /\ Here.op = "perform" /\ Here.out = out

Answered(a) ==
  /\ stage' = "answered" /\ answer' = a
  /\ UNCHANGED <<vars, plan, event, at, match, passed>>

AskMatcher(m) ==
  /\ Performs("semantic_match")
  /\ match' = m /\ at' = at + 1
  /\ UNCHANGED <<vars, plan, stage, event, passed, answer>>

(* The weak model fails, or decides anything but to return a value.        *)
MatcherFails == Performs("semantic_match") /\ Answered([by |-> "error"])

TakeBranch ==
  /\ Running /\ Here.op = "branch"
  /\ at' = IF Holds(Here.cond) THEN Here.then ELSE Here.else
  /\ UNCHANGED <<vars, plan, stage, event, match, passed, answer>>

ApplyOrAbort ==
  /\ Performs("semantic_validation")
  /\ IF Passes(plan, match, event)
     THEN /\ passed' = TRUE /\ at' = at + 1
          /\ UNCHANGED <<vars, plan, stage, event, match, answer>>
     ELSE Answered([by |-> "error"])

ApplyValidators ==
  /\ Performs("semantic_validation")
  /\ passed' = Passes(plan, match, event) /\ at' = at + 1
  /\ UNCHANGED <<vars, plan, stage, event, match, answer>>

(* template_emit fails on an event without an id, and the action draft it  *)
(* renders may be outside the program's output schema.                     *)
EmitTemplate ==
  /\ Performs("fast_action") /\ event.id # Absent
  /\ at' = at + 1
  /\ UNCHANGED <<vars, plan, stage, event, match, passed, answer>>

EmitFails == Performs("fast_action") /\ Answered([by |-> "error"])

ReturnFastAction ==
  /\ Running /\ Here.op = "return"
  /\ Answered([by |-> "fast", id |-> event.id, rule |-> match.rule, kind |-> match.kind])

BaseAnswers ==
  /\ stage = "run" /\ FromBase(at)
  /\ Answered([by |-> "base", entered |-> marks[Main][at].slot])

FastNext ==
  \/ \E p \in Plans : ReturnPlan(p)
  \/ PatchStep
  \/ \E e \in Events : StartEvent(e)
  \/ \E m \in Matches : AskMatcher(m)
  \/ MatcherFails \/ TakeBranch \/ ApplyValidators \/ EmitTemplate \/ EmitFails
  \/ ReturnFastAction \/ BaseAnswers

FastSpec == FastInit /\ [][FastNext]_<<vars, fastVars>>

-----------------------------------------------------------------------------
Fast == answer.by = "fast"

(* runner.rs 1345: whatever the weak model says, an event with the text of *)
(* a hard negative is never answered by a rule that negative was evidence  *)
(* against.                                                                *)
HardNegativesFallBack ==
  Fast => \A n \in Negatives : n.text = event.text => answer.rule \notin n.related

(* runner.rs 1044: a fast answer is the event's own, and of a kind that    *)
(* profile_train has for the cluster of the rule it names; it never says   *)
(* needs_review.                                                           *)
FastKindIsProfiled ==
  Fast =>
    /\ answer.id = event.id /\ answer.id # Absent
    /\ answer.kind # "needs_review"
    /\ \E i \in DOMAIN Profile :
         /\ answer.rule = RuleId(Profile[i].cluster)
         /\ answer.kind = OutputKind(Profile[i].kind)

(* runner.rs 3040: an event the fast path does not answer is answered by   *)
(* the whole base program, from its first instruction; only a weak model   *)
(* that fails, or an answer the validators had passed, ends in an error.   *)
MissesRunBase ==
  /\ answer.by = "base" => answer.entered = 1
  /\ answer.by = "error" => match = None \/ passed
=============================================================================
