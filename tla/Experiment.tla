----------------------------- MODULE Experiment -----------------------------
(***************************************************************************)
(* run_experiment of src/src/experiment/runner.rs: the phases of a         *)
(* configuration run one after the other over the state directory, each    *)
(* completed phase is recorded in the manifest, and a later run with the   *)
(* same experiment id resumes after the recorded ones.  The workflow, its  *)
(* program versions and its patches are shared with other experiments and  *)
(* with the commands of PatchInstaller.                                    *)
(*                                                                         *)
(* Of a phase the files are kept that another phase or a resumed run reads *)
(* or a report shows.  A model that fails, a missing file or a killed      *)
(* process end the run through Stop.                                       *)
(***************************************************************************)
EXTENDS PatchInstaller

CONSTANTS
  Experiments,   \* experiment ids
  Configs,       \* Configs[e]: the configurations e may be started with
  Plans,         \* the semantic patch plans the optimizer may return
  Events,        \* the events of a split, a sequence of event ids
  Branching      \* ids of the patches that leave a branch or jump in main

NoProgram == "no workflow"   \* the base of a configuration without a workflow
Semantic(plan) == [id |-> "semantic_patch_v1", plan |-> plan]

(* What a configuration holds; the semantic patch has a name, and half a   *)
(* file is nothing else.                                                   *)
ASSUME ExperimentAssumption ==
  /\ Events \in Seq(STRING)
  /\ \A e \in Experiments : \A config \in Configs[e] :
       config.base \in Bases \cup {NoProgram} /\ config.phases \in Seq(STRING)
  /\ NoProgram \notin Bases
  /\ "semantic_patch_v1" \in STRING \ {NoPatch}
  /\ Torn \notin Seq(Bases \cup Patches \cup {Semantic(plan) : plan \in Plans})
  /\ Torn \notin Plans \cup {"completed", "skipped"}
  /\ Torn \notin BOOLEAN /\ Torn \notin Nat

vars == installerVars

-----------------------------------------------------------------------------
(* Files of an experiment.                                                 *)
ManifestFile(e)   == <<"manifest", e>>
LockFile(e)       == <<"lock", e>>
MarkerFile(e, ph) == <<"marker", e, ph>>
PlanFile(e)       == <<"plan", e>>
RulesFile(e)      == <<"rules", e>>
MemoFile(e)       == <<"memo", e>>
GateFile(e)       == <<"gate", e>>
PatchInstallFile(e) == <<"patch_install", e>>
ShadowFile(e)     == <<"shadow", e>>
ShadowMetrics(e)  == <<"shadow_metrics", e>>
ReportMarkdown(e) == <<"report.md", e>>
ReportJson(e)     == <<"report.json", e>>
Predictions(e, file) == <<"predictions", e, file>>
Quality(e, file)     == <<"quality", e, file>>

(* The phases that write the predictions of one variant.                   *)
DirectFile == [weak_only |-> "weak_only.heldout", strong_direct |-> "strong_direct.heldout",
               cps_exact_memo_heldout |-> "cps_exact_memo.heldout"]
InstalledFile == [cps_generalized_patch_heldout |-> "cps_generalized_patch.heldout",
                  adversarial_audit |-> "cps_generalized_patch.adversarial"]
UnoptimizedFile == "cps_unoptimized.heldout"
NoSemanticFile  == "cps_generalized_patch_no_semantic_weak.heldout"
CandidateFile   == "cps_generalized_patch.patch_validation"
SplitFiles ==
  <<"strong_direct.patch_validation", "cps_exact_memo.patch_validation", CandidateFile>>
EvaluatedFiles ==   \* what evaluate_present_predictions recognises
  {DirectFile[ph] : ph \in DOMAIN DirectFile} \cup {InstalledFile[ph] : ph \in DOMAIN InstalledFile}
    \cup {UnoptimizedFile, NoSemanticFile}

KnownPhases ==
  DOMAIN DirectFile \cup DOMAIN InstalledFile \cup
  {"split_events", "cps_unoptimized_profile", "cps_unoptimized_heldout", "optimize",
   "patch_validation", "cps_generalized_patch_no_semantic_weak", "shadow_audit",
   "quality_eval", "report"}

-----------------------------------------------------------------------------
ThisStart == commands + 1   \* what the scope and run ids of a start are made from
FreshManifest == [scope |-> ThisStart, completed |-> <<>>, skipped |-> {}, runs |-> {}]

(* validate_experiment_resume.                                             *)
MayResumeUnlocked(e, config) == Readable(ManifestFile(e))
MayResume(e, config) ==
  /\ Readable(ManifestFile(e))
  /\ Readable(LockFile(e))
  /\ disk[LockFile(e)] = config

NewScope(e, fresh) ==
  [(IF fresh THEN FreshManifest ELSE disk[ManifestFile(e)]) EXCEPT !.scope = ThisStart]
ManifestOf(e, fresh) == IF fresh THEN FreshManifest ELSE disk[ManifestFile(e)]

StartExperiment(e, config) ==
  /\ Free
  /\ Started
  /\ Exists(ManifestFile(e)) => MayResume(e, config)
  /\ LET fresh    == ~Exists(ManifestFile(e))
         manifest == ManifestOf(e, fresh)
     IN job' = [at |-> "estimate", exp |-> e, config |-> config, fresh |-> fresh,
                manifest |-> manifest, run |-> ThisStart, runs |-> {},
                done |-> {manifest.completed[i] : i \in DOMAIN manifest.completed},
                left |-> config.phases, base |-> 0, program |-> <<>>]
  /\ todo' = <<Write(LockFile(e), config)>>
  /\ UNCHANGED <<disk, evaluated>>

(* A dry run, or one the estimate puts over the cap, ends here.            *)
Estimate(goesOn) ==
  /\ At("estimate")
  /\ job' = IF goesOn THEN [job EXCEPT !.at = "workflow"] ELSE Idle
  /\ UNCHANGED <<disk, todo, commands, evaluated>>

Configured == <<job.config.base>>

(* ensure_workflow_initialized.                                            *)
EnsureWorkflow ==
  /\ At("workflow")
  /\ IF job.config.base = NoProgram THEN UNCHANGED todo
     ELSE IF ~Exists(WorkflowDir) THEN todo' = InitWorkflow(Configured)
     ELSE IF job.fresh THEN CanCompare(Configured) /\ todo' = EnsureConfiguredBaseline(Configured)
     ELSE UNCHANGED todo
  /\ job' = [job EXCEPT !.at = "phase"]
  /\ UNCHANGED <<disk, commands, evaluated>>

-----------------------------------------------------------------------------
Phase == Head(job.left)
AtPhase(phases) == At("phase") /\ job.left # <<>> /\ Phase \in phases \ job.done

(* What the manifest had recorded when this run started is not run again.  *)
PassCompleted ==
  /\ At("phase")
  /\ job.left # <<>>
  /\ Phase \in job.done
  /\ job' = [job EXCEPT !.left = Tail(@)]
  /\ UNCHANGED <<disk, todo, commands, evaluated>>

(* The phase's own file operations, then its marker and the manifest.      *)
ManifestThenMarker(manifest) ==
  <<Write(ManifestFile(job.exp), manifest), Write(MarkerFile(job.exp, Phase), "completed")>>
MarkerThenManifest(manifest) ==
  <<Write(MarkerFile(job.exp, Phase), "completed"), Write(ManifestFile(job.exp), manifest)>>

Complete(ops, runs) ==
  LET manifest == [job.manifest EXCEPT !.completed = Append(@, Phase),
                                       !.runs = @ \cup {<<Phase, run>> : run \in runs}]
  IN /\ todo' = ops \o MarkerThenManifest(manifest)
     /\ job' = [job EXCEPT !.at = "phase", !.left = Tail(@), !.manifest = manifest]

(* The phase returns an error and with it the program.                     *)
Fail(ops) == todo' = ops /\ job' = Idle

Unchanged == UNCHANGED <<disk, commands, evaluated>>

(* One line per event.                                                     *)
Lines(file, program) ==
  [i \in DOMAIN Events |-> AppendLine(Predictions(job.exp, file),
     [event |-> Events[i], run |-> <<file, job.run>>, program |-> program])]
Appended(file, program) == Lines(file, program)
Rewritten(file, program) ==
  Clear(Predictions(job.exp, file)) \o Lines(file, program)
Run(file) == <<file, job.run>>

SplitEvents ==
  /\ AtPhase({"split_events"})
  /\ Complete(<<>>, {})
  /\ Unchanged

RunDirect ==
  /\ AtPhase({"weak_only", "strong_direct"})
  /\ Complete(Rewritten(DirectFile[Phase], <<>>), {Run(DirectFile[Phase])})
  /\ Unchanged

RunExactMemo ==
  /\ AtPhase({"cps_exact_memo_heldout"})
  /\ Complete(Rewritten(DirectFile[Phase], <<>>), {Run(DirectFile[Phase])})
  /\ Unchanged

(* run_stream_with_options: the boundaries may propose patches, which are  *)
(* recorded as proposed and validated and go no further.                   *)
Offer(patches) ==
  IF patches = {} THEN <<>>
  ELSE LET patch == CHOOSE p \in patches : TRUE
       IN Record("proposed", patch, Latest) \o Record("validated", patch, Latest)

RunProfile(offered) ==
  /\ AtPhase({"cps_unoptimized_profile"})
  /\ IF CanLoadLatest THEN Complete(Offer(offered), {Run("profile")}) ELSE Fail(<<>>)
  /\ Unchanged

RunUnoptimized(offered) ==
  /\ AtPhase({"cps_unoptimized_heldout"})
  /\ IF CanLoadLatest
     THEN Complete(Offer(offered) \o Lines(UnoptimizedFile, disk[ProgramFile(Latest)]),
                   {Run(UnoptimizedFile)})
     ELSE Fail(<<>>)
  /\ Unchanged

(* run_installed_patch_variant looks at the version when it is done.       *)
RunInstalled(offered) ==
  /\ AtPhase(DOMAIN InstalledFile)
  /\ LET file == InstalledFile[Phase]
     IN IF ~CanLoadLatest THEN Fail(Clear(Predictions(job.exp, file)))
        ELSE LET ops == Offer(offered) \o Rewritten(file, disk[ProgramFile(Latest)])
             IN IF Latest = 1 THEN Fail(ops) ELSE Complete(ops, {Run(file)})
  /\ Unchanged

(* run_semantic_patch_variant with the weak matcher disabled.              *)
RunNoSemantic ==
  /\ AtPhase({"cps_generalized_patch_no_semantic_weak"})
  /\ IF Readable(PlanFile(job.exp))
     THEN Complete(Rewritten(NoSemanticFile, <<>>), {Run(NoSemanticFile)})
     ELSE Fail(<<>>)
  /\ Unchanged

ShadowAudit ==
  /\ AtPhase({"shadow_audit"})
  /\ IF \A ph \in DOMAIN InstalledFile : Exists(Predictions(job.exp, InstalledFile[ph]))
     THEN Complete(Clear(ShadowFile(job.exp))
                     \o [i \in DOMAIN Events |-> AppendLine(ShadowFile(job.exp), Events[i])]
                     \o <<Write(ShadowMetrics(job.exp), "metrics")>>, {Run("shadow")})
     ELSE Fail(<<>>)
  /\ Unchanged

-----------------------------------------------------------------------------
(* write_optimization_artifacts.                                           *)
MemoFirst(plan) ==
  <<Write(MemoFile(job.exp), "memo"), Write(RulesFile(job.exp), plan), Write(PlanFile(job.exp), plan)>>
Artifacts(plan) ==
  <<Write(PlanFile(job.exp), plan), Write(RulesFile(job.exp), plan), Write(MemoFile(job.exp), "memo")>>

OptimizePhase(plan) ==
  /\ AtPhase({"optimize"})
  /\ Complete(Artifacts(plan), {Run("optimize")})
  /\ Unchanged

HaveArtifacts ==
  \A file \in {PlanFile(job.exp), RulesFile(job.exp), MemoFile(job.exp)} : Exists(file)

(* run_patch_validation_phase, up to ensure_optimization_artifacts.        *)
ReuseArtifacts ==
  /\ AtPhase({"patch_validation"})
  /\ HaveArtifacts
  /\ job' = [job EXCEPT !.at = "select", !.runs = {}]
  /\ UNCHANGED <<disk, todo, commands, evaluated>>

MakeArtifacts(plan) ==
  /\ AtPhase({"patch_validation"})
  /\ ~HaveArtifacts
  /\ todo' = Artifacts(plan)
  /\ job' = [job EXCEPT !.at = "select", !.runs = {Run("optimize")}]
  /\ Unchanged

SemanticPatch == Semantic(disk[PlanFile(job.exp)])

(* semantic_patch_base_selection: if the latest version is the semantic    *)
(* patch already, its parent is the base and it may be reused.             *)
IsSemantic(v) == v \in Listed /\ PatchOf(v) = SemanticPatch.id
LatestAsBase == Latest
BaseVersion == IF IsSemantic(Latest) THEN disk[MetadataFile(Latest)].parent ELSE Latest
CanSelect ==
  /\ Readable(PlanFile(job.exp))
  /\ Readable(LatestFile)
  /\ CanList
  /\ Readable(ProgramFile(BaseVersion))

(* validate_patch: the semantic patch inserts at the start of main, which  *)
(* is refused when a target of main would move.                            *)
IsStraight(program) ==
  \A i \in 2 .. Len(program) : program[i].id \notin Branching \cup {SemanticPatch.id}

DirectSplit             == Rewritten(SplitFiles[1], <<>>)
ExactMemoSplit          == Rewritten(SplitFiles[2], <<>>)
CandidateSplit(patched) == Rewritten(CandidateFile, patched)

SelectBase ==
  /\ At("select")
  /\ IF CanSelect /\ IsStraight(disk[ProgramFile(BaseVersion)])
     THEN LET patched == Append(disk[ProgramFile(BaseVersion)], SemanticPatch)
          IN /\ job' = [job EXCEPT !.at = "gate", !.base = BaseVersion, !.program = patched]
             /\ todo' = DirectSplit \o ExactMemoSplit \o CandidateSplit(patched)
     ELSE Fail(<<>>)
  /\ Unchanged

(* evaluate_patch_gate_from_rows, and what follows a refusal.              *)
Gate(accepted) ==
  /\ At("gate")
  /\ IF accepted
     THEN /\ evaluated' = evaluated \cup {<<job.base, job.program[Len(job.program)]>>}
          /\ todo' = <<Write(GateFile(job.exp), TRUE)>>
          /\ job' = [job EXCEPT !.at = "install_semantic"]
     ELSE /\ Fail(<<Write(GateFile(job.exp), FALSE), Write(PatchInstallFile(job.exp), 0)>>)
          /\ UNCHANGED evaluated
  /\ UNCHANGED <<disk, commands>>

(* program_matches_patch_output.                                           *)
ReusableById(patched) == IsSemantic(Latest)
Reusable(patched) ==
  /\ IsSemantic(Latest)
  /\ Readable(ProgramFile(Latest))
  /\ disk[ProgramFile(Latest)] = patched

MetadataOfLatest == Metadata(Latest, SemanticPatch.id)
PatchMetadata == Metadata(BaseVersion, SemanticPatch.id)

(* install_semantic_patch_if_gate_accepted, which reads the plan and       *)
(* selects the base a second time.                                         *)
InstallSemantic ==
  /\ At("install_semantic")
  /\ IF CanSelect
     THEN LET patched == Append(disk[ProgramFile(BaseVersion)], SemanticPatch)
              version == IF Reusable(patched) THEN Latest ELSE NextVersion
              install == IF Reusable(patched) THEN <<>>
                         ELSE InstallVersion(patched, PatchMetadata)
          IN Complete(Record("proposed", SemanticPatch, BaseVersion)
                        \o Record("validated", SemanticPatch, BaseVersion)
                        \o install
                        \o Record("installed", SemanticPatch, version)
                        \o <<Write(PatchInstallFile(job.exp), version)>>,
                      job.runs \cup {Run(SplitFiles[i]) : i \in DOMAIN SplitFiles})
     ELSE Fail(<<>>)
  /\ Unchanged

-----------------------------------------------------------------------------
(* evaluate_present_predictions.                                           *)
Present == {file \in EvaluatedFiles : Exists(Predictions(job.exp, file))}
InAnyOrder(files) == CHOOSE s \in [1 .. Cardinality(files) -> files] : \A f \in files : \E i \in DOMAIN s : s[i] = f

EvaluateQuality ==
  /\ AtPhase({"quality_eval"})
  /\ LET files == InAnyOrder(Present)
     IN Complete([i \in DOMAIN files |->
          Write(Quality(job.exp, files[i]), disk[Predictions(job.exp, files[i])])], {})
  /\ Unchanged

(* write_experiment_report: over the runs of the manifest on disk.         *)
CanReport ==
  /\ Exists(ManifestFile(job.exp)) => Readable(ManifestFile(job.exp))
  /\ Exists(GateFile(job.exp)) => Readable(GateFile(job.exp))
  /\ Exists(PatchInstallFile(job.exp)) => Readable(PatchInstallFile(job.exp))
  /\ \A file \in EvaluatedFiles :
       Exists(Quality(job.exp, file)) => Readable(Quality(job.exp, file))
ReportedRuns == IF Exists(ManifestFile(job.exp)) THEN disk[ManifestFile(job.exp)].runs ELSE {}

Report ==
  /\ AtPhase({"report"})
  /\ IF CanReport
     THEN Complete(<<Write(ReportMarkdown(job.exp), ReportedRuns),
                     Write(ReportJson(job.exp), ReportedRuns)>>, {})
     ELSE Fail(<<>>)
  /\ Unchanged

SkipPhase ==
  /\ At("phase")
  /\ job.left # <<>>
  /\ Phase \notin KnownPhases \cup job.done
  /\ LET manifest == [job.manifest EXCEPT !.skipped = @ \cup {Phase}]
     IN /\ todo' = IF Phase \in job.manifest.skipped THEN <<>>
                   ELSE <<Write(MarkerFile(job.exp, Phase), "skipped"),
                          Write(ManifestFile(job.exp), manifest)>>
        /\ job' = [job EXCEPT !.left = Tail(@), !.manifest = manifest]
  /\ Unchanged

(* The minimal report, if no phase has written one.                        *)
Finish ==
  /\ At("phase")
  /\ job.left = <<>>
  /\ job' = Idle
  /\ todo' = IF Exists(ReportJson(job.exp)) THEN <<>>
             ELSE <<Write(ReportJson(job.exp), job.manifest.runs),
                    Write(ReportMarkdown(job.exp), job.manifest.runs)>>
  /\ Unchanged

Offers == {{}} \cup {{patch} : patch \in Patches}

ExperimentStep ==
  \/ \E e \in Experiments : \E config \in Configs[e] : StartExperiment(e, config)
  \/ \E goesOn \in BOOLEAN : Estimate(goesOn)
  \/ EnsureWorkflow
  \/ PassCompleted
  \/ SplitEvents
  \/ RunDirect
  \/ RunExactMemo
  \/ \E offered \in Offers : RunProfile(offered) \/ RunUnoptimized(offered) \/ RunInstalled(offered)
  \/ RunNoSemantic
  \/ ShadowAudit
  \/ \E plan \in Plans : OptimizePhase(plan) \/ MakeArtifacts(plan)
  \/ ReuseArtifacts
  \/ SelectBase
  \/ \E accepted \in BOOLEAN : Gate(accepted)
  \/ InstallSemantic
  \/ EvaluateQuality
  \/ Report
  \/ SkipPhase
  \/ Finish

Spec == InstallerInit /\ [][ExperimentStep \/ InstallerStep]_vars
=============================================================================
