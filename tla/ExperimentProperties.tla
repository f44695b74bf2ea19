------------------------ MODULE ExperimentProperties ------------------------
(***************************************************************************)
(* What experiments promise to whoever resumes them and reads their files. *)
(***************************************************************************)
EXTENDS Experiment

Saved(e) == disk[ManifestFile(e)]
Recorded == {e \in Experiments : Readable(ManifestFile(e))}
Completed(e) == {Saved(e).completed[i] : i \in DOMAIN Saved(e).completed}
Running(e) == job # Idle /\ "exp" \in DOMAIN job /\ job.exp = e
IsPrefixOf(s, t) == Len(s) <= Len(t) /\ SubSeq(t, 1, Len(s)) = s

(* runner.rs 762, 1392, 1611, 1845: the predictions of a completed phase   *)
(* are one per event, in order, and all of the run the manifest names for  *)
(* that phase, although the phase may have been cut short and run again.   *)
OnePerEvent(e, ph, file) ==
  \E run \in {r[2] : r \in {q \in Saved(e).runs : q[1] = ph}} :
    /\ Exists(Predictions(e, file))
    /\ Len(disk[Predictions(e, file)]) = Len(Events)
    /\ \A i \in DOMAIN Events :
         /\ disk[Predictions(e, file)][i].event = Events[i]
         /\ disk[Predictions(e, file)][i].run = run
RewrittenFile == [ph \in DOMAIN DirectFile \cup DOMAIN InstalledFile |->
                    IF ph \in DOMAIN DirectFile THEN DirectFile[ph] ELSE InstalledFile[ph]]
PredictionsComplete ==
  \A e \in Recorded : \A ph \in Completed(e) :
    /\ ph \in DOMAIN RewrittenFile => OnePerEvent(e, ph, RewrittenFile[ph])
    /\ ph = "patch_validation" =>
         \A i \in DOMAIN SplitFiles : OnePerEvent(e, ph, SplitFiles[i])

(* runner.rs 483 and the test that expects one prediction per event of     *)
(* every heldout file: the same of the phase that runs the program before  *)
(* the patch.                                                              *)
UnoptimizedComplete ==
  \A e \in Recorded :
    "cps_unoptimized_heldout" \in Completed(e) =>
      OnePerEvent(e, "cps_unoptimized_heldout", UnoptimizedFile)

(* runner.rs 1802: when patch_validation is recorded, its gate accepted,   *)
(* and the version it reports as installed is, to the instruction, the     *)
(* program every candidate prediction was made with, although the plan and *)
(* the base are read again for the installation.                           *)
InstalledIsEvaluated ==
  \A e \in Recorded : "patch_validation" \in Completed(e) =>
    /\ Readable(GateFile(e)) /\ disk[GateFile(e)]
    /\ Readable(PatchInstallFile(e)) /\ disk[PatchInstallFile(e)] \in Whole
    /\ \A i \in DOMAIN Events :
         disk[Predictions(e, CandidateFile)][i].program = disk[ProgramFile(disk[PatchInstallFile(e)])]

(* runner.rs 1660: "installed patch variant requires a patched program".   *)
VariantIsPatched ==
  \A e \in Recorded : \A ph \in Completed(e) \cap DOMAIN InstalledFile :
    \A i \in DOMAIN Events : Len(disk[Predictions(e, InstalledFile[ph])][i].program) > 1

(* runner.rs 630: until it validates its patch, a new experiment runs its  *)
(* phases on the program it was configured with, whatever other            *)
(* experiments and commands have left as the latest version.               *)
StartsFromBaseline ==
  job.at = "phase" /\ todo = <<>> =>
    ( /\ job.fresh
      /\ job.config.base # NoProgram
      /\ \E i \in DOMAIN job.left : job.left[i] = "patch_validation"
      => CanLoadLatest /\ disk[ProgramFile(Latest)] = Configured )

(* runner.rs 177: a run that is under way knows all the manifest records,  *)
(* and has its budget scope.                                               *)
ManifestExtended ==
  \A e \in Recorded : Running(e) =>
    /\ Saved(e).scope = job.manifest.scope
    /\ IsPrefixOf(Saved(e).completed, job.manifest.completed)
    /\ Saved(e).runs \subseteq job.manifest.runs

(* runner.rs 223: the marker of every phase in the manifest is there.      *)
MarkersCoverManifest ==
  \A e \in Recorded :
    /\ \A ph \in Completed(e) :
         Readable(MarkerFile(e, ph)) /\ disk[MarkerFile(e, ph)] = "completed"
    /\ \A ph \in Saved(e).skipped :
         Readable(MarkerFile(e, ph)) /\ disk[MarkerFile(e, ph)] = "skipped"

(* runner.rs 290: what the manifest records as done are phases of the      *)
(* locked configuration, each recorded after those the executor knows of   *)
(* the phases before it and nothing else, whatever was started and stopped *)
(* under this id.                                                          *)
ProgressInOrder ==
  \A e \in Recorded : Readable(LockFile(e)) =>
    LET done == Saved(e).completed
        phases == disk[LockFile(e)].phases
    IN \A i \in DOMAIN done :
         \E k \in DOMAIN phases :
           /\ phases[k] = done[i]
           /\ {done[j] : j \in 1 .. i - 1} = {phases[j] : j \in 1 .. k - 1} \cap KnownPhases

(* runner.rs 959: patch_validation reuses artifacts it only knows to exist;*)
(* the plan among them is whole.                                           *)
ReusedPlanIsWhole == At("select") => Readable(PlanFile(job.exp))

(* runner.rs 2689: as long as only experiments have patched the workflow,  *)
(* the semantic patch is never refused for a branch that another semantic  *)
(* patch has put in.                                                       *)
SemanticPatchFits ==
  At("select") /\ CanSelect /\ (\A v \in Whole : PatchOf(v) \in {NoPatch, SemanticPatch.id}) =>
    IsStraight(disk[ProgramFile(BaseVersion)])
=============================================================================
