--------------------------- MODULE PatchInstaller ---------------------------
(***************************************************************************)
(* The commands of src/src/cli.rs that change a workflow's programs:       *)
(* init-workflow, and optimize with a patch file or with a strong model,   *)
(* which is optimize_from_profile with install_fixture_patch.  One command *)
(* runs at a time; it may stop, or fail to write a file, at any step.      *)
(***************************************************************************)
EXTENDS ProgramRegistry

CONSTANTS
  Bases,        \* the programs a workflow may be configured with
  Patches,      \* the patches a file or the optimizer may hold
  MaxAttempts,  \* the optimizer's --max-patches
  MaxCommands   \* bound on the commands that are started

(* Half a file is no program.                                              *)
ASSUME TornAssumption == Torn \notin Seq(Bases \cup Patches) /\ MaxAttempts \in Nat \ {0}
ASSUME PatchAssumption == \A patch \in Patches : patch.id \in STRING

VARIABLES
  job,        \* the running command and what it has read
  commands,   \* commands started so far
  evaluated   \* the pairs <<base version, patch>> that passed evaluation

installerVars == <<disk, todo, job, commands, evaluated>>

Idle == [at |-> "idle"]
Free == job = Idle /\ todo = <<>> /\ commands < MaxCommands
At(place) == job.at = place /\ todo = <<>>
Started == commands' = commands + 1

InstallerInit ==
  /\ disk = [path \in {} |-> Torn]
  /\ todo = <<>>
  /\ job = Idle
  /\ commands = 0
  /\ evaluated = {}

-----------------------------------------------------------------------------
(* A compiled base also leaves metrics of its compilation, which nothing   *)
(* but reports reads.                                                      *)
InitWorkflowCommand(base) ==
  /\ Free
  /\ Started
  /\ ~Exists(WorkflowDir)
  /\ todo' = InitWorkflow(<<base>>)
  /\ UNCHANGED <<disk, job, evaluated>>

(* A patch file is one attempt; the optimizer tries one patch per failure  *)
(* fingerprint of the latest program.                                      *)
Optimize(attempts) ==
  /\ Free
  /\ Started
  /\ CanLoadLatest
  /\ job' = [at |-> "ask", attempts |-> attempts, asked |-> Latest]
  /\ UNCHANGED <<disk, todo, evaluated>>

NextAttempt ==
  job' = IF job.attempts > 1
         THEN [at |-> "ask", attempts |-> job.attempts - 1, asked |-> job.asked] ELSE Idle

(* The model aborts, or returns something that is no patch.                *)
NoPatchReturned ==
  /\ At("ask")
  /\ NextAttempt
  /\ UNCHANGED <<disk, todo, commands, evaluated>>

Propose(patch) ==
  /\ At("ask")
  /\ CanLoadLatest
  /\ todo' = Record("proposed", patch, Latest)
  /\ job' = [at |-> "validate", attempts |-> job.attempts, asked |-> job.asked,
             patch |-> patch, base |-> Latest, program |-> disk[ProgramFile(Latest)]]
  /\ UNCHANGED <<disk, commands, evaluated>>

RejectPatch == Record("rejected", job.patch, job.base)

(* validate_patch, whose verdict PatchOps gives.                           *)
Validate(valid) ==
  /\ At("validate")
  /\ IF valid
     THEN /\ todo' = Record("validated", job.patch, job.base)
          /\ job' = [job EXCEPT !.at = "evaluate", !.program = Append(@, job.patch)]
     ELSE /\ todo' = RejectPatch
          /\ NextAttempt
  /\ UNCHANGED <<disk, commands, evaluated>>

(* evaluate_program_on_events of both programs and evaluate_candidate.     *)
Evaluate(accepted) ==
  /\ At("evaluate")
  /\ IF accepted
     THEN /\ evaluated' = evaluated \cup {<<job.base, job.patch>>}
          /\ job' = [job EXCEPT !.at = "install"]
          /\ UNCHANGED todo
     ELSE /\ todo' = RejectPatch
          /\ NextAttempt
          /\ UNCHANGED evaluated
  /\ UNCHANGED <<disk, commands>>

(* The events to evaluate on cannot be read; the patch stays validated.    *)
EvaluationFails ==
  /\ At("evaluate")
  /\ NextAttempt
  /\ UNCHANGED <<disk, todo, commands, evaluated>>

MarkInstalledFirst ==
  Record("installed", job.patch, NextVersion)
    \o InstallVersion(job.program, Metadata(job.base, job.patch.id))
InstallAndMark ==
  InstallVersion(job.program, Metadata(job.base, job.patch.id))
    \o Record("installed", job.patch, NextVersion)

Install ==
  /\ At("install")
  /\ IF CanList
     THEN /\ todo' = InstallAndMark
          /\ job' = [at |-> "installed", attempts |-> job.attempts, asked |-> job.asked]
     ELSE /\ NextAttempt
          /\ UNCHANGED todo
  /\ UNCHANGED <<disk, commands, evaluated>>

Installed ==
  /\ At("installed")
  /\ job' = Idle
  /\ UNCHANGED <<disk, todo, commands, evaluated>>

(* A file operation fails: the attempt is over, and optimize goes on to    *)
(* the next failure fingerprint.  At "ask" the attempt was over already.   *)
AttemptFails ==
  /\ todo # <<>>
  /\ job.at \in {"ask", "validate", "evaluate", "installed"}
  /\ todo' = <<>>
  /\ IF job.at = "ask" THEN UNCHANGED job ELSE NextAttempt
  /\ UNCHANGED <<disk, commands, evaluated>>

(* The process is killed, or a command ends with an error.                 *)
Stop ==
  /\ job # Idle \/ todo # <<>>
  /\ todo' = <<>>
  /\ job' = Idle
  /\ UNCHANGED <<disk, commands, evaluated>>

FileOperation == FileStep /\ UNCHANGED <<job, commands, evaluated>>

InstallerStep ==
  \/ \E base \in Bases : InitWorkflowCommand(base)
  \/ \E attempts \in 1 .. MaxAttempts : Optimize(attempts)
  \/ NoPatchReturned
  \/ \E patch \in Patches : Propose(patch)
  \/ \E valid \in BOOLEAN : Validate(valid)
  \/ \E accepted \in BOOLEAN : Evaluate(accepted)
  \/ EvaluationFails
  \/ Install
  \/ Installed
  \/ AttemptFails
  \/ Stop
  \/ FileOperation

InstallerSpec == InstallerInit /\ [][InstallerStep]_installerVars

-----------------------------------------------------------------------------
(* program_registry.rs 156: the registry's files, read back, are an append-*)
(* only history of versions, whatever crash or disk error cut a command    *)
(* short, and latest never names anything else.  A version counts once its *)
(* metadata file is whole.                                                 *)
Version(v) ==
  [program |-> IF Exists(ProgramFile(v)) THEN disk[ProgramFile(v)] ELSE <<>>,
   parent  |-> disk[MetadataFile(v)].parent,
   patch   |-> PatchOf(v)]
Whole == {v \in Listed : Readable(MetadataFile(v))}

History == INSTANCE ProgramHistory WITH
  history <- [v \in 1 .. Cardinality(Whole) |-> Version(v)],
  current <- IF Readable(LatestFile) THEN Latest ELSE 0

HistoryKept == History!Spec

(* patch_installer.rs 89: a version holds a patch only if that patch passed*)
(* evaluation on top of the very version that is its parent.               *)
EvaluatedOnParent ==
  \A v \in Whole : PatchOf(v) # NoPatch =>
    /\ Readable(ProgramFile(v))
    /\ LET program == disk[ProgramFile(v)]
       IN <<disk[MetadataFile(v)].parent, program[Len(program)]>> \in evaluated

(* patch_installer.rs 103: the installed record of a patch names a version *)
(* that holds this patch, and there are records of the steps before it.    *)
RecordsTellVersions ==
  \A path \in {q \in DOMAIN disk : q[1] = "record" /\ q[2] = "installed"} : disk[path] # Torn =>
    LET record == disk[path]
    IN /\ Exists(RecordFile("proposed", record.patch))
       /\ Exists(RecordFile("validated", record.patch))
       /\ record.target \in Whole
       /\ PatchOf(record.target) = record.patch.id
       /\ LET program == disk[ProgramFile(record.target)]
          IN program[Len(program)] = record.patch

=============================================================================
