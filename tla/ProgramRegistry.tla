-------------------------- MODULE ProgramRegistry ---------------------------
(***************************************************************************)
(* FileProgramRegistry and FilePatchRegistry of src/src/store/ for one     *)
(* workflow: a program and a metadata file per version, a file that names  *)
(* the latest version, and a record per patch and status.  An operation is *)
(* the file operations it performs, given what it reads from the disk.     *)
(*                                                                         *)
(* A program is the sequence of the base it was configured with and the    *)
(* patches applied to it.  Version v0001 is 1, and 0 stands for no parent. *)
(***************************************************************************)
EXTENDS StateDir, FiniteSetsExt

CONSTANT NoPatch

(* Half a file is no metadata either.                                      *)
ASSUME RegistryAssumption == NoPatch \in STRING /\ Torn \notin [parent : Nat, patch : STRING]

WorkflowDir      == <<"workflow">>
WorkflowFile     == <<"workflow.json">>
LatestFile       == <<"latest">>
ProgramFile(v)   == <<"program", v>>
MetadataFile(v)  == <<"metadata", v>>
RecordFile(status, patch) == <<"record", status, patch.id>>

Metadata(parent, patchId) == [parent |-> parent, patch |-> patchId]
Baseline == Metadata(0, NoPatch)

(* list_versions: the versions that have a metadata file; it fails if one  *)
(* of these does not parse.                                                *)
Listed  == {path[2] : path \in {q \in DOMAIN disk : q[1] = "metadata"}}
CanList == \A v \in Listed : Readable(MetadataFile(v))

NextAfterLatest == IF Readable(LatestFile) THEN disk[LatestFile] + 1 ELSE 1
NextVersion == Max(Listed \cup {0}) + 1

Latest == disk[LatestFile]
CanLoadLatest == Readable(LatestFile) /\ Readable(ProgramFile(Latest))

PatchOf(v) == disk[MetadataFile(v)].patch

MetadataFirst(v, program, metadata) ==
  <<Write(MetadataFile(v), metadata), Write(ProgramFile(v), program)>>
WriteVersion(v, program, metadata) ==
  <<Write(ProgramFile(v), program), Write(MetadataFile(v), metadata)>>
SetLatest(v) == <<Write(LatestFile, v)>>

InitWorkflow(program) ==
  <<MakeDir(WorkflowDir), Write(WorkflowFile, "metadata")>>
    \o WriteVersion(1, program, Baseline) \o SetLatest(1)

InstallVersion(program, metadata) ==
  WriteVersion(NextVersion, program, metadata) \o SetLatest(NextVersion)

(* ensure_configured_baseline, for a workflow that exists: back to the     *)
(* first version that is the configured program and no patch's, or a new   *)
(* version of it.                                                          *)
Unpatched == {v \in Listed : PatchOf(v) = NoPatch}
AnyUnpatched(program) == Unpatched
Matching(program) ==
  {v \in Unpatched : Readable(ProgramFile(v)) /\ disk[ProgramFile(v)] = program}
CanCompare(program) ==
  /\ CanList
  /\ \A v \in Unpatched :
       Readable(ProgramFile(v)) \/ \E earlier \in Matching(program) : earlier < v
EnsureConfiguredBaseline(program) ==
  IF Matching(program) # {} THEN SetLatest(Min(Matching(program)))
  ELSE InstallVersion(program, Baseline)

(* write_record: one file per patch id and status, overwritten.            *)
Record(status, patch, target) ==
  <<Write(RecordFile(status, patch), [patch |-> patch, target |-> target])>>
=============================================================================
