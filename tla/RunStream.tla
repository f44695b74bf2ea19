------------------------------ MODULE RunStream ------------------------------
(***************************************************************************)
(* run_stream of src/src/engine/run_coordinator.rs with the trace, profile *)
(* and metrics stores it writes, and the commands of PatchInstaller that   *)
(* read them: optimize asks for a patch of what the profile counts as      *)
(* failures, and evaluates it on the events of the traces.                 *)
(*                                                                         *)
(* A boundary is CpsRuntime's; of its trace is kept which event of which   *)
(* run it handled, with which program version, and whether a continuation  *)
(* was captured.  A profile is the sequence of the traces it has counted.  *)
(***************************************************************************)
EXTENDS PatchInstaller

CONSTANTS
  MaxEvents,   \* events of a stream
  Offered      \* the patches the boundaries of a stream may propose

(* Half a file is no traces.                                               *)
ASSUME StreamAssumption ==
  /\ MaxEvents \in Nat
  /\ Torn \notin Seq([run : Nat, event : Nat, version : Nat, captured : BOOLEAN])

TraceFile(run)   == <<"trace", run>>
MetricsFile(run) == <<"metrics", run>>
ProfileFile      == <<"profile.json">>
SplitFile(kind)  == <<"profile", kind>>
ProfileKinds     == {"failure_fingerprints", "fast_path_stats", "effect_stats"}

ThisRun == commands + 1   \* a fresh run id

-----------------------------------------------------------------------------
(* FileProfileStore::load: the three files count only without profile.json.*)
SplitProfile ==
  [kind \in ProfileKinds |-> IF Exists(SplitFile(kind)) THEN disk[SplitFile(kind)] ELSE <<>>]
ProfileOrNew == IF Readable(ProfileFile) THEN disk[ProfileFile] ELSE [kind \in ProfileKinds |-> <<>>]
LoadProfile ==
  IF Exists(ProfileFile) THEN disk[ProfileFile]
  ELSE IF \E kind \in ProfileKinds : SplitProfile[kind] = Torn THEN Torn
  ELSE SplitProfile
CanLoadProfile == LoadProfile # Torn

WriteProfile(profile) ==
  <<Write(ProfileFile, profile),
    Write(SplitFile("failure_fingerprints"), profile["failure_fingerprints"]),
    Write(SplitFile("fast_path_stats"), profile["fast_path_stats"]),
    Write(SplitFile("effect_stats"), profile["effect_stats"])>>

(* FileTraceStore::append_events reads the run's traces and writes them    *)
(* all again.                                                              *)
WriteTrace(run, trace) == <<Write(TraceFile(run), <<trace>>)>>
WriteTraces(run, trace) ==
  LET stored == IF Exists(TraceFile(run)) THEN disk[TraceFile(run)] ELSE <<>>
  IN <<Write(TraceFile(run), Append(stored, trace))>>

-----------------------------------------------------------------------------
StartStream ==
  /\ Free
  /\ Started
  /\ CanLoadLatest
  /\ job' = [at |-> "stream", run |-> ThisRun, version |-> Latest, next |-> 1]
  /\ UNCHANGED <<disk, todo, evaluated>>

(* An event: what its boundary proposes is recorded, and then its trace.   *)
OfferPatches(patches) ==
  IF patches = {} THEN <<>>
  ELSE LET patch == CHOOSE p \in patches : TRUE
       IN Record("proposed", patch, job.version) \o Record("validated", patch, job.version)

StreamEvent(captured, offered) ==
  /\ At("stream")
  /\ job.next <= MaxEvents
  /\ LET trace == [run |-> job.run, event |-> job.next, version |-> job.version,
                   captured |-> captured]
     IN /\ todo' = OfferPatches(offered) \o WriteTraces(job.run, trace)
        /\ job' = [at |-> "profile", run |-> job.run, version |-> job.version,
                   next |-> job.next, trace |-> trace]
  /\ UNCHANGED <<disk, commands, evaluated>>

(* update_from_trace; its failure is the run's.                            *)
UpdateProfile ==
  /\ At("profile")
  /\ IF CanLoadProfile
     THEN /\ todo' = WriteProfile([kind \in ProfileKinds |-> Append(LoadProfile[kind], job.trace)])
          /\ job' = [at |-> "stream", run |-> job.run, version |-> job.version,
                     next |-> job.next + 1]
     ELSE job' = Idle /\ UNCHANGED todo
  /\ UNCHANGED <<disk, commands, evaluated>>

StreamEnds ==
  /\ At("stream")
  /\ job.next > MaxEvents
  /\ todo' = <<Write(MetricsFile(job.run), [mode |-> "stream", events |-> MaxEvents])>>
  /\ job' = Idle
  /\ UNCHANGED <<disk, commands, evaluated>>

(* baseline_strong_direct stores no traces, and needs no workflow: it lays *)
(* out the directory of a missing one, which init-workflow then refuses.   *)
EnsureLayout == IF Exists(WorkflowDir) THEN <<>> ELSE <<MakeDir(WorkflowDir)>>

BaselineStrongDirect ==
  /\ Free
  /\ Started
  /\ todo' = EnsureLayout
       \o <<Write(MetricsFile(ThisRun), [mode |-> "strong_direct", events |-> MaxEvents])>>
  /\ UNCHANGED <<disk, job, evaluated>>

-----------------------------------------------------------------------------
(* optimize_from_profile: one attempt per failure of the latest version    *)
(* that is counted, --max-patches at most; a boundary may have several.    *)
FailuresOf(version) ==
  LET counted == LoadProfile["failure_fingerprints"]
  IN {i \in DOMAIN counted : counted[i].captured /\ counted[i].version = version}

OptimizeFromProfile(attempts) ==
  /\ CanLoadProfile
  /\ Optimize(attempts)
  /\ FailuresOf(Latest) # {}

(* list_stored_events reads every trace file there is; a torn one may end  *)
(* at a line's end and be taken for whole.                                 *)
Traces == {path \in DOMAIN disk : path[1] = "trace"}

EvaluateOnTraces(accepted) ==
  /\ accepted => Traces # {}
  /\ Evaluate(accepted)

TracesUnreadable ==
  /\ \E path \in Traces : disk[path] = Torn
  /\ EvaluationFails

Offers == {{}} \cup {{patch} : patch \in Offered}

StreamNext ==
  \/ \E base \in Bases : InitWorkflowCommand(base)
  \/ StartStream
  \/ \E captured \in BOOLEAN, offered \in Offers : StreamEvent(captured, offered)
  \/ UpdateProfile
  \/ StreamEnds
  \/ BaselineStrongDirect
  \/ \E attempts \in 1 .. MaxAttempts : OptimizeFromProfile(attempts)
  \/ Optimize(1)   \* with a patch file
  \/ NoPatchReturned
  \/ \E patch \in Patches : Propose(patch)
  \/ \E valid \in BOOLEAN : Validate(valid)
  \/ \E accepted \in BOOLEAN : EvaluateOnTraces(accepted)
  \/ TracesUnreadable
  \/ Install
  \/ Installed
  \/ AttemptFails
  \/ Stop
  \/ FileOperation

StreamSpec == InstallerInit /\ [][StreamNext]_installerVars

-----------------------------------------------------------------------------
(* run_coordinator.rs 186: whatever was cut short, the profile counts an   *)
(* event once, and only one whose trace was stored before; that trace is   *)
(* still there unless a crash tore the file of its run.                    *)
ProfileIsTraced ==
  Readable(ProfileFile) => \A kind \in ProfileKinds :
    LET counted == disk[ProfileFile][kind]
    IN \A i \in DOMAIN counted :
         LET run == TraceFile(counted[i].run)
         IN /\ \A j \in DOMAIN counted : counted[i] = counted[j] => i = j
            /\ Exists(run)
            /\ disk[run] # Torn => \E k \in DOMAIN disk[run] : disk[run][k] = counted[i]

(* run_coordinator.rs 195: a stream's metrics are of a run all of whose    *)
(* events have their trace, and a profile that can be read has counted     *)
(* them, also after later runs that crashed.  A stream without events has  *)
(* no file of traces.                                                      *)
MetricsTellRuns ==
  \A path \in {q \in DOMAIN disk : q[1] = "metrics"} :
    disk[path] # Torn /\ disk[path].mode = "stream" /\ disk[path].events > 0 =>
      LET run == TraceFile(path[2])
      IN /\ Readable(run)
         /\ Len(disk[run]) = disk[path].events
         /\ Readable(ProfileFile) => \A i \in DOMAIN disk[run] :
              \E j \in DOMAIN disk[ProfileFile]["failure_fingerprints"] :
                disk[ProfileFile]["failure_fingerprints"][j] = disk[run][i]

(* patch_optimizer.rs 37: every request of one optimize shows the model    *)
(* the program that was latest when it started; by then it is the latest   *)
(* no more only if an earlier attempt installed a version and could not    *)
(* write its record.                                                       *)
InstalledRecordOf(v) ==
  \E path \in DOMAIN disk : path[1] = "record" /\ path[2] = "installed" /\ disk[path] # Torn
                            /\ disk[path].target = v
AskedAboutLatest ==
  At("ask") /\ Readable(LatestFile) => job.asked = Latest \/ ~InstalledRecordOf(Latest)
=============================================================================
