---------------------------- MODULE ComputeWorker ----------------------------
(***************************************************************************)
(* compute_worker.py inside its job: it loads the staged plan, compares    *)
(* the allocation with it, runs the command of CommandExecution, captures *)
(* the declared files (artifacts.py), evaluates the request's checks      *)
(* (execution_outcomes.py), encodes the bundle (worker_result.py) and      *)
(* links it into place; the controller then validates it (backends.py).   *)
(* The same capture and command make up `bourne run` (lifecycle.py), and  *)
(* the scheduler, discovery and transport commands are bounded ones.      *)
(*                                                                         *)
(* Other programs may change a declared file while it is hashed; the       *)
(* scheduler may kill the worker at any step and start its job again.      *)
(***************************************************************************)
EXTENDS CommandExecution, Allocation

CONSTANTS WorkingDirectories, \* "canonical"; "symlinked": resolve() names it otherwise
          NodeCounts, CpuCounts, RankCounts, GpuCounts,   \* what a plan may ask for
          MaxEdits,           \* changes to the declared file while it is captured
          MaxIncarnations     \* times the scheduler starts the job
ASSUME WorkerAssumption ==
    /\ WorkingDirectories \subseteq {"canonical", "symlinked"}
    /\ MaxEdits \in Nat /\ MaxIncarnations \in Nat \ {0}
\* _resource_integer lets a request name no zero but of GPUs.
ASSUME CountsAssumption ==
    /\ NodeCounts \cup CpuCounts \cup RankCounts \subseteq Nat \ {0}
    /\ GpuCounts \subseteq Nat

VARIABLES caller,       \* "worker", "run" or "bounded"
          phase,        \* the worker's step
          incarnation,  \* which start of the job this is
          alloc,        \* the shape, family and visible variables of a resource shortfall
          output,       \* units of output kept, per stream
          file,         \* the declared output on disk
          hashing,      \* capture_artifact's locals
          artifact,     \* the record it returned
          report,       \* the result being written
          leftover,     \* an earlier start's temporary file is still there
          published,    \* the start whose result is at the result path; 0: none
          saved,        \* `bourne run` stored its record
          exit,         \* exit status: 0, the command's, 70 (worker failure), 75 (preflight)
          imported      \* the controller's verdict on the published result

workerVars == <<caller, phase, incarnation, alloc, output, file, hashing, artifact, report,
                leftover, published, saved, exit, imported>>
vars == <<commandVars, workerVars>>

-----------------------------------------------------------------------------
NoOutput == [s \in Streams |-> 0]
NoAlloc == [family |-> "none"]
NoReport == [state |-> "none"]
NoArtifact == [existence |-> "none", status |-> "none", digest |-> <<>>, data |-> <<>>]
NoFile == [kind |-> "missing", data |-> <<0, 0>>, size |-> 1, mtime |-> 0]
NotHashing == [pc |-> "idle", size |-> 0, mtime |-> 0, digest |-> <<>>]

\* Which callers run which commands.
CallOf(c) ==
    {k \in Calls : /\ (c = "bounded") <=> (k.api = "bounded")
                   /\ c = "worker" => k.limited
                   /\ c = "run" => ~k.limited /\ k.collector = "off"}

FirstPhase(c) == IF c = "worker" THEN "load" ELSE "command"

Init ==
    /\ CommandInit
    /\ caller \in {"worker", "run", "bounded"}
    /\ call \in CallOf(caller)
    /\ phase = FirstPhase(caller)
    /\ incarnation = 1
    /\ alloc = NoAlloc
    /\ output = NoOutput
    /\ file = NoFile
    /\ hashing = NotHashing
    /\ artifact = NoArtifact
    /\ report = NoReport
    /\ leftover = FALSE
    /\ published = 0
    /\ saved = FALSE
    /\ exit = None
    /\ imported = "none"

\* main's `except Exception`: exit 70, nothing at the result path.
Fail ==
    /\ phase' = "exited"
    /\ exit' = 70
    /\ UNCHANGED <<commandVars, caller, incarnation, alloc, output, file, hashing, artifact,
                   report, leftover, published, saved, imported>>

-----------------------------------------------------------------------------
\* _load_plan and _validate_staged_models: a plan that is not this execution's, or that
\* its workload or request contradicts, ends the worker.
Load ==
    /\ phase = "load"
    /\ \/ Fail
       \/ /\ phase' = "preflight"
          /\ UNCHANGED <<commandVars, caller, incarnation, alloc, output, file, hashing,
                         artifact, report, leftover, published, saved, exit, imported>>

\* What _preflight may find wrong, an allocation that is too small included.  The
\* executable is resolved, in the activated environment, only where there is a working
\* directory; a failed activation leaves it unresolved.
NodeProblems ==
    {p \in SUBSET {"activation", "cwd", "executable", "image", "mount", "resources"} :
        /\ "cwd" \in p => "executable" \notin p
        /\ "activation" \in p => {"cwd", "executable"} \cap p # {}}

\* The layouts of a scheduled plan.
Shapes(family) ==
    {DerivedShape(x[1], x[2], x[3], x[4]) :
        x \in {y \in (NodeCounts \cup (IF family = "lsf" THEN {None} ELSE {}))
                       \X (CpuCounts \cup {None}) \X (RankCounts \cup {None})
                       \X (GpuCounts \cup {None}) :
                   Divisible(y[1], y[2], y[3], y[4])}}

\* The allocations a scheduler grants as rendered, yet read as too small.
MisreadAllocations ==
    UNION {{[family |-> f, shape |-> h] :
               h \in {x \in Shapes(f) :
                         LET d == Directives(f, x)
                         IN  /\ d.rendered
                             /\ \E visible \in SUBSET Variables(f) :
                                   Shortfall(x, Observed(Grant(f, d), visible))}} :
           f \in Families}

\* execute_plan up to the command.  Problems end in a preflight_failed result of the
\* staged plan's version; a module command that outlives its timeout, an image that
\* cannot be read, and problems too long for the evidence's diagnostic raise instead.
Preflight ==
    /\ phase = "preflight"
    /\ \/ Fail
       \/ /\ phase' = "command"
          /\ UNCHANGED <<alloc, report>>
          /\ UNCHANGED <<commandVars, caller, incarnation, output, file, hashing, artifact,
                         leftover, published, saved, exit, imported>>
       \/ /\ \E problems \in NodeProblems, a \in MisreadAllocations \cup {NoAlloc},
                version \in {1, 3} :
                /\ problems # {} \/ a # NoAlloc
                /\ alloc' = IF problems = {} THEN a ELSE NoAlloc
                /\ report' = [state |-> "preflight_failed", version |-> version]
          /\ phase' = "publish"
          /\ UNCHANGED <<commandVars, caller, incarnation, output, file, hashing, artifact,
                         leftover, published, saved, exit, imported>>

-----------------------------------------------------------------------------
\* run_experiment calls execute_command; its callers go on once it has returned, or an
\* exception that is no Exception (KeyboardInterrupt) has left it.
Call ==
    /\ phase = "command" /\ pc = "idle"
    /\ pc' = "start"
    /\ UNCHANGED <<call, proc, rc, stream, taken, seen, interrupted, interrupts, result>>
    /\ UNCHANGED workerVars

Running == phase = "command" /\ ~Ended

CommandStep == Running /\ CommandNext /\ UNCHANGED workerVars

Forget ==
    /\ pc' = "idle"
    /\ proc' = [p \in Procs |-> Absent]
    /\ rc' = "none"
    /\ stream' = [s \in Streams |-> FreshStream]
    /\ taken' = FALSE
    /\ seen' = {}
    /\ interrupted' = FALSE
    /\ interrupts' = 0

\* The command has returned: its locals are gone, and the declared output is as it left it.
FileKinds == {"missing", "denied", "directory", "unreadable", "regular"}

CommandReturns ==
    /\ phase = "command" /\ pc = "done" /\ caller # "bounded"
    /\ output' = [s \in Streams |-> stream[s].capture]
    /\ file' \in {[NoFile EXCEPT !.kind = k] : k \in FileKinds}
    /\ phase' = "capture"
    /\ Forget
    /\ UNCHANGED <<call, result, caller, incarnation, alloc, hashing, artifact, report, leftover,
                   published, saved, exit, imported>>

CommandRaises ==
    /\ phase = "command" /\ pc = "raised" /\ caller # "bounded"
    /\ phase' = "exited"
    /\ exit' = 1
    /\ UNCHANGED <<commandVars, caller, incarnation, alloc, output, file, hashing, artifact,
                   report, leftover, published, saved, imported>>

-----------------------------------------------------------------------------
\* capture_artifact: stat, hash chunk by chunk, stat again.
\* The record keeps the digest of a complete capture; data is what the file then held.
Captured(existence, status) ==
    /\ artifact' = [existence |-> existence, status |-> status,
                    digest |-> IF status = "complete" THEN hashing.digest ELSE <<>>,
                    data |-> IF status = "complete" THEN file.data ELSE <<>>]
    /\ hashing' = NotHashing
    /\ file' = NoFile
    /\ phase' = "assess"

StatBefore ==
    /\ phase = "capture" /\ hashing.pc = "idle"
    /\ CASE file.kind = "missing"   -> Captured("missing", "complete")
         [] file.kind = "denied"    -> Captured("unknown", "unreadable")
         [] file.kind = "directory" -> Captured("present", "unsupported")
         [] OTHER -> /\ hashing' = [pc |-> "hash", size |-> file.size, mtime |-> file.mtime,
                                    digest |-> <<>>]
                     /\ UNCHANGED <<file, artifact, phase>>
    /\ UNCHANGED <<commandVars, caller, incarnation, alloc, output, report, leftover,
                   published, saved, exit, imported>>

\* sha256_file: open, then a chunk at a time; an opened file outlives its removal.
HashChunk ==
    /\ hashing.pc = "hash" /\ Len(hashing.digest) < 2
    /\ IF hashing.digest = <<>> /\ file.kind # "regular"
       THEN Captured("present", "unreadable")
       ELSE /\ hashing' = [hashing EXCEPT !.digest = Append(@, file.data[Len(@) + 1])]
            /\ UNCHANGED <<file, artifact, phase>>
    /\ UNCHANGED <<commandVars, caller, incarnation, alloc, output, report, leftover,
                   published, saved, exit, imported>>

Changed == hashing.size # file.size \/ hashing.mtime # file.mtime

StatAfter ==
    /\ hashing.pc = "hash" /\ Len(hashing.digest) = 2
    /\ IF file.kind = "missing" THEN Captured("present", "unreadable")
       ELSE Captured("present", IF Changed THEN "changed" ELSE "complete")
    /\ UNCHANGED <<commandVars, caller, incarnation, alloc, output, report, leftover,
                   published, saved, exit, imported>>

\* Another program edits, extends, removes or creates the file (external); each change
\* gives it a new modification time.
EditFile ==
    /\ hashing.pc = "hash"
    /\ file.mtime < MaxEdits
    /\ \/ \E i \in 1..2, grown \in BOOLEAN :
             /\ file.kind = "regular"
             /\ file' = [file EXCEPT !.mtime = @ + 1, !.data[i] = file.mtime + 1,
                                     !.size = IF grown THEN @ + 1 ELSE @]
       \/ /\ file.kind = "regular"
          /\ file' = [file EXCEPT !.mtime = @ + 1, !.kind = "missing"]
       \/ /\ file.kind = "missing"
          /\ file' = [kind |-> "regular", data |-> <<file.mtime + 1, file.mtime + 1>>,
                      size |-> 1, mtime |-> file.mtime + 1]
    /\ UNCHANGED <<commandVars, caller, phase, incarnation, alloc, output, hashing, artifact,
                   report, leftover, published, saved, exit, imported>>

-----------------------------------------------------------------------------
\* The request's checks on the declared output.
CheckTypes == {"output_exists", "output_min_bytes", "output_sha256"}

\* Mutant: the capture's status is not looked at.
CheckStateAnyCapture(type, meets) ==
    IF artifact.existence = "missing" THEN "failed"
    ELSE IF artifact.existence # "present" THEN "unknown"
    ELSE IF meets \/ type = "output_exists" THEN "passed" ELSE "failed"

\* _check_state, for a check the recorded size or digest meets or not.
CheckState(type, meets) ==
    IF type = "output_exists"
    THEN CASE artifact.existence = "present" -> "passed"
           [] artifact.existence = "missing" -> "failed"
           [] OTHER -> "unknown"
    ELSE IF artifact.existence = "missing" THEN "failed"
    ELSE IF artifact.existence # "present" \/ artifact.status # "complete" THEN "unknown"
    ELSE IF meets THEN "passed" ELSE "failed"

\* evaluate_verification
Aggregate(checks, met) ==
    LET states == {CheckState(t, t \in met) : t \in checks}
    IN  IF checks = {} THEN "not_requested"
        ELSE IF "failed" \in states THEN "failed"
        ELSE IF "unknown" \in states THEN "unknown"
        ELSE "passed"

\* build_telemetry_summary: what it lists as unavailable; the queue interval is only
\* known to the controller.
Unavailable(inputs) ==
    {"scheduler_wait_seconds"}
    \cup {x \in {"known_input_artifact_bytes"} : inputs = "unknown"}
    \cup {x \in {"known_output_artifact_bytes"} :
             artifact.existence # "present" \/ artifact.status # "complete"}

\* Mutant: the signal of an interrupted command is not looked at.
TerminationEvidenceUnsignalled(mode, aggregate) ==
    IF mode = "summary" /\ result.launch_error THEN "launch_failed"
    ELSE IF result.status = "failed" THEN "running_then_failed"
    ELSE IF aggregate = "failed" THEN "verification_failed"
    ELSE "completed"

\* _termination_evidence: signal and launch error are read from the runtime capture,
\* which telemetry "off" leaves empty.
TerminationEvidence(mode, aggregate) ==
    IF mode = "summary" /\ result.launch_error THEN "launch_failed"
    ELSE IF mode = "summary" /\ result.signal THEN "terminated_by_signal"
    ELSE IF result.status = "failed" THEN "running_then_failed"
    ELSE IF aggregate = "failed" THEN "verification_failed"
    ELSE "completed"

\* _runtime_evidence: the process group is observed where procfs was sampled.
ProcessCoverage(mode) ==
    IF mode = "summary" /\ call.collector = "procfs" /\ ~result.launch_error
    THEN "observed" ELSE "unavailable"

\* execute_plan after the command.  Of a request, _runtime_evidence raises for a container
\* argv that exceeds the limit the request's own argv may reach.
Assess ==
    /\ phase = "assess" /\ caller = "worker"
    /\ \/ Fail
       \/ /\ \E mode \in {"none", "off", "summary"}, inputs \in {"known", "unknown"},
                checks \in SUBSET CheckTypes, cwd \in WorkingDirectories :
             \E met \in SUBSET (checks \ {"output_exists"}) :
                /\ (mode = "summary") <=> (call.collector # "off")
                /\ mode = "none" => checks = {}
                /\ report' =
                      [state |-> result.status, version |-> IF mode = "none" THEN 1 ELSE 3,
                       mode |-> mode, inputs |-> inputs, checks |-> checks, met |-> met,
                       cwd |-> cwd,
                       verification |-> Aggregate(checks, met),
                       unavailable |-> IF mode = "summary" THEN Unavailable(inputs) ELSE {},
                       coverage |-> ProcessCoverage(mode),
                       termination |-> TerminationEvidence(mode, Aggregate(checks, met))]
          /\ phase' = "encode"
          /\ UNCHANGED <<commandVars, caller, incarnation, alloc, output, file, hashing,
                         artifact, leftover, published, saved, exit, imported>>

\* encode_worker_result: JSON makes a byte of output up to six; BundleLimit units fit.
BundleLimit == 4
Fits(expansion) == MapThenSumSet(LAMBDA s : output[s], Streams) * expansion <= BundleLimit

Encode ==
    /\ phase = "encode"
    /\ \E expansion \in {1, 3, 6} :
          \/ ~Fits(expansion) /\ Fail
          \/ /\ Fits(expansion)
             /\ phase' = "publish"
             /\ UNCHANGED <<commandVars, caller, incarnation, alloc, output, file, hashing,
                            artifact, report, leftover, published, saved, exit, imported>>

\* _write_immutable: a temporary file named after the pid, created exclusively, ...
WriteTemporary ==
    /\ phase = "publish"
    /\ \/ /\ phase' = "link"
          /\ UNCHANGED <<leftover, exit>>
       \/ /\ leftover
          /\ leftover' = FALSE
          /\ phase' = "exited"
          /\ exit' = 70
    /\ UNCHANGED <<commandVars, caller, incarnation, alloc, output, file, hashing, artifact,
                   report, published, saved, imported>>

ExitStatus ==
    CASE report.state = "completed"        -> 0
      [] report.state = "preflight_failed" -> 75
      [] report.state = "interrupted"      -> 130
      [] OTHER                             -> 1

\* ... linked to the result path, which must not exist, and removed.
Link ==
    /\ phase = "link"
    /\ IF published = 0
       THEN /\ published' = incarnation
            /\ phase' = "exited"
            /\ exit' = ExitStatus
            /\ UNCHANGED <<commandVars, caller, incarnation, alloc, output, file, hashing,
                           artifact, report, leftover, saved, imported>>
       ELSE Fail

\* run_and_record: one transaction stores the experiment and its files.
SaveRecord ==
    /\ phase = "assess" /\ caller = "run"
    /\ saved' = TRUE
    /\ phase' = "exited"
    /\ exit' = IF result.status = "completed" THEN 0 ELSE 1
    /\ UNCHANGED <<commandVars, caller, incarnation, alloc, output, file, hashing, artifact,
                   report, leftover, published, imported>>

-----------------------------------------------------------------------------
\* The node fails or the job is preempted, and the worker's memory is gone; the scheduler
\* may start the job again (external).
Kill ==
    /\ caller = "worker" /\ phase # "killed"
    /\ phase' = "killed"
    /\ leftover' = (leftover \/ phase = "link")
    /\ Forget
    /\ result' = NoResult
    /\ alloc' = NoAlloc /\ output' = NoOutput /\ file' = NoFile /\ hashing' = NotHashing
    /\ artifact' = NoArtifact /\ report' = NoReport /\ exit' = None
    /\ UNCHANGED <<call, caller, incarnation, published, saved, imported>>

Requeue ==
    /\ phase = "killed" /\ incarnation < MaxIncarnations
    /\ incarnation' = incarnation + 1
    /\ phase' = "load"
    /\ UNCHANGED <<commandVars, caller, alloc, output, file, hashing, artifact, report, leftover,
                   published, saved, exit, imported>>

\* The controller: parse_worker_result, _validate_result_against_plan and
\* _validate_request_outcomes, which evaluates the outcomes again from the records.
ParsedState ==
    report.state \in {"completed", "failed", "interrupted", "preflight_failed"}
\* Mutant: compared after add_scheduler_wait has supplied the queue interval.
OutcomesMatchWithWait ==
    /\ report.verification = Aggregate(report.checks, report.met)
    /\ report.unavailable = (IF report.mode = "summary" THEN Unavailable(report.inputs) ELSE {})
                               \ {"scheduler_wait_seconds"}

OutcomesMatch ==
    /\ report.verification = Aggregate(report.checks, report.met)
    /\ report.unavailable = IF report.mode = "summary" THEN Unavailable(report.inputs) ELSE {}

Accepted ==
    /\ ParsedState
    /\ report.state # "preflight_failed" =>
          /\ report.cwd = "canonical"
          /\ report.version >= 2 => OutcomesMatch

Import ==
    /\ phase = "exited" /\ published = incarnation /\ imported = "none"
    /\ imported' = IF Accepted THEN "accepted" ELSE "rejected"
    /\ UNCHANGED <<commandVars, caller, phase, incarnation, alloc, output, file, hashing,
                   artifact, report, leftover, published, saved, exit>>

-----------------------------------------------------------------------------
WorkerStep ==
    \/ Load \/ Preflight \/ Call \/ CommandReturns \/ CommandRaises
    \/ StatBefore \/ HashChunk \/ StatAfter \/ Assess \/ Encode \/ WriteTemporary \/ Link
    \/ SaveRecord

Next == CommandStep \/ WorkerStep \/ EditFile \/ Kill \/ Requeue \/ Import

Spec == Init /\ [][Next]_vars

FairSpec ==
    /\ Spec
    /\ WF_vars(Running /\ CallerStep /\ UNCHANGED workerVars)
    /\ \A s \in Streams :
          WF_vars(Running /\ (Eof(s) \/ \E k \in 1..PipeCapacity : Read(s, k))
                  /\ UNCHANGED workerVars)
    /\ \A p \in Procs : WF_vars(Running /\ DyingExits(p) /\ UNCHANGED workerVars)

-----------------------------------------------------------------------------
WorkerTypeOK ==
    /\ CommandTypeOK
    /\ caller \in {"worker", "run", "bounded"}
    /\ phase \in {"load", "preflight", "command", "capture", "assess", "encode", "publish",
                  "link", "exited", "killed"}
    /\ incarnation \in 1..MaxIncarnations /\ published \in 0..incarnation
    /\ alloc \in MisreadAllocations \cup {NoAlloc}
    /\ output \in [Streams -> 0..MaxWritten]
    /\ file.kind \in FileKinds /\ file.mtime \in 0..MaxEdits
    /\ hashing.pc \in {"idle", "hash"} /\ Len(hashing.digest) <= 2
    /\ artifact.existence \in {"none", "missing", "unknown", "present"}
    /\ artifact.status \in {"none", "complete", "unreadable", "unsupported", "changed"}
    /\ report.state \in {"none", "completed", "failed", "interrupted", "preflight_failed"}
    /\ leftover \in BOOLEAN /\ saved \in BOOLEAN
    /\ exit \in {None, 0, 1, 70, 75, 130}
    /\ imported \in {"none", "accepted", "rejected"}

\* A job that was granted exactly what its script asks for fails the preflight for want
\* of resources only where the observation is known to be narrower than the request:
\* whichever allocation variables the scheduler shows, no other shape is refused.
NoFalseShortfall ==
    alloc # NoAlloc => KnownMisread(alloc.family, alloc.shape)

\* A result whose verification passed with a size or digest check rests on a capture that
\* is complete and consistent; never on a file that was missing, unreadable or changing.
VerificationIsJustified ==
    (phase = "exited" /\ published = incarnation /\ report.state # "preflight_failed")
        => (report.verification = "passed" /\ report.checks # {"output_exists"}
              => /\ artifact.status = "complete"
                 /\ artifact.digest = artifact.data
                 /\ report.checks \ {"output_exists"} = report.met)

\* The worker's state is well formed and both of its verdicts are true.  A published
\* termination of "completed" means the command ran to a zero exit; the exception is a
\* request with telemetry off, whose evidence has neither signal nor launch error, so that
\* an interrupted command reads as completed.  Exit status 0, what the scheduler sees,
\* means that this start of the job, and no earlier one, published a completed result.
VerdictIsTrue ==
    /\ WorkerTypeOK
    /\ (published = incarnation /\ phase = "exited" /\ report.state # "preflight_failed"
        /\ report.termination \in {"completed", "verification_failed"})
          => \/ result.status = "completed"
             \/ report.mode # "summary" /\ result.status = "interrupted"
    /\ (caller = "worker" /\ phase = "exited" /\ exit = 0)
          => published = incarnation /\ report.state = "completed"

\* A published result is never replaced, although the scheduler may start the job again and
\* the second start runs to its own; and the controller accepts every result published for
\* the plan, unless the plan names its working directory through a symbolic link:
\* run_experiment resolves the directory and _validate_result_against_plan compares the text.
PublishedIsAccepted ==
    [][/\ published # 0 => published' = published
       /\ imported = "none" /\ imported' = "rejected" => report.cwd = "symlinked"]_vars

=============================================================================
