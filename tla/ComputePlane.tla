---------------------------- MODULE ComputePlane ----------------------------
(***************************************************************************)
(* The execution plane behind a scheduler: the jobs that Slurm, PBS or LSF *)
(* own and the compute worker (compute_worker.py) that each job runs.      *)
(*                                                                         *)
(* The scheduler is not part of the repository.  It is modelled from what  *)
(* backends.py and remote_worker.py ask of it: a submission is accepted    *)
(* under a fresh job identity, an accepted job waits, runs, may be held,   *)
(* may be evicted and requeued by the site, may be killed, and ends; a     *)
(* query answers with the job's present condition or with nothing at all.  *)
(*                                                                         *)
(* The compute worker leaves exactly one trace behind: result.json, put in *)
(* place by a hard link that refuses to replace an earlier one.            *)
(***************************************************************************)
EXTENDS Naturals, FiniteSets

CONSTANTS
    Execs,      \* execution identities (ULIDs minted by execute_plan)
    Jobs,       \* scheduler job identities
    Outcomes,   \* the outcomes a worker result can report
    Preemption, \* whether the site holds, evicts and requeues running jobs
    NoExec,     \* a job identity that was never handed out
    NoJob       \* no job identity known

ASSUME IdentityAssumption == NoExec \notin Execs /\ NoJob \notin Jobs

ASSUME PreemptionAssumption == Preemption \in BOOLEAN

\* A worker result carries an experiment that completed or did not ("failed",
\* which also stands for "interrupted"), or reports that the scientific
\* program was not launched ("preflight_failed"), or cannot be used: it is too
\* large, malformed, or does not match the plan ("invalid").
ASSUME OutcomeAssumption ==
    Outcomes \subseteq {"completed", "failed", "preflight_failed", "invalid"}

VARIABLES
    jobExec,    \* jobExec[j]: the execution whose script job j runs
    jobPhase,   \* jobPhase[j]: where job j is in the scheduler
    bundle      \* bundle[e]: the outcome recorded in e's result.json, or "none"

planeVars == <<jobExec, jobPhase, bundle>>

JobPhases == {"free", "queued", "running", "held", "evicted", "ended"}

\* What a query can say of a job, grouped the way the backends branch on it:
\* pending/queued/configuring, running/completing, the conditions of the
\* terminal sets from which a site may requeue a job (preempted, node_fail),
\* the other ones of the terminal sets, conditions in none of these groups,
\* and no answer.
Observations == {"queued", "running", "evicted", "ended", "other", "unobservable"}

\* "other" covers suspended and resizing jobs, and also finished ones whose
\* condition the terminal sets lack (remote_backend.py has no boot_fail and no
\* deadline).
Conditions ==
    [free |-> {}, queued |-> {"queued"}, running |-> {"running"}, held |-> {"other"},
     evicted |-> {"evicted"}, ended |-> {"ended", "other"}]

CarriesExperiment(kind) == kind \in {"completed", "failed"}
Usable(kind) == kind \notin {"none", "invalid"}

PlaneTypeOK ==
    /\ jobExec \in [Jobs -> Execs \cup {NoExec}]
    /\ jobPhase \in [Jobs -> JobPhases]
    /\ bundle \in [Execs -> Outcomes \cup {"none"}]

PlaneInit ==
    /\ jobExec = [j \in Jobs |-> NoExec]
    /\ jobPhase = [j \in Jobs |-> "free"]
    /\ bundle = [e \in Execs |-> "none"]

HasJob(e) == \E j \in Jobs : jobExec[j] = e

-----------------------------------------------------------------------------
\* The scheduler.

Accept(e, j) ==
    /\ jobPhase[j] = "free"
    /\ jobExec' = [jobExec EXCEPT ![j] = e]
    /\ jobPhase' = [jobPhase EXCEPT ![j] = "queued"]
    /\ UNCHANGED bundle

MoveJob(j, from, to) ==
    /\ jobPhase[j] \in from
    /\ jobPhase' = [jobPhase EXCEPT ![j] = to]
    /\ UNCHANGED <<jobExec, bundle>>

StartJob(j) == MoveJob(j, {"queued"}, "running")
HoldJob(j) == Preemption /\ MoveJob(j, {"running"}, "held")
ResumeJob(j) == MoveJob(j, {"held"}, "running")
EvictJob(j) == Preemption /\ MoveJob(j, {"running"}, "evicted")
RequeueJob(j) == MoveJob(j, {"evicted"}, "queued")
EndJob(j) == MoveJob(j, {"running", "evicted"}, "ended")

Live(j) == jobPhase[j] \in {"queued", "running", "held", "evicted"}
KillJob(j) == MoveJob(j, {"queued", "running", "held", "evicted"}, "ended")

\* The answers a query about job j can give now.  Any query may go
\* unanswered: the command is missing, fails, times out, or the scheduler no
\* longer (or not yet) lists the job.
Answers(j) == {"unobservable"} \cup Conditions[jobPhase[j]]

-----------------------------------------------------------------------------
\* Mutant: result.json is put in place by os.replace.
PublishResultReplacing(j, kind) ==
    LET e == jobExec[j] IN
    /\ jobPhase[j] = "running"
    /\ bundle' = [bundle EXCEPT ![e] = kind]
    /\ UNCHANGED <<jobExec, jobPhase>>

\* The compute worker of a running job runs preflight and workload and links
\* its result into place.  A worker started again after a requeue finds
\* result.json present, os.link raises and it exits 70: its outcome is lost
\* and the first one stays.
PublishResult(j, kind) ==
    LET e == jobExec[j] IN
    /\ jobPhase[j] = "running"
    /\ bundle[e] = "none"
    /\ bundle' = [bundle EXCEPT ![e] = kind]
    /\ UNCHANGED <<jobExec, jobPhase>>

PlaneNext ==
    \E j \in Jobs :
        \/ StartJob(j)
        \/ HoldJob(j)
        \/ ResumeJob(j)
        \/ EvictJob(j)
        \/ RequeueJob(j)
        \/ EndJob(j)
        \/ \E kind \in Outcomes : PublishResult(j, kind)
=============================================================================
