---------------------------- MODULE BourneStore -----------------------------
(***************************************************************************)
(* The controller's SQLite store (workload_storage.py, site_storage.py) as *)
(* the execution backends use it: the rows of the executions of one plan.  *)
(* Every operation below is one transaction; whatever a caller does in two *)
(* operations can be interrupted, or interleaved with another process, in  *)
(* between.                                                                *)
(***************************************************************************)
EXTENDS ComputePlane, Sequences

VARIABLES
    created,    \* the plan's executions in order of creation
    execState,  \* execution_attempts.state, "absent" before the row exists
    jobRow,     \* scheduler_jobs: the job identity recorded for e, or NoJob
    remoteRow,  \* remote_execution_states: [state, sched] of e
    imported    \* the outcome imported for e (experiment link, runtime evidence)

storeVars == <<created, execState, jobRow, remoteRow, imported>>

ExecutionStates ==
    {"planned", "prepared", "submission_ambiguous", "submitted", "queued",
     "running", "scheduler_terminal", "scheduler_unobservable", "cancelled",
     "collection_failed", "completed", "failed", "preflight_failed"}

\* The states that execute_plan's exception handler leaves alone.
SettledStates ==
    {"failed", "preflight_failed", "completed", "cancelled", "submission_ambiguous"}

NoRow == [state |-> "none", sched |-> "none"]
RemoteRowStates ==
    {"none", "prepared", "submitting", "submitted", "ambiguous",
     "submission_failed", "cancelled"}

Created == {created[i] : i \in DOMAIN created}

StoreTypeOK ==
    /\ created \in Seq(Execs)
    /\ execState \in [Execs -> ExecutionStates \cup {"absent"}]
    /\ jobRow \in [Execs -> Jobs \cup {NoJob}]
    /\ remoteRow \in [Execs -> [state : RemoteRowStates,
                                sched : Observations \cup {"none"}]]
    /\ imported \in [Execs -> Outcomes \cup {"none"}]

StoreInit ==
    /\ created = <<>>
    /\ execState = [e \in Execs |-> "absent"]
    /\ jobRow = [e \in Execs |-> NoJob]
    /\ remoteRow = [e \in Execs |-> NoRow]
    /\ imported = [e \in Execs |-> "none"]

\* Mutant: execute_plan does not look at earlier executions.
PlanIsNeverBlocked == FALSE

\* latest_execution_for_plan, as execute_plan uses it: only the most recent
\* execution of the plan is looked at.  The order here is that of the inserts;
\* the code sorts by the creation time that each client read just before.
PlanIsBlocked ==
    created # <<>> /\ execState[created[Len(created)]] = "submission_ambiguous"

create_execution(e) ==
    /\ e \notin Created
    /\ created' = Append(created, e)
    /\ execState' = [execState EXCEPT ![e] = "planned"]
    /\ UNCHANGED <<jobRow, remoteRow, imported>>

\* update_execution_state overwrites whatever state is there.
update_execution_state(e, s) ==
    /\ execState' = [execState EXCEPT ![e] = s]
    /\ UNCHANGED <<created, jobRow, remoteRow, imported>>

\* save_scheduler_job inserts: the primary key is the execution and
\* (family, job_id) is unique, so a second insert raises IntegrityError.
CanSaveJob(e, j) == jobRow[e] = NoJob /\ \A f \in Execs : jobRow[f] # j

save_scheduler_job(e, j) ==
    /\ CanSaveJob(e, j)
    /\ jobRow' = [jobRow EXCEPT ![e] = j]
    /\ UNCHANGED <<created, execState, remoteRow, imported>>

save_remote_state(e, s, o) ==
    /\ remoteRow' = [remoteRow EXCEPT ![e] = [state |-> s, sched |-> o]]
    /\ UNCHANGED <<created, execState, jobRow, imported>>

\* _import_result: experiment, link, evidence and the execution's state in one
\* transaction; the unique rows make a second import raise IntegrityError.
CanImport(e) == imported[e] = "none"

import_result(e, kind) ==
    /\ CanImport(e)
    /\ imported' = [imported EXCEPT ![e] = kind]
    /\ execState' = [execState EXCEPT ![e] = kind]
    /\ UNCHANGED <<created, jobRow, remoteRow>>

-----------------------------------------------------------------------------
(***************************************************************************)
(* What the backends must keep true of the store.                          *)
(***************************************************************************)

\* The store claims an outcome only if the compute worker published exactly
\* that outcome, and an imported result is the published one, whatever
\* waiters, collectors and cancellations do to the execution's state
\* (collect imports only a validated bundle; no scheduler state stands in
\* for one).
OutcomeIsPublished ==
    \A e \in Execs :
        /\ imported[e] # "none" => imported[e] = bundle[e]
        /\ execState[e] \in {"completed", "preflight_failed"} => imported[e] = execState[e]

\* collection_failed is a final verdict: the recorded job is over and no
\* usable result is, or ever will be, published for the execution.
CollectionFailedIsFinal ==
    \A e \in Execs :
        execState[e] = "collection_failed"
        => /\ ~Usable(bundle[e])
           /\ \A j \in Jobs : jobExec[j] = e => jobPhase[j] = "ended"

\* The executions of the plan, seen from outside (ExecutionContract).
Contract == INSTANCE ExecutionContract WITH
    owned <- [e \in Execs |-> {j \in Jobs : jobExec[j] = e}],
    evidence <- bundle,
    report <- imported

\* Every step of scheduler, compute worker, remote worker and controller is a
\* step the contract allows: one job per execution, one published outcome,
\* and one report of exactly that outcome.
ImplementsContract == Contract!Spec
=============================================================================
