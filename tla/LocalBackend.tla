---------------------------- MODULE LocalBackend ----------------------------
(***************************************************************************)
(* SchedulerBackend (backends.py) under ExecutionService: the controller   *)
(* runs on the login node itself, so it calls sbatch/qsub/bsub, the status *)
(* and the cancel command as its own subprocesses and finds result.json in *)
(* the staging directory.                                                  *)
(*                                                                         *)
(* Clients are commands in processes of their own.  They share the store,  *)
(* the scheduler and the staging directories, and may die between any two  *)
(* steps, in particular while a scheduler command is running.              *)
(***************************************************************************)
EXTENDS BourneStore

CONSTANTS
    Families,       \* the schedulers that a plan can select
    Clients,        \* controller commands that can be active at once
    Commands,       \* which commands users and agents start
    MaxCommands,    \* bound: commands started
    MaxCrashes      \* bound: clients that die, or give up a wait, between two steps

ASSUME LocalAssumption ==
    /\ Families \subseteq {"slurm", "pbs", "lsf"}
    /\ Commands \subseteq {"execute", "status", "collect", "wait", "cancel"}
    /\ MaxCommands \in Nat /\ MaxCrashes \in Nat

VARIABLES
    family,     \* the scheduler of the plan
    client,     \* client[p]: the command p is executing
    spent       \* how much of the two bounds has been used up

localVars == <<planeVars, storeVars, family, client, spent>>

IdleClient == [cmd |-> "idle", exec |-> NoExec, pc |-> "idle", seen |-> "absent",
               job |-> NoJob, obs |-> "none", result |-> "none"]

ClientStates ==
    [cmd : {"idle", "execute", "status", "collect", "wait", "cancel"},
     exec : Execs \cup {NoExec},
     pc : {"idle", "create", "prepared", "submit", "ambiguous", "reject",
           "save_job", "submitted", "handler", "handler_write",
           "get", "load", "check", "import", "known_job", "observe",
           "observed", "collection_failed", "kill", "cancelled"},
     seen : ExecutionStates \cup {"absent"},
     job : Jobs \cup {NoJob},
     obs : Observations \cup {"none"},
     result : Outcomes \cup {"none"}]

LocalTypeOK ==
    /\ PlaneTypeOK
    /\ StoreTypeOK
    /\ family \in Families
    /\ client \in [Clients -> ClientStates]
    /\ spent \in [commands : 0..MaxCommands, crashes : 0..MaxCrashes]

LocalInit ==
    /\ PlaneInit
    /\ StoreInit
    /\ family \in Families
    /\ client = [p \in Clients |-> IdleClient]
    /\ spent = [commands |-> 0, crashes |-> 0]

-----------------------------------------------------------------------------
\* Control of one client.

At(p, cmds, pc) == client[p].cmd \in cmds /\ client[p].pc = pc

Become(p, r) == client' = [client EXCEPT ![p] = r]
Goto(p, pc) == Become(p, [client[p] EXCEPT !.pc = pc])
Finish(p) == Become(p, IdleClient)

StoreStep == UNCHANGED <<planeVars, family, spent>>
LocalStep == UNCHANGED <<planeVars, storeVars, family, spent>>

Begin(p, cmd, e, pc) ==
    /\ client[p] = IdleClient /\ cmd \in Commands
    /\ spent.commands < MaxCommands
    /\ spent' = [spent EXCEPT !.commands = @ + 1]
    /\ Become(p, [IdleClient EXCEPT !.cmd = cmd, !.exec = e, !.pc = pc])
    /\ UNCHANGED <<planeVars, storeVars, family>>

-----------------------------------------------------------------------------
\* ExecutionService.execute_plan and SchedulerBackend.execute.

ExecuteBegin(p) ==
    /\ ~PlanIsBlocked
    /\ Begin(p, "execute", NoExec, "create")

ExecuteCreate(p) ==
    /\ At(p, {"execute"}, "create")
    /\ \E e \in Execs :
        /\ create_execution(e)
        /\ Become(p, [client[p] EXCEPT !.exec = e, !.pc = "prepared"])
    /\ StoreStep

\* The worker, the plan and the script are staged, or staging fails.
ExecutePrepared(p) ==
    /\ At(p, {"execute"}, "prepared")
    /\ \/ /\ update_execution_state(client[p].exec, "prepared")
          /\ Goto(p, "submit") /\ StoreStep
       \/ Goto(p, "handler") /\ LocalStep

\* What an answer without one exact job identity means: LSF's parser raises
\* AmbiguousSubmission, those of Slurm and PBS raise a plain BackendError.
UnreadableIdentity == IF family = "lsf" THEN "ambiguous" ELSE "reject"

\* The submit command runs once (10 s).  It is accepted with its identity,
\* accepted with an unreadable identity, or accepted when the timeout ends it.
ExecuteAccepted(p, j) ==
    /\ At(p, {"execute"}, "submit")
    /\ Accept(client[p].exec, j)
    /\ \/ Become(p, [client[p] EXCEPT !.pc = "save_job", !.job = j])
       \/ Goto(p, UnreadableIdentity)
       \/ Goto(p, "ambiguous")
    /\ UNCHANGED <<storeVars, family, spent>>

\* The command is unavailable or refuses, or times out without acceptance.
ExecuteNotAccepted(p) ==
    /\ At(p, {"execute"}, "submit")
    /\ Goto(p, "reject") \/ Goto(p, "ambiguous")
    /\ LocalStep

ExecuteReject(p) ==
    /\ At(p, {"execute"}, "reject")
    /\ update_execution_state(client[p].exec, "failed")
    /\ Goto(p, "handler")
    /\ StoreStep

\* Mutant: an ambiguous submission is retried.
ExecuteAmbiguousRetries(p) ==
    /\ At(p, {"execute"}, "ambiguous")
    /\ update_execution_state(client[p].exec, "submission_ambiguous")
    /\ Goto(p, "submit")
    /\ StoreStep

ExecuteAmbiguous(p) ==
    /\ At(p, {"execute"}, "ambiguous")
    /\ update_execution_state(client[p].exec, "submission_ambiguous")
    /\ Goto(p, "handler")
    /\ StoreStep

ExecuteSaveJob(p) ==
    LET e == client[p].exec
        j == client[p].job
    IN
    /\ At(p, {"execute"}, "save_job")
    /\ \/ save_scheduler_job(e, j) /\ Goto(p, "submitted") /\ StoreStep
       \/ ~CanSaveJob(e, j) /\ Goto(p, "handler") /\ LocalStep

ExecuteSubmitted(p) ==
    /\ At(p, {"execute"}, "submitted")
    /\ update_execution_state(client[p].exec, "submitted")
    /\ Finish(p)
    /\ StoreStep

ExecuteHandler(p) ==
    /\ At(p, {"execute"}, "handler")
    /\ IF execState[client[p].exec] \in SettledStates
       THEN Finish(p) ELSE Goto(p, "handler_write")
    /\ LocalStep

ExecuteHandlerWrite(p) ==
    /\ At(p, {"execute"}, "handler_write")
    /\ update_execution_state(client[p].exec, "failed")
    /\ Finish(p)
    /\ StoreStep

ExecuteStep(p) ==
    \/ ExecuteBegin(p) \/ ExecuteCreate(p) \/ ExecutePrepared(p)
    \/ \E j \in Jobs : ExecuteAccepted(p, j)
    \/ ExecuteNotAccepted(p) \/ ExecuteReject(p) \/ ExecuteAmbiguous(p)
    \/ ExecuteSaveJob(p) \/ ExecuteSubmitted(p)
    \/ ExecuteHandler(p) \/ ExecuteHandlerWrite(p)

-----------------------------------------------------------------------------
\* collect, alone or inside wait.  "get" reads the execution row, whose state
\* collect later compares; "load" reads and validates result.json.

Collecting == {"collect", "wait"}

CollectBegin(p) ==
    \E e \in Created, cmd \in Collecting : Begin(p, cmd, e, "get")

CollectGet(p) ==
    /\ At(p, Collecting, "get")
    /\ Become(p, [client[p] EXCEPT !.pc = "load", !.seen = execState[client[p].exec]])
    /\ LocalStep

\* Without a usable result collect raises BackendError: the collect command ends, the
\* first attempt of a wait turns to the scheduler, and the second one, made
\* after the scheduler gave the job up, records collection_failed.
CollectLoad(p) ==
    LET kind == bundle[client[p].exec] IN
    /\ At(p, Collecting, "load")
    /\ IF Usable(kind)
       THEN Become(p, [client[p] EXCEPT !.pc = "check", !.result = kind])
       ELSE IF client[p].cmd = "collect" THEN Finish(p)
       ELSE IF client[p].obs = "none" THEN Goto(p, "known_job")
       ELSE Goto(p, "collection_failed")
    /\ LocalStep

\* A linked experiment, or a failure that the execution's state already
\* shows, is returned without a second import.
CollectCheck(p) ==
    LET e == client[p].exec
        kind == client[p].result
    IN
    /\ At(p, Collecting, "check")
    /\ IF \/ CarriesExperiment(imported[e])
          \/ ~CarriesExperiment(kind) /\ client[p].seen = kind /\ imported[e] # "none"
       THEN Finish(p) ELSE Goto(p, "import")
    /\ LocalStep

CollectImport(p) ==
    LET e == client[p].exec IN
    /\ At(p, Collecting, "import")
    /\ \/ import_result(e, client[p].result) /\ Finish(p) /\ StoreStep
       \/ ~CanImport(e) /\ Finish(p) /\ LocalStep

-----------------------------------------------------------------------------
\* _observe_and_record, in wait and in status.

StatusBegin(p) ==
    \E e \in Created : Begin(p, "status", e, "known_job")

Observing == {"wait", "status"}

KnownJob(p) ==
    LET j == jobRow[client[p].exec] IN
    /\ At(p, Observing \cup {"cancel"}, "known_job")
    /\ IF j = NoJob
       THEN Finish(p)
       ELSE Become(p, [client[p] EXCEPT
                !.job = j, !.pc = IF client[p].cmd = "cancel" THEN "kill" ELSE "observe"])
    /\ LocalStep

\* A status command that fails raises BackendError and ends the command.
Observe(p) ==
    /\ At(p, Observing, "observe")
    /\ \/ \E answer \in Answers(client[p].job) :
            Become(p, [client[p] EXCEPT !.pc = "observed", !.obs = answer])
       \/ Finish(p)
    /\ LocalStep

\* Mutant: the scheduler's COMPLETED stands in for the result.
ObservedStateCompleted(o) ==
    CASE o = "unobservable" -> "scheduler_unobservable"
      [] o \in {"ended", "evicted"} -> "completed"
      [] o = "queued" -> "queued"
      [] o = "running" -> "running"
      [] o = "other" -> "submitted"

\* _execution_state.
ObservedState(o) ==
    CASE o = "unobservable" -> "scheduler_unobservable"
      [] o \in {"ended", "evicted"} -> "scheduler_terminal"
      [] o = "queued" -> "queued"
      [] o = "running" -> "running"
      [] o = "other" -> "submitted"

\* Mutant: LSF jobs that cannot be observed count as done, too.
GivesUpUnobservable(o) == o \in {"ended", "evicted", "unobservable"}

\* The scheduler is believed to be done with the job.  Slurm and PBS jobs
\* that cannot be observed count as done, LSF jobs do not.
GivesUp(o) == o \in {"ended", "evicted"} \/ (o = "unobservable" /\ family # "lsf")

\* Mutant: wait polls the scheduler without looking for the result again.
RecordObservationPolls(p) ==
    /\ At(p, Observing, "observed")
    /\ update_execution_state(client[p].exec, ObservedState(client[p].obs))
    /\ IF client[p].cmd = "status" THEN Finish(p)
       ELSE IF GivesUp(client[p].obs) THEN Goto(p, "get")
       ELSE Goto(p, "known_job")
    /\ StoreStep

RecordObservation(p) ==
    /\ At(p, Observing, "observed")
    /\ update_execution_state(client[p].exec, ObservedState(client[p].obs))
    /\ IF client[p].cmd = "status" THEN Finish(p)
       ELSE IF GivesUp(client[p].obs) THEN Goto(p, "get")
       ELSE Become(p, [IdleClient EXCEPT !.cmd = "wait", !.exec = client[p].exec, !.pc = "get"])
    /\ StoreStep

WaitCollectionFailed(p) ==
    /\ At(p, {"wait"}, "collection_failed")
    /\ update_execution_state(client[p].exec, "collection_failed")
    /\ Finish(p)
    /\ StoreStep

-----------------------------------------------------------------------------
\* cancel.

CancelBegin(p) ==
    \E e \in Created : Begin(p, "cancel", e, "known_job")

CancelConfirmed(p) ==
    /\ At(p, {"cancel"}, "kill")
    /\ KillJob(client[p].job) \/ (~Live(client[p].job) /\ UNCHANGED planeVars)
    /\ Goto(p, "cancelled")
    /\ UNCHANGED <<storeVars, family, spent>>

CancelUnconfirmed(p) ==
    /\ At(p, {"cancel"}, "kill")
    /\ KillJob(client[p].job) \/ UNCHANGED planeVars
    /\ Finish(p)
    /\ UNCHANGED <<storeVars, family, spent>>

CancelState(p) ==
    /\ At(p, {"cancel"}, "cancelled")
    /\ update_execution_state(client[p].exec, "cancelled")
    /\ Finish(p)
    /\ StoreStep

CommandStep(p) ==
    \/ CollectBegin(p) \/ CollectGet(p) \/ CollectLoad(p) \/ CollectCheck(p)
    \/ CollectImport(p)
    \/ StatusBegin(p) \/ KnownJob(p) \/ Observe(p) \/ RecordObservation(p)
    \/ WaitCollectionFailed(p)
    \/ CancelBegin(p) \/ CancelConfirmed(p) \/ CancelUnconfirmed(p) \/ CancelState(p)

-----------------------------------------------------------------------------
\* The client dies, or the timeout of a wait passes while it polls.
Crash(p) ==
    /\ client[p] # IdleClient
    /\ spent.crashes < MaxCrashes
    /\ spent' = [spent EXCEPT !.crashes = @ + 1]
    /\ Finish(p)
    /\ UNCHANGED <<planeVars, storeVars, family>>

\* The submit command has reached the scheduler when its client dies.
CrashInSubmit(p, j) ==
    /\ At(p, {"execute"}, "submit")
    /\ spent.crashes < MaxCrashes
    /\ spent' = [spent EXCEPT !.crashes = @ + 1]
    /\ Accept(client[p].exec, j)
    /\ Finish(p)
    /\ UNCHANGED <<storeVars, family>>

LocalNext ==
    \/ PlaneNext /\ UNCHANGED <<storeVars, family, client, spent>>
    \/ \E p \in Clients :
        \/ ExecuteStep(p)
        \/ CommandStep(p)
        \/ Crash(p)
        \/ \E j \in Jobs : CrashInSubmit(p, j)

LocalSpec == LocalInit /\ [][LocalNext]_localVars

\* Clients run until they end.  Nothing is assumed of scheduler or user.
LocalFairness ==
    \A p \in Clients :
        WF_localVars(client[p] # IdleClient /\ (ExecuteStep(p) \/ CommandStep(p)))

LocalFairSpec == LocalSpec /\ LocalFairness

-----------------------------------------------------------------------------
(***************************************************************************)
(* Properties, besides those of BourneStore.                               *)
(***************************************************************************)

\* The controller's state is well formed, and no command invents an outcome: an imported
\* one, and one that an execution's state claims, is the published one
\* (OutcomeIsPublished), whatever observations of the scheduler are recorded late.
LocalInv == LocalTypeOK /\ OutcomeIsPublished

\* collection_failed is final for LSF executions (CollectionFailedIsFinal):
\* wait never takes a job that bjobs does not list for a finished one.
LSFCollectionFailedIsFinal == family = "lsf" => CollectionFailedIsFinal

\* Executes come one after the other; every other command may run beside them.
OneExecute ==
    \A p, q \in Clients : client[p].cmd = "execute" /\ client[q].cmd = "execute" => p = q

\* While executes come one after the other and none has died, an LSF job whose identity
\* was not recorded and whose result is not in blocks its plan for good: once its execute
\* has ended, its execution is on record as ambiguous and remains the plan's latest, so
\* execute_plan starts no second job beside it, whatever other commands do meanwhile.
UnaccountedJobBlocksPlan ==
    /\ family = "lsf" /\ spent.crashes = 0 /\ \A p \in Clients : client[p].cmd # "execute"
    => \A e \in Created :
        HasJob(e) /\ jobRow[e] = NoJob /\ imported[e] = "none"
        => e = created[Len(created)] /\ execState[e] = "submission_ambiguous"

\* A wait whose execution's result is published ends, even if the scheduler
\* never again says anything about the job: every turn of the loop looks for
\* result.json before it asks the scheduler.
WaitEnds ==
    \A p \in Clients, e \in Execs :
        (client[p].cmd = "wait" /\ client[p].exec = e /\ Usable(bundle[e]))
        ~> ~(client[p].cmd = "wait" /\ client[p].exec = e)
=============================================================================
