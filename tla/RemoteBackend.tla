---------------------------- MODULE RemoteBackend ---------------------------
(***************************************************************************)
(* The controller side of remote execution: execute_plan, wait, collect    *)
(* and cancel of RemoteSchedulerBackend (remote_backend.py) under          *)
(* ExecutionService (execution_service.py), for the executions of one      *)
(* plan, composed with the remote worker, the scheduler and the store.     *)
(*                                                                         *)
(* A client is one command of a user or agent: a process of its own that   *)
(* shares nothing with the others but the store and the site.  A step is   *)
(* one store transaction or one message of an ssh call.  The controller    *)
(* can lose any call's answer, and a lost call may still be executing on   *)
(* the site; it can also die between any two steps.                        *)
(***************************************************************************)
EXTENDS RemoteWorker, BourneStore

CONSTANTS
    Clients,    \* controller commands that can be active at once
    NoCall,     \* a client that is waiting for no call
    MaxCommands,    \* bound: commands started
    MaxLost,        \* bound: answers lost and remote workers killed
    MaxCrashes      \* bound: clients that die, or give up a wait, between two steps

ASSUME ClientAssumption ==
    /\ NoCall \notin Calls
    /\ MaxCommands \in Nat /\ MaxLost \in Nat /\ MaxCrashes \in Nat

VARIABLES
    client,     \* client[p]: the command p is executing
    spent       \* how much of the three bounds has been used up

backendVars == <<vars, storeVars, client, spent>>

NoResponse == [state |-> "none", job |-> NoJob, sched |-> "none", result |-> "none"]

IdleClient == [cmd |-> "idle", exec |-> NoExec, pc |-> "idle",
               slot |-> NoCall, resp |-> NoResponse]

Responses == [state : DocStates, job : Jobs \cup {NoJob},
              sched : Observations \cup {"none"}, result : Outcomes \cup {"none"}]

ClientStates ==
    [cmd : {"idle", "execute", "collect", "wait", "cancel"},
     exec : Execs \cup {NoExec},
     pc : {"idle", "create", "prepare", "prepared", "row", "upload", "submit",
           "reconcile", "reject", "ambiguous", "ambiguous_row",
           "save_job", "submitted", "submitted_row", "handler", "handler_write",
           "record", "record_save", "record_state", "record_row", "result",
           "import", "poll", "collection_failed",
           "cancel", "cancel_refused", "cancelled", "cancelled_state", "cancelled_row"},
     slot : Calls \cup {NoCall}, resp : Responses]

BackendTypeOK ==
    /\ TypeOK
    /\ StoreTypeOK
    /\ client \in [Clients -> ClientStates]
    /\ spent \in [commands : 0..MaxCommands, lost : 0..MaxLost, crashes : 0..MaxCrashes]

BackendInit ==
    /\ Init
    /\ StoreInit
    /\ client = [p \in Clients |-> IdleClient]
    /\ spent = [commands |-> 0, lost |-> 0, crashes |-> 0]

-----------------------------------------------------------------------------
\* Control of one client.

At(p, cmds, pc) == client[p].cmd \in cmds /\ client[p].pc = pc /\ client[p].slot = NoCall

Become(p, r) == client' = [client EXCEPT ![p] = r]
Goto(p, pc) == Become(p, [client[p] EXCEPT !.pc = pc])
Finish(p) == Become(p, IdleClient)

\* A step that only touches the store, and one that only moves the client.
StoreStep == UNCHANGED <<vars, spent>>
LocalStep == UNCHANGED <<vars, storeVars, spent>>

\* A new command.
Begin(p, cmd, e, pc) ==
    /\ client[p] = IdleClient
    /\ spent.commands < MaxCommands
    /\ spent' = [spent EXCEPT !.commands = @ + 1]
    /\ Become(p, [IdleClient EXCEPT !.cmd = cmd, !.exec = e, !.pc = pc])
    /\ UNCHANGED <<vars, storeVars>>

\* The client ends where the code has no handler: it is killed, or the
\* timeout of a wait has passed.
Quit(p) ==
    /\ spent.crashes < MaxCrashes
    /\ spent' = [spent EXCEPT !.crashes = @ + 1]
    /\ Finish(p)
    /\ UNCHANGED <<vars, storeVars>>

\* ssh: the request leaves on a fresh connection.
Send(p, op) ==
    \E c \in Calls :
        /\ Invoke(c, op, client[p].exec)
        /\ Become(p, [client[p] EXCEPT !.slot = c])
        /\ UNCHANGED <<storeVars, spent>>

Waiting(p, cmds, pc) ==
    client[p].cmd \in cmds /\ client[p].pc = pc /\ client[p].slot # NoCall

\* The worker process that the client waits for.
Awaited(p) == call[client[p].slot]

\* The answer arrives and the client goes on at pc.
Receive(p, pc) ==
    LET r == Awaited(p) IN
    /\ r.pc = "done" /\ r.status # "error"
    /\ Become(p, [client[p] EXCEPT
            !.pc = pc, !.slot = NoCall,
            !.resp = [state |-> r.snap.state, job |-> r.snap.job,
                      sched |-> r.sched, result |-> r.result]])
    /\ Update(client[p].slot, IdleCall)
    /\ UNCHANGED <<planeVars, dir, doc, staged, storeVars, spent>>

\* RemoteTransportError: the worker ended with an error, or the connection
\* broke or timed out after 30 s.  In the second case the worker process may
\* still be executing, and goes on without a listener.
Lose(p) ==
    LET c == client[p].slot IN
    /\ IF call[c].pc = "done" /\ call[c].status = "error"
       THEN UNCHANGED spent
       ELSE spent.lost < MaxLost /\ spent' = [spent EXCEPT !.lost = @ + 1]
    /\ UNCHANGED <<vars, storeVars>>

LoseThen(p, pc) == Lose(p) /\ Become(p, [client[p] EXCEPT !.pc = pc, !.slot = NoCall])

\* The response of a call that nobody waits for any more disappears.
Discard(c) ==
    /\ call[c].pc = "done"
    /\ \A p \in Clients : client[p].slot # c
    /\ Update(c, IdleCall)
    /\ UNCHANGED <<planeVars, dir, doc, staged, storeVars, client, spent>>

-----------------------------------------------------------------------------
\* ExecutionService.execute_plan and RemoteSchedulerBackend.execute.

ExecuteBegin(p) ==
    /\ ~PlanIsBlocked
    /\ Begin(p, "execute", NoExec, "create")

ExecuteCreate(p) ==
    /\ At(p, {"execute"}, "create")
    /\ \E e \in Execs :
        /\ create_execution(e)
        /\ Become(p, [client[p] EXCEPT !.exec = e, !.pc = "prepare"])
    /\ StoreStep

\* Plan validation or local staging fails, or the prepare call is sent.
ExecutePrepare(p) ==
    /\ At(p, {"execute"}, "prepare")
    /\ Send(p, "prepare") \/ (Goto(p, "handler") /\ LocalStep)

ExecutePrepareReply(p) ==
    /\ Waiting(p, {"execute"}, "prepare")
    /\ \/ Receive(p, IF Awaited(p).status = "ok" THEN "prepared" ELSE "handler")
       \/ LoseThen(p, "handler")

ExecutePrepared(p) ==
    /\ At(p, {"execute"}, "prepared")
    /\ update_execution_state(client[p].exec, "prepared")
    /\ Goto(p, "row")
    /\ StoreStep

ExecutePreparedRow(p) ==
    /\ At(p, {"execute"}, "row")
    /\ save_remote_state(client[p].exec, "prepared", "none")
    /\ Goto(p, "upload")
    /\ StoreStep

ExecuteUpload(p) ==
    /\ At(p, {"execute"}, "upload")
    /\ \/ /\ staged' = [staged EXCEPT ![client[p].exec] = TRUE]
          /\ Goto(p, "submit")
          /\ UNCHANGED <<planeVars, dir, doc, call, storeVars, spent>>
       \/ Goto(p, "handler") /\ LocalStep

\* Mutant: a submission without a job identity is taken for a rejected one.
AfterSubmissionRejects(r) ==
    IF r.status = "ok" /\ r.snap.job # NoJob THEN "save_job" ELSE "reject"

\* How the status of the submit (or of the reconcile that replaces its lost
\* answer) is read.
AfterSubmission(r) ==
    IF r.status \in {"ambiguous", "unknown"} THEN "ambiguous"
    ELSE IF r.status = "ok" /\ r.snap.job # NoJob THEN "save_job"
    ELSE "reject"

\* submit is sent once.  When its answer is lost, one reconcile follows.
ExecuteSubmit(p) ==
    /\ At(p, {"execute"}, "submit")
    /\ Send(p, "submit")

ExecuteSubmitReply(p) ==
    /\ Waiting(p, {"execute"}, "submit")
    /\ Receive(p, AfterSubmission(Awaited(p))) \/ LoseThen(p, "reconcile")

ExecuteReconcile(p) ==
    /\ At(p, {"execute"}, "reconcile")
    /\ Send(p, "reconcile")

ExecuteReconcileReply(p) ==
    /\ Waiting(p, {"execute"}, "reconcile")
    /\ Receive(p, AfterSubmission(Awaited(p))) \/ LoseThen(p, "ambiguous")

ExecuteReject(p) ==
    /\ At(p, {"execute"}, "reject")
    /\ update_execution_state(client[p].exec, "failed")
    /\ Goto(p, "handler")
    /\ StoreStep

\* _ambiguous, then AmbiguousSubmissionError reaches the handler.
ExecuteAmbiguous(p) ==
    /\ At(p, {"execute"}, "ambiguous")
    /\ update_execution_state(client[p].exec, "submission_ambiguous")
    /\ Goto(p, "ambiguous_row")
    /\ StoreStep

ExecuteAmbiguousRow(p) ==
    /\ At(p, {"execute"}, "ambiguous_row")
    /\ save_remote_state(client[p].exec, "ambiguous", "none")
    /\ Goto(p, "handler")
    /\ StoreStep

\* _record_submission.
ExecuteSaveJob(p) ==
    LET e == client[p].exec
        j == client[p].resp.job
    IN
    /\ At(p, {"execute"}, "save_job")
    /\ \/ save_scheduler_job(e, j) /\ Goto(p, "submitted") /\ StoreStep
       \/ ~CanSaveJob(e, j) /\ Goto(p, "handler") /\ LocalStep

ExecuteSubmitted(p) ==
    /\ At(p, {"execute"}, "submitted")
    /\ update_execution_state(client[p].exec, "submitted")
    /\ Goto(p, "submitted_row")
    /\ StoreStep

ExecuteSubmittedRow(p) ==
    /\ At(p, {"execute"}, "submitted_row")
    /\ save_remote_state(client[p].exec, "submitted", client[p].resp.sched)
    /\ Finish(p)
    /\ StoreStep

\* execute_plan's "except Exception": the state is read, then overwritten.
ExecuteHandler(p) ==
    /\ At(p, {"execute"}, "handler")
    /\ IF execState[client[p].exec] \in SettledStates
       THEN Finish(p) ELSE Goto(p, "handler_write")
    /\ LocalStep

ExecuteHandlerWrite(p) ==
    /\ At(p, {"execute"}, "handler_write")
    /\ update_execution_state(client[p].exec, "failed")
    /\ Finish(p)
    /\ StoreStep

ExecuteStep(p) ==
    \/ ExecuteBegin(p) \/ ExecuteCreate(p)
    \/ ExecutePrepare(p) \/ ExecutePrepareReply(p)
    \/ ExecutePrepared(p) \/ ExecutePreparedRow(p) \/ ExecuteUpload(p)
    \/ ExecuteSubmit(p) \/ ExecuteSubmitReply(p)
    \/ ExecuteReconcile(p) \/ ExecuteReconcileReply(p)
    \/ ExecuteReject(p)
    \/ ExecuteAmbiguous(p) \/ ExecuteAmbiguousRow(p)
    \/ ExecuteSaveJob(p) \/ ExecuteSubmitted(p) \/ ExecuteSubmittedRow(p)
    \/ ExecuteHandler(p) \/ ExecuteHandlerWrite(p)

-----------------------------------------------------------------------------
\* RemoteSchedulerBackend.collect, alone (the reconcile tool of the agent
\* interface) or as the body of wait's loop.

Collecting == {"collect", "wait"}

\* Without a remote row collect raises BackendError: the command ends, and a
\* wait polls again, which changes nothing.
CollectBegin(p) ==
    \E e \in Created, cmd \in Collecting :
        remoteRow[e] # NoRow /\ Begin(p, cmd, e, "reconcile")

CollectReconcile(p) ==
    /\ At(p, Collecting, "reconcile")
    /\ Send(p, "reconcile")

\* A transport error is not a BackendError: it also ends a wait.
CollectReconcileReply(p) ==
    /\ Waiting(p, Collecting, "reconcile")
    /\ Receive(p, "record") \/ (Lose(p) /\ Finish(p))

\* _record_reconciliation: a job that the store does not know yet is recorded
\* and the execution's state follows the observation; of a known job only the
\* job row is refreshed.  A response without a job leaves the state alone.
CollectRecord(p) ==
    LET r == client[p].resp IN
    /\ At(p, Collecting, "record")
    /\ Goto(p, IF r.sched # "none" /\ r.job # NoJob /\ jobRow[client[p].exec] = NoJob
               THEN "record_save" ELSE "record_row")
    /\ LocalStep

CollectRecordSave(p) ==
    LET e == client[p].exec
        j == client[p].resp.job
    IN
    /\ At(p, Collecting, "record_save")
    /\ \/ save_scheduler_job(e, j) /\ Goto(p, "record_state") /\ StoreStep
       \/ ~CanSaveJob(e, j) /\ Finish(p) /\ LocalStep

\* Mutant: a job that is over counts as a completed execution.
RecoveredStateCompleted(o) ==
    CASE o = "unobservable" -> "scheduler_unobservable"
      [] o = "queued" -> "queued"
      [] o = "running" -> "running"
      [] OTHER -> "completed"

RecoveredState(o) ==
    CASE o = "unobservable" -> "scheduler_unobservable"
      [] o = "queued" -> "queued"
      [] o = "running" -> "running"
      [] OTHER -> "scheduler_terminal"

CollectRecordState(p) ==
    /\ At(p, Collecting, "record_state")
    /\ update_execution_state(client[p].exec, RecoveredState(client[p].resp.sched))
    /\ Goto(p, "record_row")
    /\ StoreStep

CollectRecordRow(p) ==
    /\ At(p, Collecting, "record_row")
    /\ save_remote_state(client[p].exec, client[p].resp.state, client[p].resp.sched)
    /\ Goto(p, "result")
    /\ StoreStep

\* The result is validated and, unless an experiment is linked already,
\* imported.  An absent or invalid result raises BackendError.
CollectResult(p) ==
    LET e == client[p].exec
        kind == client[p].resp.result
    IN
    /\ At(p, Collecting, "result")
    /\ IF ~Usable(kind)
       THEN IF client[p].cmd = "wait" THEN Goto(p, "poll") ELSE Finish(p)
       ELSE IF CarriesExperiment(imported[e]) THEN Finish(p) ELSE Goto(p, "import")
    /\ LocalStep

CollectImport(p) ==
    LET e == client[p].exec IN
    /\ At(p, Collecting, "import")
    /\ \/ import_result(e, client[p].resp.result) /\ Finish(p) /\ StoreStep
       \/ ~CanImport(e) /\ Finish(p) /\ LocalStep

\* Mutant: a job that the scheduler does not list is taken for finished.
TerminalOrUnlisted == {"ended", "evicted", "unobservable"}

\* wait after a BackendError: the evidence in the remote row decides whether
\* to give up; otherwise poll again (running out of time is a Quit).
TerminalObservations == {"ended", "evicted"}

WaitPoll(p) ==
    /\ At(p, {"wait"}, "poll")
    /\ IF remoteRow[client[p].exec].sched \in TerminalObservations
       THEN Goto(p, "collection_failed")
       ELSE Become(p, [client[p] EXCEPT !.pc = "reconcile", !.resp = NoResponse])
    /\ LocalStep

WaitCollectionFailed(p) ==
    /\ At(p, {"wait"}, "collection_failed")
    /\ update_execution_state(client[p].exec, "collection_failed")
    /\ Finish(p)
    /\ StoreStep

CollectStep(p) ==
    \/ CollectBegin(p) \/ CollectReconcile(p) \/ CollectReconcileReply(p)
    \/ CollectRecord(p) \/ CollectRecordSave(p) \/ CollectRecordState(p)
    \/ CollectRecordRow(p) \/ CollectResult(p) \/ CollectImport(p)
    \/ WaitPoll(p) \/ WaitCollectionFailed(p)

-----------------------------------------------------------------------------
\* RemoteSchedulerBackend.cancel.

CancelBegin(p) ==
    \E e \in Created : remoteRow[e] # NoRow /\ Begin(p, "cancel", e, "cancel")

CancelSend(p) ==
    /\ At(p, {"cancel"}, "cancel")
    /\ Send(p, "cancel")

\* Anything but "ok" raises BackendError; update_scheduler_job raises when
\* the store has no job row.
CancelReply(p) ==
    /\ Waiting(p, {"cancel"}, "cancel")
    /\ \/ Receive(p, IF Awaited(p).status = "ok" THEN "cancelled" ELSE "cancel_refused")
       \/ Lose(p) /\ Finish(p)

CancelJobRow(p) ==
    /\ At(p, {"cancel"}, "cancelled") \/ At(p, {"cancel"}, "cancel_refused")
    /\ IF client[p].pc = "cancelled" /\ jobRow[client[p].exec] # NoJob
       THEN Goto(p, "cancelled_state") ELSE Finish(p)
    /\ LocalStep

CancelState(p) ==
    /\ At(p, {"cancel"}, "cancelled_state")
    /\ update_execution_state(client[p].exec, "cancelled")
    /\ Goto(p, "cancelled_row")
    /\ StoreStep

CancelRow(p) ==
    /\ At(p, {"cancel"}, "cancelled_row")
    /\ save_remote_state(client[p].exec, "cancelled", "none")
    /\ Finish(p)
    /\ StoreStep

CancelStep(p) ==
    \/ CancelBegin(p) \/ CancelSend(p) \/ CancelReply(p)
    \/ CancelJobRow(p) \/ CancelState(p) \/ CancelRow(p)

-----------------------------------------------------------------------------
\* The client dies (Ctrl-C, kill, reboot): its calls go on without it, the
\* store keeps what was committed.
Crash(p) ==
    /\ client[p] # IdleClient
    /\ Quit(p)

SiteStep ==
    /\ Plane \/ \E c \in Calls : WorkerStep(c)
    /\ UNCHANGED <<storeVars, client, spent>>

SiteFault(c) ==
    /\ spent.lost < MaxLost
    /\ WorkerDies(c)
    /\ spent' = [spent EXCEPT !.lost = @ + 1]
    /\ UNCHANGED <<storeVars, client>>

BackendNext ==
    \/ SiteStep
    \/ \E c \in Calls : SiteFault(c) \/ Discard(c)
    \/ \E p \in Clients :
        \/ ExecuteStep(p)
        \/ CollectStep(p)
        \/ CancelStep(p)
        \/ Crash(p)

BackendSpec == BackendInit /\ [][BackendNext]_backendVars

\* A process that can take a step takes it: worker processes on the site and
\* client commands both run until they end, and an answer that nobody reads
\* is dropped.  Nothing is assumed of the scheduler or of the user, and a
\* query about a job may go unanswered every time.
BackendFairness ==
    /\ \A c \in Calls :
        /\ WF_backendVars(WorkerStep(c) /\ UNCHANGED <<storeVars, client, spent>>)
        /\ WF_backendVars(Discard(c))
    /\ \A p \in Clients :
        WF_backendVars(client[p] # IdleClient
                       /\ (ExecuteStep(p) \/ CollectStep(p) \/ CancelStep(p)))

BackendFairSpec == BackendSpec /\ BackendFairness

-----------------------------------------------------------------------------
(***************************************************************************)
(* Properties.                                                             *)
(***************************************************************************)

SubmitPending(e) == \E c \in Calls : SubmitOpen(c, e) /\ Alive(c)

\* An execution is recorded as failed without an imported result only when
\* the scheduler holds no job for it and no submit of it is under way: a user
\* who sees "failed" may execute the plan again (execute's rejection path and
\* execute_plan's exception handler).
FailedMeansNothingRuns ==
    \A e \in Execs :
        execState[e] = "failed" /\ imported[e] = "none"
        => ~HasJob(e) /\ ~SubmitPending(e)

\* The controller's and the site's state is well formed, and an outcome in the store is the
\* published one, although waits, collections and cancellations of two commands interleave.
BackendInv == BackendTypeOK /\ OutcomeIsPublished

\* When an execution of the plan is created, every earlier one whose job the
\* scheduler holds, or may still be handed, is known by its job identity
\* (execute_plan refuses a plan whose submission is ambiguous).
NewExecutionIsAccounted ==
    [][created' # created =>
        \A e \in Created : (HasJob(e) \/ SubmitPending(e)) => jobRow[e] # NoJob]_backendVars

\* A wait on an execution whose job identity the site knows and whose result
\* has been published ends with that result in the store, even if the
\* scheduler never answers a query again (_reconcile returns result.json
\* whatever the observation was), whatever commands died and answers were lost
\* before: only a failure that comes later, or the loss of the identity that
\* KnownJobIsKept is about, stops it.
Failures == spent.crashes + spent.lost
WaitDelivers ==
    \A e \in Execs, n \in 0..(MaxCrashes + MaxLost) :
        (/\ Usable(bundle[e]) /\ doc[e].job # NoJob /\ Failures = n
         /\ \E p \in Clients : /\ client[p].cmd = "wait" /\ client[p].exec = e
                               /\ client[p].slot = NoCall)
        ~> (imported[e] # "none" \/ doc[e].job = NoJob \/ Failures > n)
=============================================================================
