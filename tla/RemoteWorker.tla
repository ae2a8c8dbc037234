---------------------------- MODULE RemoteWorker ----------------------------
(***************************************************************************)
(* The one-shot worker that the controller runs on a login node through    *)
(* ssh (remote_worker.py).  Every call is a process of its own: it reads   *)
(* submission-state.json once, works on that copy, and replaces the whole  *)
(* document when it has something to record.  There is no lock.  Calls on  *)
(* one execution overlap whenever the controller gives up on a call that   *)
(* the login node is still executing, or when two controller commands work *)
(* on the same execution.                                                  *)
(*                                                                         *)
(* This module leaves the controller open: any call may arrive at any time *)
(* except that submit is never issued for an execution while an earlier    *)
(* submit for it is still alive or unanswered.  The real controller is     *)
(* stricter: it issues submit once per execution.                          *)
(***************************************************************************)
EXTENDS ComputePlane

CONSTANT Calls      \* worker processes that can be alive at once

VARIABLES
    dir,        \* dir[e]: e's staging directory exists on the site
    doc,        \* doc[e]: the content of e's submission-state.json
    staged,     \* staged[e]: worker.pyz, plan.json, job.sh match their digests
    call        \* call[c]: worker process c

workerVars == <<dir, doc, staged, call>>
vars == <<planeVars, workerVars>>

DocStates == {"none", "prepared", "submitting", "submitted", "ambiguous",
              "submission_failed", "cancelled"}
Docs == [state : DocStates, job : Jobs \cup {NoJob}]
NoDoc == [state |-> "none", job |-> NoJob]

Ops == {"prepare", "submit", "reconcile", "cancel"}
Statuses == {"ok", "failed", "unavailable", "ambiguous", "unknown", "error"}

IdleCall == [op |-> "idle", exec |-> NoExec, pc |-> "idle", snap |-> NoDoc,
             status |-> "ok", sched |-> "none", result |-> "none"]

CallStates ==
    [op : Ops \cup {"idle"}, exec : Execs \cup {NoExec},
     pc : {"idle", "start", "mkdir", "verify", "run", "observe", "result",
           "kill", "write", "done"},
     snap : Docs, status : Statuses,
     sched : Observations \cup {"none"}, result : Outcomes \cup {"none"}]

WorkerTypeOK ==
    /\ dir \in [Execs -> BOOLEAN]
    /\ doc \in [Execs -> Docs]
    /\ staged \in [Execs -> BOOLEAN]
    /\ call \in [Calls -> CallStates]
    /\ \A c \in Calls : call[c].pc # "idle" => call[c].op # "idle" /\ call[c].exec \in Execs

TypeOK == PlaneTypeOK /\ WorkerTypeOK

WorkerInit ==
    /\ dir = [e \in Execs |-> FALSE]
    /\ doc = [e \in Execs |-> NoDoc]
    /\ staged = [e \in Execs |-> FALSE]
    /\ call = [c \in Calls |-> IdleCall]

Init == PlaneInit /\ WorkerInit

Alive(c) == call[c].pc \notin {"idle", "done"}
SubmitOpen(c, e) == call[c].op = "submit" /\ call[c].exec = e

\* A document from which nobody can tell whether a job was accepted.
Unresolved(d) == d.state \in {"submitting", "ambiguous"}

-----------------------------------------------------------------------------
\* Steps of one worker process.  Answer ends it with the response that main()
\* prints; a raised exception ends it with exit status 70 and no response,
\* which is the status "error" here.

Update(c, r) == call' = [call EXCEPT ![c] = r]
Answer(c, r, status) == Update(c, [r EXCEPT !.pc = "done", !.status = status])
Fail(c) ==
    Update(c, [IdleCall EXCEPT !.op = call[c].op, !.exec = call[c].exec,
                               !.pc = "done", !.status = "error"])

Invoke(c, op, e) ==
    /\ call[c].pc = "idle"
    /\ Update(c, [IdleCall EXCEPT !.op = op, !.exec = e, !.pc = "start"])
    /\ UNCHANGED <<planeVars, dir, doc, staged>>

\* prepare: an existing document is returned as it is; otherwise the staging
\* directory is created exclusively and the first document is written.
PrepareRead(c) ==
    LET r == call[c] IN
    /\ r.op = "prepare" /\ r.pc = "start"
    /\ IF doc[r.exec] # NoDoc
       THEN Answer(c, [r EXCEPT !.snap = doc[r.exec]], "ok")
       ELSE Update(c, [r EXCEPT !.pc = "mkdir"])
    /\ UNCHANGED <<planeVars, dir, doc, staged>>

\* Mutant: os.mkdir that tolerates an existing directory.
PrepareMkdirExistOk(c) ==
    LET r == call[c] IN
    /\ r.pc = "mkdir"
    /\ Update(c, [r EXCEPT !.pc = "write", !.snap.state = "prepared"])
    /\ dir' = [dir EXCEPT ![r.exec] = TRUE]
    /\ UNCHANGED <<planeVars, doc, staged>>

PrepareMkdir(c) ==
    LET r == call[c] IN
    /\ r.pc = "mkdir"
    /\ IF dir[r.exec]
       THEN Fail(c) /\ UNCHANGED dir
       ELSE /\ Update(c, [r EXCEPT !.pc = "write", !.snap.state = "prepared"])
            /\ dir' = [dir EXCEPT ![r.exec] = TRUE]
    /\ UNCHANGED <<planeVars, doc, staged>>

\* submit: the document decides.  Only a prepared one leads to the scheduler.
SubmitRead(c) ==
    LET r == call[c]
        s == [r EXCEPT !.snap = doc[r.exec]]
    IN
    /\ r.op = "submit" /\ r.pc = "start"
    /\ \/ s.snap = NoDoc /\ Fail(c)
       \/ s.snap.state = "submitted" /\ Answer(c, s, "ok")
       \/ /\ Unresolved(s.snap)
          /\ Update(c, [s EXCEPT !.pc = "write", !.status = "ambiguous",
                                 !.snap.state = "ambiguous"])
       \/ /\ s.snap.state \in {"submission_failed", "cancelled"}
          /\ Answer(c, s, "failed")
       \/ s.snap.state = "prepared" /\ Update(c, [s EXCEPT !.pc = "verify"])
    /\ UNCHANGED <<planeVars, dir, doc, staged>>

\* The digests are verified, then the submit command is looked up, then
\* "submitting" is made durable before the scheduler is called.
SubmitVerify(c) ==
    LET r == call[c] IN
    /\ r.pc = "verify"
    /\ ~staged[r.exec]
    /\ Answer(c, r, "failed")
    /\ UNCHANGED <<planeVars, dir, doc, staged>>

SubmitUnavailable(c) ==
    LET r == call[c] IN
    /\ r.pc = "verify"
    /\ staged[r.exec]
    /\ Update(c, [r EXCEPT !.pc = "write", !.status = "unavailable",
                           !.snap.state = "submission_failed"])
    /\ UNCHANGED <<planeVars, dir, doc, staged>>

SubmitClaim(c) ==
    LET r == call[c]
        claimed == [r.snap EXCEPT !.state = "submitting"]
    IN
    /\ r.pc = "verify"
    /\ staged[r.exec]
    /\ doc' = [doc EXCEPT ![r.exec] = claimed]
    /\ Update(c, [r EXCEPT !.pc = "run", !.snap = claimed])
    /\ UNCHANGED <<planeVars, dir, staged>>

\* Mutant: a timed-out submit command is recorded as a failed submission.
SubmitAcceptedTimeoutFails(c, j) ==
    LET r == call[c] IN
    /\ r.op = "submit" /\ r.pc = "run"
    /\ Accept(r.exec, j)
    /\ \/ Update(c, [r EXCEPT !.pc = "write", !.status = "ok",
                              !.snap.state = "submitted", !.snap.job = j])
       \/ Update(c, [r EXCEPT !.pc = "write", !.status = "failed",
                              !.snap.state = "submission_failed"])
    /\ UNCHANGED <<dir, doc, staged>>

\* Mutant: a submit command whose answer was lost is run again.
SubmitAcceptedRetries(c, j) ==
    LET r == call[c] IN
    /\ r.op = "submit" /\ r.pc = "run"
    /\ Accept(r.exec, j)
    /\ \/ Update(c, [r EXCEPT !.pc = "write", !.status = "ok",
                              !.snap.state = "submitted", !.snap.job = j])
       \/ UNCHANGED call
    /\ UNCHANGED <<dir, doc, staged>>

\* The scheduler command accepts the job, and its answer may be lost (15 s
\* timeout) or carry no unique identity; or it refuses; or it times out
\* without having accepted anything.
SubmitAccepted(c, j) ==
    LET r == call[c] IN
    /\ r.op = "submit" /\ r.pc = "run"
    /\ Accept(r.exec, j)
    /\ \/ Update(c, [r EXCEPT !.pc = "write", !.status = "ok",
                              !.snap.state = "submitted", !.snap.job = j])
       \/ Update(c, [r EXCEPT !.pc = "write", !.status = "ambiguous",
                              !.snap.state = "ambiguous"])
    /\ UNCHANGED <<dir, doc, staged>>

\* Mutant: the exit status is ignored and a number in the command's error
\* message is taken for the job identity.
SubmitNotAcceptedParsed(c) ==
    LET r == call[c] IN
    /\ r.op = "submit" /\ r.pc = "run"
    /\ \E j \in Jobs : Update(c, [r EXCEPT !.pc = "write", !.status = "ok",
                                           !.snap.state = "submitted", !.snap.job = j])
    /\ UNCHANGED <<planeVars, dir, doc, staged>>

SubmitNotAccepted(c) ==
    LET r == call[c] IN
    /\ r.op = "submit" /\ r.pc = "run"
    /\ \/ Update(c, [r EXCEPT !.pc = "write", !.status = "failed",
                              !.snap.state = "submission_failed"])
       \/ Update(c, [r EXCEPT !.pc = "write", !.status = "ambiguous",
                              !.snap.state = "ambiguous"])
    /\ UNCHANGED <<planeVars, dir, doc, staged>>

\* reconcile: an unresolved document is marked ambiguous; a known job is
\* queried first, and only then is result.json looked for.
ReconcileRead(c) ==
    LET r == call[c]
        s == [r EXCEPT !.snap = doc[r.exec]]
    IN
    /\ r.op = "reconcile" /\ r.pc = "start"
    /\ \/ s.snap = NoDoc /\ Fail(c)
       \/ /\ Unresolved(s.snap) /\ s.snap.job = NoJob
          /\ Update(c, [s EXCEPT !.pc = "write", !.status = "ambiguous",
                                 !.snap.state = "ambiguous"])
       \/ /\ s.snap # NoDoc /\ ~Unresolved(s.snap) /\ s.snap.job = NoJob
          /\ Answer(c, s, "unknown")
       \/ s.snap.job # NoJob /\ Update(c, [s EXCEPT !.pc = "observe"])
    /\ UNCHANGED <<planeVars, dir, doc, staged>>

\* Mutant: a preempted job is reported as a finished one.
ReconcileObservePreemptedEnded(c) ==
    LET r == call[c] IN
    /\ r.pc = "observe"
    /\ \E answer \in Answers(r.snap.job) :
            Update(c, [r EXCEPT !.pc = "result",
                                !.sched = IF answer = "evicted" THEN "ended" ELSE answer])
    /\ UNCHANGED <<planeVars, dir, doc, staged>>

ReconcileObserve(c) ==
    LET r == call[c] IN
    /\ r.pc = "observe"
    /\ \E answer \in Answers(r.snap.job) :
            Update(c, [r EXCEPT !.pc = "result", !.sched = answer])
    /\ UNCHANGED <<planeVars, dir, doc, staged>>

\* Mutant: result.json is looked for only when the scheduler answered.
ReconcileResultIfObserved(c) ==
    LET r == call[c] IN
    /\ r.pc = "result"
    /\ IF r.sched = "unobservable"
       THEN Answer(c, r, "unknown")
       ELSE Answer(c, [r EXCEPT !.result = bundle[r.exec]], "ok")
    /\ UNCHANGED <<planeVars, dir, doc, staged>>

\* The result goes into the response whole, unless it is too large or not
\* JSON; whether it matches the plan is for the controller to find out.
ReconcileResult(c) ==
    LET r == call[c]
        kind == bundle[r.exec]
    IN
    /\ r.pc = "result"
    /\ \/ kind # "none" /\ Answer(c, [r EXCEPT !.result = kind], "ok")
       \/ /\ kind = "invalid"
          /\ \E status \in {"failed", "unavailable"} : Answer(c, r, status)
       \/ /\ kind = "none"
          /\ Answer(c, r, IF r.sched = "unobservable" THEN "unknown" ELSE "ok")
    /\ UNCHANGED <<planeVars, dir, doc, staged>>

\* cancel: only an exactly known job is killed, and only a kill that the
\* scheduler confirms is recorded.
CancelRead(c) ==
    LET r == call[c]
        s == [r EXCEPT !.snap = doc[r.exec]]
    IN
    /\ r.op = "cancel" /\ r.pc = "start"
    /\ \/ s.snap = NoDoc /\ Fail(c)
       \/ s.snap # NoDoc /\ s.snap.job = NoJob /\ Answer(c, s, "unknown")
       \/ s.snap.job # NoJob /\ Update(c, [s EXCEPT !.pc = "kill"])
    /\ UNCHANGED <<planeVars, dir, doc, staged>>

CancelConfirmed(c) ==
    LET r == call[c] IN
    /\ r.pc = "kill"
    /\ KillJob(r.snap.job) \/ (~Live(r.snap.job) /\ UNCHANGED planeVars)
    /\ Update(c, [r EXCEPT !.pc = "write", !.status = "ok", !.snap.state = "cancelled"])
    /\ UNCHANGED <<dir, doc, staged>>

CancelUnconfirmed(c) ==
    LET r == call[c] IN
    /\ r.pc = "kill"
    /\ KillJob(r.snap.job) \/ UNCHANGED planeVars
    /\ \E status \in {"failed", "unavailable"} : Answer(c, r, status)
    /\ UNCHANGED <<dir, doc, staged>>

\* Mutant: the response's status is written where the state belongs.
WriteStateStatus(c) ==
    LET r == call[c] IN
    /\ r.pc = "write"
    /\ doc' = [doc EXCEPT ![r.exec] = [r.snap EXCEPT !.state = r.status]]
    /\ Answer(c, r, r.status)
    /\ UNCHANGED <<planeVars, dir, staged>>

\* _write_state: the process's whole copy replaces the document.
WriteState(c) ==
    LET r == call[c] IN
    /\ r.pc = "write"
    /\ doc' = [doc EXCEPT ![r.exec] = r.snap]
    /\ Answer(c, r, r.status)
    /\ UNCHANGED <<planeVars, dir, staged>>

\* The process is killed (hang-up of the ssh session, reboot of the login
\* node) between any two of its steps; ssh reports a failed command.
WorkerDies(c) ==
    /\ Alive(c)
    /\ Fail(c)
    /\ UNCHANGED <<planeVars, dir, doc, staged>>

WorkerStep(c) ==
    \/ PrepareRead(c)
    \/ PrepareMkdir(c)
    \/ SubmitRead(c)
    \/ SubmitVerify(c)
    \/ SubmitUnavailable(c)
    \/ SubmitClaim(c)
    \/ \E j \in Jobs : SubmitAccepted(c, j)
    \/ SubmitNotAccepted(c)
    \/ ReconcileRead(c)
    \/ ReconcileObserve(c)
    \/ ReconcileResult(c)
    \/ CancelRead(c)
    \/ CancelConfirmed(c)
    \/ CancelUnconfirmed(c)
    \/ WriteState(c)

-----------------------------------------------------------------------------
\* The open controller: it uploads into an existing staging directory, issues
\* calls, and takes their responses off the connection.

Upload(e) ==
    /\ dir[e] /\ ~staged[e]
    /\ staged' = [staged EXCEPT ![e] = TRUE]
    /\ UNCHANGED <<planeVars, dir, doc, call>>

Issue(c, op, e) ==
    /\ op = "submit" => \A d \in Calls : ~SubmitOpen(d, e)
    /\ Invoke(c, op, e)

Return(c) ==
    /\ call[c].pc = "done"
    /\ Update(c, IdleCall)
    /\ UNCHANGED <<planeVars, dir, doc, staged>>

Plane == PlaneNext /\ UNCHANGED workerVars

Next ==
    \/ Plane
    \/ \E c \in Calls :
        \/ WorkerStep(c)
        \/ WorkerDies(c)
        \/ Return(c)
        \/ \E op \in Ops, e \in Execs : Issue(c, op, e)
    \/ \E e \in Execs : Upload(e)

Spec == Init /\ [][Next]_vars

-----------------------------------------------------------------------------
(***************************************************************************)
(* Properties.                                                             *)
(***************************************************************************)

\* An execution never owns two scheduler jobs, whatever the interleaving of
\* prepare, submit, reconcile and cancel calls on it and however often a
\* dead submit is retried (remote_worker.py _submit: "submitting" is durable
\* before the scheduler is called and blocks every later submit).
AtMostOneJob ==
    \A j1, j2 \in Jobs :
        jobExec[j1] \in Execs /\ jobExec[j1] = jobExec[j2] => j1 = j2

\* A document that says submission_failed, and a submit response on which the
\* controller records the execution as failed, are only ever given when the
\* scheduler holds no job for the execution.  The exception is a repeated
\* submit after a confirmed cancellation.
FailedMeansNoJob ==
    /\ \A e \in Execs : doc[e].state = "submission_failed" => ~HasJob(e)
    /\ \A c \in Calls :
        (/\ call[c].op = "submit" /\ call[c].pc = "done"
         /\ call[c].status \in {"failed", "unavailable"}
         /\ call[c].snap.state # "cancelled")
        => ~HasJob(call[c].exec)

\* A response that reports a finished job without a result is final: no
\* usable result.json exists then, nor will one be written later.  It depends on
\* _reconcile querying the scheduler before it looks for the file.
EndedWithoutResultIsFinal ==
    \A c \in Calls :
        (/\ call[c].op = "reconcile" /\ call[c].pc = "done"
         /\ call[c].sched = "ended" /\ call[c].result = "none")
        => ~Usable(bundle[call[c].exec])

\* A job identity in a document or in a worker's copy of it names a job that
\* the scheduler accepted for that very execution: cancel and reconcile never
\* touch another execution's job.
KnownJobIsOwn ==
    /\ \A e \in Execs : doc[e].job # NoJob => jobExec[doc[e].job] = e
    /\ \A c \in Calls : call[c].snap.job # NoJob => jobExec[call[c].snap.job] = call[c].exec

\* Once the exact job identity is in the document it stays there (the design
\* note says a known job ID is reconciled, never lost).
KnownJobIsKept ==
    [][\A e \in Execs : doc[e].job # NoJob => doc'[e].job = doc[e].job]_vars
=============================================================================
