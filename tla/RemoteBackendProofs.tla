------------------------ MODULE RemoteBackendProofs -------------------------
(***************************************************************************)
(* The safety of remote execution, for any number of executions, jobs,     *)
(* worker processes and concurrent commands, whatever answers are lost and *)
(* whatever clients and workers die.                                       *)
(*                                                                         *)
(* First the one-shot remote worker under any controller.  None of its     *)
(* properties is inductive alone.  What carries them is the discipline of  *)
(* submission-state.json: a document is created at most once per staging   *)
(* directory, it leaves "prepared" only through a submit and never returns *)
(* to it, and at most one submit of an execution is open, so that between  *)
(* the durable "submitting" and the scheduler's answer no other process    *)
(* can put the document back into a state from which submit goes to the    *)
(* scheduler.                                                              *)
(*                                                                         *)
(* Then the controller.  It is one of those that the worker was proved     *)
(* for: it uploads only into a directory that prepare made, and sends      *)
(* submit only for an execution that no submit was sent for.  So the       *)
(* worker's invariant holds here as well, and what is left to show is that *)
(* a client reads the answer to its own call, about its own execution, and *)
(* that the result in that answer is the published one.                    *)
(***************************************************************************)
EXTENDS RemoteBackend, StoreProofs

-----------------------------------------------------------------------------
\* The remote worker.

\* A scheduler identity is handed out together with the execution it runs.
JobInv ==
    /\ \A j \in Jobs : jobPhase[j] = "free" <=> jobExec[j] = NoExec
    /\ AtMostOneJob

\* What a document says about directory and jobs.
DocInv ==
    \A e \in Execs :
        /\ doc[e].state = "none" => doc[e] = NoDoc
        /\ doc[e] # NoDoc => dir[e]
        /\ HasJob(e) => doc[e].state \notin {"none", "prepared", "submission_failed"}
        /\ doc[e].job # NoJob => jobExec[doc[e].job] = e

\* What a worker process knows at each of its program points.
PrepareInv(r) ==
    /\ r.pc = "mkdir" => r.op = "prepare" /\ r.snap = NoDoc
    /\ r.op = "prepare" /\ r.pc = "start" => r.snap = NoDoc
    /\ r.op = "prepare" /\ r.pc = "write" =>
        /\ r.snap.state = "prepared" /\ r.snap.job = NoJob
        /\ dir[r.exec] /\ doc[r.exec] = NoDoc

SubmitInv(r) ==
    /\ r.pc = "verify" => r.op = "submit" /\ doc[r.exec].state = "prepared"
                          /\ r.snap.state = "prepared"
    /\ r.pc = "run" => r.op = "submit" /\ Unresolved(doc[r.exec]) /\ ~HasJob(r.exec)
    /\ r.op = "submit" /\ r.pc = "write" =>
        /\ r.snap.state \in {"submitted", "ambiguous", "submission_failed"}
        /\ r.snap.state # "submission_failed" => doc[r.exec].state \notin {"none", "prepared"}
        /\ r.snap.state = "submission_failed" => ~HasJob(r.exec)
        /\ doc[r.exec] # NoDoc
        /\ r.status \in {"failed", "unavailable"} => r.snap.state = "submission_failed"
    /\ (/\ r.op = "submit" /\ r.pc = "done" /\ r.status \in {"failed", "unavailable"}
        /\ r.snap.state # "cancelled") => ~HasJob(r.exec)

ObserveInv(r) ==
    /\ r.pc \in {"observe", "result"} => r.op = "reconcile" /\ r.snap.job # NoJob
    /\ r.pc = "kill" => r.op = "cancel" /\ r.snap.job # NoJob
    /\ r.pc \in {"start", "observe"} => r.sched = "none"
    /\ r.op = "reconcile" /\ r.pc = "write" =>
        /\ r.snap.state = "ambiguous" /\ r.sched = "none"
        /\ doc[r.exec].state \notin {"none", "prepared"}
    /\ r.op = "cancel" /\ r.pc = "write" => r.snap.state = "cancelled" /\ r.snap.job # NoJob
    /\ r.snap.job # NoJob => r.exec \in Execs /\ jobExec[r.snap.job] = r.exec
    /\ r.op = "reconcile" /\ r.pc \in {"result", "done"} /\ r.sched = "ended" =>
        /\ r.snap.job # NoJob /\ jobPhase[r.snap.job] = "ended"
        /\ r.pc = "done" /\ r.result = "none" => ~Usable(bundle[r.exec])

RecordInv(r) ==
    /\ r.pc # "idle" => r.op # "idle" /\ r.exec \in Execs
    /\ PrepareInv(r) /\ SubmitInv(r) /\ ObserveInv(r)

CallInv == \A c \in Calls : RecordInv(call[c])

\* At most one submit of an execution is open, and at most one prepare is
\* about to write its first document.
Clash(r, s) ==
    /\ r.exec = s.exec
    /\ \/ r.op = "submit" /\ s.op = "submit"
       \/ r.op = "prepare" /\ s.op = "prepare" /\ r.pc = "write" /\ s.pc = "write"

UniqueInv == \A c, d \in Calls : Clash(call[c], call[d]) => c = d

IInv == TypeOK /\ JobInv /\ DocInv /\ CallInv /\ UniqueInv

-----------------------------------------------------------------------------
\* The initial states satisfy the invariant.
LEMMA InitInv == Init => IInv
<1> SUFFICES ASSUME Init PROVE IInv
  OBVIOUS
<1> USE IdentityAssumption DEF Init, PlaneInit, WorkerInit, IdleCall, NoDoc
<1>1. TypeOK
  BY DEF TypeOK, PlaneTypeOK, WorkerTypeOK, JobPhases, Docs, DocStates, CallStates,
         Ops, Statuses, Observations
<1>2. JobInv /\ DocInv
  BY DEF JobInv, AtMostOneJob, DocInv, HasJob
<1>3. CallInv /\ UniqueInv
  BY DEF CallInv, RecordInv, PrepareInv, SubmitInv, ObserveInv, UniqueInv, Clash
<1> QED
  BY <1>1, <1>2, <1>3 DEF IInv

\* A step of the scheduler that hands out no job and publishes no result:
\* no identity is taken back and what has ended stays ended.
Quiet ==
    /\ UNCHANGED <<jobExec, bundle>>
    /\ jobPhase' \in [Jobs -> JobPhases]
    /\ \A j \in Jobs : /\ jobPhase'[j] = "free" <=> jobPhase[j] = "free"
                       /\ jobPhase[j] = "ended" => jobPhase'[j] = "ended"

\* A plane that stands still is quiet, and so is one that kills a job.
LEMMA QuietSteps ==
    ASSUME IInv
    PROVE  /\ UNCHANGED planeVars => Quiet
           /\ \A j \in Jobs : KillJob(j) => Quiet
BY DEF IInv, TypeOK, PlaneTypeOK, planeVars, Quiet, KillJob, MoveJob, JobPhases

\* A step that gives process c a new record, while the scheduler is quiet,
\* preserves the invariant if the record satisfies its part of it and clashes
\* with no other process.
LEMMA CallStep ==
    ASSUME IInv, NEW c \in Calls, NEW s \in CallStates,
           call' = [call EXCEPT ![c] = s],
           Quiet, UNCHANGED <<dir, doc, staged>>,
           RecordInv(s),
           \A d \in Calls \ {c} : ~Clash(s, call[d])
    PROVE  IInv'
<1>0. /\ call'[c] = s /\ \A d \in Calls \ {c} : call'[d] = call[d]
      /\ call' \in [Calls -> CallStates]
  BY DEF IInv, TypeOK, WorkerTypeOK
<1>1. TypeOK'
  BY <1>0 DEF IInv, TypeOK, PlaneTypeOK, WorkerTypeOK, Quiet, RecordInv
<1>2. JobInv' /\ DocInv'
  BY DEF IInv, JobInv, AtMostOneJob, DocInv, HasJob, Quiet
<1>3. CallInv'
  <2> SUFFICES ASSUME NEW d \in Calls PROVE RecordInv(call[d])'
    BY DEF CallInv
  <2>1. PICK r \in CallStates : r = call'[d] /\ RecordInv(r)
    BY <1>0 DEF IInv, CallInv
  <2> QED
    BY <2>1 DEF RecordInv, PrepareInv, SubmitInv, ObserveInv, HasJob, Unresolved, Quiet,
                CallStates, Docs
<1>4. UniqueInv'
  BY <1>0 DEF IInv, UniqueInv, Clash
<1> QED
  BY <1>1, <1>2, <1>3, <1>4 DEF IInv

\* In particular, a process may go on with its own call.
LEMMA PrivateStep ==
    ASSUME IInv, NEW c \in Calls, NEW s \in CallStates,
           call' = [call EXCEPT ![c] = s],
           Quiet, UNCHANGED <<dir, doc, staged>>,
           RecordInv(s), s.op = call[c].op, s.exec = call[c].exec,
           s.op = "prepare" => s.pc # "write"
    PROVE  IInv'
<1>1. \A d \in Calls \ {c} : ~Clash(s, call[d])
  BY DEF IInv, UniqueInv, Clash
<1> QED
  BY <1>1, CallStep

\* What the invariant says of process c and of its execution.
LEMMA Current ==
    ASSUME IInv, NEW c \in Calls
    PROVE  /\ call[c] \in CallStates /\ RecordInv(call[c])
           /\ call[c].snap \in Docs /\ call[c].status \in Statuses
           /\ call[c].pc # "idle" =>
                /\ call[c].exec \in Execs
                /\ doc[call[c].exec] \in Docs
                /\ bundle[call[c].exec] \in Outcomes \cup {"none"}
BY DEF IInv, TypeOK, PlaneTypeOK, WorkerTypeOK, CallInv, RecordInv, CallStates

\* A process that fails, or is killed, leaves an error behind.
LEMMA FailStep ==
    ASSUME IInv, NEW c \in Calls, call[c].pc # "idle", Fail(c),
           UNCHANGED <<planeVars, dir, doc, staged>>
    PROVE  IInv'
<1> DEFINE s == [IdleCall EXCEPT !.op = call[c].op, !.exec = call[c].exec,
                                 !.pc = "done", !.status = "error"]
<1>1. call[c] \in CallStates /\ RecordInv(call[c])
  BY Current
<1>2. /\ s \in CallStates
      /\ s.op = call[c].op /\ s.exec = call[c].exec /\ s.pc = "done"
      /\ s.status = "error" /\ s.sched = "none" /\ s.snap = NoDoc
  BY <1>1 DEF CallStates, IdleCall, NoDoc, Docs, DocStates, Statuses
<1>3. call' = [call EXCEPT ![c] = s]
  BY DEF Fail, Update
<1> HIDE DEF s
<1>4. RecordInv(s)
  BY <1>1, <1>2 DEF RecordInv, PrepareInv, SubmitInv, ObserveInv, NoDoc
<1>5. \A d \in Calls \ {c} : ~Clash(s, call[d])
  BY <1>2 DEF IInv, UniqueInv, Clash
<1> QED
  BY <1>2, <1>3, <1>4, <1>5, CallStep, QuietSteps

-----------------------------------------------------------------------------
\* One lemma per step that changes only the process's own record.

\* prepare returns an existing document or goes on to the directory.
LEMMA PrepareReadInv ==
    ASSUME IInv, NEW c \in Calls, PrepareRead(c)
    PROVE  IInv'
<1> DEFINE r == call[c]
<1>0. /\ r \in CallStates /\ RecordInv(r) /\ r.snap \in Docs /\ r.status \in Statuses
      /\ r.exec \in Execs /\ doc[r.exec] \in Docs
      /\ r.op = "prepare" /\ r.pc = "start" /\ UNCHANGED <<planeVars, dir, doc, staged>>
      /\ Quiet
  BY Current, QuietSteps DEF PrepareRead
<1>1. CASE doc[r.exec] # NoDoc
  <2> DEFINE s == [r EXCEPT !.snap = doc[r.exec], !.pc = "done", !.status = "ok"]
  <2>1. call' = [call EXCEPT ![c] = s]
    BY <1>0, <1>1 DEF PrepareRead, Answer, Update, CallStates, Docs
  <2>2. /\ s \in CallStates /\ s.op = r.op /\ s.exec = r.exec /\ s.sched = r.sched
       /\ s.snap = doc[r.exec] /\ s.pc = "done" /\ s.status = "ok"
    BY <1>0 DEF CallStates, Docs, DocStates, Statuses
  <2> HIDE DEF s
  <2>3. RecordInv(s)
    BY <1>0, <1>1, <2>2
       DEF IInv, DocInv, RecordInv, PrepareInv, SubmitInv, ObserveInv, HasJob, Unresolved,
           Docs, NoDoc
  <2> QED
    BY <1>0, <2>1, <2>2, <2>3, PrivateStep
<1>2. CASE doc[r.exec] = NoDoc
  <2> DEFINE s == [r EXCEPT !.snap = r.snap, !.pc = "mkdir", !.status = r.status]
  <2>1. call' = [call EXCEPT ![c] = s]
    BY <1>0, <1>2 DEF PrepareRead, Answer, Update, CallStates, Docs
  <2>2. /\ s \in CallStates /\ s.op = r.op /\ s.exec = r.exec /\ s.sched = r.sched
       /\ s.snap = r.snap /\ s.pc = "mkdir" /\ s.status = r.status
    BY <1>0 DEF CallStates, Docs, DocStates, Statuses
  <2> HIDE DEF s
  <2>3. RecordInv(s)
    BY <1>0, <1>2, <2>2
       DEF IInv, DocInv, RecordInv, PrepareInv, SubmitInv, ObserveInv, HasJob, Unresolved,
           Docs, NoDoc
  <2> QED
    BY <1>0, <2>1, <2>2, <2>3, PrivateStep
<1> QED
  BY <1>0, <1>1, <1>2 DEF PrepareRead

\* submit goes on towards the scheduler only from a prepared document.
LEMMA SubmitReadInv ==
    ASSUME IInv, NEW c \in Calls, SubmitRead(c)
    PROVE  IInv'
<1> DEFINE r == call[c]
<1>0. /\ r \in CallStates /\ RecordInv(r) /\ r.snap \in Docs /\ r.status \in Statuses
      /\ r.exec \in Execs /\ doc[r.exec] \in Docs
      /\ r.op = "submit" /\ r.pc = "start" /\ UNCHANGED <<planeVars, dir, doc, staged>>
      /\ Quiet
  BY Current, QuietSteps DEF SubmitRead
<1>1. CASE Fail(c)
  BY <1>0, <1>1, FailStep
<1>2. CASE doc[r.exec].state = "submitted" /\ Answer(c, [r EXCEPT !.snap = doc[r.exec]], "ok")
  <2> DEFINE s == [r EXCEPT !.snap = doc[r.exec], !.pc = "done", !.status = "ok"]
  <2>1. call' = [call EXCEPT ![c] = s]
    BY <1>0, <1>2 DEF SubmitRead, Answer, Update, CallStates, Docs
  <2>2. /\ s \in CallStates /\ s.op = r.op /\ s.exec = r.exec /\ s.sched = r.sched
       /\ s.snap = doc[r.exec] /\ s.pc = "done" /\ s.status = "ok"
    BY <1>0 DEF CallStates, Docs, DocStates, Statuses
  <2> HIDE DEF s
  <2>3. RecordInv(s)
    BY <1>0, <1>2, <2>2
       DEF IInv, DocInv, RecordInv, PrepareInv, SubmitInv, ObserveInv, HasJob, Unresolved,
           Docs, NoDoc
  <2> QED
    BY <1>0, <2>1, <2>2, <2>3, PrivateStep
<1>3. CASE /\ Unresolved(doc[r.exec])
              /\ Update(c, [[r EXCEPT !.snap = doc[r.exec]] EXCEPT !.pc = "write", !.status = "ambiguous",
                                                           !.snap.state = "ambiguous"])
  <2> DEFINE s == [r EXCEPT !.snap = [doc[r.exec] EXCEPT !.state = "ambiguous"], !.pc = "write", !.status = "ambiguous"]
  <2>1. call' = [call EXCEPT ![c] = s]
    BY <1>0, <1>3 DEF SubmitRead, Answer, Update, CallStates, Docs
  <2>2. /\ s \in CallStates /\ s.op = r.op /\ s.exec = r.exec /\ s.sched = r.sched
       /\ s.snap = [doc[r.exec] EXCEPT !.state = "ambiguous"] /\ s.pc = "write" /\ s.status = "ambiguous"
    BY <1>0 DEF CallStates, Docs, DocStates, Statuses
  <2> HIDE DEF s
  <2>3. RecordInv(s)
    BY <1>0, <1>3, <2>2
       DEF IInv, DocInv, RecordInv, PrepareInv, SubmitInv, ObserveInv, HasJob, Unresolved,
           Docs, NoDoc
  <2> QED
    BY <1>0, <2>1, <2>2, <2>3, PrivateStep
<1>4. CASE /\ doc[r.exec].state \in {"submission_failed", "cancelled"}
              /\ Answer(c, [r EXCEPT !.snap = doc[r.exec]], "failed")
  <2> DEFINE s == [r EXCEPT !.snap = doc[r.exec], !.pc = "done", !.status = "failed"]
  <2>1. call' = [call EXCEPT ![c] = s]
    BY <1>0, <1>4 DEF SubmitRead, Answer, Update, CallStates, Docs
  <2>2. /\ s \in CallStates /\ s.op = r.op /\ s.exec = r.exec /\ s.sched = r.sched
       /\ s.snap = doc[r.exec] /\ s.pc = "done" /\ s.status = "failed"
    BY <1>0 DEF CallStates, Docs, DocStates, Statuses
  <2> HIDE DEF s
  <2>3. RecordInv(s)
    BY <1>0, <1>4, <2>2
       DEF IInv, DocInv, RecordInv, PrepareInv, SubmitInv, ObserveInv, HasJob, Unresolved,
           Docs, NoDoc
  <2> QED
    BY <1>0, <2>1, <2>2, <2>3, PrivateStep
<1>5. CASE /\ doc[r.exec].state = "prepared"
              /\ Update(c, [[r EXCEPT !.snap = doc[r.exec]] EXCEPT !.pc = "verify"])
  <2> DEFINE s == [r EXCEPT !.snap = doc[r.exec], !.pc = "verify", !.status = r.status]
  <2>1. call' = [call EXCEPT ![c] = s]
    BY <1>0, <1>5 DEF SubmitRead, Answer, Update, CallStates, Docs
  <2>2. /\ s \in CallStates /\ s.op = r.op /\ s.exec = r.exec /\ s.sched = r.sched
       /\ s.snap = doc[r.exec] /\ s.pc = "verify" /\ s.status = r.status
    BY <1>0 DEF CallStates, Docs, DocStates, Statuses
  <2> HIDE DEF s
  <2>3. RecordInv(s)
    BY <1>0, <1>5, <2>2
       DEF IInv, DocInv, RecordInv, PrepareInv, SubmitInv, ObserveInv, HasJob, Unresolved,
           Docs, NoDoc
  <2> QED
    BY <1>0, <2>1, <2>2, <2>3, PrivateStep
<1> QED
  BY <1>0, <1>1, <1>2, <1>3, <1>4, <1>5 DEF SubmitRead

\* submit fails on a staged file that is absent or changed.
LEMMA SubmitVerifyInv ==
    ASSUME IInv, NEW c \in Calls, SubmitVerify(c)
    PROVE  IInv'
<1> DEFINE r == call[c]
<1>0. /\ r \in CallStates /\ RecordInv(r) /\ r.snap \in Docs /\ r.status \in Statuses
      /\ r.exec \in Execs /\ doc[r.exec] \in Docs
      /\ r.op = "submit" /\ r.pc = "verify" /\ UNCHANGED <<planeVars, dir, doc, staged>>
      /\ Quiet
  BY Current, QuietSteps DEF SubmitVerify, RecordInv, SubmitInv
<1> DEFINE s == [r EXCEPT !.snap = r.snap, !.pc = "done", !.status = "failed"]
<1>1. call' = [call EXCEPT ![c] = s]
  BY <1>0 DEF SubmitVerify, Answer, Update, CallStates, Docs
<1>2. /\ s \in CallStates /\ s.op = r.op /\ s.exec = r.exec /\ s.sched = r.sched
     /\ s.snap = r.snap /\ s.pc = "done" /\ s.status = "failed"
  BY <1>0 DEF CallStates, Docs, DocStates, Statuses
<1> HIDE DEF s
<1>3. RecordInv(s)
  BY <1>0, <1>2
     DEF IInv, DocInv, RecordInv, PrepareInv, SubmitInv, ObserveInv, HasJob, Unresolved,
         Docs, NoDoc
<1> QED
  BY <1>0, <1>1, <1>2, <1>3, PrivateStep

\* submit is about to record that there is no submit command.
LEMMA SubmitUnavailableInv ==
    ASSUME IInv, NEW c \in Calls, SubmitUnavailable(c)
    PROVE  IInv'
<1> DEFINE r == call[c]
<1>0. /\ r \in CallStates /\ RecordInv(r) /\ r.snap \in Docs /\ r.status \in Statuses
      /\ r.exec \in Execs /\ doc[r.exec] \in Docs
      /\ r.op = "submit" /\ r.pc = "verify" /\ UNCHANGED <<planeVars, dir, doc, staged>>
      /\ Quiet
  BY Current, QuietSteps DEF SubmitUnavailable, RecordInv, SubmitInv
<1> DEFINE s == [r EXCEPT !.snap = [r.snap EXCEPT !.state = "submission_failed"], !.pc = "write", !.status = "unavailable"]
<1>1. call' = [call EXCEPT ![c] = s]
  BY <1>0 DEF SubmitUnavailable, Answer, Update, CallStates, Docs
<1>2. /\ s \in CallStates /\ s.op = r.op /\ s.exec = r.exec /\ s.sched = r.sched
     /\ s.snap = [r.snap EXCEPT !.state = "submission_failed"] /\ s.pc = "write" /\ s.status = "unavailable"
  BY <1>0 DEF CallStates, Docs, DocStates, Statuses
<1> HIDE DEF s
<1>3. RecordInv(s)
  BY <1>0, <1>2
     DEF IInv, DocInv, RecordInv, PrepareInv, SubmitInv, ObserveInv, HasJob, Unresolved,
         Docs, NoDoc
<1> QED
  BY <1>0, <1>1, <1>2, <1>3, PrivateStep

\* The scheduler refuses the job, or the command times out without effect.
LEMMA SubmitNotAcceptedInv ==
    ASSUME IInv, NEW c \in Calls, SubmitNotAccepted(c)
    PROVE  IInv'
<1> DEFINE r == call[c]
<1>0. /\ r \in CallStates /\ RecordInv(r) /\ r.snap \in Docs /\ r.status \in Statuses
      /\ r.exec \in Execs /\ doc[r.exec] \in Docs
      /\ r.op = "submit" /\ r.pc = "run" /\ UNCHANGED <<planeVars, dir, doc, staged>>
      /\ Quiet
  BY Current, QuietSteps DEF SubmitNotAccepted
<1>1. CASE Update(c, [r EXCEPT !.pc = "write", !.status = "failed",
                                   !.snap.state = "submission_failed"])
  <2> DEFINE s == [r EXCEPT !.snap = [r.snap EXCEPT !.state = "submission_failed"], !.pc = "write", !.status = "failed"]
  <2>1. call' = [call EXCEPT ![c] = s]
    BY <1>0, <1>1 DEF SubmitNotAccepted, Answer, Update, CallStates, Docs
  <2>2. /\ s \in CallStates /\ s.op = r.op /\ s.exec = r.exec /\ s.sched = r.sched
       /\ s.snap = [r.snap EXCEPT !.state = "submission_failed"] /\ s.pc = "write" /\ s.status = "failed"
    BY <1>0 DEF CallStates, Docs, DocStates, Statuses
  <2> HIDE DEF s
  <2>3. RecordInv(s)
    BY <1>0, <1>1, <2>2
       DEF IInv, DocInv, RecordInv, PrepareInv, SubmitInv, ObserveInv, HasJob, Unresolved,
           Docs, NoDoc
  <2> QED
    BY <1>0, <2>1, <2>2, <2>3, PrivateStep
<1>2. CASE Update(c, [r EXCEPT !.pc = "write", !.status = "ambiguous",
                                   !.snap.state = "ambiguous"])
  <2> DEFINE s == [r EXCEPT !.snap = [r.snap EXCEPT !.state = "ambiguous"], !.pc = "write", !.status = "ambiguous"]
  <2>1. call' = [call EXCEPT ![c] = s]
    BY <1>0, <1>2 DEF SubmitNotAccepted, Answer, Update, CallStates, Docs
  <2>2. /\ s \in CallStates /\ s.op = r.op /\ s.exec = r.exec /\ s.sched = r.sched
       /\ s.snap = [r.snap EXCEPT !.state = "ambiguous"] /\ s.pc = "write" /\ s.status = "ambiguous"
    BY <1>0 DEF CallStates, Docs, DocStates, Statuses
  <2> HIDE DEF s
  <2>3. RecordInv(s)
    BY <1>0, <1>2, <2>2
       DEF IInv, DocInv, RecordInv, PrepareInv, SubmitInv, ObserveInv, HasJob, Unresolved,
           Docs, NoDoc
  <2> QED
    BY <1>0, <2>1, <2>2, <2>3, PrivateStep
<1> QED
  BY <1>0, <1>1, <1>2 DEF SubmitNotAccepted

\* reconcile branches on the document it read.
LEMMA ReconcileReadInv ==
    ASSUME IInv, NEW c \in Calls, ReconcileRead(c)
    PROVE  IInv'
<1> DEFINE r == call[c]
<1>0. /\ r \in CallStates /\ RecordInv(r) /\ r.snap \in Docs /\ r.status \in Statuses
      /\ r.exec \in Execs /\ doc[r.exec] \in Docs
      /\ r.op = "reconcile" /\ r.pc = "start" /\ UNCHANGED <<planeVars, dir, doc, staged>>
      /\ Quiet
  BY Current, QuietSteps DEF ReconcileRead
<1>1. CASE Fail(c)
  BY <1>0, <1>1, FailStep
<1>2. CASE /\ Unresolved(doc[r.exec]) /\ doc[r.exec].job = NoJob
              /\ Update(c, [[r EXCEPT !.snap = doc[r.exec]] EXCEPT !.pc = "write", !.status = "ambiguous",
                                                           !.snap.state = "ambiguous"])
  <2> DEFINE s == [r EXCEPT !.snap = [doc[r.exec] EXCEPT !.state = "ambiguous"], !.pc = "write", !.status = "ambiguous"]
  <2>1. call' = [call EXCEPT ![c] = s]
    BY <1>0, <1>2 DEF ReconcileRead, Answer, Update, CallStates, Docs
  <2>2. /\ s \in CallStates /\ s.op = r.op /\ s.exec = r.exec /\ s.sched = r.sched
       /\ s.snap = [doc[r.exec] EXCEPT !.state = "ambiguous"] /\ s.pc = "write" /\ s.status = "ambiguous"
    BY <1>0 DEF CallStates, Docs, DocStates, Statuses
  <2> HIDE DEF s
  <2>3. RecordInv(s)
    BY <1>0, <1>2, <2>2
       DEF IInv, DocInv, RecordInv, PrepareInv, SubmitInv, ObserveInv, HasJob, Unresolved,
           Docs, NoDoc
  <2> QED
    BY <1>0, <2>1, <2>2, <2>3, PrivateStep
<1>3. CASE Answer(c, [r EXCEPT !.snap = doc[r.exec]], "unknown")
  <2> DEFINE s == [r EXCEPT !.snap = doc[r.exec], !.pc = "done", !.status = "unknown"]
  <2>1. call' = [call EXCEPT ![c] = s]
    BY <1>0, <1>3 DEF ReconcileRead, Answer, Update, CallStates, Docs
  <2>2. /\ s \in CallStates /\ s.op = r.op /\ s.exec = r.exec /\ s.sched = r.sched
       /\ s.snap = doc[r.exec] /\ s.pc = "done" /\ s.status = "unknown"
    BY <1>0 DEF CallStates, Docs, DocStates, Statuses
  <2> HIDE DEF s
  <2>3. RecordInv(s)
    BY <1>0, <1>3, <2>2
       DEF IInv, DocInv, RecordInv, PrepareInv, SubmitInv, ObserveInv, HasJob, Unresolved,
           Docs, NoDoc
  <2> QED
    BY <1>0, <2>1, <2>2, <2>3, PrivateStep
<1>4. CASE /\ doc[r.exec].job # NoJob
              /\ Update(c, [[r EXCEPT !.snap = doc[r.exec]] EXCEPT !.pc = "observe"])
  <2> DEFINE s == [r EXCEPT !.snap = doc[r.exec], !.pc = "observe", !.status = r.status]
  <2>1. call' = [call EXCEPT ![c] = s]
    BY <1>0, <1>4 DEF ReconcileRead, Answer, Update, CallStates, Docs
  <2>2. /\ s \in CallStates /\ s.op = r.op /\ s.exec = r.exec /\ s.sched = r.sched
       /\ s.snap = doc[r.exec] /\ s.pc = "observe" /\ s.status = r.status
    BY <1>0 DEF CallStates, Docs, DocStates, Statuses
  <2> HIDE DEF s
  <2>3. RecordInv(s)
    BY <1>0, <1>4, <2>2
       DEF IInv, DocInv, RecordInv, PrepareInv, SubmitInv, ObserveInv, HasJob, Unresolved,
           Docs, NoDoc
  <2> QED
    BY <1>0, <2>1, <2>2, <2>3, PrivateStep
<1> QED
  BY <1>0, <1>1, <1>2, <1>3, <1>4 DEF ReconcileRead

\* cancel goes on only with a job identity.
LEMMA CancelReadInv ==
    ASSUME IInv, NEW c \in Calls, CancelRead(c)
    PROVE  IInv'
<1> DEFINE r == call[c]
<1>0. /\ r \in CallStates /\ RecordInv(r) /\ r.snap \in Docs /\ r.status \in Statuses
      /\ r.exec \in Execs /\ doc[r.exec] \in Docs
      /\ r.op = "cancel" /\ r.pc = "start" /\ UNCHANGED <<planeVars, dir, doc, staged>>
      /\ Quiet
  BY Current, QuietSteps DEF CancelRead
<1>1. CASE Fail(c)
  BY <1>0, <1>1, FailStep
<1>2. CASE Answer(c, [r EXCEPT !.snap = doc[r.exec]], "unknown")
  <2> DEFINE s == [r EXCEPT !.snap = doc[r.exec], !.pc = "done", !.status = "unknown"]
  <2>1. call' = [call EXCEPT ![c] = s]
    BY <1>0, <1>2 DEF CancelRead, Answer, Update, CallStates, Docs
  <2>2. /\ s \in CallStates /\ s.op = r.op /\ s.exec = r.exec /\ s.sched = r.sched
       /\ s.snap = doc[r.exec] /\ s.pc = "done" /\ s.status = "unknown"
    BY <1>0 DEF CallStates, Docs, DocStates, Statuses
  <2> HIDE DEF s
  <2>3. RecordInv(s)
    BY <1>0, <1>2, <2>2
       DEF IInv, DocInv, RecordInv, PrepareInv, SubmitInv, ObserveInv, HasJob, Unresolved,
           Docs, NoDoc
  <2> QED
    BY <1>0, <2>1, <2>2, <2>3, PrivateStep
<1>3. CASE /\ doc[r.exec].job # NoJob
              /\ Update(c, [[r EXCEPT !.snap = doc[r.exec]] EXCEPT !.pc = "kill"])
  <2> DEFINE s == [r EXCEPT !.snap = doc[r.exec], !.pc = "kill", !.status = r.status]
  <2>1. call' = [call EXCEPT ![c] = s]
    BY <1>0, <1>3 DEF CancelRead, Answer, Update, CallStates, Docs
  <2>2. /\ s \in CallStates /\ s.op = r.op /\ s.exec = r.exec /\ s.sched = r.sched
       /\ s.snap = doc[r.exec] /\ s.pc = "kill" /\ s.status = r.status
    BY <1>0 DEF CallStates, Docs, DocStates, Statuses
  <2> HIDE DEF s
  <2>3. RecordInv(s)
    BY <1>0, <1>3, <2>2
       DEF IInv, DocInv, RecordInv, PrepareInv, SubmitInv, ObserveInv, HasJob, Unresolved,
           Docs, NoDoc
  <2> QED
    BY <1>0, <2>1, <2>2, <2>3, PrivateStep
<1> QED
  BY <1>0, <1>1, <1>2, <1>3 DEF CancelRead

\* Only a job that has ended is observed as ended.
LEMMA ReconcileObserveInv ==
    ASSUME IInv, NEW c \in Calls, ReconcileObserve(c)
    PROVE  IInv'
<1> DEFINE r == call[c]
<1>0. /\ r \in CallStates /\ RecordInv(r) /\ r.exec \in Execs
      /\ r.op = "reconcile" /\ r.pc = "observe" /\ r.snap.job # NoJob
      /\ Quiet /\ UNCHANGED <<dir, doc, staged>>
  BY Current, QuietSteps DEF ReconcileObserve, RecordInv, ObserveInv
<1>1. PICK answer \in Answers(r.snap.job) :
        call' = [call EXCEPT ![c] = [r EXCEPT !.pc = "result", !.sched = answer]]
  BY DEF ReconcileObserve, Update
<1>2. r.snap.job \in Jobs
  BY <1>0 DEF CallStates, Docs
<1>3. /\ answer \in Observations
      /\ answer = "ended" => jobPhase[r.snap.job] = "ended"
  BY <1>2 DEF IInv, TypeOK, PlaneTypeOK, Answers, Conditions, JobPhases, Observations
<1> DEFINE s == [r EXCEPT !.pc = "result", !.sched = answer]
<1>4. /\ s \in CallStates /\ s.op = r.op /\ s.exec = r.exec /\ s.sched = answer
      /\ s.snap = r.snap /\ s.pc = "result"
  BY <1>0, <1>3 DEF CallStates
<1>5. call' = [call EXCEPT ![c] = s]
  BY <1>1
<1> HIDE DEF s
<1>6. RecordInv(s)
  BY <1>0, <1>3, <1>4 DEF RecordInv, PrepareInv, SubmitInv, ObserveInv
<1> QED
  BY <1>0, <1>4, <1>5, <1>6, PrivateStep

\* A reconcile that saw its job ended misses no usable result.
LEMMA ReconcileResultInv ==
    ASSUME IInv, NEW c \in Calls, ReconcileResult(c)
    PROVE  IInv'
<1> DEFINE r == call[c]
<1>0. /\ r \in CallStates /\ RecordInv(r) /\ r.exec \in Execs
      /\ bundle[r.exec] \in Outcomes \cup {"none"}
      /\ r.op = "reconcile" /\ r.pc = "result"
      /\ Quiet /\ UNCHANGED <<dir, doc, staged>>
  BY Current, QuietSteps DEF ReconcileResult, RecordInv, ObserveInv
<1>1. PICK status \in Statuses, kind \in {r.result, bundle[r.exec]} :
        /\ call' = [call EXCEPT ![c] = [r EXCEPT !.result = kind,
                                                 !.pc = "done", !.status = status]]
        /\ kind = "none" => ~Usable(bundle[r.exec])
  <2>1. r = [r EXCEPT !.result = r.result]
    BY <1>0 DEF CallStates
  <2> QED
    BY <1>0, <2>1 DEF ReconcileResult, Answer, Update, Statuses, Usable
<1> DEFINE s == [r EXCEPT !.result = kind, !.pc = "done", !.status = status]
<1>2. /\ s \in CallStates /\ s.op = r.op /\ s.exec = r.exec /\ s.sched = r.sched
      /\ s.snap = r.snap /\ s.pc = "done" /\ s.result = kind
  BY <1>0 DEF CallStates
<1>3. call' = [call EXCEPT ![c] = s]
  BY <1>1
<1> HIDE DEF s
<1>4. RecordInv(s)
  BY <1>0, <1>1, <1>2 DEF RecordInv, PrepareInv, SubmitInv, ObserveInv
<1> QED
  BY <1>0, <1>2, <1>3, <1>4, PrivateStep

\* A kill that the scheduler confirms.
LEMMA CancelConfirmedInv ==
    ASSUME IInv, NEW c \in Calls, CancelConfirmed(c)
    PROVE  IInv'
<1> DEFINE r == call[c]
<1>0. /\ r \in CallStates /\ RecordInv(r) /\ r.exec \in Execs
      /\ r.op = "cancel" /\ r.pc = "kill" /\ r.snap.job # NoJob
      /\ UNCHANGED <<dir, doc, staged>>
  BY Current DEF CancelConfirmed, RecordInv, ObserveInv
<1>1. Quiet
  BY <1>0, QuietSteps DEF CancelConfirmed, CallStates, Docs
<1> DEFINE s == [r EXCEPT !.pc = "write", !.status = "ok", !.snap.state = "cancelled"]
<1>2. /\ s \in CallStates /\ s.op = r.op /\ s.exec = r.exec /\ s.sched = r.sched
      /\ s.snap.state = "cancelled" /\ s.snap.job = r.snap.job /\ s.pc = "write"
  BY <1>0 DEF CallStates, Docs, DocStates, Statuses
<1>3. call' = [call EXCEPT ![c] = s]
  BY DEF CancelConfirmed, Update
<1> HIDE DEF s
<1>4. RecordInv(s)
  BY <1>0, <1>2 DEF RecordInv, PrepareInv, SubmitInv, ObserveInv
<1> QED
  BY <1>0, <1>1, <1>2, <1>3, <1>4, PrivateStep

\* A kill that fails, or whose confirmation is missing.
LEMMA CancelUnconfirmedInv ==
    ASSUME IInv, NEW c \in Calls, CancelUnconfirmed(c)
    PROVE  IInv'
<1> DEFINE r == call[c]
<1>0. /\ r \in CallStates /\ RecordInv(r) /\ r.exec \in Execs
      /\ r.op = "cancel" /\ r.pc = "kill" /\ r.snap.job # NoJob
      /\ UNCHANGED <<dir, doc, staged>>
  BY Current DEF CancelUnconfirmed, RecordInv, ObserveInv
<1>1. Quiet
  BY <1>0, QuietSteps DEF CancelUnconfirmed, CallStates, Docs
<1>2. PICK status \in Statuses :
        call' = [call EXCEPT ![c] = [r EXCEPT !.pc = "done", !.status = status]]
  BY DEF CancelUnconfirmed, Answer, Update, Statuses
<1> DEFINE s == [r EXCEPT !.pc = "done", !.status = status]
<1>3. /\ s \in CallStates /\ s.op = r.op /\ s.exec = r.exec /\ s.sched = r.sched
      /\ s.snap = r.snap /\ s.pc = "done"
  BY <1>0 DEF CallStates
<1>4. call' = [call EXCEPT ![c] = s]
  BY <1>2
<1> HIDE DEF s
<1>5. RecordInv(s)
  BY <1>0, <1>3 DEF RecordInv, PrepareInv, SubmitInv, ObserveInv
<1> QED
  BY <1>0, <1>1, <1>3, <1>4, <1>5, PrivateStep

\* A finished process disappears.
LEMMA ReturnInv ==
    ASSUME IInv, NEW c \in Calls, Return(c)
    PROVE  IInv'
<1>1. /\ IdleCall \in CallStates /\ IdleCall.op = "idle" /\ IdleCall.pc = "idle"
      /\ IdleCall.snap = NoDoc /\ NoDoc.job = NoJob
  BY DEF IdleCall, CallStates, NoDoc, Docs, DocStates, Statuses
<1>2. RecordInv(IdleCall)
  BY <1>1 DEF RecordInv, PrepareInv, SubmitInv, ObserveInv
<1>3. \A d \in Calls \ {c} : ~Clash(IdleCall, call[d])
  BY <1>1 DEF Clash
<1>4. call' = [call EXCEPT ![c] = IdleCall] /\ Quiet /\ UNCHANGED <<dir, doc, staged>>
  BY QuietSteps DEF Return, Update
<1> HIDE DEF IdleCall
<1> QED
  BY <1>1, <1>2, <1>3, <1>4, CallStep

\* The controller opens no second submit of an execution.
LEMMA IssueInv ==
    ASSUME IInv, NEW c \in Calls, NEW op \in Ops, NEW e \in Execs, Issue(c, op, e)
    PROVE  IInv'
<1> DEFINE s == [IdleCall EXCEPT !.op = op, !.exec = e, !.pc = "start"]
<1>1. /\ s \in CallStates /\ s.op = op /\ s.exec = e /\ s.pc = "start"
      /\ s.snap = NoDoc /\ NoDoc.job = NoJob /\ s.sched = "none"
  BY DEF IdleCall, CallStates, NoDoc, Docs, DocStates, Statuses, Ops
<1>2. call' = [call EXCEPT ![c] = s] /\ Quiet /\ UNCHANGED <<dir, doc, staged>>
  BY QuietSteps DEF Issue, Invoke, Update
<1> HIDE DEF s
<1>3. RecordInv(s)
  BY <1>1 DEF RecordInv, PrepareInv, SubmitInv, ObserveInv, Ops
<1>4. \A d \in Calls \ {c} : ~Clash(s, call[d])
  BY <1>1 DEF Clash, Issue, SubmitOpen
<1> QED
  BY <1>1, <1>2, <1>3, <1>4, CallStep

-----------------------------------------------------------------------------
\* The steps that change the directory, a document or the scheduler.

\* The exclusive mkdir admits one prepare to the first document.
LEMMA PrepareMkdirInv ==
    ASSUME IInv, NEW c \in Calls, PrepareMkdir(c)
    PROVE  IInv'
<1> DEFINE r == call[c]
           s == [r EXCEPT !.pc = "write", !.snap.state = "prepared"]
<1>0. /\ r \in CallStates /\ RecordInv(r) /\ r.exec \in Execs
      /\ r.op = "prepare" /\ r.pc = "mkdir" /\ r.snap \in Docs /\ r.snap.job = NoJob
      /\ UNCHANGED <<planeVars, doc, staged>>
  BY Current DEF PrepareMkdir, RecordInv, PrepareInv, NoDoc
<1>1. CASE dir[r.exec]
  BY <1>0, <1>1, FailStep DEF PrepareMkdir
<1>2. CASE ~dir[r.exec]
  <2>1. /\ call' = [call EXCEPT ![c] = s] /\ dir' = [dir EXCEPT ![r.exec] = TRUE]
        /\ doc[r.exec] = NoDoc
    BY <1>0, <1>2 DEF PrepareMkdir, Update, IInv, DocInv
  <2>2. /\ s \in CallStates /\ s.op = "prepare" /\ s.exec = r.exec /\ s.pc = "write"
        /\ s.snap.state = "prepared" /\ s.snap.job = NoJob
    BY <1>0 DEF CallStates, Docs, DocStates
  <2> HIDE DEF s
  <2>3. call'[c] = s /\ \A d \in Calls \ {c} : call'[d] = call[d]
    BY <2>1 DEF IInv, TypeOK, WorkerTypeOK
  <2>4. \A e \in Execs : dir[e] => dir'[e]
    BY <2>1 DEF IInv, TypeOK, WorkerTypeOK
  <2>5. TypeOK'
    BY <1>0, <2>1, <2>2, <2>3 DEF IInv, TypeOK, PlaneTypeOK, WorkerTypeOK, planeVars
  <2>6. JobInv' /\ DocInv'
    BY <1>0, <2>4 DEF IInv, JobInv, AtMostOneJob, DocInv, HasJob, planeVars
  <2>7. CallInv'
    <3> SUFFICES ASSUME NEW d \in Calls PROVE RecordInv(call[d])'
      BY DEF CallInv
    <3>1. CASE d = c
      BY <1>0, <2>1, <2>2, <2>3, <3>1
         DEF RecordInv, PrepareInv, SubmitInv, ObserveInv, IInv, TypeOK, WorkerTypeOK
    <3>2. CASE d # c
      <4>1. PICK q \in CallStates : q = call[d] /\ q = call'[d] /\ RecordInv(q)
        BY <2>3, <3>2 DEF IInv, CallInv, TypeOK, WorkerTypeOK
      <4> QED
        BY <1>0, <2>4, <4>1 DEF RecordInv, PrepareInv, SubmitInv, ObserveInv, HasJob,
                                Unresolved, planeVars
    <3> QED
      BY <3>1, <3>2
  <2>8. UniqueInv'
    <3>1. \A d \in Calls \ {c} : ~Clash(s, call[d])
      BY <1>2, <2>2 DEF Clash, IInv, CallInv, RecordInv, PrepareInv
    <3> QED
      BY <2>3, <3>1 DEF IInv, UniqueInv, Clash
  <2> QED
    BY <2>5, <2>6, <2>7, <2>8 DEF IInv
<1> QED
  BY <1>1, <1>2

\* A document that a process replaces: what has to hold of the new content d
\* and of the process's new record s.
LEMMA DocStep ==
    ASSUME IInv, NEW c \in Calls, NEW s \in CallStates, NEW e \in Execs, NEW d \in Docs,
           call' = [call EXCEPT ![c] = s],
           doc' = [doc EXCEPT ![e] = d],
           UNCHANGED <<planeVars, dir, staged>>,
           s.op = call[c].op, s.exec = call[c].exec, s.exec = e, s.pc \in {"run", "done"},
           s.op # "idle",
           d.state # "none", dir[e],
           HasJob(e) => d.state \notin {"prepared", "submission_failed"},
           d.job # NoJob => jobExec[d.job] = e,
           CallInv'
    PROVE  IInv'
<1>1. call'[c] = s /\ \A q \in Calls \ {c} : call'[q] = call[q]
  BY DEF IInv, TypeOK, WorkerTypeOK
<1>2. doc'[e] = d /\ \A f \in Execs \ {e} : doc'[f] = doc[f]
  BY DEF IInv, TypeOK, WorkerTypeOK
<1>3. TypeOK'
  BY <1>1, <1>2 DEF IInv, TypeOK, PlaneTypeOK, WorkerTypeOK, planeVars
<1>4. JobInv'
  BY DEF IInv, JobInv, AtMostOneJob, planeVars
<1>5. DocInv'
  BY <1>2 DEF IInv, DocInv, HasJob, planeVars, NoDoc
<1>6. UniqueInv'
  <2>1. \A q \in Calls \ {c} : ~Clash(s, call[q])
    BY DEF IInv, UniqueInv, Clash
  <2> QED
    BY <1>1, <2>1 DEF IInv, UniqueInv, Clash
<1> QED
  BY <1>3, <1>4, <1>5, <1>6 DEF IInv

\* "submitting" becomes durable while no job exists.
LEMMA SubmitClaimInv ==
    ASSUME IInv, NEW c \in Calls, SubmitClaim(c)
    PROVE  IInv'
<1>p. PICK r, e, d, s : /\ r = call[c] /\ e = r.exec
                        /\ d = [r.snap EXCEPT !.state = "submitting"]
                        /\ s = [r EXCEPT !.pc = "run", !.snap = d]
  OBVIOUS
<1>0. /\ r \in CallStates /\ RecordInv(r) /\ e \in Execs /\ r.snap \in Docs
      /\ r.op = "submit" /\ r.pc = "verify" /\ doc[e].state = "prepared"
      /\ r.sched \in Observations \cup {"none"}
      /\ r = call[c] /\ e = r.exec /\ UNCHANGED <<planeVars, dir, staged>>
  BY <1>p, Current DEF SubmitClaim, RecordInv, SubmitInv, CallStates
<1>1. call' = [call EXCEPT ![c] = s] /\ doc' = [doc EXCEPT ![e] = d]
  BY <1>p DEF SubmitClaim, Update
<1>2. d \in Docs /\ d.state = "submitting" /\ d.job = r.snap.job
  BY <1>0, <1>p DEF Docs, DocStates
<1>3. /\ s \in CallStates /\ s.op = "submit" /\ s.exec = e /\ s.pc = "run"
      /\ s.snap = d /\ s.sched = r.sched
  BY <1>0, <1>2, <1>p DEF CallStates
<1>4. ~HasJob(e) /\ dir[e]
  BY <1>0 DEF IInv, DocInv, NoDoc
<1>5. doc'[e] = d
  BY <1>0, <1>1 DEF IInv, TypeOK, WorkerTypeOK
<1>6. d.job # NoJob => jobExec[d.job] = e
  BY <1>0, <1>2 DEF RecordInv, ObserveInv
<1>7. RecordInv(s)'
  BY <1>0, <1>2, <1>3, <1>4, <1>5, <1>6
     DEF RecordInv, PrepareInv, SubmitInv, ObserveInv, HasJob, Unresolved, planeVars
<1>8. ASSUME NEW q \in Calls \ {c}, call[q].exec = e
      PROVE  RecordInv(call[q])'
  <2>1. call[q].op # "submit"
    BY <1>0, <1>8 DEF IInv, UniqueInv, Clash
  <2>2. call'[q] = call[q] /\ RecordInv(call[q])
    BY <1>1 DEF IInv, TypeOK, WorkerTypeOK, CallInv
  <2> QED
    BY <1>0, <1>2, <1>5, <1>8, <2>1, <2>2
       DEF RecordInv, PrepareInv, SubmitInv, ObserveInv, HasJob, Unresolved, planeVars, NoDoc
<1>9. CallInv'
  <2> SUFFICES ASSUME NEW q \in Calls PROVE RecordInv(call[q])'
    BY DEF CallInv
  <2>1. CASE q = c
    <3>1. call'[q] = s
      BY <1>0, <1>1, <2>1 DEF IInv, TypeOK, WorkerTypeOK
    <3> QED
      BY <1>7, <3>1 DEF RecordInv, PrepareInv, SubmitInv, ObserveInv
  <2>2. CASE q # c /\ call[q].exec = e
    BY <1>8, <2>2
  <2>3. CASE q # c /\ call[q].exec # e
    <3>1. /\ call'[q] = call[q] /\ RecordInv(call[q])
          /\ call[q].exec \in Execs => doc'[call[q].exec] = doc[call[q].exec]
      BY <1>0, <1>1, <2>3 DEF IInv, TypeOK, WorkerTypeOK, CallInv
    <3> QED
      BY <1>0, <3>1 DEF RecordInv, PrepareInv, SubmitInv, ObserveInv, HasJob, Unresolved,
                        planeVars
  <2> QED
    BY <2>1, <2>2, <2>3
<1> QED
  BY <1>0, <1>1, <1>2, <1>3, <1>4, <1>6, <1>9, DocStep

\* _write_state.  The process that writes "prepared" found no document, the
\* one that writes "submission_failed" is the only open submit and has no
\* job, and no process ever writes while another one is about to create the
\* document.
LEMMA WriteStateInv ==
    ASSUME IInv, NEW c \in Calls, WriteState(c)
    PROVE  IInv'
<1>p. PICK r, e, d, s : /\ r = call[c] /\ e = r.exec /\ d = r.snap
                        /\ s = [r EXCEPT !.pc = "done", !.status = r.status]
  OBVIOUS
<1>0. /\ r \in CallStates /\ RecordInv(r) /\ e \in Execs /\ d \in Docs
      /\ r.pc = "write" /\ r.op \in Ops /\ d = r.snap
      /\ r = call[c] /\ e = r.exec /\ UNCHANGED <<planeVars, dir, staged>>
  BY <1>p, Current DEF WriteState, RecordInv, CallStates
<1>1. call' = [call EXCEPT ![c] = s] /\ doc' = [doc EXCEPT ![e] = d]
  BY <1>p DEF WriteState, Update, Answer
<1>2. /\ s \in CallStates /\ s.op = r.op /\ s.exec = e /\ s.pc = "done"
      /\ s.snap = d /\ s.sched = r.sched /\ s.status = r.status
  BY <1>0, <1>p DEF CallStates
<1>3. doc'[e] = d
  BY <1>0, <1>1 DEF IInv, TypeOK, WorkerTypeOK
<1>4. d.job # NoJob => jobExec[d.job] = e /\ HasJob(e)
  BY <1>0 DEF RecordInv, ObserveInv, HasJob, Docs
<1>5. /\ r.op = "prepare" => d.state = "prepared" /\ d.job = NoJob /\ doc[e] = NoDoc /\ dir[e]
      /\ r.op = "submit" => /\ d.state \in {"submitted", "ambiguous", "submission_failed"}
                            /\ d.state = "submission_failed" => ~HasJob(e)
                            /\ doc[e] # NoDoc
      /\ r.op = "reconcile" => d.state = "ambiguous" /\ doc[e].state # "none"
      /\ r.op = "cancel" => d.state = "cancelled" /\ HasJob(e)
  BY <1>0, <1>4 DEF RecordInv, PrepareInv, SubmitInv, ObserveInv
<1>6. /\ d.state # "none" /\ dir[e]
      /\ HasJob(e) => d.state \notin {"prepared", "submission_failed"}
  BY <1>0, <1>5 DEF IInv, DocInv, NoDoc, Ops
<1>7. RecordInv(s)'
  BY <1>0, <1>2, <1>4, <1>5, <1>6
     DEF RecordInv, PrepareInv, SubmitInv, ObserveInv, HasJob, planeVars
<1>8. ASSUME NEW q \in Calls \ {c}, call[q].exec = e
      PROVE  RecordInv(call[q])'
  <2>1. /\ r.op = "submit" => call[q].op # "submit"
        /\ r.op = "prepare" => ~(call[q].op = "prepare" /\ call[q].pc = "write")
    BY <1>0, <1>8 DEF IInv, UniqueInv, Clash
  <2>2. call'[q] = call[q] /\ RecordInv(call[q])
    BY <1>1 DEF IInv, TypeOK, WorkerTypeOK, CallInv
  <2>3. r.op = "cancel" => doc[e].state \notin {"none", "prepared"}
    BY <1>0, <1>5 DEF IInv, DocInv
  <2>4. PrepareInv(call[q])'
    BY <1>0, <1>3, <1>5, <1>8, <2>1, <2>2, <2>3 DEF RecordInv, PrepareInv, NoDoc, Ops
  <2>5. SubmitInv(call[q])'
    BY <1>0, <1>3, <1>5, <1>6, <1>8, <2>1, <2>2, <2>3
       DEF RecordInv, SubmitInv, ObserveInv, HasJob, Unresolved, Ops, NoDoc, planeVars
  <2>6. ObserveInv(call[q])'
    BY <1>0, <1>3, <1>5, <1>6, <1>8, <2>1, <2>2, <2>3
       DEF RecordInv, ObserveInv, Ops, NoDoc, planeVars
  <2> QED
    BY <2>2, <2>4, <2>5, <2>6 DEF RecordInv
<1>9. CallInv'
  <2> SUFFICES ASSUME NEW q \in Calls PROVE RecordInv(call[q])'
    BY DEF CallInv
  <2>1. CASE q = c
    <3>1. call'[q] = s
      BY <1>0, <1>1, <2>1 DEF IInv, TypeOK, WorkerTypeOK
    <3> QED
      BY <1>7, <3>1 DEF RecordInv, PrepareInv, SubmitInv, ObserveInv
  <2>2. CASE q # c /\ call[q].exec = e
    BY <1>8, <2>2
  <2>3. CASE q # c /\ call[q].exec # e
    <3>1. /\ call'[q] = call[q] /\ RecordInv(call[q])
          /\ call[q].exec \in Execs => doc'[call[q].exec] = doc[call[q].exec]
      BY <1>0, <1>1, <2>3 DEF IInv, TypeOK, WorkerTypeOK, CallInv
    <3> QED
      BY <1>0, <3>1 DEF RecordInv, PrepareInv, SubmitInv, ObserveInv, HasJob, Unresolved,
                        planeVars
  <2> QED
    BY <2>1, <2>2, <2>3
<1>10. r.op # "idle"
  BY <1>0 DEF Ops
<1> QED
  BY <1>0, <1>1, <1>2, <1>4, <1>6, <1>9, <1>10, DocStep

\* The scheduler accepts a job.  The submit that called it is the only open
\* one and its execution has no job yet.
LEMMA SubmitAcceptedInv ==
    ASSUME IInv, NEW c \in Calls, NEW j \in Jobs, SubmitAccepted(c, j)
    PROVE  IInv'
<1>p. PICK r, e : r = call[c] /\ e = r.exec
  OBVIOUS
<1>0. /\ r \in CallStates /\ RecordInv(r) /\ e \in Execs /\ r.snap \in Docs
      /\ r = call[c] /\ e = r.exec
      /\ r.op = "submit" /\ r.pc = "run" /\ Unresolved(doc[e]) /\ ~HasJob(e)
      /\ UNCHANGED <<bundle, dir, doc, staged>>
  BY <1>p, Current DEF SubmitAccepted, Accept, RecordInv, SubmitInv, CallStates
<1>1. /\ jobPhase[j] = "free" /\ jobExec[j] = NoExec
      /\ jobExec'[j] = e /\ \A k \in Jobs \ {j} : jobExec'[k] = jobExec[k]
      /\ jobPhase'[j] = "queued" /\ \A k \in Jobs \ {j} : jobPhase'[k] = jobPhase[k]
      /\ jobExec' \in [Jobs -> Execs \cup {NoExec}] /\ jobPhase' \in [Jobs -> JobPhases]
  BY <1>0 DEF SubmitAccepted, Accept, IInv, TypeOK, PlaneTypeOK, JobInv, JobPhases
<1>2. r.snap.job = NoJob
  BY <1>0 DEF RecordInv, ObserveInv, HasJob, Docs
<1>3. PICK s \in CallStates :
        /\ call' = [call EXCEPT ![c] = s]
        /\ s.op = "submit" /\ s.exec = e /\ s.pc = "write" /\ s.sched = r.sched
        /\ \/ s.snap.state = "submitted" /\ s.snap.job = j /\ s.status = "ok"
           \/ s.snap.state = "ambiguous" /\ s.snap.job = NoJob /\ s.status = "ambiguous"
  <2>1. CASE Update(c, [r EXCEPT !.pc = "write", !.status = "ok",
                                 !.snap.state = "submitted", !.snap.job = j])
    <3> DEFINE s == [r EXCEPT !.pc = "write", !.status = "ok",
                              !.snap.state = "submitted", !.snap.job = j]
    <3>1. /\ s \in CallStates /\ s.op = "submit" /\ s.exec = e /\ s.pc = "write"
          /\ s.sched = r.sched /\ s.status = "ok"
          /\ s.snap.state = "submitted" /\ s.snap.job = j
      BY <1>0 DEF CallStates, Docs, DocStates, Statuses
    <3>2. call' = [call EXCEPT ![c] = s]
      BY <2>1 DEF Update
    <3> QED
      BY <3>1, <3>2
  <2>2. CASE Update(c, [r EXCEPT !.pc = "write", !.status = "ambiguous",
                                 !.snap.state = "ambiguous"])
    <3> DEFINE s == [r EXCEPT !.pc = "write", !.status = "ambiguous",
                              !.snap.state = "ambiguous"]
    <3>1. /\ s \in CallStates /\ s.op = "submit" /\ s.exec = e /\ s.pc = "write"
          /\ s.sched = r.sched /\ s.status = "ambiguous"
          /\ s.snap.state = "ambiguous" /\ s.snap.job = NoJob
      BY <1>0, <1>2 DEF CallStates, Docs, DocStates, Statuses
    <3>2. call' = [call EXCEPT ![c] = s]
      BY <2>2 DEF Update
    <3> QED
      BY <3>1, <3>2
  <2> QED
    BY <1>0, <2>1, <2>2 DEF SubmitAccepted
<1>4. call'[c] = s /\ \A q \in Calls \ {c} : call'[q] = call[q]
  BY <1>3 DEF IInv, TypeOK, WorkerTypeOK
<1>5. TypeOK'
  BY <1>0, <1>1, <1>3, <1>4 DEF IInv, TypeOK, PlaneTypeOK, WorkerTypeOK
<1>6. JobInv'
  <2>1. \A k \in Jobs : jobPhase'[k] = "free" <=> jobExec'[k] = NoExec
    BY <1>0, <1>1, IdentityAssumption DEF IInv, JobInv
  <2>2. AtMostOneJob'
    BY <1>0, <1>1 DEF IInv, JobInv, AtMostOneJob, HasJob
  <2> QED
    BY <2>1, <2>2 DEF JobInv
<1>7. \A f \in Execs \ {e} : HasJob(f)' <=> HasJob(f)
  BY <1>0, <1>1, IdentityAssumption DEF HasJob
<1>8. DocInv'
  BY <1>0, <1>1, <1>7, IdentityAssumption
     DEF IInv, TypeOK, WorkerTypeOK, Docs, DocInv, Unresolved
<1>9. CallInv'
  <2> SUFFICES ASSUME NEW q \in Calls PROVE RecordInv(call[q])'
    BY DEF CallInv
  <2>1. CASE q = c
    BY <1>0, <1>1, <1>3, <1>4, <2>1
       DEF RecordInv, PrepareInv, SubmitInv, ObserveInv, Unresolved, IInv, TypeOK,
           WorkerTypeOK, Docs, NoDoc
  <2>2. CASE q # c
    <3>1. PICK t \in CallStates : t = call[q] /\ call'[q] = t /\ RecordInv(t)
      BY <1>4, <2>2 DEF IInv, CallInv, TypeOK, WorkerTypeOK
    <3>2. t.op = "submit" => t.exec # e
      BY <1>0, <2>2, <3>1 DEF IInv, UniqueInv, Clash
    <3>3. t.snap.job # NoJob => t.snap.job \in Jobs \ {j}
      BY <1>1, <3>1, IdentityAssumption DEF RecordInv, ObserveInv, CallStates, Docs
    <3>4. PrepareInv(call[q])'
      BY <1>0, <3>1 DEF RecordInv, PrepareInv
    <3>5. SubmitInv(call[q])'
      BY <1>0, <1>7, <3>1, <3>2 DEF RecordInv, SubmitInv, Unresolved
    <3>6. ObserveInv(call[q])'
      BY <1>0, <1>1, <3>1, <3>3 DEF RecordInv, ObserveInv
    <3> QED
      BY <3>1, <3>4, <3>5, <3>6 DEF RecordInv
  <2> QED
    BY <2>1, <2>2
<1>10. UniqueInv'
  <2>1. \A q \in Calls \ {c} : ~Clash(s, call[q])
    BY <1>0, <1>3 DEF IInv, UniqueInv, Clash
  <2> QED
    BY <1>4, <2>1 DEF IInv, UniqueInv, Clash
<1> QED
  BY <1>5, <1>6, <1>8, <1>9, <1>10 DEF IInv

\* Uploads touch nothing that the invariant speaks of.
LEMMA UploadInv ==
    ASSUME IInv, NEW e \in Execs, Upload(e)
    PROVE  IInv'
BY DEF Upload, IInv, TypeOK, PlaneTypeOK, WorkerTypeOK, JobInv, AtMostOneJob, DocInv, HasJob,
       CallInv, RecordInv, PrepareInv, SubmitInv, ObserveInv, Unresolved, UniqueInv, Clash,
       planeVars

\* Scheduler and compute worker.  A result is published by a running job; the
\* process that saw its execution's job ended saw its only job.
LEMMA PlaneInv ==
    ASSUME IInv, Plane
    PROVE  IInv'
<1>0. PICK j \in Jobs :
        \/ StartJob(j) \/ HoldJob(j) \/ ResumeJob(j) \/ EvictJob(j) \/ RequeueJob(j)
        \/ EndJob(j) \/ \E kind \in Outcomes : PublishResult(j, kind)
  BY DEF Plane, PlaneNext
<1>1. UNCHANGED <<dir, doc, staged, call>>
  BY DEF Plane, workerVars
<1>2. CASE ~\E kind \in Outcomes : PublishResult(j, kind)
  <2>1. Quiet
    BY <1>0, <1>2 DEF IInv, TypeOK, PlaneTypeOK, JobPhases, Quiet, MoveJob, StartJob,
                      HoldJob, ResumeJob, EvictJob, RequeueJob, EndJob
  <2>2. TypeOK' /\ JobInv' /\ DocInv'
    BY <1>1, <2>1 DEF IInv, TypeOK, PlaneTypeOK, WorkerTypeOK, JobInv, AtMostOneJob, DocInv,
                      HasJob, Quiet
  <2>3. CallInv' /\ UniqueInv'
    BY <1>1, <2>1 DEF IInv, TypeOK, WorkerTypeOK, CallStates, Docs, CallInv, RecordInv,
                      PrepareInv, SubmitInv, ObserveInv, HasJob, Unresolved, UniqueInv, Clash,
                      Quiet
  <2> QED
    BY <2>2, <2>3 DEF IInv
<1>3. CASE \E kind \in Outcomes : PublishResult(j, kind)
  <2>1. PICK kind \in Outcomes : PublishResult(j, kind)
    BY <1>3
  <2>2. jobPhase[j] = "running" /\ jobExec[j] \in Execs
    BY <2>1 DEF PublishResult, IInv, JobInv, TypeOK, PlaneTypeOK
  <2>3. /\ UNCHANGED <<jobExec, jobPhase>>
        /\ bundle' \in [Execs -> Outcomes \cup {"none"}]
        /\ \A e \in Execs \ {jobExec[j]} : bundle'[e] = bundle[e]
    BY <2>1, <2>2 DEF PublishResult, IInv, TypeOK, PlaneTypeOK
  <2>4. TypeOK' /\ JobInv' /\ DocInv' /\ UniqueInv'
    BY <1>1, <2>3 DEF IInv, TypeOK, PlaneTypeOK, WorkerTypeOK, JobInv, AtMostOneJob, DocInv,
                      HasJob, UniqueInv, Clash
  <2>5. CallInv'
    <3> SUFFICES ASSUME NEW q \in Calls PROVE RecordInv(call[q])'
      BY DEF CallInv
    <3>1. PICK t \in CallStates : t = call[q] /\ call'[q] = t /\ RecordInv(t)
      BY <1>1 DEF IInv, CallInv, TypeOK, WorkerTypeOK
    <3>2. /\ t.op = "reconcile" /\ t.pc \in {"result", "done"} /\ t.sched = "ended"
          => t.exec \in Execs \ {jobExec[j]}
      BY <2>2, <3>1 DEF RecordInv, ObserveInv, CallStates, Docs, IInv, JobInv, AtMostOneJob
    <3>3. PrepareInv(call[q])' /\ SubmitInv(call[q])'
      BY <1>1, <2>3, <3>1 DEF RecordInv, PrepareInv, SubmitInv, HasJob, Unresolved
    <3>4. ObserveInv(call[q])'
      BY <1>1, <2>3, <3>1, <3>2 DEF RecordInv, ObserveInv
    <3> QED
      BY <3>1, <3>3, <3>4 DEF RecordInv
  <2> QED
    BY <2>4, <2>5 DEF IInv
<1> QED
  BY <1>2, <1>3

-----------------------------------------------------------------------------
\* Every step preserves the invariant.
LEMMA NextInv == IInv /\ [Next]_vars => IInv'
<1> SUFFICES ASSUME IInv, [Next]_vars PROVE IInv'
  OBVIOUS
<1>1. CASE UNCHANGED vars
  BY <1>1 DEF vars, planeVars, workerVars, IInv, TypeOK, PlaneTypeOK, WorkerTypeOK, JobInv,
              AtMostOneJob, DocInv, HasJob, CallInv, RecordInv, PrepareInv, SubmitInv,
              ObserveInv, Unresolved, UniqueInv, Clash
<1>2. CASE Plane
  BY <1>2, PlaneInv
<1>3. ASSUME NEW c \in Calls, WorkerStep(c) PROVE IInv'
  BY <1>3, PrepareReadInv, PrepareMkdirInv, SubmitReadInv, SubmitVerifyInv,
     SubmitUnavailableInv, SubmitClaimInv, SubmitAcceptedInv, SubmitNotAcceptedInv,
     ReconcileReadInv, ReconcileObserveInv, ReconcileResultInv, CancelReadInv,
     CancelConfirmedInv, CancelUnconfirmedInv, WriteStateInv
     DEF WorkerStep
<1>4. ASSUME NEW c \in Calls, WorkerDies(c) PROVE IInv'
  BY <1>4, FailStep DEF WorkerDies, Alive
<1>5. ASSUME NEW c \in Calls, Return(c) PROVE IInv'
  BY <1>5, ReturnInv
<1>6. ASSUME NEW c \in Calls, NEW op \in Ops, NEW e \in Execs, Issue(c, op, e) PROVE IInv'
  BY <1>6, IssueInv
<1>7. ASSUME NEW e \in Execs, Upload(e) PROVE IInv'
  BY <1>7, UploadInv
<1> QED
  BY <1>1, <1>2, <1>3, <1>4, <1>5, <1>6, <1>7 DEF Next

\* The invariant holds in every reachable state.
LEMMA InvariantHolds == Spec => []IInv
  BY InitInv, NextInv, PTL DEF Spec

-----------------------------------------------------------------------------
(***************************************************************************)
(* The results, for every set of executions, jobs and worker processes.    *)
(***************************************************************************)

\* Every variable of the worker, and every process, keeps its type.
THEOREM TypeCorrect == Spec => []TypeOK
  BY InvariantHolds, PTL DEF IInv

\* However prepare, submit, reconcile and cancel calls of remote_worker.py
\* overlap, die and are repeated, no execution ever owns two scheduler jobs.
THEOREM OneJobPerExecution == Spec => []AtMostOneJob
  BY InvariantHolds, PTL DEF IInv, JobInv

\* submission_failed, and a refused submit, mean that the scheduler holds no
\* job for the execution.
THEOREM FailureIsTruthful == Spec => []FailedMeansNoJob
<1>1. IInv => FailedMeansNoJob
  BY DEF IInv, DocInv, CallInv, RecordInv, SubmitInv, FailedMeansNoJob
<1> QED
  BY <1>1, InvariantHolds, PTL

\* A reconcile that reports a finished job without a result is final.
THEOREM EndedIsFinal == Spec => []EndedWithoutResultIsFinal
<1>1. IInv => EndedWithoutResultIsFinal
  BY DEF IInv, CallInv, RecordInv, ObserveInv, EndedWithoutResultIsFinal
<1> QED
  BY <1>1, InvariantHolds, PTL

\* cancel and reconcile never act on another execution's job.
THEOREM JobsAreOwn == Spec => []KnownJobIsOwn
<1>1. IInv => KnownJobIsOwn
  BY DEF IInv, DocInv, CallInv, RecordInv, ObserveInv, KnownJobIsOwn
<1> QED
  BY <1>1, InvariantHolds, PTL

-----------------------------------------------------------------------------
\* The controller.

\* What a worker process answers with.
AnswerInv(r) ==
    /\ r.exec # NoExec => r.exec \in Created
    /\ r.result # "none" => r.exec \in Execs /\ r.result = bundle[r.exec]
    /\ r.op = "prepare" /\ r.pc = "done" /\ r.status = "ok" => dir[r.exec]

AnswersInv == \A c \in Calls : AnswerInv(call[c])

\* An execute command that has not sent its submit.
BeforeSubmit(r) ==
    \/ r.pc \in {"prepare", "prepared", "row", "upload"}
    \/ r.pc = "submit" /\ r.slot = NoCall

\* What a command knows at each of its program points.  The operation of the call that
\* it waits for has the name of the program point.
ClientInv(r) ==
    /\ r.exec # NoExec => r.exec \in Created
    /\ r.pc \notin {"idle", "create"} => r.exec # NoExec
    /\ r.pc = "create" => r.exec = NoExec
    /\ r.slot # NoCall =>
        /\ r.pc \in Ops /\ call[r.slot].op = r.pc
        /\ call[r.slot].pc # "idle" /\ call[r.slot].exec = r.exec
    /\ r.resp.result # "none" => r.exec # NoExec /\ r.resp.result = bundle[r.exec]
    /\ r.pc = "import" => Usable(r.resp.result)
    /\ r.pc \in {"prepared", "row", "upload"} => dir[r.exec]
    /\ BeforeSubmit(r) =>
        /\ r.cmd = "execute" /\ ~HasJob(r.exec)
        /\ \A c \in Calls : ~SubmitOpen(c, r.exec)

ClientsInv == \A p \in Clients : ClientInv(client[p])

\* No two commands wait for one call, and no two executes work on one execution.
Collide(r, s) ==
    \/ r.slot # NoCall /\ r.slot = s.slot
    \/ r.cmd = "execute" /\ s.cmd = "execute" /\ r.exec = s.exec /\ r.exec # NoExec

ApartInv == \A p, q \in Clients : Collide(client[p], client[q]) => p = q

ControlTypeOK ==
    /\ StoreTypeOK
    /\ client \in [Clients -> ClientStates]
    /\ spent \in [commands : 0..MaxCommands, lost : 0..MaxLost, crashes : 0..MaxCrashes]

\* A job is only ever handed out for an execution that the store knows.
JobsCreatedInv == \A e \in Execs : HasJob(e) => e \in Created

BInv ==
    /\ IInv
    /\ ControlTypeOK /\ AnswersInv /\ ClientsInv /\ ApartInv
    /\ JobsCreatedInv /\ OutcomeIsPublished

-----------------------------------------------------------------------------
\* What a step of the site can do to the controller's view of it.

\* Worker process c takes a step of its call, or dies: the call stays the same
\* one, a result in the answer is the published one, and prepare answers ok
\* only about a directory that exists.
WorkerKeeps(c) ==
    /\ call[c].pc \notin {"idle", "done"}
    /\ call'[c].op = call[c].op /\ call'[c].exec = call[c].exec /\ call'[c].pc # "idle"
    /\ \A d \in Calls \ {c} : call'[d] = call[d]
    /\ call'[c].result \in {"none", call[c].result, bundle[call[c].exec]}
    /\ call'[c].op = "prepare" /\ call'[c].pc = "done" /\ call'[c].status = "ok"
       => dir'[call[c].exec]

\* A process that fails answers with an error.
LEMMA FailKeeps ==
    ASSUME IInv, NEW c \in Calls, call[c].pc \notin {"idle", "done"}, Fail(c)
    PROVE  WorkerKeeps(c)
BY Current DEF Fail, Update, IdleCall, WorkerKeeps, IInv, TypeOK, WorkerTypeOK

\* So does every step that changes other parts of the process's record.
LEMMA UpdateKeeps ==
    ASSUME IInv, NEW c \in Calls, call[c].pc \notin {"idle", "done"},
           NEW t \in CallStates, t.op = call[c].op, t.exec = call[c].exec,
           t.result \in {"none", call[c].result, bundle[call[c].exec]}, NEW pc, pc # "idle"
    PROVE  /\ Update(c, [t EXCEPT !.pc = pc]) /\ pc # "done" => WorkerKeeps(c)
           /\ \A o : Update(c, [t EXCEPT !.pc = pc, !.sched = o]) /\ pc # "done"
                     => WorkerKeeps(c)
           /\ \A d : Update(c, [t EXCEPT !.pc = pc, !.snap = d]) /\ pc # "done"
                     => WorkerKeeps(c)
           /\ \A x : Update(c, [t EXCEPT !.pc = pc, !.snap.state = x]) /\ pc # "done"
                     => WorkerKeeps(c)
           /\ \A x, b : Update(c, [t EXCEPT !.pc = pc, !.status = b, !.snap.state = x])
                        /\ pc # "done" => WorkerKeeps(c)
           /\ \A x, b, j : Update(c, [t EXCEPT !.pc = pc, !.status = b, !.snap.state = x,
                                                 !.snap.job = j])
                           /\ pc # "done" => WorkerKeeps(c)
           /\ \A b : /\ Answer(c, t, b)
                     /\ t.op = "prepare" /\ b = "ok" => dir'[call[c].exec]
                     => WorkerKeeps(c)
<1>0. call[c] \in CallStates /\ call \in [Calls -> CallStates]
  BY DEF IInv, TypeOK, WorkerTypeOK
<1>1. ASSUME NEW s, Update(c, s), s.op = t.op, s.exec = t.exec, s.pc # "idle",
             s.result = t.result,
             s.op = "prepare" /\ s.pc = "done" /\ s.status = "ok" => dir'[call[c].exec]
      PROVE  WorkerKeeps(c)
  BY <1>0, <1>1 DEF Update, WorkerKeeps
<1>2. Update(c, [t EXCEPT !.pc = pc]) /\ pc # "done" => WorkerKeeps(c)
  BY <1>1 DEF CallStates
<1>3. ASSUME NEW o, Update(c, [t EXCEPT !.pc = pc, !.sched = o]), pc # "done"
      PROVE  WorkerKeeps(c)
  BY <1>1, <1>3 DEF CallStates
<1>4. ASSUME NEW d, Update(c, [t EXCEPT !.pc = pc, !.snap = d]), pc # "done"
      PROVE  WorkerKeeps(c)
  BY <1>1, <1>4 DEF CallStates
<1>5. ASSUME NEW x, Update(c, [t EXCEPT !.pc = pc, !.snap.state = x]), pc # "done"
      PROVE  WorkerKeeps(c)
  <2> DEFINE s == [t EXCEPT !.pc = pc, !.snap.state = x]
  <2>1. s.op = t.op /\ s.exec = t.exec /\ s.pc = pc /\ s.result = t.result
    BY DEF CallStates, Docs
  <2> QED
    BY <1>1, <1>5, <2>1
<1>6. ASSUME NEW x, NEW b, Update(c, [t EXCEPT !.pc = pc, !.status = b, !.snap.state = x]),
             pc # "done"
      PROVE  WorkerKeeps(c)
  <2> DEFINE s == [t EXCEPT !.pc = pc, !.status = b, !.snap.state = x]
  <2>1. s.op = t.op /\ s.exec = t.exec /\ s.pc = pc /\ s.result = t.result
    BY DEF CallStates, Docs
  <2> QED
    BY <1>1, <1>6, <2>1
<1>7. ASSUME NEW x, NEW b, NEW j, pc # "done",
             Update(c, [t EXCEPT !.pc = pc, !.status = b, !.snap.state = x, !.snap.job = j])
      PROVE  WorkerKeeps(c)
  <2> DEFINE s == [t EXCEPT !.pc = pc, !.status = b, !.snap.state = x, !.snap.job = j]
  <2>1. s.op = t.op /\ s.exec = t.exec /\ s.pc = pc /\ s.result = t.result
    BY DEF CallStates, Docs
  <2> QED
    BY <1>1, <1>7, <2>1
<1>8. ASSUME NEW b, Answer(c, t, b), t.op = "prepare" /\ b = "ok" => dir'[call[c].exec]
      PROVE  WorkerKeeps(c)
  BY <1>1, <1>8 DEF CallStates, Answer
<1> QED
  BY <1>2, <1>3, <1>4, <1>5, <1>6, <1>7, <1>8

\* Every step of a worker process has that effect.
LEMMA WorkerStepKeeps ==
    ASSUME IInv, NEW c \in Calls, WorkerStep(c)
    PROVE  WorkerKeeps(c)
<1> DEFINE r == call[c]
           s == [r EXCEPT !.snap = doc[r.exec]]
<1>0. /\ r \in CallStates /\ RecordInv(r)
      /\ r.pc # "idle" => r.exec \in Execs /\ doc[r.exec] \in Docs
      /\ r.pc # "idle" => bundle[r.exec] \in Outcomes \cup {"none"}
  BY Current DEF IInv, TypeOK, WorkerTypeOK
<1>s. r.pc # "idle" => s \in CallStates /\ s.op = r.op /\ s.exec = r.exec /\ s.result = r.result
  BY <1>0 DEF CallStates
<1>1. CASE PrepareRead(c)
  <2>1. doc[r.exec] # NoDoc => dir'[r.exec]
    BY <1>0, <1>1 DEF PrepareRead, IInv, DocInv
  <2> QED
    BY <1>0, <1>s, <1>1, <2>1, UpdateKeeps DEF PrepareRead
<1>2. CASE PrepareMkdir(c)
  BY <1>0, <1>2, UpdateKeeps, FailKeeps DEF PrepareMkdir
<1>3. CASE SubmitRead(c)
  BY <1>0, <1>s, <1>3, UpdateKeeps, FailKeeps DEF SubmitRead
<1>4. CASE SubmitVerify(c) \/ SubmitUnavailable(c) \/ SubmitClaim(c)
  <2>1. r.op = "submit"
    BY <1>0, <1>4 DEF SubmitVerify, SubmitUnavailable, SubmitClaim, RecordInv, SubmitInv
  <2> QED
    BY <1>0, <1>4, <2>1, UpdateKeeps DEF SubmitVerify, SubmitUnavailable, SubmitClaim
<1>5. CASE (\E j \in Jobs : SubmitAccepted(c, j)) \/ SubmitNotAccepted(c)
  BY <1>0, <1>5, UpdateKeeps DEF SubmitAccepted, SubmitNotAccepted
<1>6. CASE ReconcileRead(c)
  BY <1>0, <1>s, <1>6, UpdateKeeps, FailKeeps DEF ReconcileRead
<1>7. CASE ReconcileObserve(c)
  BY <1>0, <1>7, UpdateKeeps DEF ReconcileObserve
<1>8. CASE ReconcileResult(c)
  <2>1. r.op = "reconcile" /\ r.pc = "result"
    BY <1>0, <1>8 DEF ReconcileResult, RecordInv, ObserveInv
  <2> DEFINE t == [r EXCEPT !.result = bundle[r.exec]]
  <2>2. t \in CallStates /\ t.op = r.op /\ t.exec = r.exec /\ t.result = bundle[r.exec]
    BY <1>0, <2>1 DEF CallStates
  <2>3. CASE Answer(c, t, "ok")
    BY <2>1, <2>2, <2>3, UpdateKeeps
  <2>4. CASE ~Answer(c, t, "ok")
    BY <1>0, <1>8, <2>1, <2>4, UpdateKeeps DEF ReconcileResult
  <2> QED
    BY <2>3, <2>4
<1>9. CASE CancelRead(c)
  BY <1>0, <1>s, <1>9, UpdateKeeps, FailKeeps DEF CancelRead
<1>10. CASE CancelConfirmed(c) \/ CancelUnconfirmed(c)
  <2>1. r.op = "cancel"
    BY <1>0, <1>10 DEF CancelConfirmed, CancelUnconfirmed, RecordInv, ObserveInv
  <2> QED
    BY <1>0, <1>10, <2>1, UpdateKeeps DEF CancelConfirmed, CancelUnconfirmed
<1>11. CASE WriteState(c)
  <2>1. r.op = "prepare" => dir'[r.exec]
    BY <1>0, <1>11 DEF WriteState, RecordInv, PrepareInv
  <2> QED
    BY <1>0, <1>11, <2>1, UpdateKeeps DEF WriteState
<1> QED
  BY <1>1, <1>2, <1>3, <1>4, <1>5, <1>6, <1>7, <1>8, <1>9, <1>10, <1>11 DEF WorkerStep

\* Directories stay, results stay as they are, and a job appears only where a submit is open.
SiteKeeps ==
    \A e \in Execs :
        /\ dir[e] => dir'[e]
        /\ bundle[e] # "none" => bundle'[e] = bundle[e]
        /\ HasJob(e)' => HasJob(e) \/ \E d \in Calls : SubmitOpen(d, e) /\ call[d].pc = "run"

\* Every step of the worker's site has that effect, whoever takes it.
LEMMA SiteStepKeeps ==
    ASSUME IInv, Plane \/ \E c \in Calls : WorkerStep(c) \/ WorkerDies(c)
    PROVE  SiteKeeps
<1>1. CASE Plane
  <2>1. PICK j \in Jobs : UNCHANGED <<jobExec, bundle>>
                          \/ \E kind \in Outcomes : PublishResult(j, kind)
    BY <1>1 DEF Plane, PlaneNext, StartJob, HoldJob, ResumeJob, EvictJob, RequeueJob, EndJob,
                MoveJob
  <2> QED
    BY <1>1, <2>1
       DEF Plane, workerVars, PublishResult, SiteKeeps, HasJob, IInv, JobInv, TypeOK, PlaneTypeOK
<1>2. ASSUME NEW c \in Calls, NEW j \in Jobs, SubmitAccepted(c, j) PROVE SiteKeeps
  <2>1. /\ call[c].op = "submit" /\ call[c].pc = "run" /\ UNCHANGED <<dir, bundle>>
        /\ jobExec' = [jobExec EXCEPT ![j] = call[c].exec]
    BY <1>2 DEF SubmitAccepted, Accept
  <2>2. SubmitOpen(c, call[c].exec) /\ call[c].pc = "run"
    BY <2>1 DEF SubmitOpen
  <2> QED
    BY <2>1, <2>2 DEF SiteKeeps, HasJob, IInv, TypeOK, PlaneTypeOK
<1>3. ASSUME NEW c \in Calls, PrepareMkdir(c) PROVE SiteKeeps
  BY <1>3 DEF PrepareMkdir, SiteKeeps, HasJob, planeVars, IInv, TypeOK, WorkerTypeOK
<1>4. ASSUME NEW c \in Calls, WorkerDies(c) \/ WorkerStep(c),
             ~PrepareMkdir(c), \A j \in Jobs : ~SubmitAccepted(c, j)
      PROVE  SiteKeeps
  <2>1. UNCHANGED <<jobExec, bundle, dir>>
    BY <1>4 DEF WorkerDies, WorkerStep, PrepareRead, SubmitRead, SubmitVerify, SubmitUnavailable,
                SubmitClaim, SubmitNotAccepted, ReconcileRead, ReconcileObserve, ReconcileResult,
                CancelRead, CancelConfirmed, CancelUnconfirmed, KillJob, MoveJob, WriteState,
                planeVars
  <2> QED
    BY <2>1 DEF SiteKeeps, HasJob
<1> QED
  BY <1>1, <1>2, <1>3, <1>4

\* The site's steps are steps of the remote worker's specification.
LEMMA SiteIsNext ==
    ASSUME Plane \/ \E c \in Calls : WorkerStep(c) \/ WorkerDies(c)
    PROVE  Next
BY DEF Next

\* A step of the site leaves what the commands know true.
LEMMA SiteInv ==
    ASSUME BInv, Plane \/ \E c \in Calls : WorkerStep(c) \/ WorkerDies(c),
           UNCHANGED <<storeVars, client>>,
           spent' \in [commands : 0..MaxCommands, lost : 0..MaxLost, crashes : 0..MaxCrashes]
    PROVE  BInv'
<1>0. /\ IInv /\ IInv' /\ SiteKeeps
      /\ UNCHANGED <<created, execState, jobRow, remoteRow, imported, client>>
      /\ Created' = Created
  BY SiteIsNext, NextInv, SiteStepKeeps DEF BInv, storeVars, Created
<1>1. ControlTypeOK' /\ ApartInv'
  BY <1>0 DEF BInv, ControlTypeOK, StoreTypeOK, ApartInv, Collide
<1>2. call \in [Calls -> CallStates] /\ call' \in [Calls -> CallStates]
  BY <1>0 DEF IInv, TypeOK, WorkerTypeOK
<1>3. ASSUME NEW d \in Calls
      PROVE  /\ call'[d].op = call[d].op /\ call'[d].exec = call[d].exec
             /\ call'[d].pc = "idle" <=> call[d].pc = "idle"
             /\ AnswerInv(call[d])'
  <2>1. PICK r \in CallStates : r = call[d] /\ AnswerInv(r)
    BY <1>2 DEF BInv, AnswersInv
  <2>2. PICK s \in CallStates : s = call'[d]
    BY <1>2
  <2>3. r.pc # "idle" => r.exec \in Execs
    BY <1>0, <2>1 DEF IInv, CallInv, RecordInv
  <2>4. CASE r = s
    BY <1>0, <2>1, <2>2, <2>3, <2>4 DEF AnswerInv, SiteKeeps
  <2>5. CASE WorkerKeeps(d)
    BY <1>0, <2>1, <2>2, <2>3, <2>5 DEF AnswerInv, SiteKeeps, WorkerKeeps
  <2>6. r = s \/ WorkerKeeps(d)
    <3>1. CASE Plane
      BY <2>1, <2>2, <3>1 DEF Plane, workerVars
    <3>2. ASSUME NEW c \in Calls, WorkerStep(c) \/ WorkerDies(c) PROVE r = s \/ WorkerKeeps(d)
      <4>1. WorkerKeeps(c)
        BY <1>0, <3>2, WorkerStepKeeps, FailKeeps DEF WorkerDies, Alive
      <4> QED
        BY <2>1, <2>2, <4>1 DEF WorkerKeeps
    <3> QED
      BY <3>1, <3>2
  <2> QED
    BY <2>4, <2>5, <2>6
<1>4. AnswersInv'
  BY <1>3 DEF AnswersInv
<1>5. ClientsInv'
  <2> SUFFICES ASSUME NEW q \in Clients PROVE ClientInv(client[q])'
    BY DEF ClientsInv
  <2>1. PICK r \in ClientStates : r = client[q] /\ r = client'[q] /\ ClientInv(r)
    BY <1>0 DEF BInv, ControlTypeOK, ClientsInv
  <2>2. r.slot # NoCall => r.slot \in Calls
    BY DEF ClientStates
  <2>3. \A e \in Execs : (\A c \in Calls : ~SubmitOpen(c, e)) =>
            /\ \A c \in Calls : ~SubmitOpen(c, e)'
            /\ ~HasJob(e) => ~HasJob(e)'
    BY <1>0, <1>3 DEF SubmitOpen, SiteKeeps
  <2>4. BeforeSubmit(r) => /\ r.cmd = "execute" /\ ~HasJob(r.exec)'
                           /\ \A c \in Calls : ~SubmitOpen(c, r.exec)'
    <3>1. BeforeSubmit(r) => r.exec \in Execs
      BY <2>1 DEF BeforeSubmit, ClientInv, ClientStates
    <3> QED
      BY <2>1, <2>3, <3>1 DEF ClientInv
  <2>5. r.exec # NoExec => r.exec \in Execs
    BY DEF ClientStates
  <2>6. /\ r.resp.result # "none" => r.exec # NoExec /\ r.resp.result = bundle'[r.exec]
        /\ r.pc \in {"prepared", "row", "upload"} => dir'[r.exec]
    BY <1>0, <2>1, <2>5 DEF ClientInv, SiteKeeps
  <2>7. r.slot # NoCall =>
            /\ r.pc \in Ops /\ call'[r.slot].op = r.pc
            /\ call'[r.slot].pc # "idle" /\ call'[r.slot].exec = r.exec
    BY <1>3, <2>1, <2>2 DEF ClientInv
  <2> QED
    BY <1>0, <2>1, <2>4, <2>6, <2>7 DEF ClientInv, BeforeSubmit
<1>6. OutcomeIsPublished'
  BY <1>0 DEF BInv, OutcomeIsPublished, SiteKeeps
<1>7. JobsCreatedInv'
  BY <1>0, IdentityAssumption
     DEF BInv, JobsCreatedInv, SiteKeeps, AnswersInv, AnswerInv, SubmitOpen
<1> QED
  BY <1>0, <1>1, <1>4, <1>5, <1>6, <1>7 DEF BInv

-----------------------------------------------------------------------------
\* What a step of a command can do.

Bounds == [commands : 0..MaxCommands, lost : 0..MaxLost, crashes : 0..MaxCrashes]

\* No execution is created, nothing is imported, no outcome is claimed.
QuietStore ==
    /\ UNCHANGED <<created, imported>>
    /\ execState' \in [Execs -> ExecutionStates \cup {"absent"}]
    /\ jobRow' \in [Execs -> Jobs \cup {NoJob}]
    /\ remoteRow' \in [Execs -> [state : RemoteRowStates, sched : Observations \cup {"none"}]]
    /\ \A e \in Execs : \/ execState'[e] = execState[e]
                        \/ execState'[e] \notin {"completed", "preflight_failed"}

\* Command p, which becomes s, reads the answer of the call that it waits for, or starts a call
\* about its execution, or leaves the calls alone.
CallMove(p, s) ==
    \A d \in Calls :
        \/ call'[d] = call[d]
        \/ d = client[p].slot /\ call'[d] = IdleCall
        \/ /\ call[d].pc = "idle" /\ call'[d].pc = "start"
           /\ call'[d].exec = client[p].exec /\ call'[d].result = "none"
           /\ call'[d].op = "submit" => client[p].cmd = "execute"

\* A step of command p preserves the invariant if the new record satisfies its part.
LEMMA ControlStep ==
    ASSUME BInv, IInv', NEW p \in Clients, NEW s \in ClientStates,
           client' = [client EXCEPT ![p] = s],
           UNCHANGED <<planeVars, dir, doc>>, QuietStore, spent' \in Bounds,
           CallMove(p, s), ClientInv(s)',
           s.slot # NoCall => s.slot = client[p].slot \/ call[s.slot].pc = "idle",
           s.cmd = "execute" /\ s.exec # NoExec =>
               client[p].cmd = "execute" /\ client[p].exec = s.exec
    PROVE  BInv'
<1>0. /\ UNCHANGED <<jobExec, jobPhase, bundle, dir, created, imported>>
      /\ Created' = Created /\ \A e : HasJob(e)' <=> HasJob(e)
  BY DEF planeVars, QuietStore, Created, HasJob
<1>1. /\ client'[p] = s /\ \A q \in Clients \ {p} : client'[q] = client[q]
      /\ client' \in [Clients -> ClientStates]
  BY DEF BInv, ControlTypeOK
<1>2. ControlTypeOK'
  BY <1>0, <1>1 DEF BInv, ControlTypeOK, StoreTypeOK, QuietStore, Bounds
<1>3. OutcomeIsPublished' /\ JobsCreatedInv'
  BY <1>0 DEF BInv, OutcomeIsPublished, JobsCreatedInv, QuietStore
<1>4. AnswersInv'
  <2> SUFFICES ASSUME NEW d \in Calls PROVE AnswerInv(call[d])'
    BY DEF AnswersInv
  <2>1. call'[d] = call[d] => AnswerInv(call[d])'
    BY <1>0 DEF BInv, AnswersInv, AnswerInv
  <2>2. call'[d] = IdleCall => AnswerInv(call[d])'
    BY DEF AnswerInv, IdleCall
  <2>3. client[p].exec # NoExec => client[p].exec \in Created
    BY DEF BInv, ClientsInv, ClientInv
  <2> QED
    BY <1>0, <2>1, <2>2, <2>3 DEF CallMove, AnswerInv
<1>5. ASSUME NEW q \in Clients \ {p}, client[q].slot # NoCall
      PROVE  client[q].slot \in Calls /\ call'[client[q].slot] = call[client[q].slot]
             /\ call[client[q].slot].pc # "idle"
  <2>1. client[q].slot \in Calls /\ call[client[q].slot].pc # "idle"
    BY <1>5 DEF BInv, ControlTypeOK, ClientStates, ClientsInv, ClientInv
  <2>2. client[q].slot # client[p].slot
    BY <1>5 DEF BInv, ApartInv, Collide
  <2> QED
    BY <2>1, <2>2 DEF CallMove
<1>6. ClientsInv'
  <2> SUFFICES ASSUME NEW q \in Clients PROVE ClientInv(client[q])'
    BY DEF ClientsInv
  <2>1. CASE q = p
    BY <1>1, <2>1 DEF ClientInv, BeforeSubmit
  <2>2. CASE q # p
    <3>1. PICK r \in ClientStates : r = client[q] /\ r = client'[q] /\ ClientInv(r)
      BY <1>1, <2>2 DEF BInv, ControlTypeOK, ClientsInv
    <3>2. r.slot # NoCall =>
            /\ r.pc \in Ops /\ call'[r.slot].op = r.pc
            /\ call'[r.slot].pc # "idle" /\ call'[r.slot].exec = r.exec
      BY <1>5, <2>2, <3>1 DEF ClientInv
    <3>3. BeforeSubmit(r) => \A c \in Calls : ~SubmitOpen(c, r.exec)'
      <4> SUFFICES ASSUME BeforeSubmit(r), NEW c \in Calls, SubmitOpen(c, r.exec)'
                   PROVE  FALSE
        OBVIOUS
      <4>1. /\ r.cmd = "execute" /\ r.exec # NoExec /\ ~SubmitOpen(c, r.exec)
        BY <3>1 DEF ClientInv, BeforeSubmit
      <4>2. call'[c].op = "submit" /\ call'[c].exec = r.exec
        BY DEF SubmitOpen
      <4>3. call'[c] # call[c] /\ call'[c] # IdleCall
        BY <4>1, <4>2 DEF SubmitOpen, IdleCall
      <4>4. client[p].exec = r.exec /\ client[p].cmd = "execute"
        BY <4>2, <4>3 DEF CallMove
      <4> QED
        BY <2>2, <3>1, <4>1, <4>4 DEF BInv, ApartInv, Collide
    <3> QED
      BY <1>0, <3>1, <3>2, <3>3 DEF ClientInv, BeforeSubmit
  <2> QED
    BY <2>1, <2>2
<1>7. ApartInv'
  <2>1. \A q \in Clients \ {p} : ~Collide(s, client[q]) /\ ~Collide(client[q], s)
    BY <1>5 DEF BInv, ApartInv, Collide
  <2> QED
    BY <1>1, <2>1 DEF BInv, ApartInv
<1> QED
  BY <1>2, <1>3, <1>4, <1>6, <1>7 DEF BInv

\* What every step of the system has to do: preserve the invariant, be a step of the remote
\* worker's specification, and be a step of the execution contract.
Sound == BInv' /\ [Next]_vars /\ [Contract!Next]_contractVars

LEMMA ControlSound ==
    ASSUME BInv, [Next]_vars, NEW p \in Clients, NEW s \in ClientStates, Become(p, s),
           UNCHANGED <<planeVars, dir, doc>>, QuietStore, spent' \in Bounds,
           CallMove(p, s), ClientInv(s)',
           s.slot # NoCall => s.slot = client[p].slot \/ call[s.slot].pc = "idle",
           s.cmd = "execute" /\ s.exec # NoExec =>
               client[p].cmd = "execute" /\ client[p].exec = s.exec
    PROVE  Sound
<1>1. IInv'
  BY NextInv DEF BInv
<1>2. client' = [client EXCEPT ![p] = s]
  BY DEF Become
<1>3. UNCHANGED contractVars
  BY ContractStutter DEF planeVars, QuietStore
<1> QED
  BY <1>1, <1>2, <1>3, ControlStep DEF Sound

\* A command moves on without a call; the site does not notice.
LEMMA QuietMove ==
    ASSUME BInv, NEW p \in Clients, NEW s \in ClientStates, Become(p, s),
           UNCHANGED vars, QuietStore, spent' \in Bounds,
           s.slot = NoCall, ClientInv(s),
           s.cmd = "execute" /\ s.exec # NoExec =>
               client[p].cmd = "execute" /\ client[p].exec = s.exec
    PROVE  Sound
<1>1. /\ UNCHANGED <<planeVars, dir, doc>> /\ UNCHANGED <<jobExec, bundle, call>>
      /\ Created' = Created
  BY DEF vars, planeVars, workerVars, QuietStore, Created
<1>2. CallMove(p, s)
  BY <1>1 DEF CallMove
<1>3. ClientInv(s)'
  BY <1>1 DEF ClientInv, BeforeSubmit, HasJob, SubmitOpen
<1> QED
  BY <1>1, <1>2, <1>3, ControlSound

\* The store's transactions that neither create nor import.
LEMMA QuietTransactions ==
    ASSUME BInv
    PROVE  /\ UNCHANGED storeVars => QuietStore
           /\ \A e \in Execs, s \in ExecutionStates \ {"completed", "preflight_failed"} :
                update_execution_state(e, s) => QuietStore
           /\ \A e \in Execs, s \in RemoteRowStates, o \in Observations \cup {"none"} :
                save_remote_state(e, s, o) => QuietStore
           /\ \A e \in Execs, j \in Jobs : save_scheduler_job(e, j) => QuietStore
<1> USE DEF BInv, ControlTypeOK, StoreTypeOK, QuietStore
<1>1. UNCHANGED storeVars => QuietStore
  BY DEF storeVars
<1>2. ASSUME NEW e \in Execs, NEW s \in ExecutionStates \ {"completed", "preflight_failed"},
             update_execution_state(e, s)
      PROVE  QuietStore
  BY <1>2 DEF update_execution_state
<1>3. ASSUME NEW e \in Execs, NEW s \in RemoteRowStates, NEW o \in Observations \cup {"none"},
             save_remote_state(e, s, o)
      PROVE  QuietStore
  BY <1>3 DEF save_remote_state
<1>4. ASSUME NEW e \in Execs, NEW j \in Jobs, save_scheduler_job(e, j) PROVE QuietStore
  BY <1>4 DEF save_scheduler_job
<1> QED
  BY <1>1, <1>2, <1>3, <1>4

\* The command ends.
LEMMA FinishSound ==
    ASSUME BInv, NEW p \in Clients, Finish(p), UNCHANGED vars, QuietStore, spent' \in Bounds
    PROVE  Sound
<1>1. /\ IdleClient \in ClientStates /\ IdleClient.slot = NoCall /\ IdleClient.cmd = "idle"
      /\ IdleClient.exec = NoExec /\ IdleClient.pc = "idle" /\ IdleClient.resp.result = "none"
  BY DEF IdleClient, NoResponse, ClientStates, Responses, DocStates
<1>2. ClientInv(IdleClient)
  BY <1>1 DEF ClientInv, BeforeSubmit
<1> QED
  BY <1>1, <1>2, QuietMove DEF Finish

\* The command goes on at pc.
LEMMA GotoSound ==
    ASSUME BInv, NEW p \in Clients, NEW pc, Goto(p, pc), UNCHANGED vars, QuietStore,
           spent' \in Bounds, client[p].slot = NoCall,
           [client[p] EXCEPT !.pc = pc] \in ClientStates,
           client[p].pc \notin {"idle", "create"}, pc \notin {"idle", "create"},
           pc = "import" => Usable(client[p].resp.result),
           pc \in {"prepared", "row", "upload"} => dir[client[p].exec],
           pc \in {"prepare", "prepared", "row", "upload", "submit"} => BeforeSubmit(client[p])
    PROVE  Sound
<1> DEFINE s == [client[p] EXCEPT !.pc = pc]
<1>0. client[p] \in ClientStates /\ ClientInv(client[p])
  BY DEF BInv, ControlTypeOK, ClientsInv
<1>1. /\ s \in ClientStates /\ s.slot = NoCall /\ s.cmd = client[p].cmd /\ s.pc = pc
      /\ s.exec = client[p].exec /\ s.resp = client[p].resp
  BY <1>0 DEF ClientStates
<1> HIDE DEF s
<1>2. ClientInv(s)
  BY <1>0, <1>1 DEF ClientInv, BeforeSubmit
<1>3. Become(p, s)
  BY DEF Goto, s
<1> QED
  BY <1>1, <1>2, <1>3, QuietMove

\* A new command.
LEMMA BeginSound ==
    ASSUME BInv, NEW p \in Clients, NEW cmd, NEW e \in Created \cup {NoExec}, NEW pc,
           Begin(p, cmd, e, pc),
           [IdleClient EXCEPT !.cmd = cmd, !.exec = e, !.pc = pc] \in ClientStates,
           IF e = NoExec THEN pc = "create" ELSE pc \in {"reconcile", "cancel"},
           e # NoExec => cmd # "execute"
    PROVE  Sound
<1> DEFINE s == [IdleClient EXCEPT !.cmd = cmd, !.exec = e, !.pc = pc]
<1>1. /\ s \in ClientStates /\ s.slot = NoCall /\ s.cmd = cmd /\ s.pc = pc
      /\ s.exec = e /\ s.resp.result = "none"
  BY DEF IdleClient, NoResponse
<1>2. /\ Become(p, s) /\ UNCHANGED vars /\ QuietStore
  BY QuietTransactions DEF Begin
<1> HIDE DEF s
<1>3. ClientInv(s)
  BY <1>1 DEF ClientInv, BeforeSubmit
<1>4. spent' \in Bounds
  BY ClientAssumption DEF Begin, BInv, ControlTypeOK, Bounds
<1> QED
  BY <1>1, <1>2, <1>3, <1>4, QuietMove

\* A call leaves: it is one that the worker's specification allows.
LEMMA SendSound ==
    ASSUME BInv, NEW p \in Clients, NEW op \in Ops, Send(p, op),
           client[p].pc = op, client[p].slot = NoCall,
           op = "submit" => client[p].cmd = "execute"
    PROVE  Sound
<1>0. PICK r \in ClientStates : r = client[p] /\ ClientInv(r)
  BY DEF BInv, ControlTypeOK, ClientsInv
<1>1. PICK c \in Calls : /\ Invoke(c, op, r.exec) /\ UNCHANGED <<storeVars, spent>>
                         /\ Become(p, [r EXCEPT !.slot = c])
  BY <1>0 DEF Send
<1> DEFINE s == [r EXCEPT !.slot = c]
           t == [IdleCall EXCEPT !.op = op, !.exec = r.exec, !.pc = "start"]
<1>2. /\ s \in ClientStates /\ s.slot = c /\ s.cmd = r.cmd /\ s.pc = r.pc
      /\ s.exec = r.exec /\ s.resp = r.resp
  BY DEF ClientStates
<1>3. /\ call[c].pc = "idle" /\ call' = [call EXCEPT ![c] = t]
      /\ UNCHANGED <<planeVars, dir, doc, staged>>
  BY <1>1 DEF Invoke, Update
<1>4. t.op = op /\ t.exec = r.exec /\ t.pc = "start" /\ t.result = "none"
  BY DEF IdleCall
<1> HIDE DEF s, t
<1>5. /\ call'[c] = t /\ \A d \in Calls \ {c} : call'[d] = call[d]
      /\ r.exec \in Execs /\ c # NoCall
  BY <1>0, <1>3, ClientAssumption DEF BInv, IInv, TypeOK, WorkerTypeOK, ClientInv, ClientStates,
                                      Ops
<1>6. Next
  <2>1. op = "submit" => \A d \in Calls : ~SubmitOpen(d, r.exec)
    BY <1>0 DEF ClientInv, BeforeSubmit
  <2>2. Issue(c, op, r.exec)
    BY <1>1, <2>1 DEF Issue
  <2> QED
    BY <1>5, <2>2 DEF Next
<1>7. QuietStore /\ Created' = Created
  BY <1>1, QuietTransactions DEF storeVars, Created
<1>8. CallMove(p, s)
  BY <1>0, <1>3, <1>4, <1>5 DEF CallMove
<1>9. ClientInv(s)'
  <2>1. /\ s.exec # NoExec => s.exec \in Created'
        /\ s.pc \notin {"idle", "create"} => s.exec # NoExec
        /\ s.pc = "create" => s.exec = NoExec
        /\ s.pc \in Ops /\ call'[s.slot].op = s.pc /\ call'[s.slot].pc # "idle"
        /\ call'[s.slot].exec = s.exec
    BY <1>0, <1>2, <1>4, <1>5, <1>7 DEF ClientInv
  <2>2. /\ s.resp.result # "none" => s.exec # NoExec /\ s.resp.result = bundle'[s.exec]
        /\ s.pc \notin {"import", "prepared", "row", "upload"}
    BY <1>0, <1>2, <1>3 DEF ClientInv, planeVars, Ops
  <2>3. BeforeSubmit(s) => /\ s.cmd = "execute" /\ ~HasJob(s.exec)'
                           /\ \A d \in Calls : ~SubmitOpen(d, s.exec)'
    <3> SUFFICES ASSUME BeforeSubmit(s)
                 PROVE  /\ s.cmd = "execute" /\ ~HasJob(s.exec)'
                        /\ \A d \in Calls : ~SubmitOpen(d, s.exec)'
      OBVIOUS
    <3>1. op = "prepare" /\ BeforeSubmit(r)
      BY <1>0, <1>2, <1>5 DEF BeforeSubmit, Ops
    <3>2. r.cmd = "execute" /\ ~HasJob(r.exec) /\ \A d \in Calls : ~SubmitOpen(d, r.exec)
      BY <1>0, <3>1 DEF ClientInv
    <3> QED
      BY <1>2, <1>3, <1>4, <1>5, <3>1, <3>2 DEF HasJob, SubmitOpen, planeVars
  <2> QED
    BY <2>1, <2>2, <2>3 DEF ClientInv
<1>10. spent' \in Bounds
  BY <1>1 DEF BInv, ControlTypeOK, Bounds
<1> QED
  BY <1>0, <1>1, <1>2, <1>3, <1>6, <1>7, <1>8, <1>9, <1>10, ControlSound DEF s

\* An answer arrives.
LEMMA ReceiveSound ==
    ASSUME BInv, NEW p \in Clients, NEW pc, Receive(p, pc), client[p].slot # NoCall,
           [client[p] EXCEPT !.pc = pc] \in ClientStates,
           pc \notin {"idle", "create", "import", "prepare", "row", "upload", "submit"},
           pc = "prepared" => client[p].pc = "prepare" /\ Awaited(p).status = "ok"
    PROVE  Sound
<1>0. PICK r \in ClientStates : r = client[p] /\ ClientInv(r)
  BY DEF BInv, ControlTypeOK, ClientsInv
<1>1. PICK c \in Calls : c = r.slot
  BY <1>0 DEF ClientStates
<1>2. PICK a \in CallStates : a = call[c] /\ AnswerInv(a)
  BY <1>1 DEF BInv, IInv, TypeOK, WorkerTypeOK, AnswersInv
<1> DEFINE m == [state |-> a.snap.state, job |-> a.snap.job, sched |-> a.sched,
                 result |-> a.result]
           s == [r EXCEPT !.pc = pc, !.slot = NoCall, !.resp = m]
<1>3. /\ a.pc = "done" /\ Become(p, s) /\ Update(c, IdleCall)
      /\ UNCHANGED <<planeVars, dir, doc, staged, storeVars, spent>>
  BY <1>0, <1>1, <1>2 DEF Receive, Awaited
<1>4. m \in Responses /\ m.result = a.result
  BY DEF Responses, CallStates, Docs
<1> HIDE DEF m
<1>5. /\ s \in ClientStates /\ s.slot = NoCall /\ s.cmd = r.cmd /\ s.pc = pc
      /\ s.exec = r.exec /\ s.resp = m
  BY <1>0, <1>4 DEF ClientStates
<1> HIDE DEF s
<1>6. r.exec = a.exec /\ a.op = r.pc /\ r.pc \in Ops /\ r.exec # NoExec /\ r.exec \in Created
  BY <1>0, <1>1, <1>2 DEF ClientInv, Ops
<1>7. Next
  BY <1>2, <1>3 DEF Next, Return
<1>8. CallMove(p, s)
  BY <1>0, <1>1, <1>3 DEF CallMove, Update, BInv, IInv, TypeOK, WorkerTypeOK
<1>9. QuietStore /\ Created' = Created
  BY <1>3, QuietTransactions DEF storeVars, Created
<1>10. ClientInv(s)'
  <2>1. pc = "prepared" => dir'[r.exec]
    BY <1>0, <1>1, <1>2, <1>3, <1>6 DEF AnswerInv, Awaited
  <2>2. m.result # "none" => m.result = bundle'[r.exec]
    BY <1>2, <1>3, <1>4, <1>6 DEF AnswerInv, planeVars
  <2>3. pc = "prepared" => BeforeSubmit(r)
    BY <1>0 DEF BeforeSubmit
  <2>4. pc = "prepared" => /\ r.cmd = "execute" /\ ~HasJob(r.exec)'
                           /\ \A d \in Calls : ~SubmitOpen(d, r.exec)'
    <3> SUFFICES ASSUME pc = "prepared"
                 PROVE  /\ r.cmd = "execute" /\ ~HasJob(r.exec)'
                        /\ \A d \in Calls : ~SubmitOpen(d, r.exec)'
      OBVIOUS
    <3>1. r.cmd = "execute" /\ ~HasJob(r.exec) /\ \A d \in Calls : ~SubmitOpen(d, r.exec)
      BY <1>0, <2>3 DEF ClientInv
    <3>2. \A d \in Calls : call'[d] = call[d] \/ call'[d].op = "idle"
      BY <1>3 DEF Update, IdleCall, BInv, IInv, TypeOK, WorkerTypeOK
    <3> QED
      BY <1>3, <3>1, <3>2 DEF HasJob, SubmitOpen, planeVars
  <2> QED
    BY <1>5, <1>6, <1>9, <2>1, <2>2, <2>4 DEF ClientInv, BeforeSubmit
<1>11. spent' \in Bounds
  BY <1>3 DEF BInv, ControlTypeOK, Bounds
<1> QED
  BY <1>0, <1>3, <1>5, <1>7, <1>8, <1>9, <1>10, <1>11, ControlSound

\* An answer is lost: the bound is used up or the worker had failed anyway.
LEMMA LoseBounds ==
    ASSUME BInv, NEW p \in Clients, Lose(p)
    PROVE  spent' \in Bounds /\ UNCHANGED vars /\ QuietStore
BY ClientAssumption, QuietTransactions DEF Lose, BInv, ControlTypeOK, Bounds

LEMMA LoseThenSound ==
    ASSUME BInv, NEW p \in Clients, NEW pc, LoseThen(p, pc), client[p].slot # NoCall,
           pc \in {"handler", "reconcile", "ambiguous"}
    PROVE  Sound
<1>0. PICK r \in ClientStates : r = client[p] /\ ClientInv(r)
  BY DEF BInv, ControlTypeOK, ClientsInv
<1> DEFINE s == [r EXCEPT !.pc = pc, !.slot = NoCall]
<1>1. /\ s \in ClientStates /\ s.slot = NoCall /\ s.cmd = r.cmd /\ s.pc = pc
      /\ s.exec = r.exec /\ s.resp = r.resp
  BY DEF ClientStates
<1>2. Become(p, s) /\ UNCHANGED vars /\ QuietStore /\ spent' \in Bounds
  BY <1>0, LoseBounds DEF LoseThen
<1> HIDE DEF s
<1>3. ClientInv(s)
  BY <1>0, <1>1 DEF ClientInv, BeforeSubmit, Ops
<1> QED
  BY <1>0, <1>1, <1>2, <1>3, QuietMove

\* An answer that nobody waits for disappears.
LEMMA DiscardSound ==
    ASSUME BInv, NEW c \in Calls, Discard(c)
    PROVE  Sound
<1>1. /\ Return(c) /\ UNCHANGED <<planeVars, dir, doc, storeVars, client, spent>>
      /\ call[c].pc = "done" /\ \A p \in Clients : client[p].slot # c
      /\ call' = [call EXCEPT ![c] = IdleCall]
  BY DEF Discard, Return, Update
<1>2. Next /\ IInv'
  <2>1. Next
    BY <1>1 DEF Next
  <2> QED
    BY <2>1, NextInv DEF BInv
<1>3. /\ UNCHANGED <<jobExec, bundle, created, execState, jobRow, remoteRow, imported>>
      /\ Created' = Created /\ UNCHANGED contractVars
  BY <1>1, ContractStutter DEF planeVars, storeVars, Created
<1>4. /\ call'[c] = IdleCall /\ \A d \in Calls \ {c} : call'[d] = call[d]
  BY <1>1 DEF BInv, IInv, TypeOK, WorkerTypeOK
<1>5. ControlTypeOK' /\ ApartInv' /\ JobsCreatedInv' /\ OutcomeIsPublished'
  BY <1>1, <1>3 DEF BInv, ControlTypeOK, StoreTypeOK, ApartInv, Collide, JobsCreatedInv, HasJob,
                    OutcomeIsPublished
<1>6. AnswersInv'
  BY <1>1, <1>3, <1>4 DEF BInv, AnswersInv, AnswerInv, IdleCall
<1>7. ClientsInv'
  <2> SUFFICES ASSUME NEW q \in Clients PROVE ClientInv(client[q])'
    BY DEF ClientsInv
  <2>1. PICK r \in ClientStates : r = client[q] /\ r = client'[q] /\ ClientInv(r)
    BY <1>1 DEF BInv, ControlTypeOK, ClientsInv
  <2>2. r.slot # NoCall => call'[r.slot] = call[r.slot]
    BY <1>1, <1>4, <2>1 DEF ClientStates
  <2>3. \A d \in Calls : SubmitOpen(d, r.exec)' => SubmitOpen(d, r.exec)
    BY <1>4 DEF SubmitOpen, IdleCall
  <2> QED
    BY <1>1, <1>3, <2>1, <2>2, <2>3 DEF ClientInv, BeforeSubmit, HasJob
<1> QED
  BY <1>2, <1>3, <1>5, <1>6, <1>7 DEF BInv, Sound

\* The artifacts are uploaded into the directory that prepare made.
LEMMA ExecuteUploadSound ==
    ASSUME BInv, NEW p \in Clients, ExecuteUpload(p)
    PROVE  Sound
<1>0. PICK r \in ClientStates : r = client[p] /\ ClientInv(r)
  BY DEF BInv, ControlTypeOK, ClientsInv
<1>1. r.pc = "upload" /\ r.slot = NoCall /\ r.exec \in Execs /\ dir[r.exec] /\ BeforeSubmit(r)
  BY <1>0 DEF ExecuteUpload, At, ClientInv, BeforeSubmit, ClientStates
<1>2. CASE Goto(p, "handler") /\ LocalStep
  <2>1. [r EXCEPT !.pc = "handler"] \in ClientStates
    BY DEF ClientStates
  <2>2. UNCHANGED vars /\ QuietStore /\ spent' \in Bounds
    BY <1>2, QuietTransactions DEF LocalStep, BInv, ControlTypeOK, Bounds
  <2> QED
    BY <1>0, <1>1, <1>2, <2>1, <2>2, GotoSound
<1>3. CASE /\ staged' = [staged EXCEPT ![client[p].exec] = TRUE]
           /\ Goto(p, "submit")
           /\ UNCHANGED <<planeVars, dir, doc, call, storeVars, spent>>
  <2> DEFINE s == [r EXCEPT !.pc = "submit"]
  <2>1. /\ s \in ClientStates /\ s.slot = NoCall /\ s.cmd = r.cmd /\ s.pc = "submit"
        /\ s.exec = r.exec /\ s.resp = r.resp
    BY <1>1 DEF ClientStates
  <2>2. Become(p, s) /\ UNCHANGED <<planeVars, dir, doc, call>>
    BY <1>0, <1>3 DEF Goto
  <2> HIDE DEF s
  <2>3. [Next]_vars
    <3>1. CASE staged[r.exec]
      BY <1>0, <1>1, <1>3, <3>1 DEF vars, workerVars, BInv, IInv, TypeOK, WorkerTypeOK
    <3>2. CASE ~staged[r.exec]
      <4>1. Upload(r.exec)
        BY <1>0, <1>1, <1>3, <3>2 DEF Upload
      <4> QED
        BY <1>1, <4>1 DEF Next
    <3> QED
      BY <3>1, <3>2
  <2>4. QuietStore /\ Created' = Created /\ spent' \in Bounds
    BY <1>3, QuietTransactions DEF storeVars, Created, BInv, ControlTypeOK, Bounds
  <2>5. CallMove(p, s)
    BY <2>2 DEF CallMove
  <2>6. ClientInv(s)'
    BY <1>0, <1>1, <2>1, <2>2, <2>4 DEF ClientInv, BeforeSubmit, HasJob, SubmitOpen, planeVars
  <2> QED
    BY <1>0, <2>1, <2>2, <2>3, <2>4, <2>5, <2>6, ControlSound
<1> QED
  BY <1>2, <1>3 DEF ExecuteUpload

\* A new execution: nobody has heard of it, neither a command, a call nor the scheduler.
LEMMA ExecuteCreateSound ==
    ASSUME BInv, NEW p \in Clients, ExecuteCreate(p)
    PROVE  Sound
<1>0. PICK r \in ClientStates : r = client[p] /\ ClientInv(r)
  BY DEF BInv, ControlTypeOK, ClientsInv
<1>1. PICK e \in Execs : create_execution(e)
                         /\ Become(p, [client[p] EXCEPT !.exec = e, !.pc = "prepare"])
  BY DEF ExecuteCreate
<1> DEFINE s == [r EXCEPT !.exec = e, !.pc = "prepare"]
<1>2. /\ r.cmd = "execute" /\ r.pc = "create" /\ r.slot = NoCall /\ r.exec = NoExec
      /\ r.resp.result = "none"
  BY <1>0 DEF ExecuteCreate, At, ClientInv
<1>3. /\ s \in ClientStates /\ s.slot = NoCall /\ s.cmd = "execute" /\ s.pc = "prepare"
      /\ s.exec = e /\ s.resp.result = "none"
  BY <1>2 DEF ClientStates
<1>4. client' = [client EXCEPT ![p] = s]
  BY <1>0, <1>1 DEF Become
<1> HIDE DEF s
<1>5. /\ UNCHANGED <<vars, spent, jobExec, jobPhase, bundle, dir, doc, call>>
      /\ UNCHANGED <<imported, jobRow, remoteRow>>
  BY <1>1 DEF ExecuteCreate, StoreStep, create_execution, vars, planeVars, workerVars
<1>6. IInv' /\ [Next]_vars /\ UNCHANGED contractVars
  BY <1>5, NextInv, ContractStutter DEF BInv
<1>7. /\ e \notin Created /\ created' \in Seq(Execs) /\ Created' = Created \cup {e}
      /\ e # NoExec
  BY <1>1, CreatedGrows, IdentityAssumption DEF create_execution, BInv, ControlTypeOK, StoreTypeOK
<1>8. ~HasJob(e) /\ \A c \in Calls : ~SubmitOpen(c, e)
  BY <1>7 DEF BInv, JobsCreatedInv, AnswersInv, AnswerInv, SubmitOpen
<1>9. /\ client'[p] = s /\ \A q \in Clients \ {p} : client'[q] = client[q]
      /\ client' \in [Clients -> ClientStates]
  BY <1>3, <1>4 DEF BInv, ControlTypeOK
<1>10. ControlTypeOK' /\ OutcomeIsPublished'
  <2>1. execState' = [execState EXCEPT ![e] = "planned"]
    BY <1>1 DEF create_execution
  <2> QED
    BY <1>5, <1>7, <1>9, <2>1
       DEF BInv, ControlTypeOK, StoreTypeOK, ExecutionStates, OutcomeIsPublished
<1>11. AnswersInv' /\ JobsCreatedInv'
  BY <1>5, <1>7 DEF BInv, AnswersInv, AnswerInv, JobsCreatedInv, HasJob
<1>12. ClientsInv'
  <2> SUFFICES ASSUME NEW q \in Clients PROVE ClientInv(client[q])'
    BY DEF ClientsInv
  <2>1. CASE q = p
    <3>1. ClientInv(s)'
      BY <1>3, <1>5, <1>7, <1>8 DEF ClientInv, BeforeSubmit, HasJob, SubmitOpen
    <3> QED
      BY <1>9, <2>1, <3>1 DEF ClientInv, BeforeSubmit
  <2>2. CASE q # p
    <3>1. PICK t \in ClientStates : t = client[q] /\ t = client'[q] /\ ClientInv(t)
      BY <1>9, <2>2 DEF BInv, ControlTypeOK, ClientsInv
    <3> QED
      BY <1>5, <1>7, <3>1 DEF ClientInv, BeforeSubmit, HasJob, SubmitOpen
  <2> QED
    BY <2>1, <2>2
<1>13. ApartInv'
  <2>1. \A q \in Clients \ {p} : ~Collide(s, client[q]) /\ ~Collide(client[q], s)
    <3>1. \A q \in Clients : client[q].exec # e
      BY <1>7 DEF BInv, ClientsInv, ClientInv
    <3> QED
      BY <1>3, <3>1 DEF Collide
  <2> QED
    BY <1>9, <2>1 DEF BInv, ApartInv
<1> QED
  BY <1>6, <1>10, <1>11, <1>12, <1>13 DEF BInv, Sound

\* The import: the result in the answer is the published one.
LEMMA CollectImportSound ==
    ASSUME BInv, NEW p \in Clients, CollectImport(p)
    PROVE  Sound
<1>0. PICK r \in ClientStates : r = client[p] /\ ClientInv(r)
  BY DEF BInv, ControlTypeOK, ClientsInv
<1>1. /\ r.pc = "import" /\ r.exec \in Execs /\ Usable(r.resp.result) /\ UNCHANGED vars
      /\ UNCHANGED spent /\ Finish(p) /\ r.resp.result = bundle[r.exec]
      /\ bundle[r.exec] # "none"
  BY <1>0 DEF CollectImport, At, ClientInv, ClientStates, StoreStep, LocalStep, Usable
<1>2. CASE UNCHANGED storeVars
  BY <1>1, <1>2, FinishSound, QuietTransactions DEF BInv, ControlTypeOK, Bounds
<1>3. CASE import_result(r.exec, r.resp.result)
  <2>1. /\ UNCHANGED <<jobExec, jobPhase, bundle, dir, doc, call>>
        /\ UNCHANGED <<created, jobRow, remoteRow>> /\ Created' = Created
        /\ imported' = [imported EXCEPT ![r.exec] = bundle[r.exec]]
        /\ execState' = [execState EXCEPT ![r.exec] = bundle[r.exec]]
    BY <1>1, <1>3 DEF import_result, vars, planeVars, workerVars, Created
  <2>2. IInv' /\ [Next]_vars
    BY <1>1, NextInv DEF BInv
  <2>3. Contract!Next
    BY <1>1, <1>3, <2>1, ImportReports
  <2>4. bundle[r.exec] \in Outcomes /\ bundle[r.exec] \in ExecutionStates
    BY <1>1, OutcomeAssumption
       DEF BInv, IInv, TypeOK, PlaneTypeOK, ExecutionStates, Usable
  <2>5. /\ IdleClient \in ClientStates /\ IdleClient.slot = NoCall /\ IdleClient.cmd = "idle"
        /\ IdleClient.exec = NoExec /\ IdleClient.pc = "idle"
        /\ IdleClient.resp.result = "none"
    BY DEF IdleClient, NoResponse, ClientStates, Responses, DocStates
  <2>6. /\ client'[p] = IdleClient /\ \A q \in Clients \ {p} : client'[q] = client[q]
        /\ client' \in [Clients -> ClientStates]
    BY <1>1, <2>5 DEF Finish, Become, BInv, ControlTypeOK
  <2> HIDE DEF IdleClient
  <2>7. ControlTypeOK' /\ OutcomeIsPublished' /\ JobsCreatedInv'
    BY <1>1, <2>1, <2>4, <2>6 DEF BInv, ControlTypeOK, StoreTypeOK, OutcomeIsPublished,
                                  JobsCreatedInv, HasJob
  <2>8. AnswersInv'
    BY <2>1 DEF BInv, AnswersInv, AnswerInv
  <2>9. ClientsInv'
    <3> SUFFICES ASSUME NEW q \in Clients PROVE ClientInv(client[q])'
      BY DEF ClientsInv
    <3>1. CASE q = p
      BY <2>5, <2>6, <3>1 DEF ClientInv, BeforeSubmit
    <3>2. CASE q # p
      <4>1. PICK t \in ClientStates : t = client[q] /\ t = client'[q] /\ ClientInv(t)
        BY <2>6, <3>2 DEF BInv, ControlTypeOK, ClientsInv
      <4> QED
        BY <2>1, <4>1 DEF ClientInv, BeforeSubmit, HasJob, SubmitOpen
    <3> QED
      BY <3>1, <3>2
  <2>10. ApartInv'
    <3>1. \A t : ~Collide(IdleClient, t) /\ ~Collide(t, IdleClient)
      BY <2>5 DEF Collide
    <3> QED
      BY <2>6, <3>1 DEF BInv, ApartInv
  <2> QED
    BY <2>2, <2>3, <2>7, <2>8, <2>9, <2>10 DEF BInv, Sound
<1> QED
  BY <1>0, <1>2, <1>3 DEF CollectImport, LocalStep

-----------------------------------------------------------------------------
\* The commands, step by step.

\* What the invariant says of command p.
LEMMA Command ==
    ASSUME BInv, NEW p \in Clients
    PROVE  /\ client[p] \in ClientStates /\ ClientInv(client[p])
           /\ client[p].pc \notin {"idle", "create"} => client[p].exec \in Execs
           /\ client[p].resp.state \in RemoteRowStates
           /\ client[p].resp.sched \in Observations \cup {"none"}
           /\ client[p].resp.job \in Jobs \cup {NoJob}
           /\ UNCHANGED spent => spent' \in Bounds
BY DEF BInv, ControlTypeOK, ClientsInv, ClientInv, ClientStates, Responses, Bounds,
       RemoteRowStates, DocStates

\* Every program point is one.
LEMMA ProgramPoint ==
    ASSUME BInv, NEW p \in Clients
    PROVE  \A pc \in {"prepared", "row", "handler", "submit", "reconcile", "reject", "ambiguous",
                      "ambiguous_row", "save_job", "submitted", "submitted_row", "upload",
                      "handler_write", "record", "record_save", "record_state", "record_row",
                      "result", "import", "poll", "collection_failed", "cancel_refused",
                      "cancelled", "cancelled_state", "cancelled_row"} :
              [client[p] EXCEPT !.pc = pc] \in ClientStates
BY DEF BInv, ControlTypeOK, ClientStates

LEMMA NewCommand ==
    \A cmd \in {"execute", "collect", "wait", "cancel"}, e \in Execs \cup {NoExec},
       pc \in {"create", "reconcile", "cancel"} :
        [IdleClient EXCEPT !.cmd = cmd, !.exec = e, !.pc = pc] \in ClientStates
BY DEF IdleClient, NoResponse, ClientStates, Responses, DocStates

\* A command that polls again forgets the last answer.
LEMMA PollAgain ==
    ASSUME BInv, NEW p \in Clients, client[p].pc = "poll", client[p].slot = NoCall,
           Become(p, [client[p] EXCEPT !.pc = "reconcile", !.resp = NoResponse]),
           UNCHANGED vars, QuietStore, spent' \in Bounds
    PROVE  Sound
<1> DEFINE s == [client[p] EXCEPT !.pc = "reconcile", !.resp = NoResponse]
<1>0. client[p] \in ClientStates /\ ClientInv(client[p])
  BY Command
<1>1. /\ s \in ClientStates /\ s.slot = NoCall /\ s.cmd = client[p].cmd
      /\ s.pc = "reconcile" /\ s.exec = client[p].exec /\ s.resp.result = "none"
  BY <1>0 DEF ClientStates, NoResponse, Responses, DocStates
<1>2. Become(p, s)
  OBVIOUS
<1> HIDE DEF s
<1>3. ClientInv(s)
  BY <1>0, <1>1 DEF ClientInv, BeforeSubmit
<1> QED
  BY <1>1, <1>2, <1>3, QuietMove

LEMMA CrashSound ==
    ASSUME BInv, NEW p \in Clients, Crash(p)
    PROVE  Sound
<1>1. spent' \in Bounds
  BY ClientAssumption DEF Crash, Quit, BInv, ControlTypeOK, Bounds
<1> QED
  BY <1>1, FinishSound, QuietTransactions DEF Crash, Quit

LEMMA ExecuteSound ==
    ASSUME BInv, NEW p \in Clients, ExecuteStep(p)
    PROVE  Sound
<1>0. /\ client[p] \in ClientStates /\ ClientInv(client[p])
      /\ client[p].pc \notin {"idle", "create"} => client[p].exec \in Execs
      /\ UNCHANGED spent => spent' \in Bounds
  BY Command
<1> USE <1>0, ProgramPoint
<1>1. CASE ExecuteBegin(p)
  BY <1>1, NewCommand, BeginSound DEF ExecuteBegin
<1>2. CASE ExecuteCreate(p)
  BY <1>2, ExecuteCreateSound
<1>3. CASE ExecutePrepare(p)
  BY <1>3, SendSound, GotoSound, QuietTransactions DEF ExecutePrepare, At, LocalStep, Ops
<1>4. CASE ExecutePrepareReply(p)
  BY <1>4, ReceiveSound, LoseThenSound DEF ExecutePrepareReply, Waiting
<1>5. CASE ExecutePrepared(p)
  <2>1. /\ client[p].pc = "prepared" /\ client[p].slot = NoCall /\ UNCHANGED vars /\ QuietStore
        /\ spent' \in Bounds /\ Goto(p, "row")
    BY <1>5, QuietTransactions DEF ExecutePrepared, At, StoreStep, ExecutionStates
  <2>2. dir[client[p].exec] /\ BeforeSubmit(client[p])
    BY <2>1 DEF ClientInv, BeforeSubmit
  <2> QED
    BY <2>1, <2>2, GotoSound
<1>6. CASE ExecutePreparedRow(p)
  <2>1. /\ client[p].pc = "row" /\ client[p].slot = NoCall /\ UNCHANGED vars /\ QuietStore
        /\ spent' \in Bounds /\ Goto(p, "upload")
    BY <1>6, QuietTransactions DEF ExecutePreparedRow, At, StoreStep, RemoteRowStates
  <2>2. dir[client[p].exec] /\ BeforeSubmit(client[p])
    BY <2>1 DEF ClientInv, BeforeSubmit
  <2> QED
    BY <2>1, <2>2, GotoSound
<1>7. CASE ExecuteUpload(p)
  BY <1>7, ExecuteUploadSound
<1>8. CASE ExecuteSubmit(p)
  BY <1>8, SendSound DEF ExecuteSubmit, At, Ops
<1>9. CASE ExecuteSubmitReply(p)
  BY <1>9, ReceiveSound, LoseThenSound DEF ExecuteSubmitReply, Waiting, AfterSubmission
<1>10. CASE ExecuteReconcile(p)
  BY <1>10, SendSound DEF ExecuteReconcile, At, Ops
<1>11. CASE ExecuteReconcileReply(p)
  BY <1>11, ReceiveSound, LoseThenSound DEF ExecuteReconcileReply, Waiting, AfterSubmission
<1>12. CASE ExecuteReject(p)
  <2>1. /\ client[p].pc = "reject" /\ client[p].slot = NoCall /\ UNCHANGED vars /\ QuietStore
        /\ spent' \in Bounds /\ Goto(p, "handler")
    BY <1>12, QuietTransactions DEF ExecuteReject, At, StoreStep, ExecutionStates
  <2> QED
    BY <2>1, GotoSound
<1>13. CASE ExecuteAmbiguous(p)
  <2>1. /\ client[p].pc = "ambiguous" /\ client[p].slot = NoCall /\ UNCHANGED vars
        /\ QuietStore /\ spent' \in Bounds /\ Goto(p, "ambiguous_row")
    BY <1>13, QuietTransactions DEF ExecuteAmbiguous, At, StoreStep, ExecutionStates
  <2> QED
    BY <2>1, GotoSound
<1>14. CASE ExecuteAmbiguousRow(p)
  <2>1. /\ client[p].pc = "ambiguous_row" /\ client[p].slot = NoCall /\ UNCHANGED vars
        /\ QuietStore /\ spent' \in Bounds /\ Goto(p, "handler")
    BY <1>14, QuietTransactions DEF ExecuteAmbiguousRow, At, StoreStep, RemoteRowStates
  <2> QED
    BY <2>1, GotoSound
<1>15. CASE ExecuteSaveJob(p)
  <2>1. /\ client[p].pc = "save_job" /\ client[p].slot = NoCall /\ UNCHANGED vars
        /\ spent' \in Bounds
        /\ Goto(p, "submitted") \/ Goto(p, "handler")
    BY <1>15 DEF ExecuteSaveJob, At, StoreStep, LocalStep
  <2>2. QuietStore
    <3>1. client[p].resp.job \in Jobs \cup {NoJob}
      BY Command
    <3>2. save_scheduler_job(client[p].exec, client[p].resp.job) => QuietStore
      BY <2>1, <3>1 DEF save_scheduler_job, QuietStore, BInv, ControlTypeOK, StoreTypeOK
    <3> QED
      BY <1>15, <3>2, QuietTransactions DEF ExecuteSaveJob, LocalStep
  <2> QED
    BY <2>1, <2>2, GotoSound
<1>16. CASE ExecuteSubmitted(p)
  <2>1. /\ client[p].pc = "submitted" /\ client[p].slot = NoCall /\ UNCHANGED vars
        /\ QuietStore /\ spent' \in Bounds /\ Goto(p, "submitted_row")
    BY <1>16, QuietTransactions DEF ExecuteSubmitted, At, StoreStep, ExecutionStates
  <2> QED
    BY <2>1, GotoSound
<1>17. CASE ExecuteSubmittedRow(p)
  <2>1. UNCHANGED vars /\ QuietStore /\ spent' \in Bounds /\ Finish(p)
    BY <1>17, Command, QuietTransactions DEF ExecuteSubmittedRow, At, StoreStep, RemoteRowStates
  <2> QED
    BY <2>1, FinishSound
<1>18. CASE ExecuteHandler(p)
  <2>1. /\ client[p].pc = "handler" /\ client[p].slot = NoCall /\ UNCHANGED vars /\ QuietStore
        /\ spent' \in Bounds
        /\ Goto(p, "handler_write") \/ Finish(p)
    BY <1>18, QuietTransactions DEF ExecuteHandler, At, LocalStep
  <2> QED
    BY <2>1, GotoSound, FinishSound
<1>19. CASE ExecuteHandlerWrite(p)
  <2>1. UNCHANGED vars /\ QuietStore /\ spent' \in Bounds /\ Finish(p)
    BY <1>19, QuietTransactions DEF ExecuteHandlerWrite, At, StoreStep, ExecutionStates
  <2> QED
    BY <2>1, FinishSound
<1> QED
  BY <1>1, <1>2, <1>3, <1>4, <1>5, <1>6, <1>7, <1>8, <1>9, <1>10, <1>11, <1>12, <1>13, <1>14,
     <1>15, <1>16, <1>17, <1>18, <1>19 DEF ExecuteStep

LEMMA CollectSound ==
    ASSUME BInv, NEW p \in Clients, CollectStep(p)
    PROVE  Sound
<1>0. /\ client[p] \in ClientStates /\ ClientInv(client[p])
      /\ client[p].pc \notin {"idle", "create"} => client[p].exec \in Execs
      /\ UNCHANGED spent => spent' \in Bounds
  BY Command
<1> USE <1>0, ProgramPoint
<1>1. CASE CollectBegin(p)
  <2>1. PICK e \in Created, cmd \in Collecting : Begin(p, cmd, e, "reconcile")
    BY <1>1 DEF CollectBegin
  <2>2. e \in Execs /\ e # NoExec
    BY IdentityAssumption DEF BInv, ControlTypeOK, StoreTypeOK, Created
  <2>3. [IdleClient EXCEPT !.cmd = cmd, !.exec = e, !.pc = "reconcile"] \in ClientStates
    BY <2>2, NewCommand DEF Collecting
  <2> QED
    BY <2>1, <2>2, <2>3, BeginSound DEF Collecting
<1>2. CASE CollectReconcile(p)
  BY <1>2, SendSound DEF CollectReconcile, At, Ops
<1>3. CASE CollectReconcileReply(p)
  BY <1>3, ReceiveSound, FinishSound, LoseBounds DEF CollectReconcileReply, Waiting
<1>4. CASE CollectRecord(p)
  <2>1. /\ client[p].pc = "record" /\ client[p].slot = NoCall /\ UNCHANGED vars /\ QuietStore
        /\ spent' \in Bounds
        /\ Goto(p, "record_save") \/ Goto(p, "record_row")
    BY <1>4, QuietTransactions DEF CollectRecord, At, LocalStep
  <2> QED
    BY <2>1, GotoSound
<1>5. CASE CollectRecordSave(p)
  <2>1. /\ client[p].pc = "record_save" /\ client[p].slot = NoCall /\ UNCHANGED vars
        /\ spent' \in Bounds
        /\ Goto(p, "record_state") \/ Finish(p)
    BY <1>5 DEF CollectRecordSave, At, StoreStep, LocalStep
  <2>2. QuietStore
    <3>1. client[p].resp.job \in Jobs \cup {NoJob}
      BY Command
    <3>2. save_scheduler_job(client[p].exec, client[p].resp.job) => QuietStore
      BY <2>1, <3>1 DEF save_scheduler_job, QuietStore, BInv, ControlTypeOK, StoreTypeOK
    <3> QED
      BY <1>5, <3>2, QuietTransactions DEF CollectRecordSave, LocalStep
  <2> QED
    BY <2>1, <2>2, GotoSound, FinishSound
<1>6. CASE CollectRecordState(p)
  <2>1. \A o : RecoveredState(o) \in ExecutionStates \ {"completed", "preflight_failed"}
    BY DEF RecoveredState, ExecutionStates
  <2>2. /\ client[p].pc = "record_state" /\ client[p].slot = NoCall /\ UNCHANGED vars
        /\ QuietStore /\ spent' \in Bounds /\ Goto(p, "record_row")
    BY <1>6, <2>1, QuietTransactions DEF CollectRecordState, At, StoreStep
  <2> QED
    BY <2>2, GotoSound
<1>7. CASE CollectRecordRow(p)
  <2>1. /\ client[p].pc = "record_row" /\ client[p].slot = NoCall /\ UNCHANGED vars
        /\ QuietStore /\ spent' \in Bounds /\ Goto(p, "result")
    BY <1>7, Command, QuietTransactions DEF CollectRecordRow, At, StoreStep
  <2> QED
    BY <2>1, GotoSound
<1>8. CASE CollectResult(p)
  <2>1. /\ client[p].pc = "result" /\ client[p].slot = NoCall /\ UNCHANGED vars /\ QuietStore
        /\ spent' \in Bounds
        /\ \/ Goto(p, "poll") \/ Finish(p)
           \/ Goto(p, "import") /\ Usable(client[p].resp.result)
    BY <1>8, QuietTransactions DEF CollectResult, At, LocalStep
  <2> QED
    BY <2>1, GotoSound, FinishSound
<1>9. CASE CollectImport(p)
  BY <1>9, CollectImportSound
<1>10. CASE WaitPoll(p)
  <2>1. /\ client[p].pc = "poll" /\ client[p].slot = NoCall /\ UNCHANGED vars /\ QuietStore
        /\ spent' \in Bounds
    BY <1>10, QuietTransactions DEF WaitPoll, At, LocalStep
  <2>2. CASE Goto(p, "collection_failed")
    BY <2>1, <2>2, GotoSound
  <2>3. CASE Become(p, [client[p] EXCEPT !.pc = "reconcile", !.resp = NoResponse])
    BY <2>1, <2>3, PollAgain
  <2> QED
    BY <1>10, <2>2, <2>3 DEF WaitPoll
<1>11. CASE WaitCollectionFailed(p)
  <2>1. UNCHANGED vars /\ QuietStore /\ spent' \in Bounds /\ Finish(p)
    BY <1>11, QuietTransactions DEF WaitCollectionFailed, At, StoreStep, ExecutionStates
  <2> QED
    BY <2>1, FinishSound
<1> QED
  BY <1>1, <1>2, <1>3, <1>4, <1>5, <1>6, <1>7, <1>8, <1>9, <1>10, <1>11 DEF CollectStep

LEMMA CancelSound ==
    ASSUME BInv, NEW p \in Clients, CancelStep(p) \/ Crash(p)
    PROVE  Sound
<1>0. /\ client[p] \in ClientStates /\ ClientInv(client[p])
      /\ client[p].pc \notin {"idle", "create"} => client[p].exec \in Execs
      /\ UNCHANGED spent => spent' \in Bounds
  BY Command
<1> USE <1>0, ProgramPoint
<1>1. CASE CancelBegin(p)
  <2>1. PICK e \in Created : Begin(p, "cancel", e, "cancel")
    BY <1>1 DEF CancelBegin
  <2>2. e \in Execs /\ e # NoExec
    BY IdentityAssumption DEF BInv, ControlTypeOK, StoreTypeOK, Created
  <2>3. [IdleClient EXCEPT !.cmd = "cancel", !.exec = e, !.pc = "cancel"] \in ClientStates
    BY <2>2, NewCommand
  <2> QED
    BY <2>1, <2>2, <2>3, BeginSound
<1>2. CASE CancelSend(p)
  BY <1>2, SendSound DEF CancelSend, At, Ops
<1>3. CASE CancelReply(p)
  BY <1>3, ReceiveSound, FinishSound, LoseBounds DEF CancelReply, Waiting
<1>4. CASE CancelJobRow(p)
  <2>1. /\ client[p].pc \in {"cancelled", "cancel_refused"} /\ client[p].slot = NoCall
        /\ UNCHANGED vars /\ QuietStore /\ spent' \in Bounds
        /\ Goto(p, "cancelled_state") \/ Finish(p)
    BY <1>4, QuietTransactions DEF CancelJobRow, At, LocalStep
  <2> QED
    BY <2>1, GotoSound, FinishSound
<1>5. CASE CancelState(p)
  <2>1. /\ client[p].pc = "cancelled_state" /\ client[p].slot = NoCall /\ UNCHANGED vars
        /\ QuietStore /\ spent' \in Bounds /\ Goto(p, "cancelled_row")
    BY <1>5, QuietTransactions DEF CancelState, At, StoreStep, ExecutionStates
  <2> QED
    BY <2>1, GotoSound
<1>6. CASE CancelRow(p)
  <2>1. UNCHANGED vars /\ QuietStore /\ spent' \in Bounds /\ Finish(p)
    BY <1>6, QuietTransactions DEF CancelRow, At, StoreStep, RemoteRowStates
  <2> QED
    BY <2>1, FinishSound
<1>7. CASE Crash(p)
  BY <1>7, CrashSound
<1> QED
  BY <1>1, <1>2, <1>3, <1>4, <1>5, <1>6, <1>7 DEF CancelStep

-----------------------------------------------------------------------------
\* The whole system.

\* The site's steps: an accepted job is the contract's Submit, a linked result its Publish.
LEMMA SiteContract ==
    ASSUME IInv, Plane \/ \E c \in Calls : WorkerStep(c) \/ WorkerDies(c), UNCHANGED imported
    PROVE  [Contract!Next]_contractVars
<1>0. PlaneTypeOK /\ OneJobEach
  BY DEF IInv, TypeOK, JobInv, AtMostOneJob, OneJobEach
<1>1. CASE Plane
  <2>1. PICK j \in Jobs : UNCHANGED <<jobExec, bundle>>
                          \/ \E kind \in Outcomes : PublishResult(j, kind)
    BY <1>1 DEF Plane, PlaneNext, StartJob, HoldJob, ResumeJob, EvictJob, RequeueJob, EndJob,
                MoveJob
  <2> QED
    BY <1>0, <2>1, PublishPublishes, ContractStutter
<1>2. ASSUME NEW c \in Calls, NEW j \in Jobs, SubmitAccepted(c, j)
      PROVE  [Contract!Next]_contractVars
  <2>1. PICK e \in Execs : e = call[c].exec /\ ~HasJob(e) /\ Accept(e, j)
    BY <1>2, Current DEF SubmitAccepted, RecordInv, SubmitInv
  <2> QED
    BY <1>0, <2>1, AcceptSubmits
<1>3. ASSUME NEW c \in Calls, WorkerDies(c) \/ WorkerStep(c), \A j \in Jobs : ~SubmitAccepted(c, j)
      PROVE  [Contract!Next]_contractVars
  <2>1. UNCHANGED <<jobExec, bundle>>
    BY <1>3 DEF WorkerDies, WorkerStep, PrepareRead, PrepareMkdir, SubmitRead, SubmitVerify,
                SubmitUnavailable, SubmitClaim, SubmitNotAccepted, ReconcileRead,
                ReconcileObserve, ReconcileResult, CancelRead, CancelConfirmed,
                CancelUnconfirmed, KillJob, MoveJob, WriteState, planeVars
  <2> QED
    BY <2>1, ContractStutter
<1> QED
  BY <1>1, <1>2, <1>3

\* The initial states satisfy the invariant.
LEMMA BackendInitInv == BackendInit => BInv
<1> SUFFICES ASSUME BackendInit PROVE BInv
  OBVIOUS
<1>1. IInv
  BY InitInv DEF BackendInit
<1>2. ControlTypeOK
  <2>1. IdleClient \in ClientStates
    BY DEF IdleClient, NoResponse, ClientStates, Responses, DocStates
  <2>2. <<>> \in Seq(Execs)
    OBVIOUS
  <2> QED
    BY <2>1, <2>2, ClientAssumption
       DEF BackendInit, StoreInit, ControlTypeOK, StoreTypeOK, NoRow, RemoteRowStates
<1>3. AnswersInv /\ JobsCreatedInv /\ OutcomeIsPublished
  BY IdentityAssumption
     DEF BackendInit, Init, PlaneInit, WorkerInit, StoreInit, AnswersInv, AnswerInv, IdleCall,
         JobsCreatedInv, HasJob, OutcomeIsPublished
<1>4. ClientsInv /\ ApartInv
  BY DEF BackendInit, ClientsInv, ClientInv, BeforeSubmit, ApartInv, Collide, IdleClient,
         NoResponse
<1> QED
  BY <1>1, <1>2, <1>3, <1>4 DEF BInv

\* Every step is sound.
LEMMA BackendNextSound == BInv /\ [BackendNext]_backendVars => Sound
<1> SUFFICES ASSUME BInv, [BackendNext]_backendVars PROVE Sound
  OBVIOUS
<1>1. CASE UNCHANGED backendVars
  <2>1. UNCHANGED vars /\ UNCHANGED storeVars /\ UNCHANGED <<client, spent>>
    BY <1>1 DEF backendVars
  <2>2. IInv' /\ UNCHANGED contractVars
    BY <2>1, NextInv, ContractStutter DEF BInv, vars, planeVars, storeVars
  <2>3. BInv'
    BY <2>1, <2>2 DEF BInv, vars, planeVars, workerVars, storeVars, ControlTypeOK, StoreTypeOK,
                      AnswersInv, AnswerInv, ClientsInv, ClientInv, BeforeSubmit, SubmitOpen,
                      HasJob, Created, ApartInv, Collide, JobsCreatedInv, OutcomeIsPublished
  <2> QED
    BY <2>1, <2>2, <2>3 DEF Sound
<1>2. ASSUME Plane \/ \E c \in Calls : WorkerStep(c) \/ WorkerDies(c),
             UNCHANGED <<storeVars, client>>, spent' \in Bounds
      PROVE  Sound
  BY <1>2, SiteInv, SiteIsNext, SiteContract DEF Sound, BInv, storeVars, Bounds
<1>3. CASE SiteStep
  BY <1>2, <1>3 DEF SiteStep, BInv, ControlTypeOK, Bounds
<1>4. ASSUME NEW c \in Calls, SiteFault(c) PROVE Sound
  <2>1. spent' \in Bounds
    BY <1>4, ClientAssumption DEF SiteFault, BInv, ControlTypeOK, Bounds
  <2> QED
    BY <1>2, <1>4, <2>1 DEF SiteFault
<1>5. ASSUME NEW c \in Calls, Discard(c) PROVE Sound
  BY <1>5, DiscardSound
<1>6. ASSUME NEW p \in Clients, ExecuteStep(p) \/ CollectStep(p) \/ CancelStep(p) \/ Crash(p)
      PROVE  Sound
  BY <1>6, ExecuteSound, CollectSound, CancelSound
<1> QED
  BY <1>1, <1>3, <1>4, <1>5, <1>6 DEF BackendNext

\* The invariant holds in every reachable state.
LEMMA BackendInvariant == BackendSpec => []BInv
<1>1. BInv /\ [BackendNext]_backendVars => BInv'
  BY BackendNextSound DEF Sound
<1> QED
  BY <1>1, BackendInitInv, PTL DEF BackendSpec

-----------------------------------------------------------------------------
(***************************************************************************)
(* The results.                                                            *)
(***************************************************************************)

\* However executes, waits, collections and cancellations interleave, lose
\* answers and die, site, store and commands stay well formed, and what the
\* store says of an outcome is what the compute worker published.
THEOREM OutcomesAreReal == BackendSpec => []BackendInv
<1>1. BInv => BackendInv
  BY DEF BInv, IInv, ControlTypeOK, BackendInv, BackendTypeOK
<1> QED
  BY <1>1, BackendInvariant, PTL

\* The controller of remote_backend.py keeps to the protocol that the remote
\* worker is proved for: submit is sent once per execution, and files are
\* uploaded only into a directory that prepare made.
THEOREM ControllerIsAllowed == BackendSpec => Spec
<1>1. BackendInit => Init
  BY DEF BackendInit
<1>2. BInv /\ [BackendNext]_backendVars => [Next]_vars
  BY BackendNextSound DEF Sound
<1> QED
  BY <1>1, <1>2, BackendInvariant, PTL DEF BackendSpec, Spec

\* So what was proved of the worker alone holds of the composed system: no
\* execution ever owns two scheduler jobs, although execute retries through
\* reconcile after a lost answer and the lost submit may still be running.
THEOREM RemoteExecutionHasOneJob == BackendSpec => []AtMostOneJob
  BY ControllerIsAllowed, OneJobPerExecution, PTL

\* Remote execution implements the execution contract: one job per execution,
\* one published outcome, and one report of exactly that outcome.
THEOREM RemoteImplementsContract == BackendSpec => ImplementsContract
<1>1. BackendInit => Contract!Init
  BY ContractInit DEF BackendInit, Init
<1>2. BInv /\ [BackendNext]_backendVars => [Contract!Next]_contractVars
  BY BackendNextSound DEF Sound
<1> QED
  BY <1>1, <1>2, BackendInvariant, PTL
     DEF BackendSpec, ImplementsContract, Contract!Spec, contractVars

-----------------------------------------------------------------------------
(***************************************************************************)
(* The verdicts: collection_failed and failed.  They hold while at most    *)
(* one execute, wait or collection works on an execution at a time;        *)
(* cancellations may run beside it, workers and clients may die, and calls *)
(* left behind by either go on.  A wait decides by the scheduler condition *)
(* in the remote row, which a second command can replace by a later one    *)
(* than its own answer's, and execute's handler by an execution state that *)
(* a second command can write.                                             *)
(***************************************************************************)
Working == {"execute", "collect", "wait"}

OnePerExecution ==
    \A p, q \in Clients :
        /\ client[p].cmd \in Working /\ client[q].cmd \in Working
        /\ client[p].exec = client[q].exec /\ client[p].exec # NoExec
        => p = q

\* The execution's job has ended and no usable result will appear.
Over(e) == ~Usable(bundle[e]) /\ \E j \in Jobs : jobExec[j] = e /\ jobPhase[j] = "ended"

\* The scheduler holds no job for the execution, and no submit of it is on its way.
NothingRuns(e) == ~HasJob(e) /\ \A c \in Calls : ~SubmitOpen(c, e)

\* What documents and answers say about jobs, now that submit is sent once.  A site
\* without preemption never evicts; a readable result never makes reconcile fail.
DocKnows == \A e \in Execs : doc[e].state \in {"submitted", "cancelled"} => doc[e].job # NoJob

CallKnows(r) ==
    /\ r.snap.state \in {"submitted", "cancelled"} => r.snap.job # NoJob
    /\ r.op = "submit" /\ r.pc = "start" => ~HasJob(r.exec)
    /\ r.op = "submit" /\ r.pc \in {"write", "done"} /\ r.status = "ok" => r.snap.job # NoJob
    /\ r.op = "submit" /\ r.pc = "done" /\ r.status \in {"failed", "unavailable"}
       => r.snap.state # "cancelled"
    /\ r.op = "reconcile" /\ r.pc \in {"write", "done"} /\ r.status = "ok" => r.snap.job # NoJob
    /\ r.op = "reconcile" /\ r.pc \in {"write", "done"} /\ r.status \in {"failed", "unavailable"}
       => "invalid" \in Outcomes
    /\ r.sched = "evicted" => Preemption

SiteKnows ==
    /\ DocKnows
    /\ \A c \in Calls : CallKnows(call[c])
    /\ \A j \in Jobs : jobPhase[j] = "evicted" => Preemption

\* What a command knows about its execution.
ClientKnows(r) ==
    /\ r.cmd \in Collecting /\ r.resp.sched = "ended" /\ ~Usable(r.resp.result)
       => r.exec # NoExec /\ Over(r.exec)
    /\ r.pc \in {"result", "poll"} =>
        r.cmd \in Collecting /\ remoteRow[r.exec].sched \in {r.resp.sched, "none"}
    /\ r.pc = "poll" => ~Usable(r.resp.result)
    /\ r.pc = "collection_failed" => Preemption \/ Over(r.exec)
    /\ r.resp.sched = "evicted" => Preemption
    /\ r.resp.job # NoJob => r.exec # NoExec /\ jobExec[r.resp.job] = r.exec
    /\ r.cmd = "execute" /\ r.pc \in {"prepare", "prepared", "row", "upload", "submit",
                                      "reconcile", "save_job"} => jobRow[r.exec] = NoJob
    /\ r.pc = "save_job" => r.cmd = "execute" /\ r.resp.job # NoJob
    /\ r.pc \in {"reject", "handler_write"} =>
        r.cmd = "execute" /\ ("invalid" \in Outcomes \/ NothingRuns(r.exec))
    /\ r.pc = "handler" =>
        /\ r.cmd = "execute"
        /\ \/ "invalid" \in Outcomes \/ NothingRuns(r.exec)
           \/ execState[r.exec] \in SettledStates
    /\ r.pc = "ambiguous_row" => r.cmd = "execute" /\ execState[r.exec] \in SettledStates

VerdictInv ==
    \A e \in Execs :
        /\ execState[e] = "collection_failed" => Preemption \/ Over(e)
        /\ execState[e] = "failed" /\ imported[e] = "none" =>
            \/ "invalid" \in Outcomes
            \/ /\ NothingRuns(e)
               /\ \A p \in Clients : BeforeSubmit(client[p]) => client[p].exec # e
        /\ jobRow[e] # NoJob => jobExec[jobRow[e]] = e

KInv == SiteKnows /\ (\A p \in Clients : ClientKnows(client[p])) /\ VerdictInv

\* A finished job without a usable result stays one, an execution without job and submit
\* stays one, and a job keeps its execution.
SiteStays ==
    /\ \A e \in Execs : (Over(e) => Over(e)') /\ (NothingRuns(e) => NothingRuns(e)')
    /\ \A j \in Jobs : jobExec[j] # NoExec => jobExec'[j] = jobExec[j]

LEMMA SiteStepStays ==
    ASSUME IInv, Plane \/ \E c \in Calls : WorkerStep(c) \/ WorkerDies(c)
    PROVE  SiteStays
<1>0. /\ jobExec \in [Jobs -> Execs \cup {NoExec}] /\ jobPhase \in [Jobs -> JobPhases]
      /\ bundle \in [Execs -> Outcomes \cup {"none"}]
      /\ \A j \in Jobs : jobPhase[j] = "free" <=> jobExec[j] = NoExec
      /\ \A j, k \in Jobs : jobExec[j] \in Execs /\ jobExec[j] = jobExec[k] => j = k
  BY DEF IInv, TypeOK, PlaneTypeOK, JobInv, AtMostOneJob
<1>1. ASSUME UNCHANGED <<jobExec, bundle>>,
             \A j \in Jobs : jobPhase[j] = "ended" => jobPhase'[j] = "ended"
      PROVE  /\ \A e \in Execs : Over(e) => Over(e)'
             /\ \A j \in Jobs : jobExec[j] # NoExec => jobExec'[j] = jobExec[j]
  BY <1>1 DEF Over
<1>2. ASSUME NEW j \in Jobs, NEW from, NEW to, "ended" \notin from, MoveJob(j, from, to)
      PROVE  /\ \A e \in Execs : Over(e) => Over(e)'
             /\ \A k \in Jobs : jobExec[k] # NoExec => jobExec'[k] = jobExec[k]
  BY <1>0, <1>1, <1>2 DEF MoveJob
<1>3. ASSUME NEW j \in Jobs, NEW kind \in Outcomes, PublishResult(j, kind)
      PROVE  /\ \A e \in Execs : Over(e) => Over(e)'
             /\ \A k \in Jobs : jobExec[k] # NoExec => jobExec'[k] = jobExec[k]
  <2>1. /\ UNCHANGED <<jobExec, jobPhase>> /\ jobPhase[j] = "running"
        /\ bundle' = [bundle EXCEPT ![jobExec[j]] = kind]
    BY <1>3 DEF PublishResult
  <2>2. ASSUME NEW e \in Execs, Over(e) PROVE Over(e)'
    <3>1. jobExec[j] # e
      BY <1>0, <2>1, <2>2 DEF Over
    <3>2. bundle'[e] = bundle[e]
      BY <1>0, <2>1, <3>1
    <3> QED
      BY <2>1, <2>2, <3>2 DEF Over
  <2> QED
    BY <2>1, <2>2
<1>4. /\ \A e \in Execs : Over(e) => Over(e)'
      /\ \A k \in Jobs : jobExec[k] # NoExec => jobExec'[k] = jobExec[k]
  <2>1. CASE Plane
    BY <1>2, <1>3, <2>1 DEF Plane, PlaneNext, StartJob, HoldJob, ResumeJob, EvictJob, RequeueJob,
                            EndJob
  <2>2. ASSUME NEW c \in Calls, NEW j \in Jobs, SubmitAccepted(c, j)
        PROVE  /\ \A e \in Execs : Over(e) => Over(e)'
               /\ \A k \in Jobs : jobExec[k] # NoExec => jobExec'[k] = jobExec[k]
    <3>1. /\ jobPhase[j] = "free" /\ UNCHANGED bundle
          /\ \A k \in Jobs \ {j} : jobExec'[k] = jobExec[k] /\ jobPhase'[k] = jobPhase[k]
      BY <1>0, <2>2 DEF SubmitAccepted, Accept
    <3> QED
      BY <1>0, <3>1 DEF Over
  <2>3. ASSUME NEW c \in Calls, CancelConfirmed(c) \/ CancelUnconfirmed(c)
        PROVE  /\ \A e \in Execs : Over(e) => Over(e)'
               /\ \A k \in Jobs : jobExec[k] # NoExec => jobExec'[k] = jobExec[k]
    <3>1. PICK j : j = call[c].snap.job /\ (KillJob(j) \/ UNCHANGED planeVars)
      BY <2>3 DEF CancelConfirmed, CancelUnconfirmed
    <3>2. j \in Jobs
      BY <2>3, <3>1, Current DEF CancelConfirmed, CancelUnconfirmed, RecordInv, ObserveInv, Docs
    <3> QED
      BY <1>1, <1>2, <3>1, <3>2 DEF KillJob, planeVars
  <2>4. ASSUME NEW c \in Calls, WorkerDies(c) \/ WorkerStep(c),
               \A j \in Jobs : ~SubmitAccepted(c, j), ~CancelConfirmed(c), ~CancelUnconfirmed(c)
        PROVE  UNCHANGED planeVars
    BY <2>4 DEF WorkerDies, WorkerStep, PrepareRead, PrepareMkdir, SubmitRead, SubmitVerify,
                SubmitUnavailable, SubmitClaim, SubmitNotAccepted, ReconcileRead,
                ReconcileObserve, ReconcileResult, CancelRead, WriteState
  <2> QED
    BY <1>1, <2>1, <2>2, <2>3, <2>4 DEF planeVars
<1>5. ASSUME NEW e \in Execs, NothingRuns(e) PROVE NothingRuns(e)'
  <2>1. ~HasJob(e)'
    BY <1>5, SiteStepKeeps DEF SiteKeeps, NothingRuns
  <2>2. ASSUME NEW d \in Calls PROVE call'[d].op = call[d].op /\ call'[d].exec = call[d].exec
    <3>1. CASE Plane
      BY <3>1 DEF Plane, workerVars
    <3>2. ASSUME NEW c \in Calls, WorkerStep(c) \/ WorkerDies(c)
          PROVE  call'[d].op = call[d].op /\ call'[d].exec = call[d].exec
      <4>1. WorkerKeeps(c)
        BY <3>2, WorkerStepKeeps, FailKeeps DEF WorkerDies, Alive
      <4> QED
        BY <4>1 DEF WorkerKeeps
    <3> QED
      BY <3>1, <3>2
  <2> QED
    BY <1>5, <2>1, <2>2 DEF NothingRuns, SubmitOpen
<1> QED
  BY <1>4, <1>5 DEF SiteStays

\* A worker process that goes on with record s knows what it should if s does.
LEMMA KnowsStep ==
    ASSUME BInv, SiteKnows, NEW c \in Calls, WorkerStep(c) \/ WorkerDies(c),
           NEW s \in CallStates, Update(c, s), s.pc # "start", CallKnows(s),
           \/ UNCHANGED doc
           \/ /\ s.snap.state \in {"submitted", "cancelled"} => s.snap.job # NoJob
              /\ doc' = [doc EXCEPT ![call[c].exec] = s.snap],
           \A j \in Jobs : jobPhase'[j] \in {jobPhase[j], "queued", "ended"}
    PROVE  SiteKnows'
<1>0. IInv /\ call \in [Calls -> CallStates] /\ doc \in [Execs -> Docs]
  BY DEF BInv, IInv, TypeOK, WorkerTypeOK
<1>1. DocKnows'
  <2>1. CASE UNCHANGED doc
    BY <2>1 DEF SiteKnows, DocKnows
  <2>2. CASE /\ s.snap.state \in {"submitted", "cancelled"} => s.snap.job # NoJob
             /\ doc' = [doc EXCEPT ![call[c].exec] = s.snap]
    BY <1>0, <2>2 DEF SiteKnows, DocKnows
  <2> QED
    BY <2>1, <2>2
<1>2. ASSUME NEW d \in Calls PROVE CallKnows(call[d])'
  <2>1. PICK t \in CallStates : t = call'[d]
    BY <1>0 DEF Update
  <2>2. CASE d = c
    <3>1. t = s
      BY <1>0, <2>1, <2>2 DEF Update
    <3> QED
      BY <2>1, <3>1 DEF CallKnows
  <2>3. CASE d # c
    <3>1. t = call[d] /\ CallKnows(t)
      BY <1>0, <2>1, <2>3 DEF Update, SiteKnows
    <3>2. t.op = "submit" /\ t.pc = "start" => ~HasJob(t.exec)'
      <4> SUFFICES ASSUME t.op = "submit", t.pc = "start", HasJob(t.exec)' PROVE FALSE
        OBVIOUS
      <4>1. t.exec \in Execs /\ ~HasJob(t.exec)
        BY <1>0, <3>1, Current DEF CallKnows
      <4>2. PICK k \in Calls : SubmitOpen(k, t.exec) /\ call[k].pc = "run"
        BY <1>0, <4>1, SiteStepKeeps DEF SiteKeeps
      <4>3. k = d
        BY <1>0, <3>1, <4>2 DEF IInv, UniqueInv, Clash, SubmitOpen
      <4> QED
        BY <3>1, <4>2, <4>3
    <3> QED
      BY <2>1, <3>1, <3>2 DEF CallKnows
  <2> QED
    BY <2>2, <2>3
<1>3. \A j \in Jobs : jobPhase'[j] = "evicted" => Preemption
  BY DEF SiteKnows
<1> QED
  BY <1>1, <1>2, <1>3 DEF SiteKnows

\* Every step of a worker process keeps to what it knows.
LEMMA WorkerKnows ==
    ASSUME BInv, SiteKnows, NEW c \in Calls, WorkerStep(c) \/ WorkerDies(c)
    PROVE  SiteKnows'
<1>0. /\ IInv
      /\ \A j \in Jobs : jobPhase[j] = "evicted" => Preemption
  BY DEF BInv, SiteKnows
<1>r. PICK r \in CallStates : r = call[c] /\ RecordInv(r) /\ CallKnows(r)
  BY <1>0, Current DEF SiteKnows
<1>k. call[c].pc \notin {"idle", "done"}
  BY <1>0, WorkerStepKeeps DEF WorkerKeeps, WorkerDies, Alive
<1>d. PICK d \in Docs : d = doc[r.exec]
  BY <1>0, <1>r, <1>k, Current
<1>e. /\ r.exec \in Execs /\ (d.state \in {"submitted", "cancelled"} => d.job # NoJob)
      /\ d.job # NoJob => d.job \in Jobs /\ jobExec[d.job] = r.exec
  BY <1>0, <1>r, <1>k, <1>d, Current DEF SiteKnows, DocKnows, IInv, DocInv, Docs
<1>p. UNCHANGED planeVars => \A j \in Jobs : jobPhase'[j] \in {jobPhase[j], "queued", "ended"}
  BY DEF planeVars
\* The steps that leave documents and scheduler alone.
<1>q. ASSUME NEW s \in CallStates, Update(c, s), s.pc # "start", CallKnows(s),
             UNCHANGED <<planeVars, doc>>
      PROVE  SiteKnows'
  BY <1>p, <1>q, KnowsStep
<1>f. ASSUME Fail(c), UNCHANGED <<planeVars, doc>> PROVE SiteKnows'
  <2> DEFINE s == [IdleCall EXCEPT !.op = r.op, !.exec = r.exec, !.pc = "done",
                                   !.status = "error"]
  <2>1. /\ s \in CallStates /\ s.pc = "done" /\ s.status = "error" /\ s.snap.state = "none"
        /\ s.sched = "none" /\ s.op = r.op
    BY DEF IdleCall, NoDoc, CallStates, Docs, DocStates, Statuses
  <2>2. Update(c, s)
    BY <1>r, <1>f DEF Fail
  <2> HIDE DEF s
  <2>3. CallKnows(s)
    BY <2>1 DEF CallKnows
  <2> QED
    BY <1>f, <1>q, <2>1, <2>2, <2>3
<1>1. CASE PrepareRead(c)
  <2>0. r.op = "prepare" /\ r.pc = "start" /\ UNCHANGED <<planeVars, doc>> /\ r.sched = "none"
    BY <1>r, <1>1 DEF PrepareRead, RecordInv, ObserveInv
  <2>1. CASE Answer(c, [r EXCEPT !.snap = d], "ok")
    <3> DEFINE s == [[r EXCEPT !.snap = d] EXCEPT !.pc = "done", !.status = "ok"]
    <3>1. s \in CallStates /\ s.pc = "done" /\ s.op = "prepare" /\ s.snap = d /\ s.sched = "none"
      BY <2>0 DEF CallStates, Statuses
    <3>2. Update(c, s)
      BY <2>1 DEF Answer
    <3> HIDE DEF s
    <3>3. CallKnows(s)
      BY <1>e, <3>1 DEF CallKnows
    <3> QED
      BY <1>q, <2>0, <3>1, <3>2, <3>3
  <2>2. CASE Update(c, [r EXCEPT !.pc = "mkdir"])
    <3>1. [r EXCEPT !.pc = "mkdir"] \in CallStates
      BY DEF CallStates
    <3>2. CallKnows([r EXCEPT !.pc = "mkdir"])
      BY <1>r, <2>0 DEF CallKnows, CallStates
    <3> QED
      BY <1>q, <2>0, <2>2, <3>1, <3>2 DEF CallStates
  <2> QED
    BY <1>r, <1>d, <1>1, <2>1, <2>2 DEF PrepareRead
<1>2. CASE PrepareMkdir(c)
  <2>0. r.op = "prepare" /\ UNCHANGED <<planeVars, doc>>
    BY <1>r, <1>2 DEF PrepareMkdir, RecordInv, PrepareInv
  <2> DEFINE s == [r EXCEPT !.pc = "write", !.snap.state = "prepared"]
  <2>1. /\ s \in CallStates /\ s.pc = "write" /\ s.op = "prepare" /\ s.snap.state = "prepared"
        /\ s.sched = r.sched
    BY <2>0 DEF CallStates, Docs, DocStates
  <2>2. Update(c, s) \/ Fail(c)
    BY <1>r, <1>2 DEF PrepareMkdir
  <2> HIDE DEF s
  <2>3. CallKnows(s)
    BY <1>r, <2>1 DEF CallKnows
  <2> QED
    BY <1>q, <1>f, <2>0, <2>1, <2>2, <2>3
<1>3. CASE SubmitRead(c)
  <2>0. /\ r.op = "submit" /\ r.pc = "start" /\ UNCHANGED <<planeVars, doc>> /\ r.sched = "none"
    BY <1>r, <1>3 DEF SubmitRead, RecordInv, ObserveInv
  <2>1. d.job = NoJob /\ d.state \notin {"submitted", "cancelled"}
    BY <1>r, <1>e, <2>0 DEF CallKnows, HasJob
  <2>2. CASE Fail(c)
    BY <1>f, <2>0, <2>2
  <2>3. CASE Update(c, [[r EXCEPT !.snap = d] EXCEPT !.pc = "write", !.status = "ambiguous",
                                                     !.snap.state = "ambiguous"])
    <3> DEFINE s == [[r EXCEPT !.snap = d] EXCEPT !.pc = "write", !.status = "ambiguous",
                                                  !.snap.state = "ambiguous"]
    <3>1. /\ s \in CallStates /\ s.pc = "write" /\ s.op = "submit" /\ s.status = "ambiguous"
          /\ s.snap.state = "ambiguous" /\ s.sched = "none"
      BY <2>0 DEF CallStates, Docs, DocStates, Statuses
    <3>2. Update(c, s)
      BY <2>3
    <3> HIDE DEF s
    <3>3. CallKnows(s)
      BY <3>1 DEF CallKnows
    <3> QED
      BY <1>q, <2>0, <3>1, <3>2, <3>3
  <2>4. CASE Answer(c, [r EXCEPT !.snap = d], "failed")
    <3> DEFINE s == [[r EXCEPT !.snap = d] EXCEPT !.pc = "done", !.status = "failed"]
    <3>1. /\ s \in CallStates /\ s.pc = "done" /\ s.op = "submit" /\ s.snap = d
          /\ s.sched = "none" /\ s.status = "failed"
      BY <2>0 DEF CallStates, Statuses
    <3>2. Update(c, s)
      BY <2>4 DEF Answer
    <3> HIDE DEF s
    <3>3. CallKnows(s)
      BY <2>1, <3>1 DEF CallKnows
    <3> QED
      BY <1>q, <2>0, <3>1, <3>2, <3>3
  <2>5. CASE Update(c, [[r EXCEPT !.snap = d] EXCEPT !.pc = "verify"])
    <3> DEFINE s == [[r EXCEPT !.snap = d] EXCEPT !.pc = "verify"]
    <3>1. s \in CallStates /\ s.pc = "verify" /\ s.op = "submit" /\ s.snap = d /\ s.sched = "none"
      BY <2>0 DEF CallStates
    <3>2. Update(c, s)
      BY <2>5
    <3> HIDE DEF s
    <3>3. CallKnows(s)
      BY <2>1, <3>1 DEF CallKnows
    <3> QED
      BY <1>q, <2>0, <3>1, <3>2, <3>3
  <2>6. [r EXCEPT !.snap = d].snap = d
    BY DEF CallStates
  <2> QED
    BY <1>r, <1>d, <1>3, <2>1, <2>2, <2>3, <2>4, <2>5, <2>6 DEF SubmitRead
<1>4. CASE SubmitVerify(c)
  <2> DEFINE s == [r EXCEPT !.pc = "done", !.status = "failed"]
  <2>0. r.op = "submit" /\ r.snap.state = "prepared" /\ UNCHANGED <<planeVars, doc>>
    BY <1>r, <1>4 DEF SubmitVerify, RecordInv, SubmitInv
  <2>1. /\ s \in CallStates /\ s.pc = "done" /\ s.op = "submit" /\ s.snap = r.snap
        /\ s.sched = r.sched /\ s.status = "failed"
    BY <2>0 DEF CallStates, Statuses
  <2>2. Update(c, s)
    BY <1>r, <1>4 DEF SubmitVerify, Answer
  <2> HIDE DEF s
  <2>3. CallKnows(s)
    BY <1>r, <2>0, <2>1 DEF CallKnows
  <2> QED
    BY <1>q, <2>0, <2>1, <2>2, <2>3
<1>5. CASE SubmitUnavailable(c)
  <2> DEFINE s == [r EXCEPT !.pc = "write", !.status = "unavailable",
                            !.snap.state = "submission_failed"]
  <2>0. r.op = "submit" /\ UNCHANGED <<planeVars, doc>>
    BY <1>r, <1>5 DEF SubmitUnavailable, RecordInv, SubmitInv
  <2>1. /\ s \in CallStates /\ s.pc = "write" /\ s.op = "submit" /\ s.status = "unavailable"
        /\ s.snap.state = "submission_failed" /\ s.sched = r.sched
    BY <2>0 DEF CallStates, Docs, DocStates, Statuses
  <2>2. Update(c, s)
    BY <1>r, <1>5 DEF SubmitUnavailable
  <2> HIDE DEF s
  <2>3. CallKnows(s)
    BY <1>r, <2>1 DEF CallKnows
  <2> QED
    BY <1>q, <2>0, <2>1, <2>2, <2>3
<1>6. CASE SubmitClaim(c)
  <2> DEFINE s == [r EXCEPT !.pc = "run", !.snap = [r.snap EXCEPT !.state = "submitting"]]
  <2>0. r.op = "submit" /\ UNCHANGED planeVars
    BY <1>r, <1>6 DEF SubmitClaim, RecordInv, SubmitInv
  <2>1. /\ s \in CallStates /\ s.pc = "run" /\ s.op = "submit"
        /\ s.snap = [r.snap EXCEPT !.state = "submitting"]
        /\ s.snap.state = "submitting" /\ s.sched = r.sched
    BY <2>0 DEF CallStates, Docs, DocStates
  <2>2. Update(c, s) /\ doc' = [doc EXCEPT ![call[c].exec] = s.snap]
    BY <1>r, <1>6, <2>1 DEF SubmitClaim
  <2> HIDE DEF s
  <2>3. CallKnows(s)
    BY <1>r, <2>1 DEF CallKnows
  <2> QED
    BY <1>p, <2>0, <2>1, <2>2, <2>3, KnowsStep
<1>7. ASSUME NEW j \in Jobs, SubmitAccepted(c, j) PROVE SiteKnows'
  <2>0. r.op = "submit" /\ UNCHANGED doc
    BY <1>r, <1>7 DEF SubmitAccepted
  <2>1. \A k \in Jobs : jobPhase'[k] \in {jobPhase[k], "queued", "ended"}
    BY <1>0, <1>7 DEF SubmitAccepted, Accept, IInv, TypeOK, PlaneTypeOK
  <2>2. CASE Update(c, [r EXCEPT !.pc = "write", !.status = "ok",
                                 !.snap.state = "submitted", !.snap.job = j])
    <3> DEFINE s == [r EXCEPT !.pc = "write", !.status = "ok",
                              !.snap.state = "submitted", !.snap.job = j]
    <3>1. /\ s \in CallStates /\ s.pc = "write" /\ s.op = "submit" /\ s.sched = r.sched
          /\ s.snap.job = j
      BY <2>0 DEF CallStates, Docs, DocStates, Statuses
    <3>2. Update(c, s)
      BY <2>2
    <3> HIDE DEF s
    <3>3. CallKnows(s)
      BY <1>r, <3>1, IdentityAssumption DEF CallKnows
    <3> QED
      BY <2>0, <2>1, <3>1, <3>2, <3>3, KnowsStep
  <2>3. CASE Update(c, [r EXCEPT !.pc = "write", !.status = "ambiguous",
                                 !.snap.state = "ambiguous"])
    <3> DEFINE s == [r EXCEPT !.pc = "write", !.status = "ambiguous", !.snap.state = "ambiguous"]
    <3>1. /\ s \in CallStates /\ s.pc = "write" /\ s.op = "submit" /\ s.sched = r.sched
          /\ s.snap.state = "ambiguous" /\ s.status = "ambiguous"
      BY <2>0 DEF CallStates, Docs, DocStates, Statuses
    <3>2. Update(c, s)
      BY <2>3
    <3> HIDE DEF s
    <3>3. CallKnows(s)
      BY <1>r, <3>1 DEF CallKnows
    <3> QED
      BY <2>0, <2>1, <3>1, <3>2, <3>3, KnowsStep
  <2> QED
    BY <1>r, <1>7, <2>2, <2>3 DEF SubmitAccepted
<1>8. CASE SubmitNotAccepted(c)
  <2>0. r.op = "submit" /\ UNCHANGED <<planeVars, doc>>
    BY <1>r, <1>8 DEF SubmitNotAccepted
  <2>1. PICK b \in {"failed", "ambiguous"}, x \in {"submission_failed", "ambiguous"} :
            Update(c, [r EXCEPT !.pc = "write", !.status = b, !.snap.state = x])
    BY <1>r, <1>8 DEF SubmitNotAccepted
  <2> DEFINE s == [r EXCEPT !.pc = "write", !.status = b, !.snap.state = x]
  <2>2. /\ s \in CallStates /\ s.pc = "write" /\ s.op = "submit" /\ s.sched = r.sched
        /\ s.status \in {"failed", "ambiguous"}
        /\ s.snap.state \in {"submission_failed", "ambiguous"}
    BY <2>0 DEF CallStates, Docs, DocStates, Statuses
  <2>3. Update(c, s)
    BY <2>1
  <2> HIDE DEF s
  <2>4. CallKnows(s)
    BY <1>r, <2>2 DEF CallKnows
  <2> QED
    BY <1>q, <2>0, <2>2, <2>3, <2>4
<1>9. CASE ReconcileRead(c)
  <2>0. r.op = "reconcile" /\ r.pc = "start" /\ UNCHANGED <<planeVars, doc>> /\ r.sched = "none"
    BY <1>r, <1>9 DEF ReconcileRead, RecordInv, ObserveInv
  <2>1. CASE Fail(c)
    BY <1>f, <2>0, <2>1
  <2>2. CASE Update(c, [[r EXCEPT !.snap = d] EXCEPT !.pc = "write", !.status = "ambiguous",
                                                     !.snap.state = "ambiguous"])
    <3> DEFINE s == [[r EXCEPT !.snap = d] EXCEPT !.pc = "write", !.status = "ambiguous",
                                                  !.snap.state = "ambiguous"]
    <3>1. /\ s \in CallStates /\ s.pc = "write" /\ s.op = "reconcile" /\ s.status = "ambiguous"
          /\ s.snap.state = "ambiguous" /\ s.sched = "none"
      BY <2>0 DEF CallStates, Docs, DocStates, Statuses
    <3>2. Update(c, s)
      BY <2>2
    <3> HIDE DEF s
    <3>3. CallKnows(s)
      BY <3>1 DEF CallKnows
    <3> QED
      BY <1>q, <2>0, <3>1, <3>2, <3>3
  <2>3. CASE Answer(c, [r EXCEPT !.snap = d], "unknown")
    <3> DEFINE s == [[r EXCEPT !.snap = d] EXCEPT !.pc = "done", !.status = "unknown"]
    <3>1. /\ s \in CallStates /\ s.pc = "done" /\ s.op = "reconcile" /\ s.snap = d
          /\ s.sched = "none" /\ s.status = "unknown"
      BY <2>0 DEF CallStates, Statuses
    <3>2. Update(c, s)
      BY <2>3 DEF Answer
    <3> HIDE DEF s
    <3>3. CallKnows(s)
      BY <1>e, <3>1 DEF CallKnows
    <3> QED
      BY <1>q, <2>0, <3>1, <3>2, <3>3
  <2>4. CASE Update(c, [[r EXCEPT !.snap = d] EXCEPT !.pc = "observe"])
    <3> DEFINE s == [[r EXCEPT !.snap = d] EXCEPT !.pc = "observe"]
    <3>1. /\ s \in CallStates /\ s.pc = "observe" /\ s.op = "reconcile" /\ s.snap = d
          /\ s.sched = "none"
      BY <2>0 DEF CallStates
    <3>2. Update(c, s)
      BY <2>4
    <3> HIDE DEF s
    <3>3. CallKnows(s)
      BY <1>e, <3>1 DEF CallKnows
    <3> QED
      BY <1>q, <2>0, <3>1, <3>2, <3>3
  <2> QED
    BY <1>r, <1>d, <1>9, <2>1, <2>2, <2>3, <2>4 DEF ReconcileRead
<1>10. CASE ReconcileObserve(c)
  <2>0. /\ r.op = "reconcile" /\ r.pc = "observe" /\ r.snap.job # NoJob /\ r.snap.job \in Jobs
        /\ UNCHANGED <<planeVars, doc>>
    BY <1>r, <1>10 DEF ReconcileObserve, RecordInv, ObserveInv, CallStates, Docs
  <2>1. PICK o \in Answers(r.snap.job) : Update(c, [r EXCEPT !.pc = "result", !.sched = o])
    BY <1>r, <1>10 DEF ReconcileObserve
  <2>2. /\ o \in Observations
        /\ o = "evicted" => jobPhase[r.snap.job] = "evicted"
    <3>1. jobPhase[r.snap.job] \in JobPhases
      BY <1>0, <2>0 DEF IInv, TypeOK, PlaneTypeOK
    <3> QED
      BY <2>1, <3>1 DEF Answers, Conditions, Observations, JobPhases
  <2> DEFINE s == [r EXCEPT !.pc = "result", !.sched = o]
  <2>3. /\ s \in CallStates /\ s.pc = "result" /\ s.op = "reconcile" /\ s.snap = r.snap
        /\ s.sched = o
    BY <2>0, <2>2 DEF CallStates
  <2>4. Update(c, s)
    BY <2>1
  <2> HIDE DEF s
  <2>5. CallKnows(s)
    BY <1>0, <1>r, <2>0, <2>2, <2>3 DEF CallKnows
  <2> QED
    BY <1>q, <2>0, <2>3, <2>4, <2>5
<1>11. CASE ReconcileResult(c)
  <2>0. /\ r.op = "reconcile" /\ r.pc = "result" /\ r.snap.job # NoJob
        /\ UNCHANGED <<planeVars, doc>> /\ bundle[r.exec] \in Outcomes \cup {"none"}
    BY <1>0, <1>r, <1>11, Current DEF ReconcileResult, RecordInv, ObserveInv
  <2>1. ASSUME NEW s \in CallStates, NEW b \in Statuses, Answer(c, s, b),
               s.op = r.op, s.snap = r.snap, s.sched = r.sched,
               b \in {"failed", "unavailable"} => "invalid" \in Outcomes
        PROVE  SiteKnows'
    <3> DEFINE t == [s EXCEPT !.pc = "done", !.status = b]
    <3>1. /\ t \in CallStates /\ t.pc = "done" /\ t.op = "reconcile" /\ t.snap = r.snap
          /\ t.sched = r.sched /\ t.status = b
      BY <2>0, <2>1 DEF CallStates
    <3>2. Update(c, t)
      BY <2>1 DEF Answer
    <3> HIDE DEF t
    <3>3. CallKnows(t)
      BY <1>r, <2>0, <2>1, <3>1 DEF CallKnows
    <3> QED
      BY <1>q, <2>0, <3>1, <3>2, <3>3
  <2>2. CASE bundle[r.exec] # "none" /\ Answer(c, [r EXCEPT !.result = bundle[r.exec]], "ok")
    BY <2>0, <2>1, <2>2 DEF CallStates, Statuses
  <2>3. CASE \E b \in Statuses : Answer(c, r, b) /\ (b \in {"failed", "unavailable"}
                                                     => "invalid" \in Outcomes)
    BY <2>1, <2>3
  <2> QED
    BY <1>r, <1>11, <2>0, <2>2, <2>3 DEF ReconcileResult, Statuses
<1>12. CASE CancelRead(c)
  <2>0. r.op = "cancel" /\ r.pc = "start" /\ UNCHANGED <<planeVars, doc>> /\ r.sched = "none"
    BY <1>r, <1>12 DEF CancelRead, RecordInv, ObserveInv
  <2>1. CASE Fail(c)
    BY <1>f, <2>0, <2>1
  <2>2. ASSUME NEW s \in CallStates, Update(c, s), s.op = "cancel", s.snap = d, s.pc # "start",
               s.sched = "none"
        PROVE  SiteKnows'
    <3>1. CallKnows(s)
      BY <1>e, <2>2 DEF CallKnows
    <3> QED
      BY <1>q, <2>0, <2>2, <3>1
  <2>3. CASE Answer(c, [r EXCEPT !.snap = d], "unknown")
    BY <2>0, <2>2, <2>3 DEF Answer, CallStates, Statuses
  <2>4. CASE Update(c, [[r EXCEPT !.snap = d] EXCEPT !.pc = "kill"])
    BY <2>0, <2>2, <2>4 DEF CallStates
  <2> QED
    BY <1>r, <1>d, <1>12, <2>1, <2>3, <2>4 DEF CancelRead
<1>13. CASE CancelConfirmed(c) \/ CancelUnconfirmed(c)
  <2>0. /\ r.op = "cancel" /\ r.pc = "kill" /\ r.snap.job # NoJob /\ r.snap.job \in Jobs
        /\ UNCHANGED doc /\ (KillJob(r.snap.job) \/ UNCHANGED planeVars)
    BY <1>r, <1>13 DEF CancelConfirmed, CancelUnconfirmed, RecordInv, ObserveInv, CallStates, Docs
  <2>1. \A k \in Jobs : jobPhase'[k] \in {jobPhase[k], "queued", "ended"}
    BY <1>0, <1>p, <2>0 DEF KillJob, MoveJob, IInv, TypeOK, PlaneTypeOK
  <2>2. CASE Update(c, [r EXCEPT !.pc = "write", !.status = "ok", !.snap.state = "cancelled"])
    <3> DEFINE s == [r EXCEPT !.pc = "write", !.status = "ok", !.snap.state = "cancelled"]
    <3>1. /\ s \in CallStates /\ s.pc = "write" /\ s.op = "cancel" /\ s.sched = r.sched
          /\ s.snap.job = r.snap.job
      BY <2>0 DEF CallStates, Docs, DocStates, Statuses
    <3>2. Update(c, s)
      BY <2>2
    <3> HIDE DEF s
    <3>3. CallKnows(s)
      BY <1>r, <2>0, <3>1 DEF CallKnows
    <3> QED
      BY <2>0, <2>1, <3>1, <3>2, <3>3, KnowsStep
  <2>3. ASSUME NEW b \in Statuses, Answer(c, r, b) PROVE SiteKnows'
    <3> DEFINE s == [r EXCEPT !.pc = "done", !.status = b]
    <3>1. /\ s \in CallStates /\ s.pc = "done" /\ s.op = "cancel" /\ s.sched = r.sched
          /\ s.snap = r.snap
      BY <2>0 DEF CallStates
    <3>2. Update(c, s)
      BY <2>3 DEF Answer
    <3> HIDE DEF s
    <3>3. CallKnows(s)
      BY <1>r, <2>0, <3>1 DEF CallKnows
    <3> QED
      BY <2>0, <2>1, <3>1, <3>2, <3>3, KnowsStep
  <2> QED
    BY <1>r, <1>13, <2>2, <2>3 DEF CancelConfirmed, CancelUnconfirmed, Statuses
<1>14. CASE WriteState(c)
  <2> DEFINE s == [r EXCEPT !.pc = "done", !.status = r.status]
  <2>0. r.pc = "write" /\ UNCHANGED planeVars
    BY <1>r, <1>14 DEF WriteState
  <2>1. /\ s \in CallStates /\ s.pc = "done" /\ s.op = r.op /\ s.snap = r.snap
        /\ s.sched = r.sched /\ s.status = r.status
    BY DEF CallStates
  <2>2. Update(c, s) /\ doc' = [doc EXCEPT ![call[c].exec] = s.snap]
    BY <1>r, <1>14, <2>1 DEF WriteState, Answer
  <2> HIDE DEF s
  <2>3. s.op = "submit" /\ s.status \in {"failed", "unavailable"} => s.snap.state # "cancelled"
    BY <1>r, <2>0, <2>1 DEF RecordInv, SubmitInv
  <2>4. CallKnows(s)
    BY <1>r, <2>0, <2>1, <2>3 DEF CallKnows
  <2> QED
    BY <1>p, <2>0, <2>1, <2>2, <2>4, KnowsStep DEF CallKnows
<1>15. CASE WorkerDies(c)
  BY <1>f, <1>15 DEF WorkerDies
<1> QED
  BY <1>1, <1>2, <1>3, <1>4, <1>5, <1>6, <1>7, <1>8, <1>9, <1>10, <1>11, <1>12, <1>13, <1>14,
     <1>15 DEF WorkerStep

\* The site's steps preserve what site and commands know, and the verdicts.
LEMMA SiteVerdicts ==
    ASSUME BInv, KInv, Plane \/ \E c \in Calls : WorkerStep(c) \/ WorkerDies(c),
           UNCHANGED <<storeVars, client>>
    PROVE  KInv'
<1>0. /\ IInv /\ SiteStays /\ SiteKnows
      /\ UNCHANGED <<created, execState, jobRow, remoteRow, imported, client>>
  BY SiteStepStays DEF BInv, KInv, storeVars
<1>1. SiteKnows'
  <2>1. CASE Plane
    <3>1. UNCHANGED <<doc, call>> /\ \A e : HasJob(e)' <=> HasJob(e)
      BY <2>1 DEF Plane, workerVars, PlaneNext, StartJob, HoldJob, ResumeJob, EvictJob,
                  RequeueJob, EndJob, MoveJob, PublishResult, HasJob
    <3>2. \A j \in Jobs : jobPhase'[j] = "evicted" => Preemption
      BY <1>0, <2>1 DEF SiteKnows, Plane, PlaneNext, StartJob, HoldJob, ResumeJob, EvictJob,
                        RequeueJob, EndJob, MoveJob, PublishResult, IInv, TypeOK, PlaneTypeOK
    <3> QED
      BY <1>0, <3>1, <3>2 DEF SiteKnows, DocKnows, CallKnows
  <2> QED
    BY <1>0, <2>1, WorkerKnows
<1>2. ASSUME NEW q \in Clients PROVE ClientKnows(client[q])'
  <2>1. PICK r \in ClientStates : r = client[q] /\ r = client'[q] /\ ClientKnows(r)
                                  /\ ClientInv(r)
    BY <1>0 DEF BInv, ControlTypeOK, ClientsInv, KInv
  <2>2. r.exec # NoExec => r.exec \in Execs
    BY DEF ClientStates
  <2>3. /\ r.cmd \in Collecting /\ r.resp.sched = "ended" /\ ~Usable(r.resp.result)
           => Over(r.exec)'
        /\ r.pc = "collection_failed" => Preemption \/ Over(r.exec)'
    BY <1>0, <2>1, <2>2 DEF ClientKnows, ClientInv, SiteStays
  <2>4. r.resp.job # NoJob => jobExec'[r.resp.job] = r.exec
    <3>1. r.resp.job # NoJob => r.resp.job \in Jobs
      BY DEF ClientStates, Responses
    <3> QED
      BY <1>0, <2>1, <3>1 DEF ClientKnows, SiteStays
  <2>5. r.pc \in {"reject", "handler_write", "handler"} /\ NothingRuns(r.exec)
        => NothingRuns(r.exec)'
    BY <1>0, <2>1, <2>2 DEF ClientInv, SiteStays
  <2> QED
    BY <1>0, <2>1, <2>3, <2>4, <2>5 DEF ClientKnows
<1>3. VerdictInv'
  BY <1>0, IdentityAssumption
     DEF KInv, VerdictInv, SiteStays, BInv, ControlTypeOK, StoreTypeOK
<1> QED
  BY <1>1, <1>2, <1>3 DEF KInv

\* What a step of command p may do to the rows of an execution.
VerdictMove(p) ==
    \A e \in Execs :
        /\ \/ e \notin Created
           \/ e = client[p].exec /\ client[p].cmd \in Working
           \/ /\ remoteRow'[e].sched \in {remoteRow[e].sched, "none"}
              /\ jobRow'[e] = jobRow[e]
              /\ execState'[e] = execState[e] \/ execState'[e] \in SettledStates
        /\ execState'[e] = "collection_failed" =>
            execState[e] = "collection_failed" \/ Preemption \/ Over(e)
        /\ execState'[e] = "failed" /\ imported'[e] = "none" =>
            \/ execState[e] = "failed" /\ imported[e] = "none"
            \/ "invalid" \in Outcomes
            \/ /\ NothingRuns(e) /\ e = client[p].exec /\ client[p].cmd = "execute"
               /\ ~BeforeSubmit(client[p]) /\ ~BeforeSubmit(client'[p])
        /\ jobRow'[e] # NoJob => jobExec[jobRow'[e]] = e

\* What it may do to the calls.
KnownMove(p) ==
    \A d \in Calls :
        \/ call'[d] = call[d]
        \/ call'[d] = IdleCall
        \/ /\ call'[d].exec = client[p].exec /\ call'[d].pc = "start"
           /\ call'[d].snap = NoDoc /\ call'[d].sched = "none"
           /\ call'[d].op = "submit" => BeforeSubmit(client[p])

\* A step of command p preserves what is known if the new record satisfies its part.
LEMMA VerdictStep ==
    ASSUME BInv, KInv, OnePerExecution, NEW p \in Clients, NEW s \in ClientStates, Become(p, s),
           UNCHANGED <<planeVars, doc>>, KnownMove(p), VerdictMove(p), ClientKnows(s)',
           BeforeSubmit(s) => \/ BeforeSubmit(client[p]) /\ s.exec = client[p].exec
                              \/ execState'[s.exec] = "planned"
    PROVE  KInv'
<1>0. /\ UNCHANGED <<jobExec, jobPhase, bundle, doc>>
      /\ \A e : (HasJob(e)' <=> HasJob(e)) /\ (Over(e)' <=> Over(e))
      /\ client'[p] = s /\ \A q \in Clients \ {p} : client'[q] = client[q]
  BY DEF planeVars, HasJob, Over, BInv, ControlTypeOK, Become
<1>1. SiteKnows'
  <2>1. ASSUME NEW d \in Calls PROVE CallKnows(call[d])'
    <3>1. CASE call'[d] = call[d]
      BY <1>0, <3>1 DEF KInv, SiteKnows, CallKnows
    <3>2. CASE call'[d] = IdleCall
      BY <3>2 DEF IdleCall, NoDoc, CallKnows
    <3>3. CASE /\ call'[d].exec = client[p].exec /\ call'[d].pc = "start"
               /\ call'[d].snap = NoDoc /\ call'[d].sched = "none"
               /\ call'[d].op = "submit" => BeforeSubmit(client[p])
      <4>1. BeforeSubmit(client[p]) => ~HasJob(client[p].exec)
        BY DEF BInv, ClientsInv, ClientInv
      <4> QED
        BY <1>0, <3>3, <4>1 DEF CallKnows, NoDoc
    <3> QED
      BY <3>1, <3>2, <3>3 DEF KnownMove
  <2> QED
    BY <1>0, <2>1 DEF KInv, SiteKnows, DocKnows
<1>2. ASSUME NEW e \in Execs, NothingRuns(e), BeforeSubmit(client[p]) => client[p].exec # e
      PROVE  NothingRuns(e)'
  <2>1. ASSUME NEW d \in Calls, SubmitOpen(d, e)' PROVE FALSE
    <3>1. call'[d].op = "submit" /\ call'[d].exec = e /\ call'[d] # call[d]
          /\ call'[d] # IdleCall
      BY <1>2, <2>1 DEF NothingRuns, SubmitOpen, IdleCall
    <3> QED
      BY <1>2, <3>1 DEF KnownMove
  <2> QED
    BY <1>0, <1>2, <2>1 DEF NothingRuns
<1>3. ASSUME NEW q \in Clients PROVE ClientKnows(client[q])'
  <2>1. CASE q = p
    BY <1>0, <2>1 DEF ClientKnows
  <2>2. CASE q # p
    <3>1. PICK r \in ClientStates : r = client[q] /\ r = client'[q] /\ ClientKnows(r)
                                    /\ ClientInv(r)
      BY <1>0, <2>2 DEF BInv, ControlTypeOK, ClientsInv, KInv
    <3>2. r.exec # NoExec => r.exec \in Execs /\ r.exec \in Created
      BY <3>1 DEF ClientStates, ClientInv
    <3>3. r.cmd \in Working /\ r.exec # NoExec =>
            /\ remoteRow'[r.exec].sched \in {remoteRow[r.exec].sched, "none"}
            /\ jobRow'[r.exec] = jobRow[r.exec]
            /\ execState'[r.exec] = execState[r.exec] \/ execState'[r.exec] \in SettledStates
      <4>1. r.cmd \in Working /\ r.exec # NoExec =>
                ~(r.exec = client[p].exec /\ client[p].cmd \in Working)
        BY <2>2, <3>1 DEF OnePerExecution
      <4> QED
        BY <3>2, <4>1 DEF VerdictMove
    <3>4. r.cmd = "execute" /\ r.exec # NoExec /\ NothingRuns(r.exec) => NothingRuns(r.exec)'
      <4>0. BeforeSubmit(client[p]) => client[p].cmd = "execute"
        BY DEF BInv, ClientsInv, ClientInv
      <4>1. r.cmd = "execute" /\ r.exec # NoExec =>
                (BeforeSubmit(client[p]) => client[p].exec # r.exec)
        BY <2>2, <3>1, <4>0 DEF BInv, ApartInv, Collide
      <4> QED
        BY <1>2, <3>2, <4>1
    <3>5. /\ r.pc \in {"result", "poll"} => r.cmd \in Collecting /\ r.exec # NoExec
          /\ r.pc \in {"reject", "handler_write", "handler", "ambiguous_row"}
             => r.cmd = "execute" /\ r.exec # NoExec
          /\ r.pc \in {"prepare", "prepared", "row", "upload", "submit", "reconcile", "save_job"}
             => r.exec # NoExec
      BY <3>1 DEF ClientKnows, ClientInv
    <3>6. r.pc \in {"result", "poll"} =>
            r.cmd \in Collecting /\ remoteRow'[r.exec].sched \in {r.resp.sched, "none"}
      BY <3>1, <3>3, <3>5 DEF ClientKnows, Collecting, Working
    <3>7. /\ r.cmd = "execute" /\ r.pc \in {"prepare", "prepared", "row", "upload", "submit",
                                            "reconcile", "save_job"} => jobRow'[r.exec] = NoJob
          /\ r.pc \in {"handler", "ambiguous_row"} /\ execState[r.exec] \in SettledStates
             => execState'[r.exec] \in SettledStates
      BY <3>1, <3>3, <3>5 DEF ClientKnows, Working
    <3>8. r.pc \in {"reject", "handler_write", "handler"} /\ NothingRuns(r.exec)
          => NothingRuns(r.exec)'
      BY <3>4, <3>5
    <3> QED
      BY <1>0, <3>1, <3>6, <3>7, <3>8 DEF ClientKnows
  <2> QED
    BY <2>1, <2>2
<1>4. VerdictInv'
  <2> SUFFICES ASSUME NEW e \in Execs
               PROVE  /\ execState'[e] = "collection_failed" => Preemption \/ Over(e)'
                      /\ execState'[e] = "failed" /\ imported'[e] = "none" =>
                         \/ "invalid" \in Outcomes
                         \/ /\ NothingRuns(e)'
                            /\ \A q \in Clients : BeforeSubmit(client'[q]) => client'[q].exec # e
                      /\ jobRow'[e] # NoJob => jobExec'[jobRow'[e]] = e
    BY DEF VerdictInv, BeforeSubmit
  <2>1. execState'[e] = "collection_failed" => Preemption \/ Over(e)'
    BY <1>0 DEF VerdictMove, KInv, VerdictInv
  <2>2. ASSUME execState'[e] = "failed", imported'[e] = "none", "invalid" \notin Outcomes
        PROVE  /\ NothingRuns(e)'
               /\ \A q \in Clients : BeforeSubmit(client'[q]) => client'[q].exec # e
    <3>1. CASE execState[e] = "failed" /\ imported[e] = "none"
      <4>1. NothingRuns(e) /\ \A q \in Clients : BeforeSubmit(client[q]) => client[q].exec # e
        BY <2>2, <3>1 DEF KInv, VerdictInv
      <4>2. BeforeSubmit(s) => s.exec # e
        BY <2>2, <4>1
      <4> QED
        BY <1>0, <1>2, <4>1, <4>2
    <3>2. CASE /\ NothingRuns(e) /\ e = client[p].exec /\ client[p].cmd = "execute"
               /\ ~BeforeSubmit(client[p]) /\ ~BeforeSubmit(client'[p])
      <4>1. \A q \in Clients \ {p} : BeforeSubmit(client[q]) => client[q].exec # e
        <5>1. e # NoExec
          BY IdentityAssumption
        <5> QED
          BY <3>2, <5>1 DEF BInv, ApartInv, Collide, ClientsInv, ClientInv
      <4> QED
        BY <1>0, <1>2, <3>2, <4>1
    <3> QED
      BY <2>2, <3>1, <3>2 DEF VerdictMove
  <2>3. jobRow'[e] # NoJob => jobExec'[jobRow'[e]] = e
    BY <1>0 DEF VerdictMove
  <2> QED
    BY <2>1, <2>2, <2>3
<1> QED
  BY <1>1, <1>3, <1>4 DEF KInv

\* The store's transactions that claim no verdict.
LEMMA VerdictTransactions ==
    ASSUME BInv, KInv, NEW p \in Clients, client[p].exec \in Execs
    PROVE  /\ UNCHANGED storeVars => VerdictMove(p)
           /\ \A x \in ExecutionStates \ {"failed", "collection_failed"} :
                /\ client[p].cmd \in Working \/ x \in SettledStates
                /\ update_execution_state(client[p].exec, x)
                => VerdictMove(p)
           /\ \A x, o : /\ client[p].cmd \in Working \/ o = "none"
                        /\ save_remote_state(client[p].exec, x, o)
                        => VerdictMove(p)
           /\ \A j \in Jobs : /\ client[p].cmd \in Working /\ jobExec[j] = client[p].exec
                              /\ save_scheduler_job(client[p].exec, j)
                              => VerdictMove(p)
<1>0. /\ StoreTypeOK
      /\ \A e \in Execs : jobRow[e] # NoJob => jobExec[jobRow[e]] = e
  BY DEF BInv, ControlTypeOK, KInv, VerdictInv
<1>1. UNCHANGED storeVars => VerdictMove(p)
  BY <1>0 DEF storeVars, VerdictMove
<1>2. ASSUME NEW x \in ExecutionStates \ {"failed", "collection_failed"},
             client[p].cmd \in Working \/ x \in SettledStates,
             update_execution_state(client[p].exec, x)
      PROVE  VerdictMove(p)
  BY <1>0, <1>2 DEF StoreTypeOK, update_execution_state, VerdictMove
<1>3. ASSUME NEW x, NEW o, client[p].cmd \in Working \/ o = "none",
             save_remote_state(client[p].exec, x, o)
      PROVE  VerdictMove(p)
  BY <1>0, <1>3 DEF StoreTypeOK, save_remote_state, VerdictMove
<1>4. ASSUME NEW j \in Jobs, client[p].cmd \in Working, jobExec[j] = client[p].exec,
             save_scheduler_job(client[p].exec, j)
      PROVE  VerdictMove(p)
  BY <1>0, <1>4 DEF StoreTypeOK, save_scheduler_job, VerdictMove
<1> QED
  BY <1>1, <1>2, <1>3, <1>4

\* The state of the site as the commands see it does not move with the store.
LEMMA SiteStill ==
    ASSUME UNCHANGED vars, NEW p
    PROVE  /\ UNCHANGED <<planeVars, doc>> /\ KnownMove(p)
           /\ UNCHANGED <<jobExec, bundle>>
           /\ \A e : (Over(e)' <=> Over(e)) /\ (NothingRuns(e)' <=> NothingRuns(e))
BY DEF vars, planeVars, workerVars, KnownMove, Over, NothingRuns, HasJob, SubmitOpen

LEMMA FinishVerdict ==
    ASSUME BInv, KInv, OnePerExecution, NEW p \in Clients, Finish(p), UNCHANGED vars,
           VerdictMove(p)
    PROVE  KInv'
<1>1. /\ IdleClient \in ClientStates /\ IdleClient.slot = NoCall /\ IdleClient.cmd = "idle"
      /\ IdleClient.pc = "idle" /\ IdleClient.resp.sched = "none" /\ IdleClient.resp.job = NoJob
  BY DEF IdleClient, NoResponse, ClientStates, Responses, DocStates
<1> HIDE DEF IdleClient
<1>2. ClientKnows(IdleClient)'
  BY <1>1 DEF ClientKnows, Collecting
<1>3. ~BeforeSubmit(IdleClient)
  BY <1>1 DEF BeforeSubmit
<1> QED
  BY <1>1, <1>2, <1>3, SiteStill, VerdictStep DEF Finish

\* The command goes on at pc.
LEMMA GotoVerdict ==
    ASSUME BInv, KInv, OnePerExecution, NEW p \in Clients, UNCHANGED vars,
           VerdictMove(p),
           NEW pc \in {"row", "upload", "handler", "ambiguous_row", "submitted", "submitted_row",
                       "handler_write", "record_save", "record_state", "record_row", "result",
                       "import", "poll", "collection_failed", "cancelled_state",
                       "cancelled_row"}, Goto(p, pc),
           pc \in {"result", "poll"} =>
               /\ client[p].cmd \in Collecting
               /\ remoteRow'[client[p].exec].sched \in {client[p].resp.sched, "none"},
           pc = "poll" => ~Usable(client[p].resp.result),
           pc = "collection_failed" => Preemption \/ Over(client[p].exec),
           pc \in {"row", "upload"} => BeforeSubmit(client[p]) /\ UNCHANGED jobRow,
           pc \in {"row", "upload"} => client[p].pc \in {"prepared", "row"},
           pc \in {"handler", "handler_write", "ambiguous_row"} => client[p].cmd = "execute",
           pc = "handler_write" => "invalid" \in Outcomes \/ NothingRuns(client[p].exec),
           pc = "handler" => \/ "invalid" \in Outcomes \/ NothingRuns(client[p].exec)
                             \/ execState'[client[p].exec] \in SettledStates,
           pc = "ambiguous_row" => execState'[client[p].exec] \in SettledStates
    PROVE  KInv'
<1>0. PICK r \in ClientStates : r = client[p] /\ ClientKnows(r)
  BY DEF BInv, ControlTypeOK, KInv
<1> DEFINE s == [r EXCEPT !.pc = pc]
<1>1. s \in ClientStates /\ s.pc = pc /\ s.exec = r.exec /\ s.cmd = r.cmd /\ s.resp = r.resp
  BY DEF ClientStates
<1>2. Become(p, s)
  BY <1>0 DEF Goto
<1> HIDE DEF s
<1>3. BeforeSubmit(s) => BeforeSubmit(client[p]) /\ s.exec = client[p].exec
  BY <1>0, <1>1 DEF BeforeSubmit
<1>4. r.cmd = "execute" /\ pc \in {"row", "upload"} => jobRow'[r.exec] = NoJob
  BY <1>0 DEF ClientKnows
<1>5. ClientKnows(s)'
  BY <1>0, <1>1, <1>4, SiteStill DEF ClientKnows
<1> QED
  BY <1>1, <1>2, <1>3, <1>5, SiteStill, VerdictStep

\* A call leaves.
LEMMA SendVerdict ==
    ASSUME BInv, KInv, OnePerExecution, NEW p \in Clients, NEW op \in Ops, Send(p, op),
           client[p].pc = op, client[p].slot = NoCall, client[p].exec \in Execs
    PROVE  KInv'
<1>0. PICK r \in ClientStates : r = client[p] /\ ClientKnows(r)
  BY DEF BInv, ControlTypeOK, KInv
<1>1. PICK c \in Calls : /\ Invoke(c, op, r.exec) /\ UNCHANGED <<storeVars, spent>>
                         /\ Become(p, [r EXCEPT !.slot = c])
  BY <1>0 DEF Send
<1> DEFINE s == [r EXCEPT !.slot = c]
           t == [IdleCall EXCEPT !.op = op, !.exec = r.exec, !.pc = "start"]
<1>2. /\ s \in ClientStates /\ s.slot = c /\ s.cmd = r.cmd /\ s.pc = r.pc
      /\ s.exec = r.exec /\ s.resp = r.resp /\ r.pc = op
  BY <1>0 DEF ClientStates
<1>3. call' = [call EXCEPT ![c] = t] /\ UNCHANGED <<planeVars, dir, doc, staged>>
  BY <1>1 DEF Invoke, Update
<1>4. /\ t.op = op /\ t.exec = r.exec /\ t.pc = "start" /\ t.snap = NoDoc
      /\ t.sched = "none"
  BY DEF IdleCall
<1> HIDE DEF s, t
<1>5. KnownMove(p)
  <2>1. op = "submit" => BeforeSubmit(client[p])
    BY DEF BeforeSubmit
  <2> QED
    BY <1>0, <1>3, <1>4, <2>1 DEF KnownMove, BInv, IInv, TypeOK, WorkerTypeOK
<1>6. VerdictMove(p)
  BY <1>1, VerdictTransactions
<1>7. ClientKnows(s)'
  BY <1>0, <1>1, <1>2, <1>3 DEF ClientKnows, Over, planeVars, storeVars, Ops
<1>8. BeforeSubmit(s) => BeforeSubmit(client[p]) /\ s.exec = client[p].exec
  BY <1>0, <1>2 DEF BeforeSubmit
<1>9. Become(p, s)
  BY <1>1 DEF s
<1> QED
  BY <1>2, <1>3, <1>5, <1>6, <1>7, <1>8, <1>9, VerdictStep

\* An answer is lost.
LEMMA LoseVerdict ==
    ASSUME BInv, KInv, OnePerExecution, NEW p \in Clients, NEW pc, LoseThen(p, pc),
           client[p].slot # NoCall, client[p].exec \in Execs, client[p].cmd = "execute",
           pc \in {"handler", "reconcile", "ambiguous"},
           pc = "handler" => client[p].pc = "prepare",
           pc = "reconcile" => client[p].pc = "submit"
    PROVE  KInv'
<1>0. PICK r \in ClientStates : r = client[p] /\ ClientKnows(r) /\ ClientInv(r)
  BY DEF BInv, ControlTypeOK, ClientsInv, KInv
<1> DEFINE s == [r EXCEPT !.pc = pc, !.slot = NoCall]
<1>1. /\ s \in ClientStates /\ s.slot = NoCall /\ s.cmd = "execute" /\ s.pc = pc
      /\ s.exec = r.exec /\ s.resp = r.resp
  BY <1>0 DEF ClientStates
<1>2. Become(p, s) /\ UNCHANGED vars /\ UNCHANGED storeVars
  BY <1>0 DEF LoseThen, Lose
<1> HIDE DEF s
<1>3. pc = "handler" => NothingRuns(r.exec)
  BY <1>0 DEF ClientInv, BeforeSubmit, NothingRuns
<1>4. ClientKnows(s)'
  <2>1. jobRow' = jobRow
    BY <1>2 DEF storeVars
  <2> QED
    BY <1>0, <1>1, <1>2, <1>3, <2>1, SiteStill DEF ClientKnows, Collecting
<1>5. ~BeforeSubmit(s) /\ VerdictMove(p)
  BY <1>1, <1>2, VerdictTransactions DEF BeforeSubmit
<1> QED
  BY <1>1, <1>2, <1>4, <1>5, SiteStill, VerdictStep

\* An answer arrives: it is about the command's execution and what it says is so.
LEMMA ReceiveVerdict ==
    ASSUME BInv, KInv, OnePerExecution, NEW p \in Clients, NEW pc, Receive(p, pc),
           client[p].slot # NoCall,
           client[p].pc = "reconcile" \/ client[p].cmd \notin Collecting,
           pc \in {"prepared", "handler", "ambiguous", "save_job", "reject", "record",
                   "cancelled", "cancel_refused"},
           pc \in {"prepared", "handler"} => client[p].pc = "prepare",
           pc \in {"handler", "reject"} => client[p].cmd = "execute",
           pc \in {"save_job", "reject"} =>
               /\ client[p].pc \in {"submit", "reconcile"} /\ client[p].cmd = "execute"
               /\ pc = AfterSubmission(Awaited(p)),
           client[p].pc = "prepare" => client[p].cmd = "execute"
    PROVE  KInv'
<1>0. PICK r \in ClientStates : r = client[p] /\ ClientKnows(r) /\ ClientInv(r)
  BY DEF BInv, ControlTypeOK, ClientsInv, KInv
<1>1. PICK c \in Calls : c = r.slot
  BY <1>0 DEF ClientStates
<1>2. PICK a \in CallStates : a = call[c] /\ AnswerInv(a) /\ CallKnows(a) /\ RecordInv(a)
  BY <1>1 DEF BInv, IInv, TypeOK, WorkerTypeOK, CallInv, AnswersInv, KInv, SiteKnows
<1> DEFINE m == [state |-> a.snap.state, job |-> a.snap.job, sched |-> a.sched,
                 result |-> a.result]
<1>s. PICK s : s = [r EXCEPT !.pc = pc, !.slot = NoCall, !.resp = m]
  OBVIOUS
<1>3. /\ a.pc = "done" /\ a.status # "error" /\ Become(p, s) /\ Update(c, IdleCall)
      /\ UNCHANGED <<planeVars, dir, doc, staged, storeVars, spent>>
  BY <1>0, <1>1, <1>2, <1>s DEF Receive, Awaited
<1>4. m \in Responses /\ m.result = a.result /\ m.job = a.snap.job /\ m.sched = a.sched
  BY DEF Responses, CallStates, Docs
<1> HIDE DEF m
<1>5. /\ s \in ClientStates /\ s.slot = NoCall /\ s.cmd = r.cmd /\ s.pc = pc
      /\ s.exec = r.exec /\ s.resp = m
  BY <1>4, <1>s DEF ClientStates
<1>6. r.exec = a.exec /\ a.op = r.pc /\ r.pc \in Ops /\ r.exec # NoExec /\ r.exec \in Execs
  BY <1>0, <1>1, <1>2 DEF ClientInv, Ops, ClientStates
<1>7. /\ call' = [call EXCEPT ![c] = IdleCall] /\ call'[c] = IdleCall
      /\ \A d \in Calls \ {c} : call'[d] = call[d]
      /\ UNCHANGED <<jobExec, jobPhase, bundle, jobRow, execState, remoteRow>>
      /\ \A e : (HasJob(e)' <=> HasJob(e)) /\ (Over(e)' <=> Over(e))
  BY <1>3 DEF Update, BInv, IInv, TypeOK, WorkerTypeOK, planeVars, storeVars, HasJob, Over
<1>8. KnownMove(p) /\ VerdictMove(p)
  BY <1>0, <1>3, <1>6, <1>7, VerdictTransactions DEF KnownMove
<1>9. /\ m.job # NoJob => jobExec[m.job] = r.exec
      /\ m.sched = "evicted" => Preemption
  BY <1>2, <1>4, <1>6 DEF RecordInv, ObserveInv, CallKnows
<1>10. r.cmd \in Collecting /\ m.sched = "ended" /\ ~Usable(m.result) => Over(r.exec)
  <2> SUFFICES ASSUME r.cmd \in Collecting, m.sched = "ended", ~Usable(m.result)
               PROVE  Over(r.exec)
    OBVIOUS
  <2>1. a.op = "reconcile"
    BY <1>0, <1>6
  <2>2. /\ a.snap.job # NoJob /\ jobPhase[a.snap.job] = "ended" /\ jobExec[a.snap.job] = r.exec
        /\ a.result = "none" => ~Usable(bundle[r.exec])
    BY <1>2, <1>3, <1>4, <1>6, <2>1 DEF RecordInv, ObserveInv
  <2>3. a.snap.job \in Jobs
    BY <2>2 DEF CallStates, Docs
  <2>4. a.result # "none" => a.result = bundle[r.exec]
    BY <1>2, <1>6 DEF AnswerInv
  <2> QED
    BY <1>4, <2>2, <2>3, <2>4 DEF Over
<1>11. pc = "save_job" => m.job # NoJob /\ r.cmd = "execute"
  BY <1>0, <1>1, <1>2, <1>4 DEF AfterSubmission, Awaited
<1>12. pc = "reject" => "invalid" \in Outcomes \/ NothingRuns(r.exec)'
  <2> SUFFICES ASSUME pc = "reject", "invalid" \notin Outcomes PROVE NothingRuns(r.exec)'
    OBVIOUS
  <2>1. /\ a.op \in {"submit", "reconcile"}
        /\ a.status \in {"failed", "unavailable"} \/ (a.status = "ok" /\ a.snap.job = NoJob)
    BY <1>0, <1>1, <1>2, <1>3, <1>6 DEF AfterSubmission, Awaited, CallStates, Statuses
  <2>2. a.op = "submit" /\ a.status \in {"failed", "unavailable"} /\ a.snap.state # "cancelled"
    BY <1>2, <1>3, <2>1 DEF CallKnows
  <2>3. ~HasJob(r.exec)
    BY <1>2, <1>3, <1>6, <2>2 DEF RecordInv, SubmitInv
  <2>4. ASSUME NEW d \in Calls, SubmitOpen(d, r.exec)' PROVE FALSE
    <3>1. d # c /\ SubmitOpen(d, r.exec)
      BY <1>7, <2>4 DEF SubmitOpen, IdleCall
    <3> QED
      BY <1>2, <1>6, <2>2, <3>1 DEF SubmitOpen, BInv, IInv, UniqueInv, Clash
  <2> QED
    BY <1>7, <2>3, <2>4 DEF NothingRuns
<1>13. pc = "handler" => NothingRuns(r.exec)'
  <2>1. pc = "handler" => NothingRuns(r.exec)
    BY <1>0 DEF ClientInv, BeforeSubmit, NothingRuns
  <2>2. \A d \in Calls : SubmitOpen(d, r.exec)' => SubmitOpen(d, r.exec)
    BY <1>7 DEF SubmitOpen, IdleCall
  <2> QED
    BY <1>7, <2>1, <2>2 DEF NothingRuns
<1>14. r.cmd = "execute" /\ pc \in {"prepared", "save_job"} => jobRow'[r.exec] = NoJob
  BY <1>0, <1>7 DEF ClientKnows
<1>15. ClientKnows(s)'
  BY <1>0, <1>5, <1>6, <1>7, <1>9, <1>10, <1>11, <1>12, <1>13, <1>14 DEF ClientKnows
<1>16. BeforeSubmit(s) => BeforeSubmit(client[p]) /\ s.exec = client[p].exec
  BY <1>0, <1>5 DEF BeforeSubmit
<1> QED
  BY <1>3, <1>5, <1>8, <1>15, <1>16, VerdictStep

LEMMA StoreStill ==
    ASSUME KInv, NEW p, UNCHANGED storeVars
    PROVE  VerdictMove(p)
BY DEF storeVars, VerdictMove, KInv, VerdictInv

\* A new command knows nothing yet.
LEMMA BeginVerdict ==
    ASSUME BInv, KInv, OnePerExecution, NEW p \in Clients,
           NEW cmd \in {"execute", "collect", "wait", "cancel"}, NEW e \in Execs \cup {NoExec},
           NEW pc \in {"create", "reconcile", "cancel"}, Begin(p, cmd, e, pc),
           cmd = "execute" => pc = "create"
    PROVE  KInv'
<1> DEFINE s == [IdleClient EXCEPT !.cmd = cmd, !.exec = e, !.pc = pc]
<1>1. /\ s \in ClientStates /\ s.cmd = cmd /\ s.pc = pc /\ s.resp.sched = "none"
      /\ s.resp.job = NoJob
  BY NewCommand DEF IdleClient, NoResponse
<1>2. /\ Become(p, s) /\ UNCHANGED vars /\ VerdictMove(p)
  BY StoreStill DEF Begin
<1> HIDE DEF s
<1>3. ClientKnows(s)' /\ ~BeforeSubmit(s)
  BY <1>1 DEF ClientKnows, BeforeSubmit
<1> QED
  BY <1>1, <1>2, <1>3, SiteStill, VerdictStep

\* An answer that nobody waits for tells nobody anything.
LEMMA DiscardVerdict ==
    ASSUME BInv, KInv, NEW c \in Calls, Discard(c)
    PROVE  KInv'
<1>1. /\ UNCHANGED <<jobExec, jobPhase, bundle, doc, execState, jobRow, remoteRow, imported>>
      /\ UNCHANGED client
      /\ \A d \in Calls : call'[d] = call[d] \/ call'[d] = IdleCall
      /\ \A e : (HasJob(e)' <=> HasJob(e)) /\ (Over(e)' <=> Over(e))
  BY DEF Discard, Update, planeVars, storeVars, HasJob, Over, BInv, IInv, TypeOK, WorkerTypeOK
<1>2. \A e \in Execs \cup {NoExec} : NothingRuns(e) => NothingRuns(e)'
  BY <1>1, IdentityAssumption DEF NothingRuns, SubmitOpen, IdleCall
<1>3. SiteKnows'
  BY <1>1 DEF KInv, SiteKnows, DocKnows, CallKnows, IdleCall, NoDoc
<1>4. ASSUME NEW q \in Clients PROVE ClientKnows(client[q])'
  <2>1. PICK r \in ClientStates : r = client[q] /\ r = client'[q] /\ ClientKnows(r)
    BY <1>1 DEF BInv, ControlTypeOK, KInv
  <2>2. NothingRuns(r.exec) => NothingRuns(r.exec)'
    BY <1>2 DEF ClientStates
  <2> QED
    BY <1>1, <2>1, <2>2 DEF ClientKnows
<1>5. VerdictInv'
  BY <1>1, <1>2 DEF KInv, VerdictInv, BeforeSubmit
<1> QED
  BY <1>3, <1>4, <1>5 DEF KInv

\* A new execution: no job row of it exists, since there is no job.
LEMMA ExecuteCreateVerdict ==
    ASSUME BInv, KInv, OnePerExecution, NEW p \in Clients, ExecuteCreate(p)
    PROVE  KInv'
<1>0. PICK r \in ClientStates : r = client[p] /\ ClientInv(r) /\ ClientKnows(r)
  BY DEF BInv, ControlTypeOK, ClientsInv, KInv
<1>1. PICK e \in Execs : /\ create_execution(e) /\ UNCHANGED vars
                         /\ Become(p, [r EXCEPT !.exec = e, !.pc = "prepare"])
  BY <1>0 DEF ExecuteCreate, StoreStep
<1> DEFINE s == [r EXCEPT !.exec = e, !.pc = "prepare"]
<1>2. r.cmd = "execute" /\ r.pc = "create" /\ r.exec = NoExec
  BY <1>0 DEF ExecuteCreate, At, ClientInv
<1>3. /\ s \in ClientStates /\ s.cmd = "execute" /\ s.pc = "prepare" /\ s.exec = e
      /\ s.resp = r.resp
  BY <1>2 DEF ClientStates
<1>4. Become(p, s)
  BY <1>1
<1> HIDE DEF s
<1>5. /\ e \notin Created /\ execState' = [execState EXCEPT ![e] = "planned"]
      /\ UNCHANGED <<jobRow, remoteRow, imported>>
  BY <1>1 DEF create_execution
<1>6. jobRow[e] = NoJob
  <2>1. jobRow[e] # NoJob => HasJob(e)
    BY DEF KInv, VerdictInv, BInv, ControlTypeOK, StoreTypeOK, HasJob
  <2> QED
    BY <1>5, <2>1 DEF BInv, JobsCreatedInv
<1>7. VerdictMove(p)
  BY <1>5 DEF VerdictMove, KInv, VerdictInv, BInv, ControlTypeOK, StoreTypeOK
<1>8. ClientKnows(s)'
  BY <1>0, <1>2, <1>3, <1>5, <1>6 DEF ClientKnows, Collecting
<1>9. execState'[s.exec] = "planned"
  BY <1>3, <1>5 DEF BInv, ControlTypeOK, StoreTypeOK
<1> QED
  BY <1>1, <1>3, <1>4, <1>7, <1>8, <1>9, SiteStill, VerdictStep

\* The upload precedes the submit.
LEMMA ExecuteUploadVerdict ==
    ASSUME BInv, KInv, OnePerExecution, NEW p \in Clients, ExecuteUpload(p)
    PROVE  KInv'
<1>0. PICK r \in ClientStates : r = client[p] /\ ClientInv(r) /\ ClientKnows(r)
  BY DEF BInv, ControlTypeOK, ClientsInv, KInv
<1>1. /\ r.cmd = "execute" /\ r.pc = "upload" /\ r.slot = NoCall /\ BeforeSubmit(r)
      /\ NothingRuns(r.exec) /\ jobRow[r.exec] = NoJob
  BY <1>0 DEF ExecuteUpload, At, ClientInv, BeforeSubmit, NothingRuns, ClientKnows
<1>2. VerdictMove(p) /\ UNCHANGED <<planeVars, doc, call, storeVars>>
  BY StoreStill DEF ExecuteUpload, LocalStep, vars, workerVars
<1>3. PICK pc \in {"submit", "handler"} : Goto(p, pc)
  BY DEF ExecuteUpload
<1> DEFINE s == [r EXCEPT !.pc = pc]
<1>4. s \in ClientStates /\ s.cmd = r.cmd /\ s.pc = pc /\ s.exec = r.exec /\ s.resp = r.resp
  BY DEF ClientStates
<1>5. Become(p, s)
  BY <1>0, <1>3 DEF Goto
<1> HIDE DEF s
<1>6. UNCHANGED <<jobExec, jobRow>> /\ NothingRuns(r.exec)' /\ KnownMove(p)
  BY <1>1, <1>2 DEF planeVars, storeVars, NothingRuns, HasJob, SubmitOpen, KnownMove
<1>7. ClientKnows(s)'
  BY <1>0, <1>1, <1>4, <1>6 DEF ClientKnows, Collecting
<1> QED
  BY <1>0, <1>1, <1>2, <1>4, <1>5, <1>6, <1>7, VerdictStep

\* Only a result that is imported with it makes an execution's state an outcome.
LEMMA CollectImportVerdict ==
    ASSUME BInv, KInv, OnePerExecution, NEW p \in Clients, CollectImport(p)
    PROVE  KInv'
<1>0. PICK r \in ClientStates : r = client[p] /\ ClientInv(r)
  BY DEF BInv, ControlTypeOK, ClientsInv
<1>1. /\ r.cmd \in Working /\ r.pc = "import" /\ r.exec \in Execs /\ Usable(r.resp.result)
      /\ UNCHANGED vars /\ Finish(p) /\ r.resp.result \in Outcomes
  BY <1>0 DEF CollectImport, At, ClientInv, ClientStates, Responses, StoreStep, LocalStep,
              Working, Collecting, Usable
<1>2. import_result(r.exec, r.resp.result) => VerdictMove(p)
  BY <1>0, <1>1, OutcomeAssumption
     DEF import_result, VerdictMove, KInv, VerdictInv, BInv, ControlTypeOK, StoreTypeOK
<1>3. VerdictMove(p)
  BY <1>0, <1>2, StoreStill DEF CollectImport, LocalStep
<1> QED
  BY <1>1, <1>3, FinishVerdict

LEMMA ExecuteVerdict ==
    ASSUME BInv, KInv, OnePerExecution, NEW p \in Clients, ExecuteStep(p)
    PROVE  KInv'
<1>0. /\ ClientInv(client[p]) /\ ClientKnows(client[p])
      /\ client[p].pc \notin {"idle", "create"} => client[p].exec \in Execs
      /\ client[p].resp.job \in Jobs \cup {NoJob}
  BY Command DEF KInv
<1>1. CASE ExecuteBegin(p)
  BY <1>1, BeginVerdict DEF ExecuteBegin
<1>2. CASE ExecuteCreate(p)
  BY <1>2, ExecuteCreateVerdict
<1>3. CASE ExecutePrepare(p)
  <2>1. client[p].pc = "prepare" /\ client[p].slot = NoCall /\ client[p].cmd = "execute"
    BY <1>3 DEF ExecutePrepare, At
  <2>2. NothingRuns(client[p].exec)
    BY <1>0, <2>1 DEF ClientInv, BeforeSubmit, NothingRuns
  <2>3. CASE Send(p, "prepare")
    BY <1>0, <2>1, <2>3, SendVerdict DEF Ops
  <2>4. CASE Goto(p, "handler") /\ LocalStep
    BY <2>1, <2>2, <2>4, StoreStill, GotoVerdict DEF LocalStep
  <2> QED
    BY <1>3, <2>3, <2>4 DEF ExecutePrepare
<1>4. CASE ExecutePrepareReply(p)
  <2>1. client[p].pc = "prepare" /\ client[p].slot # NoCall /\ client[p].cmd = "execute"
    BY <1>4 DEF ExecutePrepareReply, Waiting
  <2> QED
    BY <1>0, <1>4, <2>1, ReceiveVerdict, LoseVerdict DEF ExecutePrepareReply, Collecting
<1>5. CASE ExecutePrepared(p)
  <2>1. /\ client[p].pc = "prepared" /\ client[p].slot = NoCall /\ client[p].cmd = "execute"
        /\ UNCHANGED vars /\ Goto(p, "row")
        /\ update_execution_state(client[p].exec, "prepared")
    BY <1>5 DEF ExecutePrepared, At, StoreStep
  <2>2. VerdictMove(p) /\ UNCHANGED jobRow
    BY <1>0, <2>1, VerdictTransactions DEF Working, ExecutionStates, update_execution_state
  <2> QED
    BY <2>1, <2>2, GotoVerdict DEF BeforeSubmit
<1>6. CASE ExecutePreparedRow(p)
  <2>1. /\ client[p].pc = "row" /\ client[p].slot = NoCall /\ client[p].cmd = "execute"
        /\ UNCHANGED vars /\ Goto(p, "upload")
        /\ save_remote_state(client[p].exec, "prepared", "none")
    BY <1>6 DEF ExecutePreparedRow, At, StoreStep
  <2>2. VerdictMove(p) /\ UNCHANGED jobRow
    BY <1>0, <2>1, VerdictTransactions DEF save_remote_state
  <2> QED
    BY <2>1, <2>2, GotoVerdict DEF BeforeSubmit
<1>7. CASE ExecuteUpload(p)
  BY <1>7, ExecuteUploadVerdict
<1>8. CASE ExecuteSubmit(p)
  BY <1>0, <1>8, SendVerdict DEF ExecuteSubmit, At, Ops
<1>9. CASE ExecuteSubmitReply(p)
  <2>1. client[p].pc = "submit" /\ client[p].slot # NoCall /\ client[p].cmd = "execute"
    BY <1>9 DEF ExecuteSubmitReply, Waiting
  <2>2. AfterSubmission(Awaited(p)) \in {"ambiguous", "save_job", "reject"}
    BY DEF AfterSubmission
  <2> QED
    BY <1>0, <1>9, <2>1, <2>2, ReceiveVerdict, LoseVerdict DEF ExecuteSubmitReply, Collecting
<1>10. CASE ExecuteReconcile(p)
  BY <1>0, <1>10, SendVerdict DEF ExecuteReconcile, At, Ops
<1>11. CASE ExecuteReconcileReply(p)
  <2>1. client[p].pc = "reconcile" /\ client[p].slot # NoCall /\ client[p].cmd = "execute"
    BY <1>11 DEF ExecuteReconcileReply, Waiting
  <2>2. AfterSubmission(Awaited(p)) \in {"ambiguous", "save_job", "reject"}
    BY DEF AfterSubmission
  <2> QED
    BY <1>0, <1>11, <2>1, <2>2, ReceiveVerdict, LoseVerdict DEF ExecuteReconcileReply
<1>12. CASE ExecuteReject(p)
  <2>1. /\ client[p].pc = "reject" /\ client[p].slot = NoCall /\ client[p].cmd = "execute"
        /\ UNCHANGED vars /\ Goto(p, "handler")
        /\ update_execution_state(client[p].exec, "failed")
    BY <1>12 DEF ExecuteReject, At, StoreStep
  <2>2. client'[p].pc = "handler" /\ client[p].exec \in Execs
    BY <1>0, <2>1 DEF Goto, Become, BInv, ControlTypeOK, ClientStates
  <2>3. ~BeforeSubmit(client[p]) /\ ~BeforeSubmit(client'[p])
    BY <2>1, <2>2 DEF BeforeSubmit
  <2>4. "invalid" \in Outcomes \/ NothingRuns(client[p].exec)
    BY <1>0, <2>1 DEF ClientKnows
  <2>5. VerdictMove(p) /\ execState'[client[p].exec] \in SettledStates
    BY <2>1, <2>2, <2>3, <2>4 DEF VerdictMove, update_execution_state, BInv, ControlTypeOK,
       StoreTypeOK, Working, SettledStates, KInv, VerdictInv
  <2> QED
    BY <2>1, <2>5, GotoVerdict
<1>13. CASE ExecuteAmbiguous(p)
  <2>1. /\ client[p].pc = "ambiguous" /\ client[p].cmd = "execute"
        /\ UNCHANGED vars /\ Goto(p, "ambiguous_row")
        /\ update_execution_state(client[p].exec, "submission_ambiguous")
    BY <1>13 DEF ExecuteAmbiguous, At, StoreStep
  <2>2. VerdictMove(p) /\ execState'[client[p].exec] \in SettledStates
    BY <1>0, <2>1, VerdictTransactions DEF Working, ExecutionStates, update_execution_state,
       SettledStates, BInv, ControlTypeOK, StoreTypeOK
  <2> QED
    BY <2>1, <2>2, GotoVerdict
<1>14. CASE ExecuteAmbiguousRow(p)
  <2>1. /\ client[p].pc = "ambiguous_row" /\ client[p].cmd = "execute"
        /\ UNCHANGED vars /\ Goto(p, "handler")
        /\ save_remote_state(client[p].exec, "ambiguous", "none")
    BY <1>14 DEF ExecuteAmbiguousRow, At, StoreStep
  <2>2. VerdictMove(p) /\ execState'[client[p].exec] \in SettledStates
    BY <1>0, <2>1, VerdictTransactions DEF save_remote_state, ClientKnows
  <2> QED
    BY <2>1, <2>2, GotoVerdict
<1>15. CASE ExecuteSaveJob(p)
  <2> DEFINE e == client[p].exec
             j == client[p].resp.job
  <2>1. client[p].pc = "save_job" /\ client[p].cmd = "execute"
    BY <1>15 DEF ExecuteSaveJob, At
  <2>2. e \in Execs /\ j \in Jobs /\ jobExec[j] = e /\ jobRow[e] = NoJob
    BY <1>0, <2>1 DEF ClientKnows
  <2>3. CanSaveJob(e, j)
    BY <2>2, IdentityAssumption DEF CanSaveJob, KInv, VerdictInv
  <2>4. save_scheduler_job(e, j) /\ Goto(p, "submitted") /\ UNCHANGED vars
    BY <1>15, <2>3 DEF ExecuteSaveJob, StoreStep
  <2>5. VerdictMove(p)
    BY <2>1, <2>2, <2>4, VerdictTransactions DEF Working
  <2> QED
    BY <2>4, <2>5, GotoVerdict
<1>16. CASE ExecuteSubmitted(p)
  <2>1. /\ client[p].pc = "submitted" /\ client[p].cmd = "execute"
        /\ UNCHANGED vars /\ Goto(p, "submitted_row")
        /\ update_execution_state(client[p].exec, "submitted")
    BY <1>16 DEF ExecuteSubmitted, At, StoreStep
  <2>2. VerdictMove(p)
    BY <1>0, <2>1, VerdictTransactions DEF Working, ExecutionStates
  <2> QED
    BY <2>1, <2>2, GotoVerdict
<1>17. CASE ExecuteSubmittedRow(p)
  <2>1. /\ client[p].pc = "submitted_row" /\ client[p].cmd = "execute" /\ UNCHANGED vars
        /\ Finish(p) /\ save_remote_state(client[p].exec, "submitted", client[p].resp.sched)
    BY <1>17 DEF ExecuteSubmittedRow, At, StoreStep
  <2>2. VerdictMove(p)
    BY <1>0, <2>1, VerdictTransactions DEF Working
  <2> QED
    BY <2>1, <2>2, FinishVerdict
<1>18. CASE ExecuteHandler(p)
  <2>1. /\ client[p].pc = "handler" /\ client[p].cmd = "execute" /\ UNCHANGED vars
        /\ UNCHANGED storeVars
        /\ IF execState[client[p].exec] \in SettledStates
           THEN Finish(p) ELSE Goto(p, "handler_write")
    BY <1>18 DEF ExecuteHandler, At, LocalStep
  <2>2. CASE execState[client[p].exec] \in SettledStates
    BY <2>1, <2>2, StoreStill, FinishVerdict
  <2>3. CASE execState[client[p].exec] \notin SettledStates
    <3>1. "invalid" \in Outcomes \/ NothingRuns(client[p].exec)
      BY <1>0, <2>1, <2>3 DEF ClientKnows
    <3> QED
      BY <2>1, <2>3, <3>1, StoreStill, GotoVerdict
  <2> QED
    BY <2>2, <2>3
<1>19. CASE ExecuteHandlerWrite(p)
  <2>1. /\ client[p].pc = "handler_write" /\ client[p].cmd = "execute" /\ UNCHANGED vars
        /\ Finish(p) /\ update_execution_state(client[p].exec, "failed")
    BY <1>19 DEF ExecuteHandlerWrite, At, StoreStep
  <2>2. client'[p].pc = "idle" /\ client[p].exec \in Execs
    BY <1>0, <2>1 DEF Finish, Become, IdleClient, BInv, ControlTypeOK
  <2>3. ~BeforeSubmit(client[p]) /\ ~BeforeSubmit(client'[p])
    BY <2>1, <2>2 DEF BeforeSubmit
  <2>4. "invalid" \in Outcomes \/ NothingRuns(client[p].exec)
    BY <1>0, <2>1 DEF ClientKnows
  <2>5. VerdictMove(p)
    BY <2>1, <2>2, <2>3, <2>4 DEF VerdictMove, update_execution_state, BInv, ControlTypeOK,
       StoreTypeOK, Working, KInv, VerdictInv
  <2> QED
    BY <2>1, <2>5, FinishVerdict
<1> QED
  BY <1>1, <1>2, <1>3, <1>4, <1>5, <1>6, <1>7, <1>8, <1>9, <1>10, <1>11, <1>12, <1>13, <1>14,
     <1>15, <1>16, <1>17, <1>18, <1>19 DEF ExecuteStep

LEMMA CollectVerdict ==
    ASSUME BInv, KInv, OnePerExecution, NEW p \in Clients, CollectStep(p)
    PROVE  KInv'
<1>0. /\ ClientInv(client[p]) /\ ClientKnows(client[p])
      /\ client[p].pc \notin {"idle", "create"} => client[p].exec \in Execs
      /\ client[p].resp.job \in Jobs \cup {NoJob}
  BY Command DEF KInv
<1>1. CASE CollectBegin(p)
  <2>1. PICK e \in Created, cmd \in Collecting : Begin(p, cmd, e, "reconcile")
    BY <1>1 DEF CollectBegin
  <2>2. e \in Execs
    BY DEF BInv, ControlTypeOK, StoreTypeOK, Created
  <2> QED
    BY <2>1, <2>2, BeginVerdict DEF Collecting
<1>2. CASE CollectReconcile(p)
  BY <1>0, <1>2, SendVerdict DEF CollectReconcile, At, Ops
<1>3. CASE CollectReconcileReply(p)
  <2>1. client[p].pc = "reconcile" /\ client[p].slot # NoCall /\ client[p].cmd \in Collecting
    BY <1>3 DEF CollectReconcileReply, Waiting
  <2>2. CASE Receive(p, "record")
    BY <2>1, <2>2, ReceiveVerdict
  <2>3. CASE Lose(p) /\ Finish(p)
    BY <2>3, StoreStill, FinishVerdict DEF Lose
  <2> QED
    BY <1>3, <2>2, <2>3 DEF CollectReconcileReply
<1>4. CASE CollectRecord(p)
  <2>1. /\ UNCHANGED vars /\ UNCHANGED storeVars
        /\ Goto(p, "record_save") \/ Goto(p, "record_row")
    BY <1>4 DEF CollectRecord, LocalStep
  <2> QED
    BY <2>1, StoreStill, GotoVerdict
<1>5. CASE CollectRecordSave(p)
  <2> DEFINE e == client[p].exec
             j == client[p].resp.job
  <2>1. client[p].pc = "record_save" /\ client[p].cmd \in Working
    BY <1>5 DEF CollectRecordSave, At, Collecting, Working
  <2>2. CASE save_scheduler_job(e, j) /\ Goto(p, "record_state") /\ StoreStep
    <3>1. j # NoJob
      BY <1>0, <2>1, <2>2 DEF save_scheduler_job, CanSaveJob
    <3>2. j \in Jobs /\ jobExec[j] = e
      BY <1>0, <3>1 DEF ClientKnows
    <3>3. VerdictMove(p)
      BY <1>0, <2>1, <2>2, <3>2, VerdictTransactions
    <3> QED
      BY <2>2, <3>3, GotoVerdict DEF StoreStep
  <2>3. CASE Finish(p) /\ LocalStep
    BY <2>3, StoreStill, FinishVerdict DEF LocalStep
  <2> QED
    BY <1>5, <2>2, <2>3 DEF CollectRecordSave
<1>6. CASE CollectRecordState(p)
  <2>1. \A o : RecoveredState(o) \in ExecutionStates \ {"failed", "collection_failed"}
    BY DEF RecoveredState, ExecutionStates
  <2>2. /\ client[p].pc = "record_state" /\ client[p].cmd \in Working /\ UNCHANGED vars
        /\ update_execution_state(client[p].exec, RecoveredState(client[p].resp.sched))
        /\ Goto(p, "record_row")
    BY <1>6 DEF CollectRecordState, At, StoreStep, Collecting, Working
  <2>3. VerdictMove(p)
    BY <1>0, <2>1, <2>2, VerdictTransactions
  <2> QED
    BY <2>2, <2>3, GotoVerdict
<1>7. CASE CollectRecordRow(p)
  <2>1. /\ client[p].pc = "record_row" /\ client[p].cmd \in Collecting /\ UNCHANGED vars
        /\ save_remote_state(client[p].exec, client[p].resp.state, client[p].resp.sched)
        /\ Goto(p, "result")
    BY <1>7 DEF CollectRecordRow, At, StoreStep
  <2>2. VerdictMove(p)
    BY <1>0, <2>1, VerdictTransactions DEF Collecting, Working
  <2>3. remoteRow'[client[p].exec].sched = client[p].resp.sched
    BY <1>0, <2>1 DEF save_remote_state, BInv, ControlTypeOK, StoreTypeOK
  <2> QED
    BY <2>1, <2>2, <2>3, GotoVerdict
<1>8. CASE CollectResult(p)
  <2>1. /\ client[p].pc = "result" /\ client[p].cmd \in Collecting /\ UNCHANGED vars
        /\ UNCHANGED storeVars /\ UNCHANGED remoteRow
        /\ \/ Goto(p, "poll") /\ ~Usable(client[p].resp.result)
           \/ Finish(p)
           \/ Goto(p, "import")
    BY <1>8 DEF CollectResult, At, LocalStep, storeVars
  <2>2. remoteRow'[client[p].exec].sched \in {client[p].resp.sched, "none"}
    BY <1>0, <2>1 DEF ClientKnows
  <2> QED
    BY <2>1, <2>2, StoreStill, GotoVerdict, FinishVerdict
<1>9. CASE CollectImport(p)
  BY <1>9, CollectImportVerdict
<1>10. CASE WaitPoll(p)
  <2>1. /\ client[p].pc = "poll" /\ client[p].cmd = "wait" /\ client[p].slot = NoCall
        /\ UNCHANGED vars /\ UNCHANGED storeVars
    BY <1>10 DEF WaitPoll, At, LocalStep
  <2>2. CASE /\ Goto(p, "collection_failed")
             /\ remoteRow[client[p].exec].sched \in TerminalObservations
    <3>1. Preemption \/ Over(client[p].exec)
      BY <1>0, <2>1, <2>2 DEF ClientKnows, Collecting, TerminalObservations
    <3> QED
      BY <2>1, <2>2, <3>1, StoreStill, GotoVerdict
  <2>3. CASE Become(p, [client[p] EXCEPT !.pc = "reconcile", !.resp = NoResponse])
    <3>0. PICK r \in ClientStates : r = client[p]
      BY DEF BInv, ControlTypeOK
    <3> DEFINE s == [r EXCEPT !.pc = "reconcile", !.resp = NoResponse]
    <3>1. /\ s \in ClientStates /\ s.cmd = "wait" /\ s.pc = "reconcile"
          /\ s.resp.sched = "none" /\ s.resp.job = NoJob
      BY <2>1, <3>0 DEF ClientStates, NoResponse, Responses, DocStates
    <3>2. Become(p, s)
      BY <2>3, <3>0
    <3> HIDE DEF s
    <3>3. ClientKnows(s)' /\ ~BeforeSubmit(s)
      BY <3>1 DEF ClientKnows, BeforeSubmit
    <3> QED
      BY <2>1, <3>1, <3>2, <3>3, StoreStill, SiteStill, VerdictStep
  <2> QED
    BY <1>10, <2>2, <2>3 DEF WaitPoll
<1>11. CASE WaitCollectionFailed(p)
  <2>1. /\ client[p].pc = "collection_failed" /\ client[p].cmd = "wait" /\ UNCHANGED vars
        /\ Finish(p) /\ update_execution_state(client[p].exec, "collection_failed")
    BY <1>11 DEF WaitCollectionFailed, At, StoreStep
  <2>2. Preemption \/ Over(client[p].exec)
    BY <1>0, <2>1 DEF ClientKnows
  <2>3. VerdictMove(p)
    BY <1>0, <2>1, <2>2 DEF VerdictMove, update_execution_state, BInv, ControlTypeOK,
       StoreTypeOK, Working, KInv, VerdictInv
  <2> QED
    BY <2>1, <2>3, FinishVerdict
<1> QED
  BY <1>1, <1>2, <1>3, <1>4, <1>5, <1>6, <1>7, <1>8, <1>9, <1>10, <1>11 DEF CollectStep

\* A cancellation writes a settled state and a row without a scheduler condition.
LEMMA CancelVerdict ==
    ASSUME BInv, KInv, OnePerExecution, NEW p \in Clients, CancelStep(p) \/ Crash(p)
    PROVE  KInv'
<1>0. /\ client[p].pc \notin {"idle", "create"} => client[p].exec \in Execs
  BY Command
<1>1. CASE CancelBegin(p)
  <2>1. PICK e \in Created : Begin(p, "cancel", e, "cancel")
    BY <1>1 DEF CancelBegin
  <2>2. e \in Execs
    BY DEF BInv, ControlTypeOK, StoreTypeOK, Created
  <2> QED
    BY <2>1, <2>2, BeginVerdict
<1>2. CASE CancelSend(p)
  BY <1>0, <1>2, SendVerdict DEF CancelSend, At, Ops
<1>3. CASE CancelReply(p)
  <2>1. client[p].pc = "cancel" /\ client[p].slot # NoCall /\ client[p].cmd = "cancel"
    BY <1>3 DEF CancelReply, Waiting
  <2>2. ASSUME NEW pc \in {"cancelled", "cancel_refused"}, Receive(p, pc) PROVE KInv'
    BY <2>1, <2>2, ReceiveVerdict DEF Collecting
  <2>3. CASE Lose(p) /\ Finish(p)
    BY <2>3, StoreStill, FinishVerdict DEF Lose
  <2> QED
    BY <1>3, <2>2, <2>3 DEF CancelReply
<1>4. CASE CancelJobRow(p)
  <2>1. /\ UNCHANGED vars /\ UNCHANGED storeVars
        /\ Goto(p, "cancelled_state") \/ Finish(p)
    BY <1>4 DEF CancelJobRow, LocalStep
  <2> QED
    BY <2>1, StoreStill, GotoVerdict, FinishVerdict
<1>5. CASE CancelState(p)
  <2>1. /\ client[p].pc = "cancelled_state" /\ UNCHANGED vars /\ Goto(p, "cancelled_row")
        /\ update_execution_state(client[p].exec, "cancelled")
    BY <1>5 DEF CancelState, At, StoreStep
  <2>2. VerdictMove(p)
    BY <1>0, <2>1, VerdictTransactions DEF ExecutionStates, SettledStates
  <2> QED
    BY <2>1, <2>2, GotoVerdict
<1>6. CASE CancelRow(p)
  <2>1. /\ client[p].pc = "cancelled_row" /\ UNCHANGED vars /\ Finish(p)
        /\ save_remote_state(client[p].exec, "cancelled", "none")
    BY <1>6 DEF CancelRow, At, StoreStep
  <2>2. VerdictMove(p)
    BY <1>0, <2>1, VerdictTransactions
  <2> QED
    BY <2>1, <2>2, FinishVerdict
<1>7. CASE Crash(p)
  BY <1>7, StoreStill, FinishVerdict DEF Crash, Quit
<1> QED
  BY <1>1, <1>2, <1>3, <1>4, <1>5, <1>6, <1>7 DEF CancelStep

LEMMA KnowsInit == BackendInit => KInv
<1> SUFFICES ASSUME BackendInit PROVE KInv
  OBVIOUS
<1>1. SiteKnows
  BY DEF BackendInit, Init, PlaneInit, WorkerInit, SiteKnows, DocKnows, CallKnows, NoDoc, IdleCall
<1>2. \A p \in Clients : ClientKnows(client[p])
  BY DEF BackendInit, ClientKnows, IdleClient, NoResponse, Collecting
<1>3. VerdictInv
  BY DEF BackendInit, StoreInit, VerdictInv
<1> QED
  BY <1>1, <1>2, <1>3 DEF KInv

LEMMA KnowsNext == BInv /\ KInv /\ OnePerExecution /\ [BackendNext]_backendVars => KInv'
<1> SUFFICES ASSUME BInv, KInv, OnePerExecution, [BackendNext]_backendVars PROVE KInv'
  OBVIOUS
<1>1. CASE UNCHANGED backendVars
  <2>1. UNCHANGED vars /\ UNCHANGED storeVars /\ UNCHANGED client
    BY <1>1 DEF backendVars
  <2>2. UNCHANGED <<doc, call, jobExec, jobPhase, bundle>>
        /\ UNCHANGED <<execState, jobRow, remoteRow, imported>>
    BY <2>1 DEF vars, planeVars, workerVars, storeVars
  <2>3. SiteKnows'
    BY <2>2 DEF KInv, SiteKnows, DocKnows, CallKnows, HasJob
  <2>4. (\A p \in Clients : ClientKnows(client[p]))' /\ VerdictInv'
    BY <2>1, <2>2 DEF KInv, ClientKnows, VerdictInv, Over, NothingRuns, HasJob, SubmitOpen,
                      BeforeSubmit
  <2> QED
    BY <2>3, <2>4 DEF KInv
<1>2. CASE SiteStep
  BY <1>2, SiteVerdicts DEF SiteStep
<1>3. ASSUME NEW c \in Calls, SiteFault(c) PROVE KInv'
  BY <1>3, SiteVerdicts DEF SiteFault
<1>4. ASSUME NEW c \in Calls, Discard(c) PROVE KInv'
  BY <1>4, DiscardVerdict
<1>5. ASSUME NEW p \in Clients, ExecuteStep(p) \/ CollectStep(p) \/ CancelStep(p) \/ Crash(p)
      PROVE  KInv'
  BY <1>5, ExecuteVerdict, CollectVerdict, CancelVerdict
<1> QED
  BY <1>1, <1>2, <1>3, <1>4, <1>5 DEF BackendNext

LEMMA KnowsInvariant == BackendSpec /\ []OnePerExecution => []KInv
  BY KnowsInit, KnowsNext, BackendInvariant, PTL DEF BackendSpec

\* On a site that does not preempt jobs, an execution is recorded as
\* collection_failed only when its one job is over and no usable result was
\* published, and none appears later: wait gives up on evidence and not on a
\* guess, whatever cancellations, deaths and late workers do meanwhile.
THEOREM CollectionFailureIsFinal ==
    ASSUME ~Preemption
    PROVE  BackendSpec /\ []OnePerExecution => []CollectionFailedIsFinal
<1>1. KInv /\ AtMostOneJob => CollectionFailedIsFinal
  BY DEF KInv, VerdictInv, Over, AtMostOneJob, CollectionFailedIsFinal
<1> QED
  BY <1>1, KnowsInvariant, RemoteExecutionHasOneJob, PTL

\* An execution recorded as failed without a result has no job, and no submit
\* of it is under way: execute's rejection path and execute_plan's exception
\* handler never give up a job that exists.  A site whose readable results are
\* all valid bundles is assumed: reconcile fails on one that is not.
THEOREM FailedHasNothingRunning ==
    ASSUME "invalid" \notin Outcomes
    PROVE  BackendSpec /\ []OnePerExecution => []FailedMeansNothingRuns
<1>1. KInv => FailedMeansNothingRuns
  BY DEF KInv, VerdictInv, NothingRuns, FailedMeansNothingRuns, SubmitPending
<1> QED
  BY <1>1, KnowsInvariant, PTL

-----------------------------------------------------------------------------
(***************************************************************************)
(* A plan's next execution.  execute_plan looks at the latest execution's  *)
(* state only, so an earlier job is never forgotten as long as one execute *)
(* of the plan runs at a time and none dies: two executes pass the check   *)
(* together, and one that dies while its submit is on its way marks        *)
(* nothing.  Other commands may run, and die, beside it.                   *)
(***************************************************************************)
OneExecute ==
    \A p, q \in Clients : client[p].cmd = "execute" /\ client[q].cmd = "execute" => p = q

ExecutesLive == \A p \in Clients : client[p].cmd = "execute" => ~Crash(p)

\* A process reports a condition, or a result, only of a job that it knows.
CallRecords(r) ==
    /\ r.sched # "none" => r.snap.job # NoJob
    /\ r.pc = "result" => r.sched # "none"
    /\ r.result # "none" => r.sched # "none"

\* A command changes the state of an execution that may run only once its job is recorded.
ClientRecords(r) ==
    /\ r.pc \in {"submitted", "record_state", "cancelled_state", "collection_failed", "import"}
       => jobRow[r.exec] # NoJob
    /\ r.cmd \in Collecting /\ r.resp.sched # "none" => r.resp.job # NoJob
    /\ r.cmd \in Collecting /\ r.resp.result # "none" => r.resp.sched # "none"
    /\ r.pc \in {"record_row", "result", "poll"} /\ r.resp.sched # "none"
       => jobRow[r.exec] # NoJob
    /\ r.pc = "record_save" => r.resp.job # NoJob
    /\ r.cmd = "execute" /\ r.exec # NoExec => r.exec = created[Len(created)]

\* An execute that is going to record the job of its execution, or to mark it ambiguous.
OnItsWay(r) ==
    /\ r.cmd = "execute"
    /\ \/ r.pc = "submit" /\ r.slot # NoCall
       \/ r.pc \in {"reconcile", "ambiguous", "save_job"}

\* An execution that may run without a recorded job is the latest one, and either its
\* execute has yet to record it or it blocks the plan.
AccountInv ==
    \A e \in Execs : ~NothingRuns(e) /\ jobRow[e] = NoJob =>
        /\ e = created[Len(created)]
        /\ \/ \E p \in Clients : OnItsWay(client[p]) /\ client[p].exec = e
           \/ /\ execState[e] = "submission_ambiguous"
              /\ \A p \in Clients : client[p].cmd = "execute" => client[p].exec = e

AInv ==
    /\ \A c \in Calls : CallRecords(call[c])
    /\ \A p \in Clients : ClientRecords(client[p])
    /\ AccountInv

\* The steps of a worker process that leave the reported condition and result alone.
LEMMA UpdateRecords ==
    ASSUME BInv, NEW c \in Calls, NEW t \in CallStates, CallRecords(t), NEW pc, pc # "result"
    PROVE  /\ Update(c, [t EXCEPT !.pc = pc]) => CallRecords(call[c])'
           /\ \A d : d.job = t.snap.job /\ Update(c, [t EXCEPT !.pc = pc, !.snap = d])
                     => CallRecords(call[c])'
           /\ \A x : Update(c, [t EXCEPT !.pc = pc, !.snap.state = x]) => CallRecords(call[c])'
           /\ \A x, b : Update(c, [t EXCEPT !.pc = pc, !.status = b, !.snap.state = x])
                        => CallRecords(call[c])'
           /\ \A x, b : \A j \in Jobs :
                  Update(c, [t EXCEPT !.pc = pc, !.status = b, !.snap.state = x, !.snap.job = j])
                  => CallRecords(call[c])'
           /\ \A b : Answer(c, t, b) => CallRecords(call[c])'
<1>0. call \in [Calls -> CallStates] /\ \A j \in Jobs : j # NoJob
  BY IdentityAssumption DEF BInv, IInv, TypeOK, WorkerTypeOK
<1>1. ASSUME NEW s, Update(c, s), s.sched = t.sched, s.result = t.result, s.pc # "result",
             s.snap.job # NoJob \/ s.snap.job = t.snap.job
      PROVE  CallRecords(call[c])'
  <2>1. call'[c] = s
    BY <1>0, <1>1 DEF Update
  <2> QED
    BY <1>1, <2>1 DEF CallRecords
<1>2. Update(c, [t EXCEPT !.pc = pc]) => CallRecords(call[c])'
  BY <1>1 DEF CallStates
<1>3. ASSUME NEW d, d.job = t.snap.job, Update(c, [t EXCEPT !.pc = pc, !.snap = d])
      PROVE  CallRecords(call[c])'
  BY <1>1, <1>3 DEF CallStates
<1>4. ASSUME NEW x, Update(c, [t EXCEPT !.pc = pc, !.snap.state = x])
      PROVE  CallRecords(call[c])'
  <2> DEFINE s == [t EXCEPT !.pc = pc, !.snap.state = x]
  <2>1. s.pc = pc /\ s.sched = t.sched /\ s.result = t.result /\ s.snap.job = t.snap.job
    BY DEF CallStates, Docs
  <2> QED
    BY <1>1, <1>4, <2>1
<1>5. ASSUME NEW x, NEW b, Update(c, [t EXCEPT !.pc = pc, !.status = b, !.snap.state = x])
      PROVE  CallRecords(call[c])'
  <2> DEFINE s == [t EXCEPT !.pc = pc, !.status = b, !.snap.state = x]
  <2>1. s.pc = pc /\ s.sched = t.sched /\ s.result = t.result /\ s.snap.job = t.snap.job
    BY DEF CallStates, Docs
  <2> QED
    BY <1>1, <1>5, <2>1
<1>6. ASSUME NEW x, NEW b, NEW j \in Jobs,
             Update(c, [t EXCEPT !.pc = pc, !.status = b, !.snap.state = x, !.snap.job = j])
      PROVE  CallRecords(call[c])'
  <2> DEFINE s == [t EXCEPT !.pc = pc, !.status = b, !.snap.state = x, !.snap.job = j]
  <2>1. s.pc = pc /\ s.sched = t.sched /\ s.result = t.result /\ s.snap.job = j
    BY DEF CallStates, Docs
  <2> QED
    BY <1>0, <1>1, <1>6, <2>1
<1>7. ASSUME NEW b, Answer(c, t, b) PROVE CallRecords(call[c])'
  BY <1>1, <1>7 DEF CallStates, Answer
<1> QED
  BY <1>2, <1>3, <1>4, <1>5, <1>6, <1>7

\* Every step of a worker process.
LEMMA WorkerRecords ==
    ASSUME BInv, NEW c \in Calls, WorkerStep(c) \/ WorkerDies(c), CallRecords(call[c])
    PROVE  CallRecords(call[c])'
<1>0. IInv /\ call \in [Calls -> CallStates]
  BY DEF BInv, IInv, TypeOK, WorkerTypeOK
<1>r. PICK r \in CallStates : r = call[c] /\ RecordInv(r) /\ CallRecords(r)
  BY <1>0, Current
<1>k. r.pc \notin {"idle", "done"}
  BY <1>0, <1>r, WorkerStepKeeps DEF WorkerKeeps, WorkerDies, Alive
<1>d. PICK d \in Docs : d = doc[r.exec]
  BY <1>0, <1>r, <1>k, Current
<1> DEFINE s == [r EXCEPT !.snap = d]
<1>s. r.pc = "start" => s \in CallStates /\ CallRecords(s)
  BY <1>r DEF CallStates, CallRecords, RecordInv, ObserveInv
<1>f. Fail(c) => CallRecords(call[c])'
  BY <1>0 DEF Fail, Update, IdleCall, CallRecords
<1>1. CASE PrepareRead(c)
  BY <1>r, <1>d, <1>s, <1>1, UpdateRecords DEF PrepareRead
<1>2. CASE PrepareMkdir(c)
  BY <1>r, <1>f, <1>2, UpdateRecords DEF PrepareMkdir
<1>3. CASE SubmitRead(c)
  BY <1>r, <1>d, <1>s, <1>f, <1>3, UpdateRecords DEF SubmitRead
<1>4. CASE SubmitVerify(c) \/ SubmitUnavailable(c)
  BY <1>r, <1>4, UpdateRecords DEF SubmitVerify, SubmitUnavailable
<1>5. CASE SubmitClaim(c)
  <2>1. PICK claimed : /\ claimed = [r.snap EXCEPT !.state = "submitting"]
                       /\ Update(c, [r EXCEPT !.pc = "run", !.snap = claimed])
    BY <1>r, <1>5 DEF SubmitClaim
  <2>2. claimed.job = r.snap.job
    BY <2>1 DEF CallStates, Docs
  <2> QED
    BY <1>r, <2>1, <2>2, UpdateRecords
<1>6. CASE (\E j \in Jobs : SubmitAccepted(c, j)) \/ SubmitNotAccepted(c)
  BY <1>r, <1>6, UpdateRecords DEF SubmitAccepted, SubmitNotAccepted
<1>7. CASE ReconcileRead(c)
  BY <1>r, <1>d, <1>s, <1>f, <1>7, UpdateRecords DEF ReconcileRead
<1>8. CASE ReconcileObserve(c)
  <2>0. r.snap.job \in Jobs /\ jobPhase[r.snap.job] \in JobPhases
    BY <1>0, <1>r, <1>8, Current
       DEF ReconcileObserve, RecordInv, ObserveInv, Docs, IInv, TypeOK, PlaneTypeOK
  <2>1. PICK o \in Answers(r.snap.job) : Update(c, [r EXCEPT !.pc = "result", !.sched = o])
    BY <1>r, <1>8 DEF ReconcileObserve
  <2>2. r.snap.job # NoJob /\ o # "none"
    BY <2>0, IdentityAssumption DEF Answers, Conditions, JobPhases
  <2> QED
    BY <1>0, <2>1, <2>2 DEF Update, CallRecords, CallStates
<1>9. CASE ReconcileResult(c)
  <2>1. r.sched # "none"
    BY <1>r, <1>9 DEF ReconcileResult, CallRecords
  <2>2. PICK kind \in Outcomes \cup {"none"} : kind = bundle[r.exec]
    BY <1>0, <1>r, <1>k, Current
  <2> DEFINE t == [r EXCEPT !.result = kind]
  <2>3. t \in CallStates /\ t.sched = r.sched /\ t.snap = r.snap /\ t.pc = r.pc
    BY DEF CallStates
  <2>4. CallRecords(t)
    BY <1>r, <2>1, <2>3 DEF CallRecords
  <2>5. \/ Answer(c, t, "ok")
        \/ \E b : Answer(c, r, b)
    BY <1>r, <1>9, <2>2 DEF ReconcileResult
  <2> HIDE DEF t
  <2> QED
    BY <1>r, <2>3, <2>4, <2>5, UpdateRecords
<1>10. CASE CancelRead(c)
  BY <1>r, <1>d, <1>s, <1>f, <1>10, UpdateRecords DEF CancelRead
<1>11. CASE CancelConfirmed(c) \/ CancelUnconfirmed(c) \/ WriteState(c)
  BY <1>r, <1>11, UpdateRecords DEF CancelConfirmed, CancelUnconfirmed, WriteState
<1>12. CASE WorkerDies(c)
  BY <1>f, <1>12 DEF WorkerDies
<1> QED
  BY <1>1, <1>2, <1>3, <1>4, <1>5, <1>6, <1>7, <1>8, <1>9, <1>10, <1>11, <1>12 DEF WorkerStep

\* What a step may do to the rows of an execution that may run: its job row stays, and
\* without one its state stays or becomes ambiguous.
RowMove ==
    \A e \in Execs :
        /\ jobRow[e] # NoJob => jobRow'[e] # NoJob
        /\ jobRow'[e] = NoJob /\ ~NothingRuns(e)' =>
            execState'[e] \in {execState[e], "submission_ambiguous"}

\* An execute that goes on with record s leaves its execution accounted for.
Handed(r, s) ==
    \/ OnItsWay(s) /\ s.exec = r.exec
    \/ jobRow'[r.exec] # NoJob
    \/ NothingRuns(r.exec)'
    \/ execState'[r.exec] = "submission_ambiguous" /\ s.exec = r.exec

\* A step of command p that starts no execute and creates no execution.
LEMMA AccountStep ==
    ASSUME BInv, AInv, OneExecute, NEW p \in Clients, NEW r \in ClientStates, r = client[p],
           NEW s \in ClientStates, Become(p, s),
           UNCHANGED created, RowMove, \A c \in Calls : CallRecords(call[c])',
           \A e \in Execs : NothingRuns(e) => \/ NothingRuns(e)'
                                              \/ OnItsWay(s) /\ s.exec = e,
           s.cmd = "execute" => r.cmd = "execute" /\ s.exec = r.exec,
           OnItsWay(r) => Handed(r, s),
           ClientRecords(s)'
    PROVE  AInv'
<1>0. client'[p] = s /\ \A q \in Clients \ {p} : client'[q] = client[q]
  BY DEF BInv, ControlTypeOK, Become
<1>1. ASSUME NEW q \in Clients PROVE ClientRecords(client[q])'
  <2>1. CASE q = p
    BY <1>0, <2>1 DEF ClientRecords
  <2>2. CASE q # p
    <3>1. PICK o \in ClientStates : /\ o = client[q] /\ o = client'[q] /\ ClientRecords(o)
                                    /\ o.pc \notin {"idle", "create"} => o.exec \in Execs
      BY <1>0, <2>2, Command DEF AInv
    <3> QED
      BY <3>1 DEF ClientRecords, RowMove
  <2> QED
    BY <2>1, <2>2
<1>2. ASSUME NEW e \in Execs, ~NothingRuns(e)', jobRow'[e] = NoJob
      PROVE  /\ e = created'[Len(created')]
             /\ \/ \E q \in Clients : OnItsWay(client'[q]) /\ client'[q].exec = e
                \/ /\ execState'[e] = "submission_ambiguous"
                   /\ \A q \in Clients : client'[q].cmd = "execute" => client'[q].exec = e
  <2>0. jobRow[e] = NoJob /\ execState'[e] \in {execState[e], "submission_ambiguous"}
    BY <1>2 DEF RowMove
  <2>1. CASE NothingRuns(e)
    <3>1. OnItsWay(s) /\ s.exec = e
      BY <1>2, <2>1
    <3>2. client[p].cmd = "execute" /\ client[p].exec = e /\ e # NoExec
      BY <3>1, IdentityAssumption DEF OnItsWay
    <3>3. e = created[Len(created)]
      BY <3>2 DEF AInv, ClientRecords
    <3> QED
      BY <1>0, <3>1, <3>3
  <2>2. CASE ~NothingRuns(e)
    <3>1. /\ e = created[Len(created)]
          /\ \/ \E q \in Clients : OnItsWay(client[q]) /\ client[q].exec = e
             \/ /\ execState[e] = "submission_ambiguous"
                /\ \A q \in Clients : client[q].cmd = "execute" => client[q].exec = e
      BY <2>0, <2>2 DEF AInv, AccountInv
    <3>2. ASSUME NEW q \in Clients, OnItsWay(client[q]), client[q].exec = e, q # p
          PROVE  OnItsWay(client'[q]) /\ client'[q].exec = e
      BY <1>0, <3>2
    <3>3. ASSUME OnItsWay(client[p]), client[p].exec = e
          PROVE  \/ OnItsWay(client'[p]) /\ client'[p].exec = e
                 \/ /\ execState'[e] = "submission_ambiguous"
                    /\ \A q \in Clients : client'[q].cmd = "execute" => client'[q].exec = e
      <4>1. \/ OnItsWay(s) /\ s.exec = e
            \/ execState'[e] = "submission_ambiguous" /\ s.exec = e
        BY <1>2, <3>3 DEF Handed
      <4>2. \A q \in Clients \ {p} : client'[q].cmd # "execute"
        BY <1>0, <3>3 DEF OnItsWay, OneExecute
      <4> QED
        BY <1>0, <4>1, <4>2
    <3>4. ASSUME execState[e] = "submission_ambiguous",
                 \A q \in Clients : client[q].cmd = "execute" => client[q].exec = e
          PROVE  /\ execState'[e] = "submission_ambiguous"
                 /\ \A q \in Clients : client'[q].cmd = "execute" => client'[q].exec = e
      BY <1>0, <2>0, <3>4
    <3> QED
      BY <3>1, <3>2, <3>3, <3>4
  <2> QED
    BY <2>1, <2>2
<1>3. AccountInv'
  <2>1. ASSUME NEW q PROVE OnItsWay(q)' <=> OnItsWay(q)
    BY DEF OnItsWay
  <2> QED
    BY <1>2 DEF AccountInv, OnItsWay
<1> QED
  BY <1>1, <1>3 DEF AInv

\* The store's transactions.
LEMMA RowMoves ==
    ASSUME BInv, NEW e \in Execs
    PROVE  /\ UNCHANGED storeVars => RowMove
           /\ \A x : /\ x = "submission_ambiguous" \/ jobRow[e] # NoJob \/ NothingRuns(e)'
                     /\ update_execution_state(e, x)
                     => RowMove
           /\ \A x, o : save_remote_state(e, x, o) => RowMove
           /\ \A j \in Jobs : save_scheduler_job(e, j) => RowMove /\ jobRow'[e] # NoJob
           /\ \A kind : jobRow[e] # NoJob /\ import_result(e, kind) => RowMove
<1>0. StoreTypeOK /\ \A j \in Jobs : j # NoJob
  BY IdentityAssumption DEF BInv, ControlTypeOK
<1>1. UNCHANGED storeVars => RowMove
  BY DEF storeVars, RowMove
<1>2. ASSUME NEW x, x = "submission_ambiguous" \/ jobRow[e] # NoJob \/ NothingRuns(e)',
             update_execution_state(e, x)
      PROVE  RowMove
  BY <1>0, <1>2 DEF StoreTypeOK, update_execution_state, RowMove
<1>3. ASSUME NEW x, NEW o, save_remote_state(e, x, o) PROVE RowMove
  BY <1>0, <1>3 DEF StoreTypeOK, save_remote_state, RowMove
<1>4. ASSUME NEW j \in Jobs, save_scheduler_job(e, j) PROVE RowMove /\ jobRow'[e] # NoJob
  BY <1>0, <1>4 DEF StoreTypeOK, save_scheduler_job, RowMove
<1>5. ASSUME NEW kind, jobRow[e] # NoJob, import_result(e, kind) PROVE RowMove
  BY <1>0, <1>5 DEF StoreTypeOK, import_result, RowMove
<1> QED
  BY <1>1, <1>2, <1>3, <1>4, <1>5

\* The site does not move with the store.
LEMMA CallsStill ==
    ASSUME AInv, UNCHANGED <<planeVars, call>>
    PROVE  /\ \A c \in Calls : CallRecords(call[c])'
           /\ \A e : NothingRuns(e)' <=> NothingRuns(e)
BY DEF AInv, CallRecords, planeVars, NothingRuns, HasJob, SubmitOpen

\* A command ends.
LEMMA FinishAccount ==
    ASSUME BInv, AInv, OneExecute, NEW p \in Clients, Finish(p), UNCHANGED vars,
           UNCHANGED created, RowMove, ~OnItsWay(client[p])
    PROVE  AInv'
<1>1. /\ IdleClient \in ClientStates /\ IdleClient.cmd = "idle" /\ IdleClient.pc = "idle"
      /\ IdleClient.exec = NoExec
  BY DEF IdleClient, NoResponse, ClientStates, Responses, DocStates
<1> HIDE DEF IdleClient
<1>2. ClientRecords(IdleClient)'
  BY <1>1 DEF ClientRecords, Collecting
<1>3. UNCHANGED <<planeVars, call>>
  BY DEF vars, workerVars
<1>4. client[p] \in ClientStates
  BY Command
<1> QED
  BY <1>1, <1>2, <1>3, <1>4, CallsStill, AccountStep DEF Finish

\* A command goes on at pc.
LEMMA GotoAccount ==
    ASSUME BInv, AInv, OneExecute, NEW p \in Clients, NEW r \in ClientStates, r = client[p],
           UNCHANGED <<planeVars, call>>,
           UNCHANGED created, RowMove,
           NEW pc \in {"row", "upload", "submit", "handler", "ambiguous_row", "submitted",
                       "submitted_row", "handler_write", "record_save", "record_state",
                       "record_row", "result", "import", "poll", "collection_failed",
                       "cancelled_state", "cancelled_row"}, Goto(p, pc),
           r.exec \in Execs,
           pc \in {"submitted", "record_state", "cancelled_state", "collection_failed", "import"}
               => jobRow'[r.exec] # NoJob,
           pc \in {"record_row", "result", "poll"} /\ r.resp.sched # "none"
               => jobRow'[r.exec] # NoJob,
           pc = "record_save" => r.resp.job # NoJob,
           OnItsWay(r) => \/ jobRow'[r.exec] # NoJob
                                  \/ NothingRuns(r.exec)'
                                  \/ execState'[r.exec] = "submission_ambiguous"
    PROVE  AInv'
<1>0. ClientRecords(r)
  BY DEF AInv
<1> DEFINE s == [r EXCEPT !.pc = pc]
<1>1. s \in ClientStates /\ s.pc = pc /\ s.exec = r.exec /\ s.cmd = r.cmd /\ s.resp = r.resp
  BY DEF ClientStates
<1>2. Become(p, s)
  BY <1>0 DEF Goto
<1> HIDE DEF s
<1>3. ClientRecords(s)'
  BY <1>0, <1>1 DEF ClientRecords
<1>4. OnItsWay(r) => Handed(r, s)
  BY <1>0, <1>1 DEF Handed
<1> QED
  BY <1>0, <1>1, <1>2, <1>3, <1>4, CallsStill, AccountStep

\* A command sends a call.  Once submit is sent the execute is on its way.
LEMMA SendAccount ==
    ASSUME BInv, AInv, OneExecute, NEW p \in Clients, NEW op \in Ops, Send(p, op),
           client[p].slot = NoCall, client[p].pc = op, client[p].exec \in Execs,
           op = "submit" => client[p].cmd = "execute"
    PROVE  AInv'
<1>0. PICK r \in ClientStates : r = client[p] /\ ClientRecords(r)
  BY DEF BInv, ControlTypeOK, AInv
<1>1. PICK c \in Calls : /\ Update(c, [IdleCall EXCEPT !.op = op, !.exec = r.exec, !.pc = "start"])
                         /\ Become(p, [r EXCEPT !.slot = c])
                         /\ UNCHANGED <<planeVars, storeVars>>
  BY <1>0 DEF Send, Invoke
<1>2. c # NoCall
  BY ClientAssumption
<1> DEFINE s == [r EXCEPT !.slot = c]
<1>3. /\ s \in ClientStates /\ s.pc = op /\ s.exec = r.exec /\ s.cmd = r.cmd /\ s.resp = r.resp
      /\ s.slot = c
  BY <1>0 DEF ClientStates
<1>4. Become(p, s)
  BY <1>1
<1> HIDE DEF s
<1>5. /\ call'[c].op = op /\ call'[c].exec = r.exec /\ call'[c].pc = "start"
      /\ call'[c].sched = "none" /\ call'[c].result = "none"
      /\ \A d \in Calls \ {c} : call'[d] = call[d]
  BY <1>1 DEF Update, IdleCall, BInv, IInv, TypeOK, WorkerTypeOK
<1>6. \A d \in Calls : CallRecords(call[d])'
  BY <1>5 DEF AInv, CallRecords
<1>7. UNCHANGED <<jobExec, jobRow, execState, created>>
  BY <1>1 DEF planeVars, storeVars
<1>8. ASSUME NEW e \in Execs, NothingRuns(e), ~NothingRuns(e)' PROVE OnItsWay(s) /\ s.exec = e
  <2>1. ~HasJob(e)'
    BY <1>7, <1>8 DEF NothingRuns, HasJob
  <2>2. PICK d \in Calls : SubmitOpen(d, e)'
    BY <1>8, <2>1 DEF NothingRuns
  <2>3. op = "submit" /\ e = r.exec
    BY <1>5, <1>8, <2>2 DEF NothingRuns, SubmitOpen
  <2> QED
    BY <1>0, <1>2, <1>3, <2>3 DEF OnItsWay
<1>9. ClientRecords(s)' /\ RowMove
  BY <1>0, <1>3, <1>7 DEF ClientRecords, RowMove, Ops
<1>10. OnItsWay(r) => Handed(r, s)
  BY <1>0, <1>2, <1>3 DEF OnItsWay, Handed
<1> QED
  BY <1>0, <1>3, <1>4, <1>6, <1>7, <1>8, <1>9, <1>10, AccountStep

\* An answer arrives.
LEMMA ReceiveAccount ==
    ASSUME BInv, AInv, KInv', OneExecute, "invalid" \notin Outcomes,
           NEW p \in Clients, NEW pc, Receive(p, pc), client[p].slot # NoCall,
           client[p].exec \in Execs,
           pc \in {"prepared", "handler", "ambiguous", "save_job", "reject", "record",
                   "cancelled", "cancel_refused"},
           OnItsWay(client[p]) => pc \in {"ambiguous", "save_job", "reject"}
    PROVE  AInv'
<1>0. PICK r \in ClientStates : r = client[p] /\ ClientRecords(r)
  BY DEF BInv, ControlTypeOK, AInv
<1>1. PICK c \in Calls : c = r.slot
  BY <1>0 DEF ClientStates
<1>2. PICK a \in CallStates : a = call[c] /\ CallRecords(a)
  BY <1>1 DEF BInv, IInv, TypeOK, WorkerTypeOK, AInv
<1> DEFINE m == [state |-> a.snap.state, job |-> a.snap.job, sched |-> a.sched,
                 result |-> a.result]
<1>s. PICK s : s = [r EXCEPT !.pc = pc, !.slot = NoCall, !.resp = m]
  OBVIOUS
<1>3. /\ Become(p, s) /\ Update(c, IdleCall)
      /\ UNCHANGED <<planeVars, dir, doc, staged, storeVars, spent>>
  BY <1>0, <1>1, <1>2, <1>s DEF Receive, Awaited
<1>4. m \in Responses /\ m.result = a.result /\ m.job = a.snap.job /\ m.sched = a.sched
  BY DEF Responses, CallStates, Docs
<1> HIDE DEF m
<1>5. /\ s \in ClientStates /\ s.cmd = r.cmd /\ s.pc = pc /\ s.exec = r.exec /\ s.resp = m
  BY <1>4, <1>s DEF ClientStates
<1>6. /\ call'[c] = IdleCall /\ \A d \in Calls \ {c} : call'[d] = call[d]
      /\ UNCHANGED <<jobExec, jobRow, execState, created>>
  BY <1>3 DEF Update, BInv, IInv, TypeOK, WorkerTypeOK, planeVars, storeVars
<1>7. \A d \in Calls : CallRecords(call[d])'
  BY <1>6 DEF AInv, CallRecords, IdleCall
<1>8. \A e \in Execs : NothingRuns(e) => NothingRuns(e)'
  BY <1>6, IdentityAssumption DEF NothingRuns, HasJob, SubmitOpen, IdleCall
<1>9. ClientRecords(s)' /\ RowMove
  BY <1>0, <1>2, <1>4, <1>5, <1>6 DEF ClientRecords, CallRecords, RowMove
<1>10. client'[p] = s
  BY <1>3 DEF Become, BInv, ControlTypeOK
<1>11. pc = "reject" => NothingRuns(s.exec)'
  BY <1>5, <1>10 DEF KInv, ClientKnows
<1>12. OnItsWay(r) => Handed(r, s)
  BY <1>0, <1>5, <1>11 DEF OnItsWay, Handed
<1> QED
  BY <1>0, <1>3, <1>5, <1>6, <1>7, <1>8, <1>9, <1>12, AccountStep

\* An answer is lost and the command goes on.
LEMMA LoseAccount ==
    ASSUME BInv, AInv, OneExecute, NEW p \in Clients, NEW pc, LoseThen(p, pc),
           client[p].slot # NoCall, client[p].exec \in Execs,
           \/ pc = "handler" /\ client[p].pc = "prepare"
           \/ pc \in {"reconcile", "ambiguous"} /\ client[p].cmd = "execute"
    PROVE  AInv'
<1>0. PICK r \in ClientStates : r = client[p] /\ ClientRecords(r)
  BY DEF BInv, ControlTypeOK, AInv
<1>s. PICK s : s = [r EXCEPT !.pc = pc, !.slot = NoCall]
  OBVIOUS
<1>1. s \in ClientStates /\ s.cmd = r.cmd /\ s.pc = pc /\ s.exec = r.exec /\ s.resp = r.resp
  BY <1>s DEF ClientStates
<1>2. Become(p, s) /\ UNCHANGED <<vars, storeVars>>
  BY <1>0, <1>s DEF LoseThen, Lose
<1>3. UNCHANGED <<planeVars, call, jobRow, execState, created>>
  BY <1>2 DEF vars, workerVars, storeVars
<1>4. ClientRecords(s)' /\ RowMove
  BY <1>0, <1>1, <1>3 DEF ClientRecords, RowMove
<1>5. OnItsWay(r) => Handed(r, s)
  BY <1>0, <1>1 DEF OnItsWay, Handed
<1> QED
  BY <1>0, <1>1, <1>2, <1>3, <1>4, <1>5, CallsStill, AccountStep

\* A command other than execute begins.
LEMMA BeginAccount ==
    ASSUME BInv, AInv, OneExecute, NEW p \in Clients, NEW cmd \in {"collect", "wait", "cancel"},
           NEW e \in Execs, NEW pc \in {"reconcile", "cancel"}, Begin(p, cmd, e, pc)
    PROVE  AInv'
<1>s. PICK s : s = [IdleClient EXCEPT !.cmd = cmd, !.exec = e, !.pc = pc]
  OBVIOUS
<1>1. /\ s \in ClientStates /\ s.cmd = cmd /\ s.pc = pc /\ s.exec = e /\ s.resp = NoResponse
  BY <1>s, NewCommand DEF IdleClient
<1>2. /\ Become(p, s) /\ UNCHANGED <<vars, storeVars>> /\ client[p] = IdleClient
  BY <1>s DEF Begin
<1>3. UNCHANGED <<planeVars, call, jobRow, execState, created>>
  BY <1>2 DEF vars, workerVars, storeVars
<1>4. ClientRecords(s)' /\ RowMove
  BY <1>1, <1>3 DEF ClientRecords, RowMove, NoResponse
<1>5. client[p] \in ClientStates /\ ~OnItsWay(client[p])
  BY <1>2, Command DEF OnItsWay, IdleClient
<1> QED
  BY <1>1, <1>2, <1>3, <1>4, <1>5, CallsStill, AccountStep

\* An execution without a recorded job that may run was created.
LEMMA RunsIsCreated ==
    ASSUME BInv, NEW e \in Execs, ~NothingRuns(e)
    PROVE  e \in Created
<1>1. HasJob(e) => e \in Created
  BY DEF BInv, JobsCreatedInv
<1>2. ASSUME NEW c \in Calls, SubmitOpen(c, e) PROVE e \in Created
  BY <1>2, IdentityAssumption DEF SubmitOpen, BInv, AnswersInv, AnswerInv
<1> QED
  BY <1>1, <1>2 DEF NothingRuns

\* An execute begins: if an execution could run unrecorded, the plan would be blocked.
LEMMA ExecuteBeginAccount ==
    ASSUME BInv, AInv, OneExecute, NEW p \in Clients, ExecuteBegin(p)
    PROVE  AInv'
<1>s. PICK s : s = [IdleClient EXCEPT !.cmd = "execute", !.exec = NoExec, !.pc = "create"]
  OBVIOUS
<1>1. /\ s.cmd = "execute" /\ s.pc = "create" /\ s.exec = NoExec /\ s.resp = NoResponse
  BY <1>s, NewCommand DEF IdleClient
<1>2. /\ Become(p, s) /\ UNCHANGED <<vars, storeVars>> /\ client[p] = IdleClient
      /\ ~PlanIsBlocked
  BY <1>s DEF ExecuteBegin, Begin
<1>3. UNCHANGED <<planeVars, call, jobRow, execState, created>>
  BY <1>2 DEF vars, workerVars, storeVars
<1>4. client'[p] = s /\ \A q \in Clients \ {p} : client'[q] = client[q]
  BY <1>2 DEF BInv, ControlTypeOK, Become
<1>5. ASSUME NEW q \in Clients PROVE ClientRecords(client[q])'
  <2>1. CASE q = p
    BY <1>1, <1>4, <2>1 DEF ClientRecords, Collecting
  <2>2. CASE q # p
    BY <1>3, <1>4, <2>2 DEF AInv, ClientRecords
  <2> QED
    BY <2>1, <2>2
<1>6. ASSUME NEW e \in Execs, ~NothingRuns(e), jobRow[e] = NoJob
      PROVE  /\ e = created[Len(created)]
             /\ \E q \in Clients : OnItsWay(client'[q]) /\ client'[q].exec = e
  <2>1. created # <<>>
    BY <1>6, RunsIsCreated DEF Created
  <2>2. execState[created[Len(created)]] # "submission_ambiguous"
    BY <1>2, <2>1 DEF PlanIsBlocked
  <2>3. /\ e = created[Len(created)]
        /\ \E q \in Clients : OnItsWay(client[q]) /\ client[q].exec = e
    BY <1>6, <2>2 DEF AInv, AccountInv
  <2>4. ~OnItsWay(client[p])
    BY <1>2 DEF OnItsWay, IdleClient
  <2> QED
    BY <1>4, <2>3, <2>4
<1>7. AccountInv'
  BY <1>3, <1>6, CallsStill DEF AccountInv, OnItsWay
<1> QED
  BY <1>3, <1>5, <1>7, CallsStill DEF AInv

\* While an execute is about to create its execution, every other one is accounted for.
LEMMA AllAccounted ==
    ASSUME BInv, AInv, OneExecute, NEW p \in Clients, ExecuteCreate(p)
    PROVE  \A e \in Execs : ~NothingRuns(e) => jobRow[e] # NoJob
<1> SUFFICES ASSUME NEW e \in Execs, ~NothingRuns(e), jobRow[e] = NoJob PROVE FALSE
  OBVIOUS
<1>1. client[p].cmd = "execute" /\ client[p].pc = "create" /\ client[p].exec = NoExec
  BY Command DEF ExecuteCreate, At, ClientInv
<1>2. ASSUME NEW q \in Clients, OnItsWay(client[q]) PROVE FALSE
  BY <1>1, <1>2 DEF OnItsWay, OneExecute
<1> QED
  BY <1>1, <1>2, IdentityAssumption DEF AInv, AccountInv

LEMMA ExecuteCreateAccount ==
    ASSUME BInv, AInv, OneExecute, NEW p \in Clients, ExecuteCreate(p)
    PROVE  AInv'
<1>0. PICK r \in ClientStates : r = client[p] /\ ClientRecords(r) /\ r.cmd = "execute"
  BY DEF BInv, ControlTypeOK, AInv, ExecuteCreate, At
<1>1. PICK e \in Execs : /\ create_execution(e) /\ UNCHANGED vars
                         /\ Become(p, [r EXCEPT !.exec = e, !.pc = "prepare"])
  BY <1>0 DEF ExecuteCreate, StoreStep
<1>s. PICK s : s = [r EXCEPT !.exec = e, !.pc = "prepare"]
  OBVIOUS
<1>2. s.cmd = "execute" /\ s.pc = "prepare" /\ s.exec = e /\ s.resp = r.resp
  BY <1>0, <1>s DEF ClientStates
<1>3. client'[p] = s /\ \A q \in Clients \ {p} : client'[q] = client[q]
  BY <1>1, <1>s DEF BInv, ControlTypeOK, Become
<1>4. /\ e \notin Created /\ created' = Append(created, e) /\ UNCHANGED jobRow
      /\ created \in Seq(Execs) /\ UNCHANGED <<planeVars, call>>
  BY <1>1 DEF create_execution, BInv, ControlTypeOK, StoreTypeOK, vars, workerVars
<1>5. created'[Len(created')] = e
  BY <1>4
<1>6. ASSUME NEW q \in Clients PROVE ClientRecords(client[q])'
  <2>1. CASE q = p
    BY <1>2, <1>3, <1>5, <2>1 DEF ClientRecords, Collecting
  <2>2. CASE q # p
    <3>1. client[q].cmd # "execute"
      BY <1>0, <2>2 DEF OneExecute
    <3> QED
      BY <1>3, <1>4, <2>2, <3>1 DEF AInv, ClientRecords
  <2> QED
    BY <2>1, <2>2
<1>7. \A f \in Execs : ~NothingRuns(f)' => jobRow'[f] # NoJob
  BY <1>4, AllAccounted, CallsStill
<1> QED
  BY <1>4, <1>6, <1>7, CallsStill DEF AInv, AccountInv

LEMMA ExecuteAccount ==
    ASSUME BInv, KInv, KInv', AInv, OneExecute, "invalid" \notin Outcomes, NEW p \in Clients,
           ExecuteStep(p)
    PROVE  AInv'
<1>0. PICK r \in ClientStates :
          /\ r = client[p] /\ ClientInv(r) /\ ClientKnows(r) /\ ClientRecords(r)
          /\ r.pc \notin {"idle", "create"} => r.exec \in Execs
          /\ r.resp.job \in Jobs \cup {NoJob}
  BY Command DEF KInv, AInv
<1>v. UNCHANGED vars => /\ UNCHANGED <<planeVars, call>>
                        /\ \A e : NothingRuns(e)' <=> NothingRuns(e)
  BY CallsStill DEF vars, workerVars
<1>l. LocalStep => UNCHANGED vars /\ UNCHANGED created /\ RowMove
  BY DEF LocalStep, storeVars, RowMove
\* update_execution_state and save_remote_state of the command's execution.
<1>u. ASSUME NEW x, r.exec \in Execs, UNCHANGED vars, update_execution_state(r.exec, x),
             x = "submission_ambiguous" \/ jobRow[r.exec] # NoJob \/ NothingRuns(r.exec)
      PROVE  RowMove /\ UNCHANGED <<created, jobRow>> /\ execState'[r.exec] = x
  BY <1>v, <1>u, RowMoves DEF update_execution_state, BInv, ControlTypeOK, StoreTypeOK
<1>w. ASSUME NEW x, NEW o, r.exec \in Execs, save_remote_state(r.exec, x, o)
      PROVE  RowMove /\ UNCHANGED <<created, jobRow, execState>>
  BY <1>w, RowMoves DEF save_remote_state
<1>1. CASE ExecuteBegin(p)
  BY <1>1, ExecuteBeginAccount
<1>2. CASE ExecuteCreate(p)
  BY <1>2, ExecuteCreateAccount
<1>3. CASE ExecutePrepare(p)
  <2>1. r.pc = "prepare" /\ r.slot = NoCall /\ r.exec \in Execs /\ ~OnItsWay(r)
    BY <1>0, <1>3 DEF ExecutePrepare, At, OnItsWay
  <2>2. CASE Send(p, "prepare")
    BY <1>0, <2>1, <2>2, SendAccount DEF Ops
  <2>3. CASE Goto(p, "handler") /\ LocalStep
    BY <1>0, <1>v, <1>l, <2>1, <2>3, GotoAccount
  <2> QED
    BY <1>3, <2>2, <2>3 DEF ExecutePrepare
<1>4. CASE ExecutePrepareReply(p)
  <2>1. r.pc = "prepare" /\ r.slot # NoCall /\ r.exec \in Execs /\ ~OnItsWay(r)
    BY <1>0, <1>4 DEF ExecutePrepareReply, Waiting, OnItsWay
  <2> QED
    BY <1>0, <1>4, <2>1, ReceiveAccount, LoseAccount DEF ExecutePrepareReply
<1>5. CASE ExecutePrepared(p)
  <2>1. /\ r.pc = "prepared" /\ r.exec \in Execs /\ ~OnItsWay(r) /\ UNCHANGED vars
        /\ Goto(p, "row") /\ update_execution_state(r.exec, "prepared")
    BY <1>0, <1>5 DEF ExecutePrepared, At, StoreStep, OnItsWay
  <2>2. NothingRuns(r.exec)
    BY <1>0, <2>1 DEF ClientInv, BeforeSubmit, NothingRuns
  <2> QED
    BY <1>0, <1>u, <1>v, <2>1, <2>2, GotoAccount
<1>6. CASE ExecutePreparedRow(p)
  <2>1. /\ r.pc = "row" /\ r.exec \in Execs /\ ~OnItsWay(r) /\ UNCHANGED vars
        /\ Goto(p, "upload") /\ save_remote_state(r.exec, "prepared", "none")
    BY <1>0, <1>6 DEF ExecutePreparedRow, At, StoreStep, OnItsWay
  <2> QED
    BY <1>0, <1>w, <1>v, <2>1, GotoAccount
<1>7. CASE ExecuteUpload(p)
  <2>1. /\ r.pc = "upload" /\ r.exec \in Execs /\ ~OnItsWay(r)
        /\ UNCHANGED <<planeVars, call>> /\ UNCHANGED created /\ RowMove
        /\ Goto(p, "submit") \/ Goto(p, "handler")
    BY <1>0, <1>7 DEF ExecuteUpload, At, LocalStep, OnItsWay, vars, workerVars, storeVars, RowMove
  <2> QED
    BY <1>0, <2>1, GotoAccount
<1>8. CASE ExecuteSubmit(p)
  BY <1>0, <1>8, SendAccount DEF ExecuteSubmit, At, Ops
<1>9. CASE ExecuteSubmitReply(p)
  <2>1. r.pc = "submit" /\ r.slot # NoCall /\ r.exec \in Execs /\ r.cmd = "execute"
    BY <1>0, <1>9 DEF ExecuteSubmitReply, Waiting
  <2>2. AfterSubmission(Awaited(p)) \in {"ambiguous", "save_job", "reject"}
    BY DEF AfterSubmission
  <2> QED
    BY <1>0, <1>9, <2>1, <2>2, ReceiveAccount, LoseAccount DEF ExecuteSubmitReply
<1>10. CASE ExecuteReconcile(p)
  BY <1>0, <1>10, SendAccount DEF ExecuteReconcile, At, Ops
<1>11. CASE ExecuteReconcileReply(p)
  <2>1. r.pc = "reconcile" /\ r.slot # NoCall /\ r.exec \in Execs /\ r.cmd = "execute"
    BY <1>0, <1>11 DEF ExecuteReconcileReply, Waiting
  <2>2. AfterSubmission(Awaited(p)) \in {"ambiguous", "save_job", "reject"}
    BY DEF AfterSubmission
  <2> QED
    BY <1>0, <1>11, <2>1, <2>2, ReceiveAccount, LoseAccount DEF ExecuteReconcileReply
<1>12. CASE ExecuteReject(p)
  <2>1. /\ r.pc = "reject" /\ r.exec \in Execs /\ ~OnItsWay(r) /\ UNCHANGED vars
        /\ Goto(p, "handler") /\ update_execution_state(r.exec, "failed")
    BY <1>0, <1>12 DEF ExecuteReject, At, StoreStep, OnItsWay
  <2>2. NothingRuns(r.exec)
    BY <1>0, <2>1 DEF ClientKnows
  <2> QED
    BY <1>0, <1>u, <1>v, <2>1, <2>2, GotoAccount
<1>13. CASE ExecuteAmbiguous(p)
  <2>1. /\ r.pc = "ambiguous" /\ r.exec \in Execs /\ UNCHANGED vars
        /\ Goto(p, "ambiguous_row") /\ update_execution_state(r.exec, "submission_ambiguous")
    BY <1>0, <1>13 DEF ExecuteAmbiguous, At, StoreStep
  <2> QED
    BY <1>0, <1>u, <1>v, <2>1, GotoAccount
<1>14. CASE ExecuteAmbiguousRow(p)
  <2>1. /\ r.pc = "ambiguous_row" /\ r.exec \in Execs /\ ~OnItsWay(r) /\ UNCHANGED vars
        /\ Goto(p, "handler") /\ save_remote_state(r.exec, "ambiguous", "none")
    BY <1>0, <1>14 DEF ExecuteAmbiguousRow, At, StoreStep, OnItsWay
  <2> QED
    BY <1>0, <1>w, <1>v, <2>1, GotoAccount
<1>15. CASE ExecuteSaveJob(p)
  <2>1. r.pc = "save_job" /\ r.exec \in Execs
    BY <1>0, <1>15 DEF ExecuteSaveJob, At
  <2>2. /\ r.resp.job \in Jobs /\ jobExec[r.resp.job] = r.exec /\ jobRow[r.exec] = NoJob
    BY <1>0, <2>1 DEF ClientKnows
  <2>3. CanSaveJob(r.exec, r.resp.job)
    BY <2>1, <2>2, IdentityAssumption DEF CanSaveJob, KInv, VerdictInv
  <2>4. save_scheduler_job(r.exec, r.resp.job) /\ Goto(p, "submitted") /\ UNCHANGED vars
    BY <1>0, <1>15, <2>3 DEF ExecuteSaveJob, StoreStep
  <2>5. RowMove /\ jobRow'[r.exec] # NoJob /\ UNCHANGED created
    BY <2>1, <2>2, <2>4, RowMoves DEF save_scheduler_job
  <2> QED
    BY <1>0, <1>v, <2>1, <2>4, <2>5, GotoAccount
<1>16. CASE ExecuteSubmitted(p)
  <2>1. /\ r.pc = "submitted" /\ r.exec \in Execs /\ ~OnItsWay(r) /\ UNCHANGED vars
        /\ Goto(p, "submitted_row") /\ update_execution_state(r.exec, "submitted")
    BY <1>0, <1>16 DEF ExecuteSubmitted, At, StoreStep, OnItsWay
  <2>2. jobRow[r.exec] # NoJob
    BY <1>0, <2>1 DEF ClientRecords
  <2> QED
    BY <1>0, <1>u, <1>v, <2>1, <2>2, GotoAccount
<1>17. CASE ExecuteSubmittedRow(p)
  <2>1. /\ r.pc = "submitted_row" /\ r.exec \in Execs /\ ~OnItsWay(r) /\ UNCHANGED vars
        /\ Finish(p) /\ save_remote_state(r.exec, "submitted", r.resp.sched)
    BY <1>0, <1>17 DEF ExecuteSubmittedRow, At, StoreStep, OnItsWay
  <2> QED
    BY <1>0, <1>w, <2>1, FinishAccount
<1>18. CASE ExecuteHandler(p)
  <2>1. /\ r.pc = "handler" /\ r.exec \in Execs /\ ~OnItsWay(r) /\ LocalStep
        /\ Finish(p) \/ Goto(p, "handler_write")
    BY <1>0, <1>18 DEF ExecuteHandler, At, OnItsWay
  <2> QED
    BY <1>0, <1>l, <1>v, <2>1, FinishAccount, GotoAccount
<1>19. CASE ExecuteHandlerWrite(p)
  <2>1. /\ r.pc = "handler_write" /\ r.exec \in Execs /\ ~OnItsWay(r) /\ UNCHANGED vars
        /\ Finish(p) /\ update_execution_state(r.exec, "failed")
    BY <1>0, <1>19 DEF ExecuteHandlerWrite, At, StoreStep, OnItsWay
  <2>2. NothingRuns(r.exec)
    BY <1>0, <2>1 DEF ClientKnows
  <2> QED
    BY <1>0, <1>u, <2>1, <2>2, FinishAccount
<1> QED
  BY <1>1, <1>2, <1>3, <1>4, <1>5, <1>6, <1>7, <1>8, <1>9, <1>10, <1>11, <1>12, <1>13, <1>14,
     <1>15, <1>16, <1>17, <1>18, <1>19 DEF ExecuteStep

LEMMA CollectAccount ==
    ASSUME BInv, KInv, KInv', AInv, OneExecute, "invalid" \notin Outcomes, NEW p \in Clients,
           CollectStep(p)
    PROVE  AInv'
<1>0. PICK r \in ClientStates :
          /\ r = client[p] /\ ClientInv(r) /\ ClientKnows(r) /\ ClientRecords(r)
          /\ r.pc \notin {"idle", "create"} => r.exec \in Execs
          /\ r.resp.job \in Jobs \cup {NoJob}
  BY Command DEF KInv, AInv
<1>v. UNCHANGED vars => UNCHANGED <<planeVars, call>>
  BY DEF vars, workerVars
<1>l. LocalStep => UNCHANGED vars /\ UNCHANGED <<created, jobRow>> /\ RowMove
  BY DEF LocalStep, storeVars, RowMove
<1>c. r.cmd \in Collecting => ~OnItsWay(r)
  BY DEF Collecting, OnItsWay
<1>1. CASE CollectBegin(p)
  <2>1. PICK e \in Created, cmd \in Collecting : Begin(p, cmd, e, "reconcile")
    BY <1>1 DEF CollectBegin
  <2>2. e \in Execs
    BY DEF BInv, ControlTypeOK, StoreTypeOK, Created
  <2> QED
    BY <2>1, <2>2, BeginAccount DEF Collecting
<1>2. CASE CollectReconcile(p)
  BY <1>0, <1>2, SendAccount DEF CollectReconcile, At, Ops
<1>3. CASE CollectReconcileReply(p)
  <2>1. r.pc = "reconcile" /\ r.slot # NoCall /\ r.cmd \in Collecting
    BY <1>0, <1>3 DEF CollectReconcileReply, Waiting
  <2>2. CASE Receive(p, "record")
    BY <1>0, <1>c, <2>1, <2>2, ReceiveAccount
  <2>3. CASE Lose(p) /\ Finish(p)
    <3>1. UNCHANGED vars /\ UNCHANGED created /\ RowMove
      BY <2>3 DEF Lose, storeVars, RowMove
    <3> QED
      BY <1>0, <1>c, <2>1, <2>3, <3>1, FinishAccount
  <2> QED
    BY <1>3, <2>2, <2>3 DEF CollectReconcileReply
<1>4. CASE CollectRecord(p)
  <2>1. /\ r.pc = "record" /\ r.exec \in Execs /\ r.cmd \in Collecting /\ LocalStep
        /\ \/ Goto(p, "record_save") /\ r.resp.job # NoJob
           \/ /\ Goto(p, "record_row")
              /\ r.resp.sched = "none" \/ r.resp.job = NoJob \/ jobRow[r.exec] # NoJob
    BY <1>0, <1>4 DEF CollectRecord, At
  <2>2. r.resp.sched # "none" => r.resp.job # NoJob
    BY <1>0, <2>1 DEF ClientRecords
  <2> QED
    BY <1>0, <1>v, <1>l, <1>c, <2>1, <2>2, GotoAccount
<1>5. CASE CollectRecordSave(p)
  <2>1. r.pc = "record_save" /\ r.exec \in Execs /\ r.cmd \in Collecting
    BY <1>0, <1>5 DEF CollectRecordSave, At
  <2>2. r.resp.job \in Jobs
    BY <1>0, <2>1 DEF ClientRecords
  <2>3. CASE save_scheduler_job(r.exec, r.resp.job) /\ Goto(p, "record_state") /\ StoreStep
    <3>1. RowMove /\ jobRow'[r.exec] # NoJob /\ UNCHANGED created /\ UNCHANGED vars
      BY <2>1, <2>2, <2>3, RowMoves DEF save_scheduler_job, StoreStep
    <3> QED
      BY <1>0, <1>v, <1>c, <2>1, <2>3, <3>1, GotoAccount
  <2>4. CASE Finish(p) /\ LocalStep
    BY <1>0, <1>l, <1>c, <2>1, <2>4, FinishAccount
  <2> QED
    BY <1>0, <1>5, <2>3, <2>4 DEF CollectRecordSave
<1>6. CASE CollectRecordState(p)
  <2>1. /\ r.pc = "record_state" /\ r.exec \in Execs /\ r.cmd \in Collecting
        /\ UNCHANGED vars /\ Goto(p, "record_row")
        /\ update_execution_state(r.exec, RecoveredState(r.resp.sched))
    BY <1>0, <1>6 DEF CollectRecordState, At, StoreStep
  <2>2. jobRow[r.exec] # NoJob
    BY <1>0, <2>1 DEF ClientRecords
  <2>3. RowMove /\ UNCHANGED <<created, jobRow>>
    BY <2>1, <2>2, RowMoves DEF update_execution_state
  <2> QED
    BY <1>0, <1>v, <1>c, <2>1, <2>2, <2>3, GotoAccount
<1>7. CASE CollectRecordRow(p)
  <2>1. /\ r.pc = "record_row" /\ r.exec \in Execs /\ r.cmd \in Collecting
        /\ UNCHANGED vars /\ Goto(p, "result")
        /\ save_remote_state(r.exec, r.resp.state, r.resp.sched)
    BY <1>0, <1>7 DEF CollectRecordRow, At, StoreStep
  <2>2. RowMove /\ UNCHANGED <<created, jobRow>>
    BY <2>1, RowMoves DEF save_remote_state
  <2>3. r.resp.sched # "none" => jobRow[r.exec] # NoJob
    BY <1>0, <2>1 DEF ClientRecords
  <2> QED
    BY <1>0, <1>v, <1>c, <2>1, <2>2, <2>3, GotoAccount
<1>8. CASE CollectResult(p)
  <2>1. /\ r.pc = "result" /\ r.exec \in Execs /\ r.cmd \in Collecting /\ LocalStep
        /\ \/ Goto(p, "poll")
           \/ Finish(p)
           \/ Goto(p, "import") /\ Usable(r.resp.result)
    BY <1>0, <1>8 DEF CollectResult, At
  <2>2. r.resp.sched # "none" => jobRow[r.exec] # NoJob
    BY <1>0, <2>1 DEF ClientRecords
  <2>3. Usable(r.resp.result) => r.resp.sched # "none"
    BY <1>0, <2>1 DEF ClientRecords, Usable
  <2> QED
    BY <1>0, <1>v, <1>l, <1>c, <2>1, <2>2, <2>3, FinishAccount, GotoAccount
<1>9. CASE CollectImport(p)
  <2>1. /\ r.pc = "import" /\ r.exec \in Execs /\ r.cmd \in Collecting /\ UNCHANGED vars
        /\ Finish(p)
        /\ \/ import_result(r.exec, r.resp.result)
           \/ LocalStep
    BY <1>0, <1>9 DEF CollectImport, At, StoreStep, LocalStep
  <2>2. jobRow[r.exec] # NoJob
    BY <1>0, <2>1 DEF ClientRecords
  <2>3. RowMove /\ UNCHANGED created
    BY <1>l, <2>1, <2>2, RowMoves DEF import_result
  <2> QED
    BY <1>0, <1>c, <2>1, <2>3, FinishAccount
<1>10. CASE WaitPoll(p)
  <2>1. /\ r.pc = "poll" /\ r.exec \in Execs /\ r.cmd = "wait" /\ LocalStep
        /\ \/ /\ Goto(p, "collection_failed")
              /\ remoteRow[r.exec].sched \in TerminalObservations
           \/ Become(p, [r EXCEPT !.pc = "reconcile", !.resp = NoResponse])
    BY <1>0, <1>10 DEF WaitPoll, At
  <2>2. CASE Goto(p, "collection_failed") /\ remoteRow[r.exec].sched \in TerminalObservations
    <3>1. r.resp.sched # "none"
      BY <1>0, <2>1, <2>2 DEF ClientKnows, TerminalObservations
    <3>2. jobRow[r.exec] # NoJob
      BY <1>0, <2>1, <3>1 DEF ClientRecords
    <3> QED
      BY <1>0, <1>v, <1>l, <1>c, <2>1, <2>2, <3>2, GotoAccount DEF Collecting
  <2>3. CASE Become(p, [r EXCEPT !.pc = "reconcile", !.resp = NoResponse])
    <3>s. PICK s : s = [r EXCEPT !.pc = "reconcile", !.resp = NoResponse]
      OBVIOUS
    <3>1. /\ s \in ClientStates /\ s.cmd = "wait" /\ s.pc = "reconcile" /\ s.exec = r.exec
          /\ s.resp = NoResponse /\ Become(p, s)
      BY <2>1, <2>3, <3>s DEF ClientStates, NoResponse, Responses, DocStates
    <3>2. ClientRecords(s)'
      BY <3>1 DEF ClientRecords, NoResponse
    <3> QED
      BY <1>0, <1>v, <1>l, <1>c, <2>1, <3>1, <3>2, CallsStill, AccountStep DEF Collecting
  <2> QED
    BY <2>1, <2>2, <2>3
<1>11. CASE WaitCollectionFailed(p)
  <2>1. /\ r.pc = "collection_failed" /\ r.exec \in Execs /\ r.cmd = "wait" /\ UNCHANGED vars
        /\ Finish(p) /\ update_execution_state(r.exec, "collection_failed")
    BY <1>0, <1>11 DEF WaitCollectionFailed, At, StoreStep
  <2>2. jobRow[r.exec] # NoJob
    BY <1>0, <2>1 DEF ClientRecords
  <2>3. RowMove /\ UNCHANGED created
    BY <2>1, <2>2, RowMoves DEF update_execution_state
  <2> QED
    BY <1>0, <1>c, <2>1, <2>3, FinishAccount DEF Collecting
<1> QED
  BY <1>1, <1>2, <1>3, <1>4, <1>5, <1>6, <1>7, <1>8, <1>9, <1>10, <1>11 DEF CollectStep

\* A cancellation changes the state of an execution whose job is recorded; a command that
\* dies is no execute.
LEMMA CancelAccount ==
    ASSUME BInv, KInv', AInv, OneExecute, "invalid" \notin Outcomes, NEW p \in Clients,
           CancelStep(p) \/ (Crash(p) /\ client[p].cmd # "execute")
    PROVE  AInv'
<1>0. PICK r \in ClientStates :
          /\ r = client[p] /\ ClientRecords(r)
          /\ r.pc \notin {"idle", "create"} => r.exec \in Execs
  BY Command DEF AInv
<1>v. UNCHANGED vars => UNCHANGED <<planeVars, call>>
  BY DEF vars, workerVars
<1>l. UNCHANGED storeVars => UNCHANGED <<created, jobRow>> /\ RowMove
  BY DEF storeVars, RowMove
<1>c. r.cmd # "execute" => ~OnItsWay(r)
  BY DEF OnItsWay
<1>1. CASE CancelBegin(p)
  <2>1. PICK e \in Created : Begin(p, "cancel", e, "cancel")
    BY <1>1 DEF CancelBegin
  <2>2. e \in Execs
    BY DEF BInv, ControlTypeOK, StoreTypeOK, Created
  <2> QED
    BY <2>1, <2>2, BeginAccount
<1>2. CASE CancelSend(p)
  BY <1>0, <1>2, SendAccount DEF CancelSend, At, Ops
<1>3. CASE CancelReply(p)
  <2>1. r.pc = "cancel" /\ r.slot # NoCall /\ r.cmd = "cancel"
    BY <1>0, <1>3 DEF CancelReply, Waiting
  <2>2. ASSUME NEW pc \in {"cancelled", "cancel_refused"}, Receive(p, pc) PROVE AInv'
    BY <1>0, <1>c, <2>1, <2>2, ReceiveAccount
  <2>3. CASE Lose(p) /\ Finish(p)
    BY <1>0, <1>c, <1>l, <2>1, <2>3, FinishAccount DEF Lose
  <2> QED
    BY <1>3, <2>2, <2>3 DEF CancelReply
<1>4. CASE CancelJobRow(p)
  <2>1. /\ r.pc \in {"cancelled", "cancel_refused"} /\ r.exec \in Execs /\ r.cmd = "cancel"
        /\ UNCHANGED vars /\ UNCHANGED storeVars
        /\ \/ Goto(p, "cancelled_state") /\ jobRow[r.exec] # NoJob
           \/ Finish(p)
    BY <1>0, <1>4 DEF CancelJobRow, At, LocalStep
  <2> QED
    BY <1>0, <1>v, <1>l, <1>c, <2>1, FinishAccount, GotoAccount
<1>5. CASE CancelState(p)
  <2>1. /\ r.pc = "cancelled_state" /\ r.exec \in Execs /\ r.cmd = "cancel" /\ UNCHANGED vars
        /\ Goto(p, "cancelled_row") /\ update_execution_state(r.exec, "cancelled")
    BY <1>0, <1>5 DEF CancelState, At, StoreStep
  <2>2. jobRow[r.exec] # NoJob
    BY <1>0, <2>1 DEF ClientRecords
  <2>3. RowMove /\ UNCHANGED created
    BY <2>1, <2>2, RowMoves DEF update_execution_state
  <2> QED
    BY <1>0, <1>v, <1>c, <2>1, <2>3, GotoAccount
<1>6. CASE CancelRow(p)
  <2>1. /\ r.pc = "cancelled_row" /\ r.exec \in Execs /\ r.cmd = "cancel" /\ UNCHANGED vars
        /\ Finish(p) /\ save_remote_state(r.exec, "cancelled", "none")
    BY <1>0, <1>6 DEF CancelRow, At, StoreStep
  <2>2. RowMove /\ UNCHANGED created
    BY <2>1, RowMoves DEF save_remote_state
  <2> QED
    BY <1>0, <1>c, <2>1, <2>2, FinishAccount
<1>7. CASE Crash(p) /\ client[p].cmd # "execute"
  BY <1>0, <1>c, <1>l, <1>7, FinishAccount DEF Crash, Quit
<1> QED
  BY <1>1, <1>2, <1>3, <1>4, <1>5, <1>6, <1>7 DEF CancelStep

\* The site's steps, and an answer that nobody waits for.
LEMMA SiteAccount ==
    ASSUME BInv, AInv, UNCHANGED <<storeVars, client>>,
           \/ Plane
           \/ \E c \in Calls : WorkerStep(c) \/ WorkerDies(c) \/ Discard(c)
    PROVE  AInv'
<1>0. IInv /\ call \in [Calls -> CallStates] /\ UNCHANGED <<created, execState, jobRow>>
  BY DEF BInv, IInv, TypeOK, WorkerTypeOK, storeVars
<1>1. ASSUME NEW c \in Calls, Discard(c)
      PROVE  /\ \A d \in Calls : CallRecords(call[d])'
             /\ \A e \in Execs : NothingRuns(e) => NothingRuns(e)'
  <2>1. UNCHANGED jobExec /\ \A d \in Calls : call'[d] = call[d] \/ call'[d] = IdleCall
    BY <1>0, <1>1 DEF Discard, Update, planeVars
  <2>2. \A d \in Calls : CallRecords(call[d])'
    BY <2>1 DEF AInv, CallRecords, IdleCall
  <2> QED
    BY <2>1, <2>2, IdentityAssumption DEF NothingRuns, HasJob, SubmitOpen, IdleCall
<1>2. ASSUME Plane \/ \E c \in Calls : WorkerStep(c) \/ WorkerDies(c)
      PROVE  /\ \A d \in Calls : CallRecords(call[d])'
             /\ \A e \in Execs : NothingRuns(e) => NothingRuns(e)'
  <2>1. ASSUME Plane PROVE \A d \in Calls : CallRecords(call[d])'
    BY <2>1 DEF Plane, workerVars, AInv, CallRecords
  <2>2. ASSUME NEW c \in Calls, WorkerStep(c) \/ WorkerDies(c), NEW d \in Calls
        PROVE  CallRecords(call[d])'
    <3>1. WorkerKeeps(c)
      BY <1>0, <2>2, WorkerStepKeeps, FailKeeps DEF WorkerDies, Alive
    <3>2. CASE d = c
      BY <2>2, <3>2, WorkerRecords DEF AInv
    <3>3. CASE d # c
      BY <3>1, <3>3 DEF WorkerKeeps, AInv, CallRecords
    <3> QED
      BY <3>2, <3>3
  <2> QED
    BY <1>0, <1>2, <2>1, <2>2, SiteStepStays DEF SiteStays
<1>3. /\ \A d \in Calls : CallRecords(call[d])'
      /\ \A e \in Execs : NothingRuns(e) => NothingRuns(e)'
  BY <1>1, <1>2
<1>4. (\A p \in Clients : ClientRecords(client[p]))'
  BY <1>0 DEF AInv, ClientRecords
<1>5. AccountInv'
  BY <1>0, <1>3 DEF AInv, AccountInv, OnItsWay
<1> QED
  BY <1>3, <1>4, <1>5 DEF AInv

LEMMA AccountInit == BackendInit => AInv
<1> SUFFICES ASSUME BackendInit PROVE AInv
  OBVIOUS
<1>1. \A c \in Calls : CallRecords(call[c])
  BY DEF BackendInit, Init, WorkerInit, CallRecords, IdleCall
<1>2. \A p \in Clients : ClientRecords(client[p])
  BY DEF BackendInit, ClientRecords, IdleClient, NoResponse, Collecting
<1>3. \A e \in Execs : NothingRuns(e)
  BY IdentityAssumption
     DEF BackendInit, Init, PlaneInit, WorkerInit, IdleCall, NothingRuns, HasJob, SubmitOpen
<1> QED
  BY <1>1, <1>2, <1>3 DEF AInv, AccountInv

LEMMA AccountNext ==
    ASSUME "invalid" \notin Outcomes
    PROVE  /\ BInv /\ KInv /\ KInv' /\ AInv /\ OneExecute
           /\ [BackendNext]_backendVars /\ [ExecutesLive]_backendVars
           => AInv'
<1> SUFFICES ASSUME BInv, KInv, KInv', AInv, OneExecute, [BackendNext]_backendVars,
                    [ExecutesLive]_backendVars
             PROVE  AInv'
  OBVIOUS
<1>1. CASE UNCHANGED backendVars
  <2>1. UNCHANGED <<planeVars, call, client, created, execState, jobRow>>
    BY <1>1 DEF backendVars, vars, workerVars, storeVars
  <2>2. (\A p \in Clients : ClientRecords(client[p]))'
    BY <2>1 DEF AInv, ClientRecords
  <2>3. AccountInv'
    BY <2>1, CallsStill DEF AInv, AccountInv, OnItsWay
  <2> QED
    BY <2>1, <2>2, <2>3, CallsStill DEF AInv
<1>2. CASE SiteStep
  BY <1>2, SiteAccount DEF SiteStep
<1>3. ASSUME NEW c \in Calls, SiteFault(c) \/ Discard(c) PROVE AInv'
  BY <1>3, SiteAccount DEF SiteFault, Discard
<1>4. ASSUME NEW p \in Clients, ExecuteStep(p) \/ CollectStep(p) \/ CancelStep(p) PROVE AInv'
  BY <1>4, ExecuteAccount, CollectAccount, CancelAccount
<1>5. ASSUME NEW p \in Clients, Crash(p), ~UNCHANGED backendVars PROVE AInv'
  <2>1. client[p].cmd # "execute"
    BY <1>5 DEF ExecutesLive
  <2> QED
    BY <1>5, <2>1, CancelAccount
<1> QED
  BY <1>1, <1>2, <1>3, <1>4, <1>5 DEF BackendNext

\* Only execute creates an execution.
LEMMA CreatedByExecute ==
    ASSUME BackendNext, created' # created
    PROVE  \E p \in Clients : ExecuteCreate(p)
<1> SUFFICES ASSUME \A p \in Clients : ~ExecuteCreate(p) PROVE UNCHANGED created
  OBVIOUS
<1>1. CASE SiteStep
  BY <1>1 DEF SiteStep, storeVars
<1>2. ASSUME NEW c \in Calls, SiteFault(c) \/ Discard(c) PROVE UNCHANGED created
  BY <1>2 DEF SiteFault, Discard, storeVars
<1>3. ASSUME NEW p \in Clients, ExecuteStep(p) PROVE UNCHANGED created
  BY <1>3 DEF ExecuteStep, ExecuteBegin, Begin, ExecutePrepare, Send, LocalStep,
     ExecutePrepareReply, Receive, LoseThen, Lose, ExecutePrepared, ExecutePreparedRow,
     ExecuteUpload, ExecuteSubmit, ExecuteSubmitReply, ExecuteReconcile, ExecuteReconcileReply,
     ExecuteReject, ExecuteAmbiguous, ExecuteAmbiguousRow, ExecuteSaveJob, ExecuteSubmitted,
     ExecuteSubmittedRow, ExecuteHandler, ExecuteHandlerWrite, update_execution_state,
     save_remote_state, save_scheduler_job, storeVars
<1>4. ASSUME NEW p \in Clients, CollectStep(p) PROVE UNCHANGED created
  BY <1>4 DEF CollectStep, CollectBegin, Begin, CollectReconcile, Send, LocalStep,
     CollectReconcileReply, Receive, Lose, CollectRecord, CollectRecordSave, CollectRecordState,
     CollectRecordRow, CollectResult, CollectImport, WaitPoll, WaitCollectionFailed,
     update_execution_state, save_remote_state, save_scheduler_job, import_result, storeVars
<1>5. ASSUME NEW p \in Clients, CancelStep(p) \/ Crash(p) PROVE UNCHANGED created
  BY <1>5 DEF CancelStep, CancelBegin, Begin, CancelSend, Send, LocalStep, CancelReply, Receive,
     Lose, CancelJobRow, CancelState, CancelRow, update_execution_state, save_remote_state,
     Crash, Quit, storeVars
<1> QED
  BY <1>1, <1>2, <1>3, <1>4, <1>5 DEF BackendNext

\* Where every published result is a valid bundle, a plan's executes follow one another and
\* none of them dies, and execute, collect and wait of one execution do not overlap:
\* whatever answers are lost and whatever late workers, cancellations and dead waits do, no
\* execution of a plan is created while the scheduler holds, or may still be handed, an
\* earlier one's job that the store does not know (execute_plan's ambiguity check).
THEOREM NewExecutionsAreAccounted ==
    ASSUME "invalid" \notin Outcomes
    PROVE  BackendSpec /\ []OnePerExecution /\ []OneExecute /\ [][ExecutesLive]_backendVars
           => NewExecutionIsAccounted
<1> DEFINE Accounted == \A e \in Created : (HasJob(e) \/ SubmitPending(e)) => jobRow[e] # NoJob
<1>1. BInv /\ AInv /\ OneExecute /\ [BackendNext]_backendVars
      => [created' # created => Accounted]_backendVars
  <2> SUFFICES ASSUME BInv, AInv, OneExecute, BackendNext, created' # created,
                      NEW e \in Created, HasJob(e) \/ SubmitPending(e)
               PROVE  jobRow[e] # NoJob
    OBVIOUS
  <2>1. e \in Execs
    BY DEF BInv, ControlTypeOK, StoreTypeOK, Created
  <2>2. ~NothingRuns(e)
    BY DEF NothingRuns, SubmitPending
  <2> QED
    BY <2>1, <2>2, CreatedByExecute, AllAccounted
<1> QED
  BY <1>1, AccountInit, AccountNext, BackendInvariant, KnowsInvariant, PTL
     DEF BackendSpec, NewExecutionIsAccounted

=============================================================================
