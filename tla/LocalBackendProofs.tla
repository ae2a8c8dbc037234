------------------------- MODULE LocalBackendProofs -------------------------
(***************************************************************************)
(* The safety of the local scheduler backends, for any number of           *)
(* executions, jobs and concurrent commands, with or without crashes.      *)
(*                                                                         *)
(* One execute command owns each execution until it has submitted, so no   *)
(* second job can appear; a job identity that any command knows is that of *)
(* its own execution; and what a collecting command carries is the         *)
(* published result, which nothing replaces.  For LSF without preemption   *)
(* a wait asks for the result a second time only after bjobs listed its    *)
(* job as finished, and a finished job publishes nothing any more.         *)
(***************************************************************************)
EXTENDS LocalBackend, StoreProofs

\* What store and scheduler agree on.
RowInv ==
    /\ OneJobEach
    /\ \A e \in Execs :
        /\ HasJob(e) => e \in Created
        /\ jobRow[e] # NoJob => jobExec[jobRow[e]] = e
    /\ ~Preemption => \A j \in Jobs : jobPhase[j] \notin {"held", "evicted"}

\* LSF on a site that neither holds nor evicts jobs.
Calm == family = "lsf" /\ ~Preemption

\* What a command knows at each of its program points.
CommandInv(r) ==
    /\ r.exec # NoExec => r.exec \in Created
    /\ r.pc \notin {"idle", "create"} => r.exec # NoExec
    /\ r.pc = "create" => r.exec = NoExec
    /\ r.pc \in {"prepared", "submit"} => r.cmd = "execute" /\ ~HasJob(r.exec)
    /\ r.job # NoJob => r.exec # NoExec /\ jobExec[r.job] = r.exec
    /\ r.pc \in {"save_job", "observe", "observed", "kill"} => r.job # NoJob
    /\ r.pc = "observed" => r.obs # "none"
    /\ r.pc \in {"check", "import"} => Usable(r.result) /\ r.result = bundle[r.exec]

\* When a wait of a calm system gives its job up, that job has ended without
\* a usable result.
VerdictInv(r) ==
    /\ r.obs = "ended" => r.job # NoJob /\ jobPhase[r.job] = "ended"
    /\ Calm =>
        /\ r.obs # "evicted"
        /\ r.pc \in {"get", "load"} /\ r.obs # "none" => r.obs = "ended"
        /\ r.pc = "collection_failed" => r.obs = "ended" /\ ~Usable(bundle[r.exec])

RecordInv(r) == CommandInv(r) /\ VerdictInv(r)

ClientInv == \A p \in Clients : RecordInv(client[p])

\* No two execute commands work on one execution.
Clash(r, s) ==
    r.cmd = "execute" /\ s.cmd = "execute" /\ r.exec = s.exec /\ r.exec # NoExec

UniqueInv == \A p, q \in Clients : Clash(client[p], client[q]) => p = q

\* collection_failed is a verdict about a job that the execution has.
FinalInv ==
    Calm => \A e \in Execs :
        execState[e] = "collection_failed" =>
            /\ ~Usable(bundle[e])
            /\ \E j \in Jobs : jobExec[j] = e /\ jobPhase[j] = "ended"

IInv == LocalTypeOK /\ RowInv /\ ClientInv /\ UniqueInv /\ OutcomeIsPublished /\ FinalInv

-----------------------------------------------------------------------------
\* The initial states satisfy the invariant.
LEMMA InitInv == LocalInit => IInv
<1> SUFFICES ASSUME LocalInit PROVE IInv
  OBVIOUS
<1> USE IdentityAssumption, LocalAssumption
        DEF LocalInit, PlaneInit, StoreInit, IdleClient, NoRow
<1>1. LocalTypeOK
  BY DEF LocalTypeOK, PlaneTypeOK, StoreTypeOK, JobPhases, ClientStates, ExecutionStates,
         RemoteRowStates, Observations
<1>2. RowInv /\ OutcomeIsPublished /\ FinalInv
  BY DEF RowInv, OneJobEach, HasJob, OutcomeIsPublished, FinalInv
<1>3. ClientInv /\ UniqueInv
  BY DEF ClientInv, RecordInv, CommandInv, VerdictInv, UniqueInv, Clash
<1> QED
  BY <1>1, <1>2, <1>3 DEF IInv

\* A step of the scheduler that hands out no job and publishes no result:
\* no identity is taken back and what has ended stays ended.
Quiet ==
    /\ UNCHANGED <<jobExec, bundle>>
    /\ jobPhase' \in [Jobs -> JobPhases]
    /\ \A j \in Jobs : /\ jobPhase'[j] = "free" <=> jobPhase[j] = "free"
                       /\ jobPhase[j] = "ended" => jobPhase'[j] = "ended"
    /\ ~Preemption => \A j \in Jobs : jobPhase'[j] \notin {"held", "evicted"}

\* A plane that stands still is quiet, and so is one that kills a job.
LEMMA QuietSteps ==
    ASSUME IInv
    PROVE  /\ UNCHANGED planeVars => Quiet
           /\ \A j \in Jobs : KillJob(j) => Quiet
BY DEF IInv, RowInv, LocalTypeOK, PlaneTypeOK, planeVars, Quiet, KillJob, MoveJob, JobPhases

\* The states that update_execution_state writes without a verdict or an outcome.
NeutralStates == ExecutionStates \ {"completed", "preflight_failed", "collection_failed"}

\* The store's rows stay as they are, but for neutral states of executions.
QuietStore ==
    /\ UNCHANGED <<created, jobRow, remoteRow, imported, family>>
    /\ execState' \in [Execs -> ExecutionStates \cup {"absent"}]
    /\ \A e \in Execs : execState'[e] = execState[e] \/ execState'[e] \in NeutralStates
    /\ spent' \in [commands : 0..MaxCommands, crashes : 0..MaxCrashes]

\* A store left alone is quiet, and so is one that gets a neutral state.
LEMMA QuietStoreSteps ==
    ASSUME IInv, UNCHANGED <<family, spent>>
    PROVE  /\ UNCHANGED storeVars => QuietStore
           /\ \A e \in Execs, s \in NeutralStates : update_execution_state(e, s) => QuietStore
BY DEF IInv, LocalTypeOK, StoreTypeOK, storeVars, QuietStore, update_execution_state,
       NeutralStates

\* While scheduler and store are quiet, the parts of the invariant that are
\* not about commands are preserved.
LEMMA QuietKeepsRows ==
    ASSUME IInv, Quiet, QuietStore, client' \in [Clients -> ClientStates]
    PROVE  LocalTypeOK' /\ RowInv' /\ OutcomeIsPublished' /\ FinalInv'
<1>1. LocalTypeOK'
  BY DEF IInv, LocalTypeOK, PlaneTypeOK, StoreTypeOK, Quiet, QuietStore
<1>2. RowInv'
  BY DEF IInv, RowInv, OneJobEach, HasJob, Created, Quiet, QuietStore
<1>3. OutcomeIsPublished'
  BY DEF IInv, OutcomeIsPublished, Quiet, QuietStore, NeutralStates
<1>4. FinalInv'
  BY DEF IInv, FinalInv, Calm, Usable, Quiet, QuietStore, NeutralStates
<1> QED
  BY <1>1, <1>2, <1>3, <1>4

\* What a command knows survives a quiet step of the scheduler.
LEMMA QuietKeepsRecord ==
    ASSUME Quiet, UNCHANGED <<created, family>>, NEW r \in ClientStates, RecordInv(r)
    PROVE  RecordInv(r)'
BY DEF RecordInv, CommandInv, VerdictInv, Calm, Usable, HasJob, Created, ClientStates, Quiet

\* Command p may get any record that satisfies its part of the invariant, for an
\* execution that no other execute command works on.
LEMMA RecordStep ==
    ASSUME IInv, NEW p \in Clients, NEW s \in ClientStates,
           client' = [client EXCEPT ![p] = s], Quiet, UNCHANGED <<created, family>>,
           RecordInv(s),
           s.cmd = "execute" /\ s.exec # NoExec =>
               client[p].cmd = "execute" /\ client[p].exec = s.exec
    PROVE  client' \in [Clients -> ClientStates] /\ ClientInv' /\ UniqueInv'
<1>0. /\ client'[p] = s /\ \A q \in Clients \ {p} : client'[q] = client[q]
      /\ client' \in [Clients -> ClientStates]
  BY DEF IInv, LocalTypeOK
<1>1. ClientInv'
  <2> SUFFICES ASSUME NEW q \in Clients PROVE RecordInv(client[q])'
    BY DEF ClientInv
  <2>1. PICK r \in ClientStates : r = client'[q] /\ RecordInv(r)
    BY <1>0 DEF IInv, ClientInv
  <2>2. RecordInv(r)'
    BY <2>1, QuietKeepsRecord
  <2> QED
    BY <2>1, <2>2 DEF RecordInv, CommandInv, VerdictInv
<1>2. UniqueInv'
  BY <1>0 DEF IInv, UniqueInv, Clash
<1> QED
  BY <1>0, <1>1, <1>2

\* While scheduler and store are quiet, that preserves the invariant.
LEMMA ClientStep ==
    ASSUME IInv, NEW p \in Clients, NEW s \in ClientStates,
           client' = [client EXCEPT ![p] = s], Quiet, QuietStore, RecordInv(s),
           s.cmd = "execute" /\ s.exec # NoExec =>
               client[p].cmd = "execute" /\ client[p].exec = s.exec
    PROVE  IInv'
<1>1. client' \in [Clients -> ClientStates] /\ ClientInv' /\ UniqueInv'
  BY RecordStep DEF QuietStore
<1> QED
  BY <1>1, QuietKeepsRows DEF IInv

\* What the invariant says of command p and of its execution.
LEMMA Current ==
    ASSUME IInv, NEW p \in Clients
    PROVE  /\ client[p] \in ClientStates /\ RecordInv(client[p])
           /\ client[p].exec # NoExec =>
                /\ client[p].exec \in Execs
                /\ bundle[client[p].exec] \in Outcomes \cup {"none"}
                /\ execState[client[p].exec] \in ExecutionStates \cup {"absent"}
                /\ jobRow[client[p].exec] \in Jobs \cup {NoJob}
BY DEF IInv, LocalTypeOK, PlaneTypeOK, StoreTypeOK, ClientInv, RecordInv, ClientStates

\* The record of an idle command is harmless.
LEMMA IdleRecord == IdleClient \in ClientStates /\ RecordInv(IdleClient)
                    /\ IdleClient.cmd # "execute"
BY DEF IdleClient, ClientStates, RecordInv, CommandInv, VerdictInv, Observations,
       ExecutionStates

\* A command may end at any point.
LEMMA FinishStep ==
    ASSUME IInv, NEW p \in Clients, Finish(p), Quiet, QuietStore
    PROVE  IInv'
BY IdleRecord, ClientStep DEF Finish, Become

\* A command may go on to a program point of which nothing more is required.
LEMMA GotoStep ==
    ASSUME IInv, NEW p \in Clients, client[p].exec # NoExec, Quiet, QuietStore,
           NEW pc \in {"submit", "ambiguous", "reject", "handler", "handler_write",
                       "submitted", "import", "known_job", "cancelled"},
           pc = "submit" => client[p].pc = "prepared",
           pc = "import" => client[p].pc = "check",
           Goto(p, pc)
    PROVE  IInv'
<1> DEFINE s == [client[p] EXCEPT !.pc = pc]
<1>1. client[p] \in ClientStates /\ RecordInv(client[p])
  BY Current
<1>2. /\ s \in ClientStates /\ s.pc = pc
      /\ s.cmd = client[p].cmd /\ s.exec = client[p].exec /\ s.job = client[p].job
      /\ s.obs = client[p].obs /\ s.result = client[p].result
  BY <1>1 DEF ClientStates
<1>3. client' = [client EXCEPT ![p] = s]
  BY DEF Goto, Become
<1> HIDE DEF s
<1>4. RecordInv(s)
  BY <1>1, <1>2 DEF RecordInv, CommandInv, VerdictInv
<1> QED
  BY <1>2, <1>3, <1>4, ClientStep

-----------------------------------------------------------------------------
\* The execute command.

\* A command begins, for an execution that is in the store or for none.
LEMMA BeginStep ==
    ASSUME IInv, NEW p \in Clients, NEW cmd, NEW e \in Created \cup {NoExec}, NEW pc,
           \/ cmd = "execute" /\ e = NoExec /\ pc = "create"
           \/ /\ cmd \in {"collect", "wait", "status", "cancel"} /\ e \in Created
              /\ pc \in {"get", "known_job"},
           Begin(p, cmd, e, pc)
    PROVE  IInv'
<1> DEFINE s == [IdleClient EXCEPT !.cmd = cmd, !.exec = e, !.pc = pc]
<1>0. Created \subseteq Execs
  BY DEF IInv, LocalTypeOK, StoreTypeOK, Created
<1>1. /\ s \in ClientStates /\ s.cmd = cmd /\ s.exec = e /\ s.pc = pc
      /\ s.job = NoJob /\ s.obs = "none"
  BY <1>0 DEF IdleClient, ClientStates, Observations, ExecutionStates
<1>2. client' = [client EXCEPT ![p] = s]
  BY DEF Begin, Become
<1> HIDE DEF s
<1>3. RecordInv(s)
  BY <1>0, <1>1, IdentityAssumption DEF RecordInv, CommandInv, VerdictInv
<1>4. Quiet
  BY QuietSteps DEF Begin
<1>5. QuietStore
  <2>1. spent' \in [commands : 0..MaxCommands, crashes : 0..MaxCrashes]
    BY LocalAssumption DEF Begin, IInv, LocalTypeOK
  <2> QED
    BY <2>1 DEF Begin, IInv, LocalTypeOK, StoreTypeOK, storeVars, QuietStore
<1> QED
  BY <1>0, <1>1, <1>2, <1>3, <1>4, <1>5, ClientStep, IdentityAssumption

\* execute_plan creates the execution: no other command knows it yet, and it
\* has no job.
LEMMA ExecuteCreateInv ==
    ASSUME IInv, NEW p \in Clients, ExecuteCreate(p)
    PROVE  IInv'
<1>1. PICK e \in Execs :
        /\ create_execution(e)
        /\ client' = [client EXCEPT ![p] = [client[p] EXCEPT !.exec = e, !.pc = "prepared"]]
  BY DEF ExecuteCreate, Become
<1>2. /\ Created' = Created \cup {e} /\ created' \in Seq(Execs) /\ e \notin Created
      /\ UNCHANGED <<planeVars, jobRow, remoteRow, imported, family, spent>>
      /\ execState' \in [Execs -> ExecutionStates \cup {"absent"}]
      /\ execState'[e] = "planned" /\ \A f \in Execs \ {e} : execState'[f] = execState[f]
  BY <1>1, CreatedGrows
     DEF create_execution, ExecuteCreate, StoreStep, IInv, LocalTypeOK, StoreTypeOK,
         ExecutionStates
<1> DEFINE s == [client[p] EXCEPT !.exec = e, !.pc = "prepared"]
<1>3. client[p] \in ClientStates /\ RecordInv(client[p]) /\ client[p].cmd = "execute"
      /\ client[p].pc = "create"
  BY Current DEF ExecuteCreate, At
<1>4. /\ s \in ClientStates /\ s.cmd = "execute" /\ s.exec = e /\ s.pc = "prepared"
      /\ s.job = client[p].job /\ s.obs = client[p].obs
      /\ client' = [client EXCEPT ![p] = s]
  BY <1>1, <1>3 DEF ClientStates
<1> HIDE DEF s
<1>5. /\ client'[p] = s /\ \A q \in Clients \ {p} : client'[q] = client[q]
      /\ client' \in [Clients -> ClientStates]
  BY <1>4 DEF IInv, LocalTypeOK
<1>6. ~HasJob(e) /\ \A q \in Clients : client[q].exec # e
  BY <1>2, IdentityAssumption DEF IInv, RowInv, ClientInv, RecordInv, CommandInv
<1>7. LocalTypeOK'
  BY <1>2, <1>5 DEF IInv, LocalTypeOK, PlaneTypeOK, StoreTypeOK, planeVars
<1>8. RowInv' /\ OutcomeIsPublished' /\ FinalInv'
  BY <1>2 DEF IInv, RowInv, OneJobEach, HasJob, OutcomeIsPublished, FinalInv, Calm, Usable,
              planeVars
<1>9. ClientInv'
  <2> SUFFICES ASSUME NEW q \in Clients PROVE RecordInv(client[q])'
    BY DEF ClientInv
  <2>1. CASE q # p
    <3>1. PICK r \in ClientStates : r = client'[q] /\ RecordInv(r)
      BY <1>5, <2>1 DEF IInv, ClientInv
    <3> QED
      BY <1>2, <3>1 DEF RecordInv, CommandInv, VerdictInv, Calm, Usable, HasJob, planeVars
  <2>2. CASE q = p
    <3>1. PICK r \in ClientStates : r = client'[q] /\ r = s
      BY <1>4, <1>5, <2>2
    <3>2. r.job = NoJob
      BY <1>3, <1>4, <3>1 DEF RecordInv, CommandInv
    <3> QED
      BY <1>2, <1>3, <1>4, <1>6, <3>1, <3>2, IdentityAssumption
         DEF RecordInv, CommandInv, VerdictInv, Calm, HasJob, planeVars
  <2> QED
    BY <2>1, <2>2
<1>10. UniqueInv'
  BY <1>4, <1>5, <1>6 DEF IInv, UniqueInv, Clash
<1> QED
  BY <1>7, <1>8, <1>9, <1>10 DEF IInv

\* Staging succeeds or fails.
LEMMA ExecutePreparedInv ==
    ASSUME IInv, NEW p \in Clients, ExecutePrepared(p)
    PROVE  IInv'
<1>1. client[p].exec # NoExec /\ client[p].exec \in Execs /\ client[p].pc = "prepared"
      /\ UNCHANGED <<planeVars, family, spent>> /\ Quiet
  BY Current, QuietSteps DEF ExecutePrepared, At, RecordInv, CommandInv, StoreStep, LocalStep
<1>2. CASE update_execution_state(client[p].exec, "prepared") /\ Goto(p, "submit")
  BY <1>1, <1>2, GotoStep, QuietStoreSteps DEF NeutralStates, ExecutionStates
<1>3. CASE Goto(p, "handler") /\ LocalStep
  BY <1>1, <1>3, GotoStep, QuietStoreSteps DEF LocalStep
<1> QED
  BY <1>2, <1>3 DEF ExecutePrepared

\* The scheduler accepts the job of command p: the execution had none, and no
\* other command is about to submit it.
LEMMA AcceptStep ==
    ASSUME IInv, NEW p \in Clients, NEW j \in Jobs, NEW s \in ClientStates,
           At(p, {"execute"}, "submit"), Accept(client[p].exec, j),
           client' = [client EXCEPT ![p] = s],
           UNCHANGED <<storeVars, family>>,
           spent' \in [commands : 0..MaxCommands, crashes : 0..MaxCrashes],
           \/ s = IdleClient
           \/ /\ s.cmd = "execute" /\ s.exec = client[p].exec /\ s.obs = client[p].obs
              /\ \/ s.pc = "save_job" /\ s.job = j
                 \/ s.pc \in {"reject", "ambiguous"} /\ s.job = client[p].job
    PROVE  IInv'
<1>1. PICK e \in Execs : e = client[p].exec
  BY Current DEF At, RecordInv, CommandInv
<1>2. /\ ~HasJob(e) /\ e \in Created /\ e # NoExec
      /\ client[p].job = NoJob /\ client[p].obs # "ended"
      /\ client[p] \in ClientStates /\ RecordInv(client[p]) /\ client[p].cmd = "execute"
  BY <1>1, Current, IdentityAssumption
     DEF At, RecordInv, CommandInv, VerdictInv, HasJob, ClientStates
<1>3. /\ jobPhase[j] = "free" /\ jobExec[j] = NoExec
      /\ jobExec' \in [Jobs -> Execs \cup {NoExec}] /\ jobPhase' \in [Jobs -> JobPhases]
      /\ jobExec'[j] = e /\ jobPhase'[j] = "queued"
      /\ \A k \in Jobs \ {j} : jobExec'[k] = jobExec[k] /\ jobPhase'[k] = jobPhase[k]
      /\ UNCHANGED bundle
  BY <1>1 DEF Accept, IInv, LocalTypeOK, PlaneTypeOK, JobPhases, RowInv, OneJobEach
<1>4. UNCHANGED <<created, execState, jobRow, remoteRow, imported, family>>
      /\ Created' = Created
  BY DEF storeVars, Created
<1>5. /\ client'[p] = s /\ \A q \in Clients \ {p} : client'[q] = client[q]
      /\ client' \in [Clients -> ClientStates]
  BY DEF IInv, LocalTypeOK
<1>6. LocalTypeOK'
  BY <1>3, <1>4, <1>5 DEF IInv, LocalTypeOK, PlaneTypeOK, StoreTypeOK
<1>7. RowInv'
  <2>1. OneJobEach'
    BY <1>2, <1>3, IdentityAssumption DEF IInv, RowInv, OneJobEach, HasJob
  <2>2. ASSUME NEW f \in Execs
        PROVE  /\ HasJob(f)' => f \in Created'
               /\ jobRow'[f] # NoJob => jobExec'[jobRow'[f]] = f
    <3>1. HasJob(f)' => f \in Created'
      BY <1>2, <1>3, <1>4 DEF IInv, RowInv, HasJob
    <3>2. jobRow[f] # NoJob => jobRow[f] \in Jobs \ {j}
      BY <1>3, IdentityAssumption DEF IInv, RowInv, LocalTypeOK, StoreTypeOK
    <3> QED
      BY <1>3, <1>4, <3>1, <3>2 DEF IInv, RowInv
  <2>3. ~Preemption => \A k \in Jobs : jobPhase'[k] \notin {"held", "evicted"}
    BY <1>3 DEF IInv, RowInv
  <2> QED
    BY <2>1, <2>2, <2>3 DEF RowInv
<1>8. OutcomeIsPublished' /\ FinalInv'
  BY <1>3, <1>4 DEF IInv, OutcomeIsPublished, FinalInv, Calm, Usable
<1>9. ClientInv'
  <2> SUFFICES ASSUME NEW q \in Clients PROVE RecordInv(client[q])'
    BY DEF ClientInv
  <2>1. CASE q # p
    <3>1. PICK r \in ClientStates : r = client'[q] /\ RecordInv(r) /\ r = client[q]
      BY <1>5, <2>1 DEF IInv, ClientInv
    <3>2. r.pc \in {"prepared", "submit"} => r.exec # e
      BY <1>1, <1>2, <2>1, <3>1 DEF IInv, UniqueInv, Clash, RecordInv, CommandInv
    <3>3. r.job # NoJob => r.job \in Jobs \ {j}
      BY <1>3, <3>1 DEF RecordInv, CommandInv, ClientStates
    <3> QED
      BY <1>3, <1>4, <3>1, <3>2, <3>3
         DEF RecordInv, CommandInv, VerdictInv, Calm, Usable, HasJob
  <2>2. CASE q = p /\ s = IdleClient
    <3>1. client'[q] = IdleClient
      BY <1>5, <2>2
    <3> QED
      BY <3>1 DEF IdleClient, RecordInv, CommandInv, VerdictInv
  <2>3. CASE q = p /\ s # IdleClient
    <3>1. client'[q] = s /\ s.job \in Jobs \cup {NoJob}
      BY <1>5, <2>3 DEF ClientStates
    <3> QED
      BY <1>1, <1>2, <1>3, <1>4, <2>3, <3>1, IdentityAssumption
         DEF RecordInv, CommandInv, VerdictInv, Calm
  <2> QED
    BY <2>1, <2>2, <2>3
<1>10. UniqueInv'
  BY <1>1, <1>2, <1>5, IdleRecord DEF IInv, UniqueInv, Clash
<1> QED
  BY <1>6, <1>7, <1>8, <1>9, <1>10 DEF IInv

\* The submit command is accepted, with or without a readable identity.
LEMMA ExecuteAcceptedInv ==
    ASSUME IInv, NEW p \in Clients, NEW j \in Jobs, ExecuteAccepted(p, j)
    PROVE  IInv'
<1>0. client[p] \in ClientStates /\ client[p].cmd = "execute"
      /\ spent' \in [commands : 0..MaxCommands, crashes : 0..MaxCrashes]
  BY Current DEF ExecuteAccepted, At, IInv, LocalTypeOK
<1>1. CASE Become(p, [client[p] EXCEPT !.pc = "save_job", !.job = j])
  <2> DEFINE s == [client[p] EXCEPT !.pc = "save_job", !.job = j]
  <2>1. /\ s \in ClientStates /\ s.cmd = "execute" /\ s.exec = client[p].exec
        /\ s.obs = client[p].obs /\ s.pc = "save_job" /\ s.job = j
    BY <1>0 DEF ClientStates
  <2>2. client' = [client EXCEPT ![p] = s]
    BY <1>1 DEF Become
  <2> HIDE DEF s
  <2> QED
    BY <1>0, <2>1, <2>2, AcceptStep DEF ExecuteAccepted
<1>2. ASSUME NEW pc \in {"reject", "ambiguous"}, Goto(p, pc) PROVE IInv'
  <2> DEFINE s == [client[p] EXCEPT !.pc = pc]
  <2>1. /\ s \in ClientStates /\ s.cmd = "execute" /\ s.exec = client[p].exec
        /\ s.obs = client[p].obs /\ s.pc = pc /\ s.job = client[p].job
    BY <1>0 DEF ClientStates
  <2>2. client' = [client EXCEPT ![p] = s]
    BY <1>2 DEF Goto, Become
  <2> HIDE DEF s
  <2> QED
    BY <1>0, <2>1, <2>2, AcceptStep DEF ExecuteAccepted
<1> QED
  BY <1>1, <1>2 DEF ExecuteAccepted, UnreadableIdentity

\* The client dies after its submit command has reached the scheduler.
LEMMA CrashInSubmitInv ==
    ASSUME IInv, NEW p \in Clients, NEW j \in Jobs, CrashInSubmit(p, j)
    PROVE  IInv'
<1>1. spent' \in [commands : 0..MaxCommands, crashes : 0..MaxCrashes]
  BY LocalAssumption DEF CrashInSubmit, IInv, LocalTypeOK
<1> QED
  BY <1>1, IdleRecord, AcceptStep DEF CrashInSubmit, Finish, Become

\* A refused submission is recorded as failed.
LEMMA ExecuteRejectInv ==
    ASSUME IInv, NEW p \in Clients, ExecuteReject(p)
    PROVE  IInv'
<1>1. client[p].exec # NoExec /\ client[p].exec \in Execs /\ Quiet
  BY Current, QuietSteps DEF ExecuteReject, At, RecordInv, CommandInv, StoreStep
<1>2. QuietStore
  BY <1>1, QuietStoreSteps DEF ExecuteReject, StoreStep, NeutralStates, ExecutionStates
<1> QED
  BY <1>1, <1>2, GotoStep DEF ExecuteReject

\* An ambiguous submission is recorded as such.
LEMMA ExecuteAmbiguousInv ==
    ASSUME IInv, NEW p \in Clients, ExecuteAmbiguous(p)
    PROVE  IInv'
<1>1. client[p].exec # NoExec /\ client[p].exec \in Execs /\ Quiet
  BY Current, QuietSteps DEF ExecuteAmbiguous, At, RecordInv, CommandInv, StoreStep
<1>2. QuietStore
  BY <1>1, QuietStoreSteps DEF ExecuteAmbiguous, StoreStep, NeutralStates, ExecutionStates
<1> QED
  BY <1>1, <1>2, GotoStep DEF ExecuteAmbiguous

\* The submission is complete.
LEMMA ExecuteSubmittedInv ==
    ASSUME IInv, NEW p \in Clients, ExecuteSubmitted(p)
    PROVE  IInv'
<1>1. client[p].exec # NoExec /\ client[p].exec \in Execs /\ Quiet
  BY Current, QuietSteps DEF ExecuteSubmitted, At, RecordInv, CommandInv, StoreStep
<1>2. QuietStore
  BY <1>1, QuietStoreSteps DEF ExecuteSubmitted, StoreStep, NeutralStates, ExecutionStates
<1> QED
  BY <1>1, <1>2, FinishStep DEF ExecuteSubmitted

\* The exception handler records a failure.
LEMMA ExecuteHandlerWriteInv ==
    ASSUME IInv, NEW p \in Clients, ExecuteHandlerWrite(p)
    PROVE  IInv'
<1>1. client[p].exec # NoExec /\ client[p].exec \in Execs /\ Quiet
  BY Current, QuietSteps DEF ExecuteHandlerWrite, At, RecordInv, CommandInv, StoreStep
<1>2. QuietStore
  BY <1>1, QuietStoreSteps DEF ExecuteHandlerWrite, StoreStep, NeutralStates, ExecutionStates
<1> QED
  BY <1>1, <1>2, FinishStep DEF ExecuteHandlerWrite

\* A confirmed cancellation is recorded.
LEMMA CancelStateInv ==
    ASSUME IInv, NEW p \in Clients, CancelState(p)
    PROVE  IInv'
<1>1. client[p].exec # NoExec /\ client[p].exec \in Execs /\ Quiet
  BY Current, QuietSteps DEF CancelState, At, RecordInv, CommandInv, StoreStep
<1>2. QuietStore
  BY <1>1, QuietStoreSteps DEF CancelState, StoreStep, NeutralStates, ExecutionStates
<1> QED
  BY <1>1, <1>2, FinishStep DEF CancelState

\* The submit command is refused, or its timeout ends it without acceptance.
LEMMA ExecuteNotAcceptedInv ==
    ASSUME IInv, NEW p \in Clients, ExecuteNotAccepted(p)
    PROVE  IInv'
<1>1. client[p].exec # NoExec /\ Quiet /\ QuietStore
  BY Current, QuietSteps, QuietStoreSteps
     DEF ExecuteNotAccepted, At, RecordInv, CommandInv, LocalStep
<1> QED
  BY <1>1, GotoStep DEF ExecuteNotAccepted

\* The exception handler looks at the execution's state.
LEMMA ExecuteHandlerInv ==
    ASSUME IInv, NEW p \in Clients, ExecuteHandler(p)
    PROVE  IInv'
<1>1. client[p].exec # NoExec /\ Quiet /\ QuietStore
  BY Current, QuietSteps, QuietStoreSteps
     DEF ExecuteHandler, At, RecordInv, CommandInv, LocalStep
<1> QED
  BY <1>1, GotoStep, FinishStep DEF ExecuteHandler

\* The job identity is recorded, for the execution that it runs.
LEMMA ExecuteSaveJobInv ==
    ASSUME IInv, NEW p \in Clients, ExecuteSaveJob(p)
    PROVE  IInv'
<1>1. /\ client[p] \in ClientStates /\ RecordInv(client[p])
      /\ client[p].exec # NoExec /\ client[p].exec \in Execs /\ Quiet
      /\ client[p].job \in Jobs /\ jobExec[client[p].job] = client[p].exec
  BY Current, QuietSteps
     DEF ExecuteSaveJob, At, RecordInv, CommandInv, ClientStates, StoreStep, LocalStep
<1>2. CASE Goto(p, "handler") /\ LocalStep
  BY <1>1, <1>2, GotoStep, QuietStoreSteps DEF LocalStep
<1>3. CASE save_scheduler_job(client[p].exec, client[p].job) /\ Goto(p, "submitted") /\ StoreStep
  <2>1. /\ jobRow' \in [Execs -> Jobs \cup {NoJob}]
        /\ jobRow'[client[p].exec] = client[p].job
        /\ \A f \in Execs \ {client[p].exec} : jobRow'[f] = jobRow[f]
        /\ UNCHANGED <<planeVars, created, execState, remoteRow, imported, family, spent>>
    BY <1>1, <1>3 DEF save_scheduler_job, StoreStep, IInv, LocalTypeOK, StoreTypeOK
  <2> DEFINE s == [client[p] EXCEPT !.pc = "submitted"]
  <2>2. /\ s \in ClientStates /\ s.cmd = client[p].cmd /\ s.exec = client[p].exec
        /\ s.obs = client[p].obs /\ s.pc = "submitted" /\ s.job = client[p].job
        /\ client' = [client EXCEPT ![p] = s]
    BY <1>1, <1>3 DEF ClientStates, Goto, Become
  <2> HIDE DEF s
  <2>3. RecordInv(s)
    BY <1>1, <2>2 DEF RecordInv, CommandInv, VerdictInv
  <2>4. client' \in [Clients -> ClientStates] /\ ClientInv' /\ UniqueInv'
    BY <1>1, <2>1, <2>2, <2>3, RecordStep
  <2>5. LocalTypeOK' /\ OutcomeIsPublished' /\ FinalInv'
    BY <2>1, <2>4 DEF IInv, LocalTypeOK, PlaneTypeOK, StoreTypeOK, OutcomeIsPublished,
                      FinalInv, Calm, Usable, planeVars
  <2>6. RowInv'
    BY <1>1, <2>1 DEF IInv, RowInv, OneJobEach, HasJob, Created, planeVars
  <2> QED
    BY <2>4, <2>5, <2>6 DEF IInv
<1> QED
  BY <1>2, <1>3 DEF ExecuteSaveJob

-----------------------------------------------------------------------------
\* The commands that collect, observe and cancel.

\* collect reads the execution's row.
LEMMA CollectGetInv ==
    ASSUME IInv, NEW p \in Clients, CollectGet(p)
    PROVE  IInv'
<1> DEFINE r == client[p]
<1> DEFINE s == [r EXCEPT !.pc = "load", !.seen = execState[r.exec]]
<1>1. /\ r \in ClientStates /\ RecordInv(r) /\ r.cmd \in Collecting /\ r.pc = "get"
      /\ execState[r.exec] \in ExecutionStates \cup {"absent"} /\ r.exec # NoExec
      /\ Quiet /\ QuietStore
  BY Current, QuietSteps, QuietStoreSteps
     DEF CollectGet, At, RecordInv, CommandInv, LocalStep
<1>2. /\ s \in ClientStates /\ s.cmd = r.cmd /\ s.exec = r.exec /\ s.job = r.job
      /\ s.obs = r.obs /\ s.pc = "load"
  BY <1>1 DEF ClientStates
<1>3. client' = [client EXCEPT ![p] = s]
  BY DEF CollectGet, Become
<1> HIDE DEF s
<1>4. RecordInv(s)
  BY <1>1, <1>2 DEF RecordInv, CommandInv, VerdictInv
<1> QED
  BY <1>1, <1>2, <1>3, <1>4, ClientStep DEF Collecting

\* A usable result is carried on; without one a collect ends and a wait turns
\* to the scheduler, or gives the execution up after the scheduler did.
LEMMA CollectLoadInv ==
    ASSUME IInv, NEW p \in Clients, CollectLoad(p)
    PROVE  IInv'
<1> DEFINE r == client[p]
<1>1. /\ r \in ClientStates /\ RecordInv(r) /\ r.cmd \in Collecting /\ r.pc = "load"
      /\ bundle[r.exec] \in Outcomes \cup {"none"} /\ r.exec # NoExec
      /\ Quiet /\ QuietStore
  BY Current, QuietSteps, QuietStoreSteps
     DEF CollectLoad, At, RecordInv, CommandInv, LocalStep
<1>2. CASE Usable(bundle[r.exec])
  <2> DEFINE s == [r EXCEPT !.pc = "check", !.result = bundle[r.exec]]
  <2>1. /\ s \in ClientStates /\ s.cmd = r.cmd /\ s.exec = r.exec /\ s.job = r.job
        /\ s.obs = r.obs /\ s.pc = "check" /\ s.result = bundle[r.exec]
    BY <1>1 DEF ClientStates
  <2>2. client' = [client EXCEPT ![p] = s]
    BY <1>2 DEF CollectLoad, Become
  <2> HIDE DEF s
  <2>3. RecordInv(s)
    BY <1>1, <1>2, <2>1 DEF RecordInv, CommandInv, VerdictInv
  <2> QED
    BY <1>1, <2>1, <2>2, <2>3, ClientStep DEF Collecting
<1>3. CASE ~Usable(bundle[r.exec]) /\ r.cmd # "collect" /\ r.obs # "none"
  <2> DEFINE s == [r EXCEPT !.pc = "collection_failed"]
  <2>1. /\ s \in ClientStates /\ s.cmd = r.cmd /\ s.exec = r.exec /\ s.job = r.job
        /\ s.obs = r.obs /\ s.pc = "collection_failed"
    BY <1>1 DEF ClientStates
  <2>2. client' = [client EXCEPT ![p] = s]
    BY <1>3 DEF CollectLoad, Goto, Become
  <2> HIDE DEF s
  <2>3. RecordInv(s)
    BY <1>1, <1>3, <2>1 DEF RecordInv, CommandInv, VerdictInv
  <2> QED
    BY <1>1, <2>1, <2>2, <2>3, ClientStep DEF Collecting
<1>4. CASE ~Usable(bundle[r.exec]) /\ ~(r.cmd # "collect" /\ r.obs # "none")
  BY <1>1, <1>4, FinishStep, GotoStep DEF CollectLoad
<1> QED
  BY <1>2, <1>3, <1>4

\* collect returns what is already imported, or goes on to import.
LEMMA CollectCheckInv ==
    ASSUME IInv, NEW p \in Clients, CollectCheck(p)
    PROVE  IInv'
<1>1. client[p].exec # NoExec /\ client[p].pc = "check" /\ Quiet /\ QuietStore
  BY Current, QuietSteps, QuietStoreSteps
     DEF CollectCheck, At, RecordInv, CommandInv, LocalStep
<1> QED
  BY <1>1, GotoStep, FinishStep DEF CollectCheck

\* The import records exactly the published outcome.
LEMMA CollectImportInv ==
    ASSUME IInv, NEW p \in Clients, CollectImport(p)
    PROVE  IInv'
<1>1. PICK e \in Execs : e = client[p].exec
  BY Current DEF CollectImport, At, RecordInv, CommandInv
<1>2. /\ client[p].result = bundle[e] /\ Usable(bundle[e]) /\ bundle[e] \in Outcomes
      /\ Quiet /\ UNCHANGED <<planeVars, family, spent>>
  BY <1>1, Current, QuietSteps
     DEF CollectImport, At, RecordInv, CommandInv, Usable, StoreStep, LocalStep
<1>3. CASE Finish(p) /\ LocalStep
  BY <1>2, <1>3, FinishStep, QuietStoreSteps DEF LocalStep
<1>4. CASE import_result(e, bundle[e]) /\ Finish(p)
  <2>1. /\ imported' \in [Execs -> Outcomes \cup {"none"}] /\ imported'[e] = bundle[e]
        /\ execState' \in [Execs -> ExecutionStates \cup {"absent"}]
        /\ execState'[e] = bundle[e]
        /\ \A f \in Execs \ {e} : imported'[f] = imported[f] /\ execState'[f] = execState[f]
        /\ UNCHANGED <<created, jobRow, remoteRow>>
    <3>1. bundle[e] \in ExecutionStates
      BY <1>2, OutcomeAssumption DEF Usable, ExecutionStates
    <3> QED
      BY <1>2, <1>4, <3>1 DEF import_result, IInv, LocalTypeOK, StoreTypeOK
  <2>2. client' \in [Clients -> ClientStates] /\ ClientInv' /\ UniqueInv'
    BY <1>2, <1>4, <2>1, RecordStep, IdleRecord DEF Finish, Become
  <2>3. LocalTypeOK'
    BY <1>2, <2>1, <2>2 DEF IInv, LocalTypeOK, PlaneTypeOK, StoreTypeOK, planeVars
  <2>4. RowInv'
    BY <1>2, <2>1 DEF IInv, RowInv, OneJobEach, HasJob, Created, planeVars
  <2>5. OutcomeIsPublished' /\ FinalInv'
    BY <1>2, <2>1, OutcomeAssumption
       DEF IInv, OutcomeIsPublished, FinalInv, Calm, Usable, planeVars
  <2> QED
    BY <2>2, <2>3, <2>4, <2>5 DEF IInv
<1> QED
  BY <1>1, <1>2, <1>3, <1>4 DEF CollectImport

\* status, wait and cancel take the job identity from the store's row.
LEMMA KnownJobInv ==
    ASSUME IInv, NEW p \in Clients, KnownJob(p)
    PROVE  IInv'
<1> DEFINE r == client[p]
<1> DEFINE s == [r EXCEPT !.job = jobRow[r.exec],
                          !.pc = IF r.cmd = "cancel" THEN "kill" ELSE "observe"]
<1>1. /\ r \in ClientStates /\ RecordInv(r) /\ r.cmd \in {"wait", "status", "cancel"}
      /\ r.exec # NoExec /\ r.exec \in Execs /\ jobRow[r.exec] \in Jobs \cup {NoJob}
      /\ r.pc = "known_job" /\ Quiet /\ QuietStore
  BY Current, QuietSteps, QuietStoreSteps
     DEF KnownJob, At, Observing, RecordInv, CommandInv, LocalStep
<1>2. CASE jobRow[r.exec] = NoJob
  BY <1>1, <1>2, FinishStep DEF KnownJob
<1>3. CASE jobRow[r.exec] # NoJob
  <2>1. jobExec[jobRow[r.exec]] = r.exec
    BY <1>1, <1>3 DEF IInv, RowInv
  <2>2. r.obs = "ended" => r.job = jobRow[r.exec]
    BY <1>1, <1>3, <2>1, IdentityAssumption
       DEF RecordInv, CommandInv, VerdictInv, ClientStates, IInv, RowInv, OneJobEach
  <2>3. /\ s \in ClientStates /\ s.cmd = r.cmd /\ s.exec = r.exec /\ s.job = jobRow[r.exec]
        /\ s.obs = r.obs /\ s.pc \in {"kill", "observe"}
    BY <1>1 DEF ClientStates
  <2>4. client' = [client EXCEPT ![p] = s]
    BY <1>3 DEF KnownJob, Become
  <2> HIDE DEF s
  <2>5. RecordInv(s)
    BY <1>1, <1>3, <2>1, <2>2, <2>3 DEF RecordInv, CommandInv, VerdictInv
  <2> QED
    BY <1>1, <2>3, <2>4, <2>5, ClientStep
<1> QED
  BY <1>2, <1>3

\* The scheduler's answer is its present condition, or none.
LEMMA ObserveInv ==
    ASSUME IInv, NEW p \in Clients, Observe(p)
    PROVE  IInv'
<1> DEFINE r == client[p]
<1>1. /\ r \in ClientStates /\ RecordInv(r) /\ r.cmd \in {"wait", "status"}
      /\ r.exec # NoExec /\ r.job \in Jobs /\ r.job # NoJob
      /\ r.pc = "observe" /\ Quiet /\ QuietStore
  BY Current, QuietSteps, QuietStoreSteps
     DEF Observe, At, Observing, RecordInv, CommandInv, ClientStates, LocalStep
<1>2. CASE Finish(p)
  BY <1>1, <1>2, FinishStep
<1>3. ASSUME NEW answer \in Answers(r.job),
             Become(p, [r EXCEPT !.pc = "observed", !.obs = answer])
      PROVE  IInv'
  <2>1. /\ answer \in Observations
        /\ answer = "ended" => jobPhase[r.job] = "ended"
        /\ answer = "evicted" => jobPhase[r.job] = "evicted"
    BY <1>1, <1>3
       DEF Answers, Conditions, Observations, JobPhases, IInv, LocalTypeOK, PlaneTypeOK
  <2> DEFINE s == [r EXCEPT !.pc = "observed", !.obs = answer]
  <2>2. /\ s \in ClientStates /\ s.cmd = r.cmd /\ s.exec = r.exec /\ s.job = r.job
        /\ s.obs = answer /\ s.pc = "observed"
    BY <1>1, <2>1 DEF ClientStates
  <2>3. client' = [client EXCEPT ![p] = s]
    BY <1>3 DEF Become
  <2> HIDE DEF s
  <2>4. RecordInv(s)
    BY <1>1, <2>1, <2>2
       DEF RecordInv, CommandInv, VerdictInv, Calm, IInv, RowInv, Observations
  <2> QED
    BY <1>1, <2>2, <2>3, <2>4, ClientStep
<1> QED
  BY <1>2, <1>3 DEF Observe

\* The observation is recorded; only a job that is given up keeps it.
LEMMA RecordObservationInv ==
    ASSUME IInv, NEW p \in Clients, RecordObservation(p)
    PROVE  IInv'
<1> DEFINE r == client[p]
<1>1. /\ r \in ClientStates /\ RecordInv(r) /\ r.cmd \in {"wait", "status"}
      /\ r.exec # NoExec /\ r.exec \in Execs /\ r.job # NoJob /\ r.obs \in Observations
      /\ r.pc = "observed" /\ Quiet /\ r.exec \in Created
  BY Current, QuietSteps
     DEF RecordObservation, At, Observing, RecordInv, CommandInv, ClientStates, StoreStep
<1>2. ObservedState(r.obs) \in NeutralStates
  BY <1>1 DEF ObservedState, NeutralStates, ExecutionStates, Observations
<1>3. QuietStore
  BY <1>1, <1>2, QuietStoreSteps DEF RecordObservation, StoreStep
<1>4. CASE r.cmd = "status"
  BY <1>1, <1>3, <1>4, FinishStep DEF RecordObservation
<1>5. CASE r.cmd # "status" /\ GivesUp(r.obs)
  <2> DEFINE s == [r EXCEPT !.pc = "get"]
  <2>1. /\ s \in ClientStates /\ s.cmd = r.cmd /\ s.exec = r.exec /\ s.job = r.job
        /\ s.obs = r.obs /\ s.pc = "get"
    BY <1>1 DEF ClientStates
  <2>2. client' = [client EXCEPT ![p] = s]
    BY <1>5 DEF RecordObservation, Goto, Become
  <2> HIDE DEF s
  <2>3. RecordInv(s)
    BY <1>1, <1>5, <2>1 DEF RecordInv, CommandInv, VerdictInv, Calm, GivesUp
  <2> QED
    BY <1>1, <1>3, <2>1, <2>2, <2>3, ClientStep
<1>6. CASE r.cmd # "status" /\ ~GivesUp(r.obs)
  <2> DEFINE s == [IdleClient EXCEPT !.cmd = "wait", !.exec = r.exec, !.pc = "get"]
  <2>1. /\ s \in ClientStates /\ s.cmd = "wait" /\ s.exec = r.exec /\ s.job = NoJob
        /\ s.obs = "none" /\ s.pc = "get"
    BY <1>1 DEF ClientStates, IdleClient, ExecutionStates, Observations
  <2>2. client' = [client EXCEPT ![p] = s]
    BY <1>6 DEF RecordObservation, Become
  <2> HIDE DEF s
  <2>3. RecordInv(s)
    BY <1>1, <2>1 DEF RecordInv, CommandInv, VerdictInv
  <2> QED
    BY <1>1, <1>3, <2>1, <2>2, <2>3, ClientStep
<1> QED
  BY <1>4, <1>5, <1>6

\* collection_failed is recorded: in a calm system the job has ended and left
\* no usable result.
LEMMA WaitCollectionFailedInv ==
    ASSUME IInv, NEW p \in Clients, WaitCollectionFailed(p)
    PROVE  IInv'
<1>1. PICK e \in Execs : e = client[p].exec
  BY Current DEF WaitCollectionFailed, At, RecordInv, CommandInv
<1>2. Quiet /\ UNCHANGED <<planeVars, created, jobRow, remoteRow, imported, family, spent>>
  BY QuietSteps DEF WaitCollectionFailed, update_execution_state, StoreStep
<1>3. /\ execState' \in [Execs -> ExecutionStates \cup {"absent"}]
      /\ execState'[e] = "collection_failed"
      /\ \A f \in Execs \ {e} : execState'[f] = execState[f]
  BY <1>1 DEF WaitCollectionFailed, update_execution_state, IInv, LocalTypeOK, StoreTypeOK,
              ExecutionStates
<1>4. Calm => /\ ~Usable(bundle[e])
              /\ \E j \in Jobs : jobExec[j] = e /\ jobPhase[j] = "ended"
  <2>1. client[p] \in ClientStates /\ RecordInv(client[p]) /\ client[p].pc = "collection_failed"
    BY Current DEF WaitCollectionFailed, At
  <2> QED
    BY <1>1, <2>1 DEF RecordInv, CommandInv, VerdictInv, ClientStates
<1>5. client' \in [Clients -> ClientStates] /\ ClientInv' /\ UniqueInv'
  BY <1>2, RecordStep, IdleRecord DEF WaitCollectionFailed, Finish, Become
<1>6. LocalTypeOK' /\ RowInv' /\ OutcomeIsPublished'
  BY <1>2, <1>3, <1>5
     DEF IInv, LocalTypeOK, PlaneTypeOK, StoreTypeOK, RowInv, OneJobEach, HasJob, Created,
         OutcomeIsPublished, planeVars
<1>7. FinalInv'
  BY <1>2, <1>3, <1>4 DEF IInv, FinalInv, Calm, Usable, planeVars
<1> QED
  BY <1>5, <1>6, <1>7 DEF IInv

\* cancel kills the job of its own execution, or finds it gone.
LEMMA CancelConfirmedInv ==
    ASSUME IInv, NEW p \in Clients, CancelConfirmed(p)
    PROVE  IInv'
<1>1. client[p].exec # NoExec /\ client[p].job \in Jobs /\ QuietStore
  BY Current, QuietStoreSteps
     DEF CancelConfirmed, At, RecordInv, CommandInv, ClientStates
<1>2. Quiet
  BY <1>1, QuietSteps DEF CancelConfirmed
<1> QED
  BY <1>1, <1>2, GotoStep DEF CancelConfirmed

\* A cancel that is not confirmed may have killed the job all the same.
LEMMA CancelUnconfirmedInv ==
    ASSUME IInv, NEW p \in Clients, CancelUnconfirmed(p)
    PROVE  IInv'
<1>1. client[p].job \in Jobs /\ QuietStore
  BY Current, QuietStoreSteps
     DEF CancelUnconfirmed, At, RecordInv, CommandInv, ClientStates
<1>2. Quiet
  BY <1>1, QuietSteps DEF CancelUnconfirmed
<1> QED
  BY <1>1, <1>2, FinishStep DEF CancelUnconfirmed

\* A command dies between two steps.
LEMMA CrashInv ==
    ASSUME IInv, NEW p \in Clients, Crash(p)
    PROVE  IInv'
<1>1. spent' \in [commands : 0..MaxCommands, crashes : 0..MaxCrashes]
  BY LocalAssumption DEF Crash, IInv, LocalTypeOK
<1>2. QuietStore
  BY <1>1 DEF Crash, IInv, LocalTypeOK, StoreTypeOK, storeVars, QuietStore
<1> QED
  BY <1>2, QuietSteps, FinishStep DEF Crash

-----------------------------------------------------------------------------
\* Jobs move and compute workers publish.  A result appears only where there
\* is none, and never for a job that has ended.
LEMMA PlaneInv ==
    ASSUME IInv, PlaneNext, UNCHANGED <<storeVars, family, client, spent>>
    PROVE  IInv'
<1>0. /\ UNCHANGED <<created, execState, jobRow, remoteRow, imported, family, client, spent>>
      /\ Created' = Created
  BY DEF storeVars, Created
<1>1. PICK j \in Jobs :
        \/ StartJob(j) \/ HoldJob(j) \/ ResumeJob(j) \/ EvictJob(j) \/ RequeueJob(j) \/ EndJob(j)
        \/ \E kind \in Outcomes : PublishResult(j, kind)
  BY DEF PlaneNext
<1>2. CASE ~\E kind \in Outcomes : PublishResult(j, kind)
  <2>1. Quiet
    BY <1>1, <1>2
       DEF Quiet, IInv, LocalTypeOK, PlaneTypeOK, RowInv, JobPhases, StartJob, HoldJob, ResumeJob,
           EvictJob, RequeueJob, EndJob, MoveJob
  <2>2. QuietStore
    BY <1>0 DEF QuietStore, IInv, LocalTypeOK, StoreTypeOK
  <2>3. LocalTypeOK' /\ RowInv' /\ OutcomeIsPublished' /\ FinalInv' /\ UniqueInv'
    BY <1>0, <2>1, <2>2, QuietKeepsRows DEF IInv, LocalTypeOK, UniqueInv, Clash
  <2>4. ClientInv'
    <3> SUFFICES ASSUME NEW q \in Clients PROVE RecordInv(client[q])'
      BY DEF ClientInv
    <3>1. PICK r \in ClientStates : r = client'[q] /\ RecordInv(r)
      BY <1>0 DEF IInv, ClientInv, LocalTypeOK
    <3>2. RecordInv(r)'
      BY <1>0, <2>1, <3>1, QuietKeepsRecord
    <3> QED
      BY <3>1, <3>2 DEF RecordInv, CommandInv, VerdictInv
  <2> QED
    BY <2>3, <2>4 DEF IInv
<1>3. CASE \E kind \in Outcomes : PublishResult(j, kind)
  <2>1. PICK kind \in Outcomes : PublishResult(j, kind)
    BY <1>3
  <2>2. PICK e \in Execs : e = jobExec[j]
    BY <2>1 DEF PublishResult, IInv, RowInv, OneJobEach, LocalTypeOK, PlaneTypeOK
  <2>3. /\ UNCHANGED <<jobExec, jobPhase>> /\ jobPhase[j] = "running"
        /\ bundle[e] = "none" /\ bundle' \in [Execs -> Outcomes \cup {"none"}]
        /\ \A f \in Execs \ {e} : bundle'[f] = bundle[f]
    BY <2>1, <2>2 DEF PublishResult, IInv, LocalTypeOK, PlaneTypeOK
  <2>4. \A k \in Jobs : jobExec[k] = e => jobPhase[k] = "running"
    BY <2>2, <2>3 DEF IInv, RowInv, OneJobEach
  <2>5. LocalTypeOK' /\ RowInv' /\ UniqueInv'
    BY <1>0, <2>3 DEF IInv, LocalTypeOK, PlaneTypeOK, StoreTypeOK, RowInv, OneJobEach, HasJob,
                      UniqueInv, Clash
  <2>6. OutcomeIsPublished'
    BY <1>0, <2>3 DEF IInv, OutcomeIsPublished
  <2>7. FinalInv'
    BY <1>0, <2>3, <2>4 DEF IInv, FinalInv, Calm, Usable
  <2>8. ClientInv'
    <3> SUFFICES ASSUME NEW q \in Clients PROVE RecordInv(client[q])'
      BY DEF ClientInv
    <3>1. PICK r \in ClientStates : r = client'[q] /\ RecordInv(r)
      BY <1>0 DEF IInv, ClientInv, LocalTypeOK
    <3>2. r.obs = "ended" => r.exec \in Execs \ {e}
      BY <2>4, <3>1 DEF RecordInv, CommandInv, VerdictInv, ClientStates
    <3>3. r.pc \in {"check", "import"} => r.exec \in Execs \ {e}
      BY <2>3, <3>1 DEF RecordInv, CommandInv, Usable, ClientStates
    <3> QED
      BY <1>0, <2>3, <3>1, <3>2, <3>3
         DEF RecordInv, CommandInv, VerdictInv, Calm, Usable, HasJob
  <2> QED
    BY <2>5, <2>6, <2>7, <2>8 DEF IInv
<1> QED
  BY <1>2, <1>3

\* Every step preserves the invariant.
LEMMA NextInv == IInv /\ [LocalNext]_localVars => IInv'
<1> SUFFICES ASSUME IInv, [LocalNext]_localVars PROVE IInv'
  OBVIOUS
<1>1. CASE UNCHANGED localVars
  BY <1>1 DEF localVars, planeVars, storeVars, IInv, LocalTypeOK, PlaneTypeOK, StoreTypeOK,
              RowInv, OneJobEach, HasJob, Created, ClientInv, RecordInv, CommandInv, VerdictInv,
              Calm, Usable, UniqueInv, Clash, OutcomeIsPublished, FinalInv
<1>2. CASE PlaneNext /\ UNCHANGED <<storeVars, family, client, spent>>
  BY <1>2, PlaneInv
<1>3. ASSUME NEW p \in Clients, ExecuteStep(p) PROVE IInv'
  <2>1. CASE ExecuteBegin(p)
    BY <2>1, BeginStep DEF ExecuteBegin
  <2> QED
    BY <1>3, <2>1, ExecuteCreateInv, ExecutePreparedInv, ExecuteAcceptedInv,
       ExecuteNotAcceptedInv, ExecuteRejectInv, ExecuteAmbiguousInv, ExecuteSaveJobInv,
       ExecuteSubmittedInv, ExecuteHandlerInv, ExecuteHandlerWriteInv
       DEF ExecuteStep
<1>4. ASSUME NEW p \in Clients, CommandStep(p) PROVE IInv'
  <2>1. CASE CollectBegin(p) \/ StatusBegin(p) \/ CancelBegin(p)
    BY <2>1, BeginStep DEF CollectBegin, StatusBegin, CancelBegin, Collecting
  <2> QED
    BY <1>4, <2>1, CollectGetInv, CollectLoadInv, CollectCheckInv, CollectImportInv,
       KnownJobInv, ObserveInv, RecordObservationInv, WaitCollectionFailedInv,
       CancelConfirmedInv, CancelUnconfirmedInv, CancelStateInv
       DEF CommandStep
<1> QED
  BY <1>1, <1>2, <1>3, <1>4, CrashInv, CrashInSubmitInv DEF LocalNext

\* The invariant holds in every reachable state.
LEMMA InvariantHolds == LocalSpec => []IInv
  BY InitInv, NextInv, PTL DEF LocalSpec

-----------------------------------------------------------------------------
(***************************************************************************)
(* The results, for every set of executions, jobs and commands.            *)
(***************************************************************************)

\* However commands of the local backends overlap and die, the store stays well
\* formed and claims an outcome only if the compute worker published it.
THEOREM OutcomesAreReal == LocalSpec => []LocalInv
  BY InvariantHolds, PTL DEF IInv, LocalInv

\* On a site that neither holds nor evicts running jobs, collection_failed of an
\* LSF execution is final: wait never takes a job that bjobs does not list
\* for a finished one.
THEOREM CollectionFailureIsFinal ==
    ASSUME ~Preemption
    PROVE  LocalSpec => []LSFCollectionFailedIsFinal
<1>1. IInv => LSFCollectionFailedIsFinal
  BY DEF IInv, RowInv, OneJobEach, FinalInv, Calm, LSFCollectionFailedIsFinal,
         CollectionFailedIsFinal
<1> QED
  BY <1>1, InvariantHolds, PTL

\* Every step of scheduler, compute worker and local commands is one that the
\* execution contract allows, or none of its business.
LEMMA StepRefines == IInv /\ [LocalNext]_localVars => [Contract!Next]_contractVars
<1> SUFFICES ASSUME IInv, [LocalNext]_localVars PROVE [Contract!Next]_contractVars
  OBVIOUS
<1>0. PlaneTypeOK /\ OneJobEach
  BY DEF IInv, LocalTypeOK, RowInv
<1>1. CASE UNCHANGED localVars
  BY <1>1, ContractStutter DEF localVars, planeVars, storeVars
<1>2. CASE PlaneNext /\ UNCHANGED <<storeVars, family, client, spent>>
  <2>1. UNCHANGED <<jobExec, bundle>> \/ \E j \in Jobs, kind \in Outcomes : PublishResult(j, kind)
    BY <1>2 DEF PlaneNext, StartJob, HoldJob, ResumeJob, EvictJob, RequeueJob, EndJob, MoveJob
  <2> QED
    BY <1>0, <1>2, <2>1, PublishPublishes, ContractStutter DEF storeVars
<1>3. ASSUME NEW p \in Clients, NEW j \in Jobs, ExecuteAccepted(p, j) \/ CrashInSubmit(p, j)
      PROVE  Contract!Next
  <2>1. client[p].exec \in Execs /\ ~HasJob(client[p].exec) /\ Accept(client[p].exec, j)
        /\ UNCHANGED imported
    BY <1>3, Current
       DEF ExecuteAccepted, CrashInSubmit, At, RecordInv, CommandInv, storeVars
  <2> QED
    BY <1>0, <2>1, AcceptSubmits
<1>4. ASSUME NEW p \in Clients, CollectImport(p)
      PROVE  Contract!Next \/ UNCHANGED <<jobExec, bundle, imported>>
  <2>1. /\ client[p].exec \in Execs /\ client[p].result = bundle[client[p].exec]
        /\ bundle[client[p].exec] # "none" /\ UNCHANGED <<jobExec, bundle>>
    BY <1>4, Current
       DEF CollectImport, At, RecordInv, CommandInv, Usable, StoreStep, LocalStep, planeVars
  <2> QED
    BY <1>4, <2>1, ImportReports DEF CollectImport, LocalStep, storeVars
<1>5. ASSUME NEW p \in Clients, ExecuteStep(p)
      PROVE  UNCHANGED <<jobExec, bundle, imported>> \/ \E j \in Jobs : ExecuteAccepted(p, j)
  BY <1>5 DEF ExecuteStep, ExecuteBegin, Begin, ExecuteCreate, create_execution, ExecutePrepared,
              ExecuteNotAccepted, ExecuteReject, ExecuteAmbiguous, ExecuteSaveJob,
              save_scheduler_job, ExecuteSubmitted, ExecuteHandler, ExecuteHandlerWrite,
              update_execution_state, StoreStep, LocalStep, planeVars, storeVars
<1>6. ASSUME NEW p \in Clients, CommandStep(p) \/ Crash(p)
      PROVE  UNCHANGED <<jobExec, bundle, imported>> \/ CollectImport(p)
  BY <1>6 DEF CommandStep, CollectBegin, StatusBegin, CancelBegin, Begin, CollectGet, CollectLoad,
              CollectCheck, KnownJob, Observe, RecordObservation, WaitCollectionFailed,
              CancelConfirmed, CancelUnconfirmed, CancelState, KillJob, MoveJob, Crash,
              update_execution_state, StoreStep, LocalStep, planeVars, storeVars
<1> QED
  BY <1>1, <1>2, <1>3, <1>4, <1>5, <1>6, ContractStutter DEF LocalNext

\* The local backends implement the execution contract: one job per execution
\* identity, one published outcome, and one report of exactly that outcome.
THEOREM LocalImplementsContract == LocalSpec => ImplementsContract
<1>1. LocalInit => Contract!Init
  BY ContractInit DEF LocalInit
<1> QED
  BY <1>1, InvariantHolds, StepRefines, PTL
     DEF LocalSpec, ImplementsContract, Contract!Spec, contractVars

-----------------------------------------------------------------------------
(***************************************************************************)
(* UnaccountedJobBlocksPlan holds while execute commands come one after    *)
(* the other; every other command may run beside them.  Two executes that  *)
(* overlap can both pass the check before either creates its execution.    *)
(***************************************************************************)
\* A job whose identity the store does not know and whose result is not in.
Lost(e) == HasJob(e) /\ jobRow[e] = NoJob /\ imported[e] = "none"

Latest == created[Len(created)]

\* The command is about to record the fate of its job.
Recording(r) == r.cmd = "execute" /\ r.pc \in {"ambiguous", "save_job"}

\* An execute command works on the latest execution, whose job identity is not
\* recorded before save_job, and starts only if no job is lost.  Every other
\* command has its job from the store.
BlockRecord(r) ==
    /\ r.cmd = "execute" =>
        /\ r.exec # NoExec => r.exec = Latest
        /\ r.pc = "create" => \A e \in Execs : ~Lost(e)
        /\ r.pc \in {"prepared", "submit", "ambiguous", "reject", "save_job"}
           => jobRow[r.exec] = NoJob
        /\ r.pc = "reject" => ~HasJob(r.exec)
        /\ r.pc \in {"handler_write", "submitted"} => ~Lost(r.exec)
    /\ r.cmd # "execute" /\ r.job # NoJob => jobRow[r.exec] # NoJob
    /\ r.obs # "none" => r.job # NoJob
    /\ r.pc = "collection_failed" => r.obs # "none"
    /\ r.pc = "cancelled" => r.job # NoJob

\* A lost job is the latest execution's, and it is on record as ambiguous or about
\* to be recorded.
LostInv ==
    \A e \in Execs : Lost(e) =>
        /\ e = Latest
        /\ \/ execState[e] = "submission_ambiguous"
           \/ \E p \in Clients : Recording(client[p]) /\ client[p].exec = e

BlockInv ==
    family = "lsf" /\ spent.crashes = 0 =>
        (\A p \in Clients : BlockRecord(client[p])) /\ LostInv

\* Command p takes a step that hands out no job: the invariant survives if p's
\* new record satisfies its part, no lost job gets another state than
\* submission_ambiguous, and a command that was about to record its job still is
\* or has done so.
LEMMA BlockStep ==
    ASSUME IInv, OneExecute, BlockInv, NEW p \in Clients, NEW s \in ClientStates,
           client' = [client EXCEPT ![p] = s],
           UNCHANGED <<jobExec, created, family>>,
           spent'.crashes = 0 => spent.crashes = 0,
           \A e \in Execs :
               /\ \/ jobRow'[e] = jobRow[e]
                  \/ jobRow[e] = NoJob /\ client[p].cmd = "execute" /\ client[p].exec = e
               /\ imported'[e] = "none" => imported[e] = "none",
           family = "lsf" /\ spent'.crashes = 0 =>
               /\ BlockRecord(s)'
               /\ \A e \in Execs : Lost(e)' =>
                    /\ execState'[e] \in {execState[e], "submission_ambiguous"}
                    /\ Recording(client[p]) /\ client[p].exec = e =>
                        \/ Recording(s) /\ s.exec = e
                        \/ execState'[e] = "submission_ambiguous"
    PROVE  BlockInv'
<1> SUFFICES ASSUME family = "lsf", spent.crashes = 0, spent'.crashes = 0
             PROVE  (\A q \in Clients : BlockRecord(client[q])') /\ LostInv'
  BY DEF BlockInv
<1>0. /\ client'[p] = s /\ \A q \in Clients \ {p} : client'[q] = client[q]
      /\ Latest' = Latest
  BY DEF IInv, LocalTypeOK, Latest
<1>1. \A e \in Execs : /\ HasJob(e)' <=> HasJob(e)
                       /\ Lost(e)' => Lost(e)
                       /\ jobRow[e] # NoJob => jobRow'[e] # NoJob
  BY IdentityAssumption DEF HasJob, Lost, IInv, LocalTypeOK, StoreTypeOK
<1>2. ASSUME NEW q \in Clients PROVE BlockRecord(client[q])'
  <2>1. PICK r \in ClientStates : r = client'[q]
    BY <1>0 DEF IInv, LocalTypeOK
  <2>2. CASE q = p
    BY <1>0, <2>1, <2>2 DEF BlockRecord
  <2>3. CASE q # p
    <3>1. r = client[q] /\ BlockRecord(r) /\ CommandInv(r)
      BY <1>0, <2>1, <2>3 DEF BlockInv, IInv, ClientInv, RecordInv
    <3>2. CASE r.cmd = "execute"
      <4>1. client[p].cmd # "execute"
        BY <2>3, <3>1, <3>2 DEF OneExecute
      <4>2. \A e \in Execs : jobRow'[e] = jobRow[e]
        BY <4>1
      <4> QED
        BY <1>0, <1>1, <2>1, <3>1, <3>2, <4>2 DEF BlockRecord, CommandInv, ClientStates
    <3>3. CASE r.cmd # "execute"
      BY <1>1, <2>1, <3>1, <3>3 DEF BlockRecord, CommandInv, ClientStates
    <3> QED
      BY <3>2, <3>3
  <2> QED
    BY <2>2, <2>3
<1>3. LostInv'
  <2> SUFFICES ASSUME NEW e \in Execs, Lost(e)'
               PROVE  /\ e = Latest'
                      /\ \/ execState'[e] = "submission_ambiguous"
                         \/ \E q \in Clients : Recording(client'[q]) /\ client'[q].exec = e
    BY DEF LostInv, Recording
  <2>1. e = Latest' /\ Lost(e)
    BY <1>0, <1>1 DEF BlockInv, LostInv
  <2>2. CASE execState[e] = "submission_ambiguous"
    BY <2>1, <2>2
  <2>3. ASSUME NEW q \in Clients, Recording(client[q]), client[q].exec = e
        PROVE  \/ execState'[e] = "submission_ambiguous"
               \/ \E t \in Clients : Recording(client'[t]) /\ client'[t].exec = e
    <3>1. CASE q = p
      BY <1>0, <2>3, <3>1
    <3>2. CASE q # p
      BY <1>0, <2>3, <3>2
    <3> QED
      BY <3>1, <3>2
  <2> QED
    BY <2>1, <2>2, <2>3 DEF BlockInv, LostInv
<1> QED
  BY <1>2, <1>3

\* The same for a step that only writes an execution's state, or nothing.
LEMMA BlockUpdate ==
    ASSUME IInv, OneExecute, BlockInv, NEW p \in Clients, NEW s \in ClientStates,
           client' = [client EXCEPT ![p] = s], client[p].exec \in Execs,
           UNCHANGED <<jobExec, family, spent>>,
           \/ UNCHANGED storeVars
           \/ \E st \in ExecutionStates :
                /\ update_execution_state(client[p].exec, st)
                /\ family = "lsf" /\ spent.crashes = 0 =>
                    ~Lost(client[p].exec) \/ st = "submission_ambiguous",
           family = "lsf" /\ spent.crashes = 0 =>
               /\ BlockRecord(s)
               /\ \/ Recording(client[p]) => Recording(s) /\ s.exec = client[p].exec
                  \/ ~Lost(client[p].exec)
                  \/ execState'[client[p].exec] = "submission_ambiguous"
    PROVE  BlockInv'
<1>1. /\ UNCHANGED <<created, jobRow, imported>> /\ Latest' = Latest
      /\ \A e \in Execs : (HasJob(e)' <=> HasJob(e)) /\ (Lost(e)' <=> Lost(e))
      /\ \A e \in Execs : \/ execState'[e] = execState[e]
                          \/ /\ e = client[p].exec
                             /\ family = "lsf" /\ spent.crashes = 0 =>
                                  ~Lost(e) \/ execState'[e] = "submission_ambiguous"
  BY DEF storeVars, update_execution_state, Latest, HasJob, Lost, IInv, LocalTypeOK, StoreTypeOK
<1>2. BlockRecord(s) => BlockRecord(s)'
  BY <1>1 DEF BlockRecord, HasJob, Lost
<1> QED
  BY <1>1, <1>2, BlockStep

\* A command that is not about to record its job may end.
LEMMA BlockFinish ==
    ASSUME IInv, OneExecute, BlockInv, NEW p \in Clients, Finish(p),
           client[p].exec \in Execs, UNCHANGED <<jobExec, family, spent>>,
           \/ UNCHANGED storeVars
           \/ \E st \in ExecutionStates :
                /\ update_execution_state(client[p].exec, st)
                /\ family = "lsf" /\ spent.crashes = 0 => ~Lost(client[p].exec),
           ~Recording(client[p])
    PROVE  BlockInv'
<1>1. BlockRecord(IdleClient)
  BY DEF BlockRecord, IdleClient
<1> QED
  BY <1>1, IdleRecord, BlockUpdate DEF Finish, Become

\* What both invariants say of command p.
LEMMA BlockCurrent ==
    ASSUME IInv, BlockInv, NEW p \in Clients
    PROVE  /\ client[p] \in ClientStates /\ CommandInv(client[p])
           /\ client[p].exec # NoExec => client[p].exec \in Execs
           /\ family = "lsf" /\ spent.crashes = 0 => BlockRecord(client[p]) /\ LostInv
BY DEF IInv, LocalTypeOK, ClientInv, RecordInv, ClientStates, BlockInv

\* Command p moves on to a program point that BlockRecord does not mention, or of
\* which it already knows what is required.
LEMMA BlockGoto ==
    ASSUME IInv, OneExecute, BlockInv, NEW p \in Clients,
           NEW pc \in {"submit", "ambiguous", "reject", "handler", "handler_write", "import",
                       "known_job", "cancelled", "get", "collection_failed"},
           Goto(p, pc), client[p].exec \in Execs,
           UNCHANGED <<jobExec, family, spent>>,
           \/ UNCHANGED storeVars
           \/ \E st \in ExecutionStates :
                /\ update_execution_state(client[p].exec, st)
                /\ family = "lsf" /\ spent.crashes = 0 =>
                    ~Lost(client[p].exec) \/ st = "submission_ambiguous",
           family = "lsf" /\ spent.crashes = 0 =>
               /\ pc \in {"submit", "ambiguous", "reject"} /\ client[p].cmd = "execute" =>
                    ~HasJob(client[p].exec) /\ jobRow[client[p].exec] = NoJob
               /\ pc = "handler_write" => ~Lost(client[p].exec)
               /\ pc = "cancelled" => client[p].job # NoJob
               /\ pc = "collection_failed" => client[p].obs # "none"
               /\ ~Recording(client[p]) \/ execState'[client[p].exec] = "submission_ambiguous"
    PROVE  BlockInv'
<1> DEFINE s == [client[p] EXCEPT !.pc = pc]
<1>1. /\ s \in ClientStates /\ s.cmd = client[p].cmd /\ s.exec = client[p].exec
      /\ s.job = client[p].job /\ s.obs = client[p].obs /\ s.pc = pc
  BY BlockCurrent DEF ClientStates
<1>2. client' = [client EXCEPT ![p] = s]
  BY DEF Goto, Become
<1> HIDE DEF s
<1>3. family = "lsf" /\ spent.crashes = 0 => BlockRecord(s)
  BY <1>1, BlockCurrent DEF BlockRecord
<1> QED
  BY <1>1, <1>2, <1>3, BlockUpdate

\* execute_plan begins only if the latest execution is not ambiguous: then no
\* job is lost.
LEMMA BlockExecuteBegin ==
    ASSUME IInv, OneExecute, OneExecute', BlockInv, NEW p \in Clients, ExecuteBegin(p)
    PROVE  BlockInv'
<1> DEFINE s == [IdleClient EXCEPT !.cmd = "execute", !.exec = NoExec, !.pc = "create"]
<1>1. /\ s \in ClientStates /\ s.cmd = "execute" /\ s.exec = NoExec /\ s.pc = "create"
      /\ s.job = NoJob /\ s.obs = "none"
  BY DEF IdleClient, ClientStates, Observations, ExecutionStates
<1>2. /\ client' = [client EXCEPT ![p] = s] /\ client[p] = IdleClient
      /\ UNCHANGED <<jobExec, created, execState, jobRow, imported, family>>
      /\ spent'.crashes = spent.crashes
  BY DEF ExecuteBegin, Begin, Become, planeVars, storeVars, IInv, LocalTypeOK
<1> HIDE DEF s
<1>3. \A q \in Clients : client[q].cmd # "execute"
  <2>1. client'[p].cmd = "execute" /\ client[p].cmd # "execute"
        /\ \A q \in Clients \ {p} : client'[q] = client[q]
    BY <1>1, <1>2 DEF IInv, LocalTypeOK, IdleClient
  <2> QED
    BY <2>1 DEF OneExecute
<1>4. family = "lsf" /\ spent.crashes = 0 => \A e \in Execs : ~Lost(e)
  <2> SUFFICES ASSUME family = "lsf", spent.crashes = 0, NEW e \in Execs, Lost(e) PROVE FALSE
    OBVIOUS
  <2>1. e = Latest /\ execState[e] = "submission_ambiguous"
    BY <1>3 DEF BlockInv, LostInv, Recording
  <2>2. created # <<>>
    BY DEF Lost, IInv, RowInv, Created
  <2> QED
    BY <2>1, <2>2 DEF ExecuteBegin, PlanIsBlocked, Latest
<1>5. \A e \in Execs : Lost(e)' <=> Lost(e)
  BY <1>2 DEF Lost, HasJob
<1>6. family = "lsf" /\ spent'.crashes = 0 => BlockRecord(s)'
  BY <1>1, <1>2, <1>4, <1>5 DEF BlockRecord
<1>7. ~Recording(client[p])
  BY <1>3 DEF Recording
<1> QED
  BY <1>1, <1>2, <1>6, <1>7, BlockStep

\* The new execution is the latest one, and no job is lost.
LEMMA BlockExecuteCreate ==
    ASSUME IInv, IInv', OneExecute, BlockInv, NEW p \in Clients, ExecuteCreate(p)
    PROVE  BlockInv'
<1> SUFFICES ASSUME family = "lsf", spent.crashes = 0
             PROVE  (\A q \in Clients : BlockRecord(client[q])') /\ LostInv'
  BY DEF BlockInv, ExecuteCreate, StoreStep
<1>1. PICK e \in Execs :
        /\ create_execution(e)
        /\ client' = [client EXCEPT ![p] = [client[p] EXCEPT !.exec = e, !.pc = "prepared"]]
  BY DEF ExecuteCreate, Become
<1>2. /\ UNCHANGED <<jobExec, jobRow, imported>> /\ e \notin Created
      /\ created' = Append(created, e) /\ created \in Seq(Execs)
  BY <1>1 DEF create_execution, ExecuteCreate, StoreStep, planeVars, IInv, LocalTypeOK,
              StoreTypeOK
<1>3. Latest' = e
  BY <1>2 DEF Latest
<1>4. jobRow[e] = NoJob
  BY <1>2 DEF IInv, RowInv, HasJob, LocalTypeOK, StoreTypeOK
<1>5. /\ client[p] \in ClientStates /\ CommandInv(client[p]) /\ BlockRecord(client[p])
      /\ client[p].cmd = "execute" /\ client[p].pc = "create"
  BY BlockCurrent DEF ExecuteCreate, At
<1>6. \A f \in Execs : ~Lost(f)'
  BY <1>2, <1>5 DEF BlockRecord, Lost, HasJob
<1>7. ASSUME NEW q \in Clients PROVE BlockRecord(client[q])'
  <2>1. CASE q = p
    <3>1. /\ client'[q].cmd = "execute" /\ client'[q].exec = e /\ client'[q].pc = "prepared"
          /\ client'[q].job = client[p].job /\ client'[q].obs = client[p].obs
      BY <1>1, <1>5, <2>1 DEF IInv, LocalTypeOK, ClientStates
    <3> QED
      BY <1>2, <1>3, <1>4, <1>5, <3>1 DEF BlockRecord
  <2>2. CASE q # p
    <3>1. client'[q] = client[q] /\ client[q].cmd # "execute" /\ BlockRecord(client[q])
      BY <1>1, <1>5, <2>2 DEF IInv, LocalTypeOK, OneExecute, BlockInv
    <3> QED
      BY <1>2, <3>1 DEF BlockRecord
  <2> QED
    BY <2>1, <2>2
<1> QED
  BY <1>6, <1>7 DEF LostInv

\* The accepted job is lost until its identity is saved: the command that submitted
\* it is about to record one or the other, unless it dies.
LEMMA BlockExecuteAccepted ==
    ASSUME IInv, OneExecute, BlockInv, NEW p \in Clients, NEW j \in Jobs, ExecuteAccepted(p, j)
    PROVE  BlockInv'
<1> SUFFICES ASSUME family = "lsf", spent.crashes = 0
             PROVE  (\A q \in Clients : BlockRecord(client[q])') /\ LostInv'
  BY DEF BlockInv, ExecuteAccepted
<1>1. /\ client[p] \in ClientStates /\ CommandInv(client[p]) /\ BlockRecord(client[p])
      /\ client[p].cmd = "execute" /\ client[p].pc = "submit" /\ LostInv
  BY BlockCurrent DEF ExecuteAccepted, At
<1>2. PICK e \in Execs : e = client[p].exec
  BY <1>1, BlockCurrent DEF CommandInv
<1>3. e # NoExec /\ e = Latest /\ jobRow[e] = NoJob /\ ~HasJob(e)
  BY <1>1, <1>2, IdentityAssumption DEF BlockRecord, CommandInv
<1>4. /\ UNCHANGED <<created, execState, jobRow, imported>> /\ Latest' = Latest
      /\ \A f \in Execs \ {e} : HasJob(f)' <=> HasJob(f)
  <2>1. jobExec[j] = NoExec /\ jobExec' = [jobExec EXCEPT ![j] = e]
    BY <1>2 DEF ExecuteAccepted, Accept, IInv, RowInv, OneJobEach
  <2> QED
    BY <2>1, IdentityAssumption
       DEF ExecuteAccepted, storeVars, Latest, HasJob, IInv, LocalTypeOK, PlaneTypeOK
<1>5. /\ client'[p].cmd = "execute" /\ client'[p].exec = e
      /\ client'[p].obs = client[p].obs
      /\ \/ client'[p].pc = "save_job" /\ client'[p].job = j
         \/ client'[p].pc = "ambiguous" /\ client'[p].job = client[p].job
      /\ \A q \in Clients \ {p} : client'[q] = client[q]
  <2>1. PICK pc \in {"save_job", "ambiguous"}, k \in {client[p].job, j} :
          /\ client' = [client EXCEPT ![p] = [client[p] EXCEPT !.pc = pc, !.job = k]]
          /\ pc = "save_job" => k = j
          /\ pc = "ambiguous" => k = client[p].job
    <3>1. CASE Become(p, [client[p] EXCEPT !.pc = "save_job", !.job = j])
      BY <3>1 DEF Become
    <3>2. CASE Goto(p, "ambiguous")
      <4>1. [client[p] EXCEPT !.pc = "ambiguous"]
            = [client[p] EXCEPT !.pc = "ambiguous", !.job = client[p].job]
        BY <1>1 DEF ClientStates
      <4> QED
        BY <3>2, <4>1 DEF Goto, Become
    <3> QED
      BY <3>1, <3>2 DEF ExecuteAccepted, UnreadableIdentity
  <2> QED
    BY <1>1, <1>2, <2>1 DEF IInv, LocalTypeOK, ClientStates
<1>6. ASSUME NEW q \in Clients PROVE BlockRecord(client[q])'
  <2>1. CASE q = p
    BY <1>1, <1>3, <1>4, <1>5, <2>1, IdentityAssumption DEF BlockRecord
  <2>2. CASE q # p
    <3>1. client'[q] = client[q] /\ client[q].cmd # "execute" /\ BlockRecord(client[q])
      BY <1>1, <1>5, <2>2 DEF OneExecute, BlockInv
    <3> QED
      BY <1>4, <3>1 DEF BlockRecord
  <2> QED
    BY <2>1, <2>2
<1>7. LostInv'
  <2>1. \A f \in Execs \ {e} : ~Lost(f)'
    BY <1>1, <1>3, <1>4 DEF LostInv, Lost
  <2>2. Recording(client'[p])
    BY <1>5 DEF Recording
  <2> QED
    BY <1>3, <1>4, <1>5, <2>1, <2>2 DEF LostInv, Recording
<1> QED
  BY <1>6, <1>7

\* save_scheduler_job cannot fail here: the row is still missing, and no other
\* execution has this job.
LEMMA BlockExecuteSaveJob ==
    ASSUME IInv, OneExecute, BlockInv, NEW p \in Clients, ExecuteSaveJob(p)
    PROVE  BlockInv'
<1> SUFFICES ASSUME family = "lsf", spent.crashes = 0 PROVE BlockInv'
  BY DEF BlockInv, ExecuteSaveJob, StoreStep, LocalStep
<1>1. /\ client[p] \in ClientStates /\ CommandInv(client[p]) /\ BlockRecord(client[p])
      /\ client[p].cmd = "execute" /\ client[p].pc = "save_job" /\ client[p].exec \in Execs
      /\ client[p].job \in Jobs
  BY BlockCurrent DEF ExecuteSaveJob, At, CommandInv, ClientStates
<1>2. CanSaveJob(client[p].exec, client[p].job)
  BY <1>1 DEF CanSaveJob, BlockRecord, CommandInv, IInv, RowInv
<1>3. save_scheduler_job(client[p].exec, client[p].job) /\ Goto(p, "submitted") /\ StoreStep
  BY <1>2 DEF ExecuteSaveJob
<1> DEFINE s == [client[p] EXCEPT !.pc = "submitted"]
<1>4. /\ s \in ClientStates /\ s.cmd = "execute" /\ s.exec = client[p].exec
      /\ s.job = client[p].job /\ s.obs = client[p].obs /\ s.pc = "submitted"
      /\ client' = [client EXCEPT ![p] = s]
  BY <1>1, <1>3 DEF ClientStates, Goto, Become
<1>5. PICK t \in ClientStates : t = s
  BY <1>4
<1> HIDE DEF s
<1>6. /\ UNCHANGED <<jobExec, created, execState, imported, family, spent>>
      /\ Latest' = Latest /\ jobRow[t.exec] = NoJob
      /\ jobRow'[t.exec] = t.job /\ t.job \in Jobs
      /\ \A e \in Execs \ {t.exec} : jobRow'[e] = jobRow[e]
  BY <1>1, <1>3, <1>4, <1>5
     DEF save_scheduler_job, CanSaveJob, StoreStep, planeVars, Latest, IInv, LocalTypeOK,
         StoreTypeOK
<1>7. BlockRecord(t)' /\ ~Lost(t.exec)'
  BY <1>1, <1>4, <1>5, <1>6, IdentityAssumption DEF BlockRecord, Lost
<1> QED
  BY <1>1, <1>4, <1>5, <1>6, <1>7, BlockStep

\* The other steps of an execute command.
LEMMA BlockExecute ==
    ASSUME IInv, IInv', OneExecute, OneExecute', BlockInv, NEW p \in Clients, ExecuteStep(p)
    PROVE  BlockInv'
<1>0. /\ client[p] \in ClientStates /\ CommandInv(client[p])
      /\ client[p].exec # NoExec => client[p].exec \in Execs
      /\ family = "lsf" /\ spent.crashes = 0 => BlockRecord(client[p]) /\ LostInv
  BY BlockCurrent
<1>1. CASE ExecutePrepared(p)
  <2>1. /\ client[p].exec \in Execs /\ ~Recording(client[p]) /\ UNCHANGED <<jobExec, family, spent>>
        /\ ~HasJob(client[p].exec) /\ ~Lost(client[p].exec)
        /\ family = "lsf" /\ spent.crashes = 0 => jobRow[client[p].exec] = NoJob
    BY <1>0, <1>1 DEF ExecutePrepared, At, CommandInv, BlockRecord, Recording, Lost, StoreStep,
                      LocalStep, planeVars
  <2>2. CASE update_execution_state(client[p].exec, "prepared") /\ Goto(p, "submit")
    BY <2>1, <2>2, BlockGoto DEF ExecutionStates
  <2>3. CASE Goto(p, "handler") /\ LocalStep
    BY <2>1, <2>3, BlockGoto DEF LocalStep
  <2> QED
    BY <1>1, <2>2, <2>3 DEF ExecutePrepared
<1>2. CASE ExecuteNotAccepted(p)
  <2>1. /\ client[p].exec \in Execs /\ ~Recording(client[p])
        /\ UNCHANGED <<jobExec, storeVars, family, spent>> /\ ~HasJob(client[p].exec)
        /\ family = "lsf" /\ spent.crashes = 0 => jobRow[client[p].exec] = NoJob
    BY <1>0, <1>2 DEF ExecuteNotAccepted, At, CommandInv, BlockRecord, Recording, LocalStep,
                      planeVars
  <2> QED
    BY <1>2, <2>1, BlockGoto DEF ExecuteNotAccepted
<1>3. CASE ExecuteReject(p)
  <2>1. /\ client[p].exec \in Execs /\ ~Recording(client[p]) /\ UNCHANGED <<jobExec, family, spent>>
        /\ family = "lsf" /\ spent.crashes = 0 => ~Lost(client[p].exec)
    BY <1>0, <1>3 DEF ExecuteReject, At, CommandInv, BlockRecord, Recording, Lost, StoreStep,
                      planeVars
  <2> QED
    BY <1>3, <2>1, BlockGoto DEF ExecuteReject, ExecutionStates
<1>4. CASE ExecuteAmbiguous(p)
  <2>1. client[p].exec \in Execs /\ UNCHANGED <<jobExec, family, spent>>
        /\ execState'[client[p].exec] = "submission_ambiguous"
    BY <1>0, <1>4 DEF ExecuteAmbiguous, At, CommandInv, StoreStep, planeVars, IInv, LocalTypeOK,
                      StoreTypeOK, update_execution_state
  <2> QED
    BY <1>4, <2>1, BlockGoto DEF ExecuteAmbiguous, ExecutionStates
<1>5. CASE ExecuteSubmitted(p) \/ ExecuteHandlerWrite(p)
  <2>1. /\ client[p].exec \in Execs /\ ~Recording(client[p]) /\ UNCHANGED <<jobExec, family, spent>>
        /\ family = "lsf" /\ spent.crashes = 0 => ~Lost(client[p].exec)
    BY <1>0, <1>5 DEF ExecuteSubmitted, ExecuteHandlerWrite, At, CommandInv, BlockRecord, Recording,
                      StoreStep, planeVars
  <2> QED
    BY <1>5, <2>1, BlockFinish DEF ExecuteSubmitted, ExecuteHandlerWrite, ExecutionStates
<1>6. CASE ExecuteHandler(p)
  <2>1. /\ client[p].exec \in Execs /\ ~Recording(client[p]) /\ client[p].cmd = "execute"
        /\ UNCHANGED <<jobExec, storeVars, family, spent>>
    BY <1>0, <1>6 DEF ExecuteHandler, At, CommandInv, Recording, LocalStep, planeVars
  <2>2. CASE execState[client[p].exec] \in SettledStates
    BY <1>6, <2>1, <2>2, BlockFinish DEF ExecuteHandler
  <2>3. CASE execState[client[p].exec] \notin SettledStates
    <3>1. family = "lsf" /\ spent.crashes = 0 => ~Lost(client[p].exec)
      BY <1>0, <2>1, <2>3 DEF LostInv, Recording, SettledStates, OneExecute
    <3> QED
      BY <1>6, <2>1, <2>3, <3>1, BlockGoto DEF ExecuteHandler
  <2> QED
    BY <2>2, <2>3
<1> QED
  BY <1>1, <1>2, <1>3, <1>4, <1>5, <1>6, BlockExecuteBegin, BlockExecuteCreate,
     BlockExecuteAccepted, BlockExecuteSaveJob
     DEF ExecuteStep

\* collect, status, wait and cancel: the job they know is in the store's row, so
\* they never touch the state of a lost one.
LEMMA BlockCommandBegin ==
    ASSUME IInv, OneExecute, BlockInv, NEW p \in Clients,
           CollectBegin(p) \/ StatusBegin(p) \/ CancelBegin(p)
    PROVE  BlockInv'
<1>1. PICK e \in Created, cmd \in {"collect", "wait", "status", "cancel"},
           pc \in {"get", "known_job"} : Begin(p, cmd, e, pc)
  BY DEF CollectBegin, StatusBegin, CancelBegin, Collecting
<1> DEFINE s == [IdleClient EXCEPT !.cmd = cmd, !.exec = e, !.pc = pc]
<1>2. e \in Execs
  BY DEF IInv, LocalTypeOK, StoreTypeOK, Created
<1>3. /\ s \in ClientStates /\ s.cmd = cmd /\ s.job = NoJob /\ s.obs = "none" /\ s.pc = pc
  BY <1>2 DEF IdleClient, ClientStates, Observations, ExecutionStates
<1>4. /\ client' = [client EXCEPT ![p] = s] /\ client[p] = IdleClient
      /\ UNCHANGED <<jobExec, created, execState, jobRow, imported, family>>
      /\ spent'.crashes = spent.crashes
  BY <1>1 DEF Begin, Become, planeVars, storeVars, IInv, LocalTypeOK
<1> HIDE DEF s
<1>5. BlockRecord(s)' /\ ~Recording(client[p])
  BY <1>3, <1>4 DEF BlockRecord, Recording, IdleClient
<1> QED
  BY <1>3, <1>4, <1>5, BlockStep

\* The other steps of these commands.
LEMMA BlockCommand ==
    ASSUME IInv, OneExecute, BlockInv, NEW p \in Clients, CommandStep(p)
    PROVE  BlockInv'
<1> DEFINE r == client[p]
<1>0. /\ r \in ClientStates /\ CommandInv(r)
      /\ r.exec # NoExec => r.exec \in Execs
      /\ family = "lsf" /\ spent.crashes = 0 => BlockRecord(r)
  BY BlockCurrent
<1>1. CASE CollectGet(p)
  <2> DEFINE s == [r EXCEPT !.pc = "load", !.seen = execState[r.exec]]
  <2>1. r.exec \in Execs /\ r.cmd # "execute" /\ execState[r.exec] \in ExecutionStates \cup {"absent"}
        /\ UNCHANGED <<jobExec, storeVars, family, spent>>
    BY <1>0, <1>1 DEF CollectGet, At, Collecting, CommandInv, LocalStep, planeVars, IInv,
                      LocalTypeOK, StoreTypeOK
  <2>2. /\ s \in ClientStates /\ s.cmd = r.cmd /\ s.exec = r.exec /\ s.job = r.job
        /\ s.obs = r.obs /\ s.pc = "load" /\ client' = [client EXCEPT ![p] = s]
    BY <1>0, <1>1, <2>1 DEF CollectGet, Become, ClientStates
  <2> HIDE DEF s
  <2>3. (family = "lsf" /\ spent.crashes = 0 => BlockRecord(s)) /\ ~Recording(r)
    BY <1>0, <2>1, <2>2 DEF BlockRecord, Recording
  <2> QED
    BY <2>1, <2>2, <2>3, BlockUpdate
<1>2. CASE CollectLoad(p)
  <2>1. /\ r.exec \in Execs /\ r.cmd # "execute" /\ ~Recording(r)
        /\ bundle[r.exec] \in Outcomes \cup {"none"}
        /\ UNCHANGED <<jobExec, storeVars, family, spent>>
    BY <1>0, <1>2 DEF CollectLoad, At, Collecting, CommandInv, Recording, LocalStep, planeVars,
                      IInv, LocalTypeOK, PlaneTypeOK
  <2>2. CASE Usable(bundle[r.exec])
    <3> DEFINE s == [r EXCEPT !.pc = "check", !.result = bundle[r.exec]]
    <3>1. /\ s \in ClientStates /\ s.cmd = r.cmd /\ s.exec = r.exec /\ s.job = r.job
          /\ s.obs = r.obs /\ s.pc = "check" /\ client' = [client EXCEPT ![p] = s]
      BY <1>0, <1>2, <2>1, <2>2 DEF CollectLoad, Become, ClientStates
    <3> HIDE DEF s
    <3>2. family = "lsf" /\ spent.crashes = 0 => BlockRecord(s)
      BY <1>0, <2>1, <3>1 DEF BlockRecord
    <3> QED
      BY <2>1, <3>1, <3>2, BlockUpdate
  <2>3. CASE ~Usable(bundle[r.exec])
    BY <1>2, <2>1, <2>3, BlockFinish, BlockGoto DEF CollectLoad
  <2> QED
    BY <2>2, <2>3
<1>3. CASE CollectCheck(p)
  <2>1. /\ r.exec \in Execs /\ r.cmd # "execute" /\ ~Recording(r)
        /\ UNCHANGED <<jobExec, storeVars, family, spent>>
    BY <1>0, <1>3 DEF CollectCheck, At, Collecting, CommandInv, Recording, LocalStep, planeVars
  <2> QED
    BY <1>3, <2>1, BlockFinish, BlockGoto DEF CollectCheck
<1>4. CASE CollectImport(p)
  <2>1. /\ r.exec \in Execs /\ r.cmd # "execute" /\ ~Recording(r) /\ Finish(p)
        /\ UNCHANGED <<jobExec, family, spent>> /\ r.result # "none"
    BY <1>0, <1>4 DEF CollectImport, At, Collecting, CommandInv, Recording, Usable, StoreStep,
                      LocalStep, planeVars
  <2>2. CASE UNCHANGED storeVars
    BY <2>1, <2>2, BlockFinish
  <2>3. CASE import_result(r.exec, r.result)
    <3>1. /\ UNCHANGED <<created, jobRow>> /\ imported[r.exec] = "none"
          /\ imported'[r.exec] # "none"
          /\ \A e \in Execs \ {r.exec} : imported'[e] = imported[e] /\ execState'[e] = execState[e]
      BY <2>1, <2>3 DEF import_result, CanImport, IInv, LocalTypeOK, StoreTypeOK
    <3>2. \A e \in Execs : Lost(e)' => execState'[e] = execState[e]
      BY <3>1 DEF Lost
    <3>3. BlockRecord(IdleClient)'
      BY DEF BlockRecord, IdleClient
    <3> QED
      BY <2>1, <3>1, <3>2, <3>3, IdleRecord, BlockStep DEF Finish, Become
  <2> QED
    BY <1>4, <2>2, <2>3 DEF CollectImport, LocalStep
<1>5. CASE KnownJob(p)
  <2>1. /\ r.exec \in Execs /\ r.cmd # "execute" /\ ~Recording(r)
        /\ jobRow[r.exec] \in Jobs \cup {NoJob}
        /\ UNCHANGED <<jobExec, storeVars, family, spent>>
    BY <1>0, <1>5 DEF KnownJob, At, Observing, CommandInv, Recording, LocalStep, planeVars,
                      IInv, LocalTypeOK, StoreTypeOK
  <2>2. CASE jobRow[r.exec] = NoJob
    BY <1>5, <2>1, <2>2, BlockFinish DEF KnownJob
  <2>3. CASE jobRow[r.exec] # NoJob
    <3> DEFINE s == [r EXCEPT !.job = jobRow[r.exec],
                              !.pc = IF r.cmd = "cancel" THEN "kill" ELSE "observe"]
    <3>1. /\ s \in ClientStates /\ s.cmd = r.cmd /\ s.exec = r.exec /\ s.job = jobRow[r.exec]
          /\ s.obs = r.obs /\ s.pc \in {"kill", "observe"} /\ client' = [client EXCEPT ![p] = s]
      BY <1>0, <1>5, <2>1, <2>3 DEF KnownJob, Become, ClientStates
    <3> HIDE DEF s
    <3>2. family = "lsf" /\ spent.crashes = 0 => BlockRecord(s)
      BY <1>0, <2>1, <2>3, <3>1 DEF BlockRecord
    <3> QED
      BY <2>1, <2>3, <3>1, <3>2, BlockUpdate
  <2> QED
    BY <2>2, <2>3
<1>6. CASE Observe(p)
  <2>1. /\ r.exec \in Execs /\ r.cmd # "execute" /\ ~Recording(r) /\ r.job \in Jobs /\ r.job # NoJob
        /\ UNCHANGED <<jobExec, storeVars, family, spent>>
    BY <1>0, <1>6 DEF Observe, At, Observing, CommandInv, Recording, ClientStates, LocalStep,
                      planeVars
  <2>2. CASE Finish(p)
    BY <2>1, <2>2, BlockFinish
  <2>3. ASSUME NEW answer \in Answers(r.job),
               Become(p, [r EXCEPT !.pc = "observed", !.obs = answer])
        PROVE  BlockInv'
    <3>1. answer \in Observations
      BY <2>1, <2>3 DEF Answers, Conditions, Observations, JobPhases, IInv, LocalTypeOK,
                        PlaneTypeOK
    <3> DEFINE s == [r EXCEPT !.pc = "observed", !.obs = answer]
    <3>2. /\ s \in ClientStates /\ s.cmd = r.cmd /\ s.exec = r.exec /\ s.job = r.job
          /\ s.pc = "observed" /\ client' = [client EXCEPT ![p] = s]
      BY <1>0, <2>3, <3>1 DEF Become, ClientStates
    <3> HIDE DEF s
    <3>3. family = "lsf" /\ spent.crashes = 0 => BlockRecord(s)
      BY <1>0, <2>1, <3>2 DEF BlockRecord
    <3> QED
      BY <2>1, <3>2, <3>3, BlockUpdate
  <2> QED
    BY <1>6, <2>2, <2>3 DEF Observe
<1>7. CASE RecordObservation(p)
  <2>1. /\ r.exec \in Execs /\ r.cmd # "execute" /\ ~Recording(r) /\ r.obs \in Observations
        /\ UNCHANGED <<jobExec, family, spent>> /\ r.exec \in Created
        /\ family = "lsf" /\ spent.crashes = 0 => ~Lost(r.exec)
    BY <1>0, <1>7, IdentityAssumption
       DEF RecordObservation, At, Observing, CommandInv, Recording, BlockRecord, Lost,
           ClientStates, StoreStep, planeVars
  <2>2. ObservedState(r.obs) \in ExecutionStates
    BY <2>1 DEF ObservedState, Observations, ExecutionStates
  <2>3. CASE r.cmd = "status" \/ GivesUp(r.obs)
    BY <1>7, <2>1, <2>2, <2>3, BlockFinish, BlockGoto DEF RecordObservation
  <2>4. CASE r.cmd # "status" /\ ~GivesUp(r.obs)
    <3> DEFINE s == [IdleClient EXCEPT !.cmd = "wait", !.exec = r.exec, !.pc = "get"]
    <3>1. /\ s \in ClientStates /\ s.cmd = "wait" /\ s.job = NoJob /\ s.obs = "none"
          /\ s.pc = "get" /\ client' = [client EXCEPT ![p] = s]
      BY <1>7, <2>1, <2>4 DEF RecordObservation, Become, ClientStates, IdleClient,
                              ExecutionStates, Observations
    <3> HIDE DEF s
    <3>2. BlockRecord(s)
      BY <3>1 DEF BlockRecord
    <3> QED
      BY <1>7, <2>1, <2>2, <3>1, <3>2, BlockUpdate DEF RecordObservation
  <2> QED
    BY <2>3, <2>4
<1>8. CASE WaitCollectionFailed(p) \/ CancelState(p)
  <2>1. /\ r.exec \in Execs /\ ~Recording(r) /\ UNCHANGED <<jobExec, family, spent>>
        /\ family = "lsf" /\ spent.crashes = 0 => ~Lost(r.exec)
    BY <1>0, <1>8 DEF WaitCollectionFailed, CancelState, At, CommandInv, Recording, BlockRecord,
                      Lost, StoreStep, planeVars
  <2> QED
    BY <1>8, <2>1, BlockFinish DEF WaitCollectionFailed, CancelState, ExecutionStates
<1>9. CASE CancelConfirmed(p) \/ CancelUnconfirmed(p)
  <2>1. /\ r.exec \in Execs /\ ~Recording(r) /\ r.job # NoJob
        /\ UNCHANGED <<jobExec, storeVars, family, spent>>
    BY <1>0, <1>9 DEF CancelConfirmed, CancelUnconfirmed, At, CommandInv, Recording, KillJob,
                      MoveJob, planeVars
  <2> QED
    BY <1>9, <2>1, BlockFinish, BlockGoto DEF CancelConfirmed, CancelUnconfirmed
<1> QED
  BY <1>1, <1>2, <1>3, <1>4, <1>5, <1>6, <1>7, <1>8, <1>9, BlockCommandBegin DEF CommandStep

\* While executes come one after the other, every step preserves the invariant.
LEMMA BlockNext ==
    IInv /\ IInv' /\ OneExecute /\ OneExecute' /\ BlockInv /\ [LocalNext]_localVars => BlockInv'
<1> SUFFICES ASSUME IInv, IInv', OneExecute, OneExecute', BlockInv, [LocalNext]_localVars
             PROVE  BlockInv'
  OBVIOUS
<1>1. CASE \/ UNCHANGED localVars
           \/ PlaneNext /\ UNCHANGED <<storeVars, family, client, spent>>
  <2>1. UNCHANGED <<jobExec, created, execState, jobRow, imported, family, client, spent>>
    BY <1>1 DEF localVars, storeVars, planeVars, PlaneNext, StartJob, HoldJob, ResumeJob,
                EvictJob, RequeueJob, EndJob, MoveJob, PublishResult
  <2> QED
    BY <2>1 DEF BlockInv, BlockRecord, LostInv, Lost, HasJob, Latest, Recording
<1>2. ASSUME NEW p \in Clients, Crash(p) \/ \E j \in Jobs : CrashInSubmit(p, j)
      PROVE  BlockInv'
  <2>1. spent'.crashes # 0
    BY <1>2, LocalAssumption DEF Crash, CrashInSubmit, IInv, LocalTypeOK
  <2> QED
    BY <2>1 DEF BlockInv
<1> QED
  BY <1>1, <1>2, BlockExecute, BlockCommand DEF LocalNext

\* While execute commands of a plan come one after the other, an LSF job whose identity
\* was lost blocks its plan until its result is in: execute_plan creates no second
\* execution beside it, whatever collect, status, wait and cancel do meanwhile.
THEOREM LostJobBlocksPlan == LocalSpec /\ []OneExecute => []UnaccountedJobBlocksPlan
<1>1. LocalInit => BlockInv
  <2> SUFFICES ASSUME LocalInit PROVE BlockInv
    OBVIOUS
  <2>1. \A e \in Execs : ~Lost(e)
    BY IdentityAssumption DEF LocalInit, PlaneInit, Lost, HasJob
  <2>2. \A p \in Clients : BlockRecord(client[p])
    BY DEF LocalInit, IdleClient, BlockRecord
  <2> QED
    BY <2>1, <2>2 DEF BlockInv, LostInv
<1>2. IInv /\ BlockInv => UnaccountedJobBlocksPlan
  <2> SUFFICES ASSUME IInv, BlockInv, family = "lsf", spent.crashes = 0,
                      \A p \in Clients : client[p].cmd # "execute",
                      NEW e \in Created, Lost(e)
               PROVE  e = Latest /\ execState[e] = "submission_ambiguous"
    BY DEF UnaccountedJobBlocksPlan, Lost, Latest
  <2>1. e \in Execs
    BY DEF IInv, LocalTypeOK, StoreTypeOK, Created
  <2> QED
    BY <2>1 DEF BlockInv, LostInv, Recording
<1> QED
  BY <1>1, <1>2, BlockNext, InvariantHolds, PTL DEF LocalSpec
=============================================================================
