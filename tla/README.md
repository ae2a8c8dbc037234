# Bourne: verification project

TLA+ models of Project Bourne's execution and planning machinery, the TLC
instances that check them and the TLAPS proofs about them.

Bourne records where a scientific result came from and submits workloads to
Slurm, PBS and LSF, on the machine where it runs or on a site that it reaches
through ssh. Everything it promises about executions ("never resubmit", "no
scheduler state stands in for a result", "collection is idempotent") must
survive lost connections, killed commands, several commands at once and a
scheduler that answers late or not at all. Before a job there is a plan, chosen
from an inventory that may be incomplete; inside it there is a worker that runs
a process tree it does not control. All three are modelled, and the launcher
that brings the MCP server up.

## Inventory

| Component | State | Operations | Interacts with |
|---|---|---|---|
| remote worker (`remote_worker.py`) | `submission-state.json`, staging directory per execution | hello, discover, validate_plan, prepare, submit, reconcile, cancel; one process per call, no lock | started by the ssh transport, calls the scheduler, reads `result.json` |
| remote backend (`remote_backend.py`) | none of its own | execute, collect, wait, cancel | store, site store, ssh transport |
| local backends (`backends.py`, `lsf.py`) | staging directory | execute, status, collect, wait, cancel; direct execution | store, scheduler commands as subprocesses |
| execution service (`execution_service.py`) | none | plan, execute_plan, wait, cancel, collect | resolver, store, backends |
| ssh transport (`remote_transport.py`) | cached worker path | ensure_worker, invoke, upload, 30 s per call | ssh, scp |
| compute worker (`compute_worker.py`) | `result.json` | preflight, run, verify, publish | started by the scheduler |
| execution store, site store (`workload_storage.py`, `site_storage.py`) | SQLite rows | one transaction per operation | every command |
| schema (`storage.py`) | `user_version`, tables | initialize | every command |
| planning (`resolver.py`, `site_planning.py`, `site_service.py`, `constraint_providers.py`, `variants.py`) | plans, summaries, variants | resolve; explore, select, materialize | inventory, store, input files |
| requests and outcomes (`execution_request.py`, `execution_outcomes.py`, `runtime_evidence.py`, `worker_result.py`) | immutable records | parse, validate, verify | compute worker, store |
| process execution (`execution.py`, `bounded_subprocess.py`, `runtime_collector.py`, `lifecycle.py`) | pipes, threads | run, pump, interrupt, time out | child processes |
| discovery and inventory (`discovery*.py`, `inventory_*.py`) | snapshots | run providers, persist | site commands |
| agent interface and MCP server (`agent_interface.py`, `mcp_server.py`) | explorations, in memory | tools | services |
| MCP launcher (`packages/mcp/src`) | the private runtime all launchers of a user share | probe, bootstrap, serve, hand on signals | Python, pip, the server |
| capture and tracing (`artifacts.py`, `tracing.py`, `collectors/`) | none | digest, walk lineage | file system, store |
| command line (`cli.py`, `*presentation.py`, `*references.py`, `completion.py`) | none | parse, format | services |

What is hard here: worker processes that outlive the controller's patience and
overlap with the next call; documents and rows that are read, held and written
back; two transactions where one is meant; commands that die in between;
schedulers that requeue, forget or do not list a job; descendants that keep
pipes open and ignore signals; files that change while they are read; snapshots
with holes; a cache that nobody locks. `PROJECT.json` lists each
hazard at its line with the properties that would catch it.

## Modules

| Module | Models | State |
|---|---|---|
| `ComputePlane` | the scheduler (external) and the compute worker's one trace, `result.json` | `jobExec`, `jobPhase`, `bundle` |
| `RemoteWorker` | the one-shot worker on the login node, under an open controller | + `dir`, `doc`, `staged`, `call` |
| `BourneStore` | the rows of a plan's executions and their transactions | `created`, `execState`, `jobRow`, `remoteRow`, `imported` |
| `RemoteBackend` | execute, collect, wait and cancel composed with worker, scheduler and store | + `client`, `spent` |
| `LocalBackend` | the same operations on the login node, per scheduler family | `family`, `client`, `spent` with plane and store |
| `ExecutionContract` | abstract: what is promised about an execution identity | `owned`, `evidence`, `report` |
| `Migration` | `ExperimentStore.initialize` by several processes | `version`, `applied`, `narrow`, `proc`, `died` |
| `CommandExecution` | `execute_command` and `run_bounded_command`: calling thread, readers, sampler, process tree, pipes, signals | `pc`, `proc`, `stream`, `rc`, `seen`, ... |
| `Allocation` | operators: a shape's directives per scheduler, what is granted and shown, what the preflight reads | |
| `ComputeWorker` | the worker's whole run, `bourne run`, and the controller's validation of the result | + `phase`, `file`, `artifact`, `report`, `published`, ... |
| `Discovery` | operators: the snapshot of a site when providers fail | |
| `SitePlanning` | operators: shapes, environments, constraints, policy, bounded exploration, choice of scheduler and target, changes to the input | |
| `Resolver` | operators: `resolve_execution` | |
| `PlanningService` | discovery, claims, both routes to a plan and the steps of a selection, with edits and restarts | `snapshots`, `claims`, `content`, `session`, `selection`, `stored`, `plans` |
| `Launcher` | launchers, their bootstrap steps, their servers and the shared cache | `venv`, `package`, `run`, `step`, `server` |
| `StoreProofs` | lemmas that both backends' proofs share | |
| `AllocationProofs` | lemmas on shapes, directives and grants, for planning and compute worker | |
| `RemoteBackendProofs`, `LocalBackendProofs`, `MigrationProofs`, `ComputeWorkerProofs`, `LauncherProofs`, `PlanningProofs` | the theorems about the module of that name; `RemoteBackendProofs` holds those about `RemoteWorker` too, `ComputeWorkerProofs` those about `CommandExecution` | |
| `MC*` | instances for TLC | |

`RemoteBackend` extends `RemoteWorker` and `BourneStore`; both backends show
that they implement `ExecutionContract` through the instance in `BourneStore`
(`owned` is the set of jobs whose script is the execution's, `evidence` its
`result.json`, `report` the imported outcome). `ComputeWorker` extends
`CommandExecution` and `Allocation`: the command runs inside the worker's step,
and what the worker publishes is judged by the controller's validation in the
same module. `PlanningService` extends `Resolver` (over `SitePlanning` and
`Allocation`) and `Discovery`. `ComputePlane` is what the backends need to know
of the worker: one result, never replaced, which `PublishedIsAccepted` shows of
the detailed one.

### How code becomes actions

* *Worker process.* `call[c]` is one process: its operation, its program point,
  the copy of the document it read (`snap`) and the response it is going to
  print. One action is one read or write of the document, one scheduler
  command, or one look at `result.json`. `WriteState` replaces the whole
  document, because `_write_state` does. `WorkerDies` ends a process anywhere.
* *Controller command.* `client[p]` is one command (a process of a user or an
  agent). One action is one store transaction or one message of a call.
  `Lose` is a `RemoteTransportError`: the worker failed, or the controller gave
  up and the worker goes on without a listener. `Crash` ends a command anywhere;
  the same action stands for a wait whose timeout passes.
* *Handlers.* `ExecuteHandler` and `ExecuteHandlerWrite` are the
  `except Exception` of `execute_plan`; every path that raises ends there.
* *Scheduler.* A query answers with a group of states, grouped as the code
  branches on them, or with nothing. `"other"` are conditions in none of the
  code's sets: suspended jobs, but also finished ones in a state that the
  terminal set lacks.
* *Results.* `result.json` is an outcome; `"invalid"` is one that cannot be
  used (too large, malformed, not of this plan). It is written once, by a hard
  link. A transient read error of a valid file is not modelled.
* *Rows without effect on control* (events, identity observations, timestamps,
  the scheduler state in the job row) are left out.
* *Migration.* One action is one SQL statement. Python's `sqlite3` opens no
  transaction for DDL, so each is durable alone; the 6-to-7 rebuild, which is
  inside `BEGIN`, is one action. `applied[v]` counts the objects of schema `v`.

* *Command.* The call is data: which function runs it, whether output is
  limited, whether there is input and a collector. The calling thread has a
  program point, each reader its own; a chunk may have any size. A descendant
  may leave the group, ignore SIGTERM or hold the pipes, decided when it is
  forked. Output is counted in units. `Interrupt` is enabled at every step and
  goes where the code's `except` and `finally` take it.
* *Worker.* `capture_artifact` is three actions (stat, each chunk, stat), so that
  an edit falls between any two; every edit gives the file a new time of
  modification, so a file system whose clock is too coarse for that is not
  modelled. `Kill` forgets the worker's memory and keeps its files.
* *Allocation.* A shape becomes directives, directives a grant, a grant the
  variables that the scheduler shows; `Observed` reads them as the preflight does.
  `KnownMisread` names the shapes where it reads less than was granted: GPUs of a
  job on several nodes, of which one node's are visible, and LSF slots, which count
  ranks and not their threads. Every other shape must pass.
* *Discovery.* A provider raises (an empty output), or its command fails, is
  refused, is cut or has malformed rows. Later providers see what earlier ones
  left. `Readings` is what may be read of a row that is cut or partly unreadable:
  a Slurm row whose last field, the GPUs, is gone or counts too few; a PBS queue
  with its name alone, with a part of its name (`cut_names`), or with its last digits
  missing. A row that lost any other field is dropped, as is every incomplete row of
  `bqueues`, and an answer of which nothing parses is no scheduler (`NoAnswer`). This
  is wider than the code in one place: a part of the GPUs may be any smaller number.
  It is narrower in one: a `Queue:` line so garbled that the queue before it takes
  its fields is left out.
* *Resolver.* A candidate carries what rules it out (`excluded`) and what is not
  known to be satisfied (`unresolved`); a plan keeps the latter, as the code does. What
  every scheduled plan leaves open (executable, context and staging on the compute
  node) is left out. `missing` and `observed` executables are those found by name.
* *Exploration.* One operator computes the list as the code does: groups in
  order, groups without assignments pruned, one assignment per group and layer up to
  the limit. The digests by which the code sorts are left out: order is that of
  generation.
* *Selection.* Each read of the input and each transaction of `select` is an
  action; a refusal leaves what was saved.
* *Launcher.* A bootstrap step is a child process with steps of its own, which
  outlives a launcher that is killed. pip writes a package's files, then its
  metadata, dependencies first, and skips what the metadata says is there. The
  server is spawned in one step and the signal handlers are installed in the next
  (`Launch`, `InstallHandlers`); in between a signal ends the launcher by its default
  action. The first signal after that is forwarded, later ones are dropped, as
  `child.killed` is set.

The order of a plan's executions is that of their inserts. The code orders by a
creation time that each client reads just before it inserts; two clients whose
readings and inserts cross are not told apart.

## Runs

All bounds are constants of the instance: `MaxCommands` commands are started,
`MaxLost` answers are lost or workers killed, `MaxCrashes` commands die.

| Run | Instance | Shows |
|---|---|---|
| `remote_worker` | 1 execution, 2 jobs, 3 processes, preemption | one job per execution, truthful failures, final verdicts, own jobs, whatever overlaps |
| `remote_one` | 1 client, 2 executions, 3 commands, 2 losses | the same end to end; a plan's next execution starts only when the earlier one is accounted for |
| `remote_two` | 2 clients, 1 execution, 2 jobs, 3 commands, preemption, usable results | overlapping commands: outcomes come from published results only; the contract is implemented |
| `remote_live` | 1 client, 1 execution, 2 jobs, 3 commands, 1 crash, 1 loss, 2 processes | `wait` delivers a published result, also after a command died, or an answer was lost, and left a worker process behind; the contract is implemented then, too |
| `local` | LSF or Slurm, 2 clients, 3 commands, 1 crash, 2 executions, 2 jobs; one execute at a time, beside other commands | contract and outcomes; final verdicts, and an unaccounted job keeps its plan from a second execution (LSF); `wait` ends once the result is there |
| `migration` | 3 processes that may die | migrations end and are whole unless a process dies; in any case the version never falls and a current file has wide tables |
| `compute_worker` | child and one descendant, one stream, limit 1, pipe of 2, 2 units written, 2 interrupts, 2 edits, 2 starts of the job; shapes of up to 2 nodes, 4 CPUs, 4 ranks and 2 GPUs (`NodeCounts`, `CpuCounts`, `RankCounts`, `GpuCounts`) | captures are faithful, interrupts reach the group, no false shortfall, passed checks rest on consistent files, verdicts are true, published results are accepted and kept, commands end |
| `planning` | 3 sites, 11 requests, 3 providers, limit 3, counts up to 8, 1 snapshot with 1 fault, up to 3 of 4 claims, 1 edit, 1 plan | explorations are exhaustive and fair within their limit, viable shapes can be rendered, plans respect policy and target, choices are stable, and what contradicts them on the whole site is listed as unresolved in the plan; derived inputs match |
| `launcher` | 2 launchers, 5 machines, 2 faults, 2 kills, 2 signals to each launcher | no server on an unfinished runtime, the cache is repaired, no orphan server once the handlers are there, a signal ends the launcher unless its server waits on |

Type invariants are conjuncts of the invariants they belong to: `BackendInv`,
`LocalInv`, `MigrationIsWhole`, `VerdictIsTrue`, `GroupsShareTheLimit` and
`ServerHasLauncher`; `remote_worker` checks `TypeOK` by itself, as it is a theorem.

Why these bounds are enough to be interesting: a lost submit needs one loss, the
overtaking reconcile a second process, a retried command a second command, a
stale verdict a second client. Two job identities let a double submission
happen if it can; two executions let one block the other or take its job. In
`remote_two` and `remote_live` the second job identity is there for an execution that would
take it; a second execution after a crash at a remote site is only proved about
(`RemoteImplementsContract`), and so are unusable results of the backends' runs. The two
runs with liveness, where symmetry is not sound, number identities and give out the
lowest free one (`InTurn`): which of the free ones an execution, job, call or command
gets makes no difference.
Three processes allow a submit, a stale reconcile and a cancel at once. The
statement counts of `MCMigration` are those of `storage.py`. Two units written
against a limit of one make truncation, a chunk across the limit and a full pipe
happen; the second interrupt is the one the code does not handle; the second
edit can bring a removed file back. One descendant is enough to hold a pipe or
survive a signal. A limit of 3 in place of 64 is exceeded by the shapes of the
first site and by two groups with four assignments; `LargestCount` bounds
the numbers of nodes, ranks and CPUs that shape generation tries, and 8 is what the
largest node of these sites holds. The sites have two
targets of one class, two schedulers at once, and a scheduler that says nothing of its nodes;
one request asks for a queue by what its name may be cut to, and one provider needs a
launcher only.
Two launchers suffice for overlapping bootstraps, two kills for a half-made cache
that is left half-made again, two signals for one that is dropped.

Deadlock checking is off where the system may stop: commands are bounded, and a
migrated file needs nothing. `remote_worker` has no bound on commands and is
checked for deadlock.

### Disagreements between code and documents

Three runs expect a violation: `lost_identity`, `migration_crash` and
`shape_truncation`. Each checks one sentence of the documentation or of a
docstring, quoted in `PROJECT.json` under findings, against what the code does: a
stale `reconcile` can erase a recorded job identity; an interrupted migration
cannot be resumed; shapes beyond the limit are dropped before the exploration
counts what it left out, so that an incomplete result does not say that it is one.

Known divergences that no run states any more, each visible in the models:

* `docs/SITE_AWARE_PLANNING.md:299-301` blocks a new execution of a plan whose
  submission is ambiguous. After a crash in `execute`, `collect` records
  `ambiguous` in the remote row only (`remote_backend.py:415`), and `execute_plan`
  looks at the execution's state.
* `docs/WORKLOAD_EXECUTION.md:148-149` reserves `collection_failed` for a job
  without a valid result. A remote `wait` that read the row earlier writes it
  over a result another command imported (`remote_backend.py:245`).
* `docs/RELEASE_NOTES_v0.4.0.md:130-131` calls repeated collection idempotent. A
  preflight failure collected a second time from a remote site reaches an insert that
  the store refuses (`remote_backend.py:213`).

Limits of the properties that hold in the instances above:

* `FailedMeansNothingRuns` needs one command at a time at a remote site (a
  concurrent `collect` can insert the job row first, and the handler then writes
  `failed`). Locally it is not checked: Slurm and PBS record an unreadable job
  identity as `failed`.
* `NewExecutionIsAccounted` needs executes that follow one another and do not die:
  `execute_plan` looks at the latest execution only, so that of two executions that
  pass the check together the older one, once ambiguous, blocks nothing, and an
  execute that dies while its submit is on its way marks nothing (`remote_one` has
  `MaxCrashes = 0`).
* `OutcomeIsPublished` says that no outcome is invented, not that an imported one
  is kept: a local wait that looked for the result before another command
  imported it writes the scheduler's state over `completed`.
* `CollectionFailedIsFinal` needs a site that does not requeue ended jobs, and LSF
  locally (a Slurm or PBS job that is not listed counts as done).
* `CommandEnds` excepts a process that holds the pipes while the readers are joined,
  and starts with the wait: input larger than the pipe is written without a bound.
* `NoFalseShortfall` excepts `KnownMisread`; `VerdictIsTrue` excepts telemetry
  that is off; `PublishedIsAccepted` excepts a working directory named through a
  symbolic link.
* `FailedMeansNothingRuns` also needs usable results: reconcile fails on a published
  result that is no valid bundle, and a lost submit that is replaced by such a
  reconcile is recorded as failed although the job ran.
* `ChoiceIsReal` does not say that a choice is possible: a capacity that was not read
  is unknown to the resolver, which then chooses a target that cannot hold the request,
  and names the capacity among the plan's unresolved conditions. It excepts a queue
  asked for by the cut-off name under which it was listed, and it does not rule out that a
  missing row turns an ambiguous choice into a plan: `ChoiceIsStable` resolves
  again on the snapshot that the choice was made from.
* `PlanRespectsPolicy` is about the claims known at exploration, which are the ones the
  model's plan carries; `select` reads the claims again for `policy_basis` only
  (`site_service.py:350`), and what that reading differs in is not covered;
  `PlanIsForItsTarget` excepts a request or hint that names another scheduler than
  the candidate's; `planning` assumes nodes that hold at least one CPU and, where
  GPUs are counted, one GPU (`CapacityIsPositive`), as the code divides by them.
* `ViableIsRenderable` is about shapes that `generate_resource_shapes` makes. Shapes in a
  target's metadata (`site_planning.py:92-106`, written by no provider of the
  repository) and shapes given to `explore_request` (`site_service.py:193`) skip the checks
  for divisibility and are not modelled.
* `NoFalseShortfall` is about plans with a resource shape. The directives and the
  comparison of a plan without one (`backends.py:876-885`, `923-934`,
  `compute_worker.py:393-397`) are not modelled.
* The half of `PublishedIsAccepted` that says the controller comes to the worker's
  verdict (`OutcomesMatch`) evaluates the same operators on the published values; what it
  adds is that these values suffice. The other half, that a later start never
  replaces a result, is the one several steps can break.
* `UnaccountedJobBlocksPlan` needs executes of LSF plans that follow one another and do not
  die: two that pass the check together create two executions, and an older ambiguous
  one blocks nothing. `local` therefore starts an execute only when no other one is under
  way (`MCSpec`), which is the hypothesis of the theorem.
* `ServerHasItsRuntime` and `CacheIsRepaired` except what follows two bootstraps at
  once, which nothing prevents.
* `ServerHasLauncher` excepts a launcher killed outright, and one that is signalled
  between the spawn (`runtime.ts:332`) and its handlers (`runtime.ts:347-353`), which
  ends by default and leaves the server. `SignalEndsLauncher` excepts a launcher whose
  server got SIGINT and goes on: `mcp_server.py:427-431` runs tools in threads that
  cannot be cancelled, `execution_wait` may have no timeout (725-737), and a SIGTERM
  that follows is dropped (`runtime.ts:349`).
* `WaitDelivers` needs that no failure comes after the wait began, and the job identity
  that `lost_identity` shows can be erased.

## Fairness

`BackendFairSpec`, `LocalFairSpec`: worker processes and commands that can take
a step take it; they are ordinary processes without locks. Nothing is assumed
of the scheduler, which may never start or end a job or answer a query, nor of
users. `FairSpec` of `Migration`: a command that migrates goes on. `FairSpec`
of `ComputeWorker`: the calling thread and the reader threads go on, and a process that does
not ignore SIGTERM, or got SIGKILL, exits; a child need not. `Fairness` of `Launcher`: launchers and
bootstrap steps go on, and a server that got SIGTERM ends, because the server installs no
handler for it and the default action ends the process. Nothing is assumed of a server that
got SIGINT, whose event loop waits for running tools, nor of one without a signal.

## Proofs

Every theorem holds for any sets of executions, jobs, processes, commands, sites,
requests and so on, and any bounds. A hypothesis beyond the named `ASSUME`s is in
the theorem's statement.

| Module | Theorem | Property | Under |
|---|---|---|---|
| `RemoteBackendProofs` | `TypeCorrect`, `OneJobPerExecution`, `FailureIsTruthful`, `EndedIsFinal`, `JobsAreOwn` | `TypeOK`, `AtMostOneJob`, `FailedMeansNoJob`, `EndedWithoutResultIsFinal`, `KnownJobIsOwn` | |
| | `ControllerIsAllowed` | the composed system implements `RemoteWorker!Spec` | |
| | `OutcomesAreReal`, `RemoteExecutionHasOneJob`, `RemoteImplementsContract` | `BackendInv`, `AtMostOneJob`, `ImplementsContract` | |
| | `CollectionFailureIsFinal` | `CollectionFailedIsFinal` | `~Preemption`, `OnePerExecution` |
| | `FailedHasNothingRunning` | `FailedMeansNothingRuns` | `"invalid" \notin Outcomes`, `OnePerExecution` |
| | `NewExecutionsAreAccounted` | `NewExecutionIsAccounted` | `"invalid" \notin Outcomes`, `OnePerExecution`, `OneExecute`, `ExecutesLive` |
| `LocalBackendProofs` | `OutcomesAreReal`, `LocalImplementsContract` | `LocalInv`, `ImplementsContract` | |
| | `CollectionFailureIsFinal` | `LSFCollectionFailedIsFinal` | `~Preemption` |
| | `LostJobBlocksPlan` | `UnaccountedJobBlocksPlan` | `OneExecute` |
| `MigrationProofs` | `RacesLeaveWholeFile`, `VersionOnlyRises`, `CurrentFileIsWide` | `MigrationIsWhole`, `VersionNeverFalls`, `CurrentSchemaIsWide` | |
| `ComputeWorkerProofs` | `CapturesAreFaithful`, `InterruptsStopTheGroup`, `PassedMeansCaptured`, `VerdictsAreTrue`, `PublishedResultsAreAccepted` | `CaptureIsFaithful`, `InterruptStopsGroup`, `VerificationIsJustified`, `VerdictIsTrue`, `PublishedIsAccepted` | |
| | `NoShortfallIsFalse` | `NoFalseShortfall` | |
| `LauncherProofs` | `ServersHaveTheirRuntime`, `CachesAreRepaired`, `ServersHaveLaunchers` | `ServerHasItsRuntime`, `CacheIsRepaired`, `ServerHasLauncher` | |
| `PlanningProofs` | `ChoicesAreStable`, `ChoicesAreReal`, `VariantsMatch`, `PlansRespectPolicy`, `PlansAreForTheirTargets` | `ChoiceIsStable`, `ChoiceIsReal`, `VariantMatchesCandidate`, `PlanRespectsPolicy`, `PlanIsForItsTarget` | |
| | `ViableCandidatesRender`, `UntruncatedShowsEveryViable`, `LimitIsSharedByGroups` | `ViableIsRenderable`, `UntruncatedIsExhaustive`, `GroupsShareTheLimit` | |

### The remote worker

`AtMostOneJob` needs that a process about to call the scheduler finds no job, hence
that nobody else got there since its document said `prepared`, hence that no other
process can put a document back into `prepared`. The invariant `IInv` says that:

* `JobInv`: an identity is free exactly when it belongs to no execution;
* `DocInv`: an execution with a job has a document beyond `prepared` that is not
  `submission_failed`; a document implies the directory; its job is its own;
* `CallInv`: what each process knows at each program point. `PrepareInv`: a
  prepare that is going to write owns the directory, and no document exists
  yet. `SubmitInv`: between claim and answer the document is unresolved and no
  job exists. `ObserveInv`: a process that saw the job ended is right, and if
  it then finds no result there will be none;
* `UniqueInv`: one open submit per execution, one prepare that writes.

The proof has one lemma per action. `CallStep` and `PrivateStep` reduce every
action that only moves a process to its part of `CallInv`; `DocStep` does the
same for the writers. The worker is proved under an open controller, whose guard is
that at most one submit of an execution is open.

### The remote backend

`ControllerIsAllowed` discharges that guard: the composed system sends at most one
submit for an execution in its life, so every step of it is a step of the worker's
specification, and the worker's invariant holds of it. `BInv` adds what ties the
parts together: what a process answers with (`AnswersInv`), what a command knows at
each program point (`ClientsInv`: it waits for a call of its own about its own
execution), that no two commands share a call or an unsubmitted execution
(`ApartInv`), and that only created executions get jobs. From it follow the outcomes
and the refinement of `ExecutionContract`.

The two verdicts need more, `KInv`, and one command at a time per execution
(`OnePerExecution`; cancellations may run beside it, and worker processes left
behind by dead commands go on). A wait decides by the row, and
the handler of execute by the execution's state, and a second command can write both. `KInv` is what documents, answers and commands know about the job: a
command that is going to record `collection_failed` has seen a condition that only
an ended job shows, and one that is going to record `failed` has an answer that only
an execution without a job gets. `~Preemption` is a site that does not requeue
ended jobs; `"invalid" \notin Outcomes` one whose results are all valid bundles.

`NewExecutionsAreAccounted` rests on `AInv`. Its core, `AccountInv`, says of an
execution that may run without a recorded job that it is the plan's latest, and that
its execute is on its way to record the job or to mark it, or that it is marked
`submission_ambiguous` and blocks the plan. `CallRecords` and `ClientRecords` keep
the mark in place: every other command changes an execution's state only where its
job is recorded. Two executes at once (`OneExecute`), or one that dies
between its submit and its record (`ExecutesLive`), break `AccountInv`; other
commands may run, and die, beside the execute.

### The local backends

`IInv` says that rows and jobs agree (`RowInv`), what a command knows
(`ClientInv`, with `VerdictInv` for the point where a wait gives a job up), and that
no two executes work on one execution. `StoreProofs` holds what both backends need:
lemmas on the list of executions, and the steps of scheduler, worker and import as
steps of the contract. `BlockInv` is the second invariant, for
`LostJobBlocksPlan`: a job whose identity nobody recorded is that of the plan's
latest execution, which is marked ambiguous or about to be, by the one execute that
is running; every other command leaves the mark alone, as it finds no job to speak of. Two
executes at once pass the check together (`OneExecute`).

### Migration

The first statement towards a version succeeds for one command only, which then owns
the migration. `IInv`: versions up to the file's are complete and at most one is
under way (`FileInv`); a copy of `user_version` is never ahead of the file, and the
owner's is the file's (`CopyInv`); there is one owner (`OneOwner`); statements
without one are those that a death left (`OwnedInv`); with narrow tables the version is
4 to 6 and every command that migrates opened the file at one of these (`NarrowInv`).

### Command and compute worker

`CInv` is the command's: what is in a pipe is what was written and not yet read, a
reader that has ended has read all of it and no writer is left (`StreamInv`); joins
come before results (`JoinInv`); after SIGTERM only a process that ignores it lives in
the group (`InterruptInv`). `WInv` adds the worker's: while the file's modification time is that
of the first stat, what was hashed is what it holds (`HashInv`); a complete
capture has the digest of a file that existed (`ArtifactInv`); what the report
claims (`ReportInv`); exit status 0 only after this start of the job published
(`ExitStatusInv`).

`NoShortfallIsFalse` is about any `NodeCounts`, `CpuCounts`, `RankCounts` and
`GpuCounts` (`CountsAssumption`: positive, GPUs also 0, as `_resource_integer` lets
through). `ShortfallIsKnown` follows a shape through its directives, the grant and
the reading for each scheduler: a layout's counts divide into equal shares
(`LayoutShares`), what Slurm says of CPUs per node adds up to the grant
(`EvenLayout`, `TotalOfCopies`), and GPUs fall short only on several nodes.

### Launcher

Nothing locks the cache, so `IInv` speaks of the time before two bootstraps first
overlap: at most one works on the cache, what it still has to install is what is
not recorded, and what is recorded is whole. `StepInv` and `RunInv` say what a
bootstrap step and a launcher know at each point. For `ServersHaveLaunchers`, a launcher
with a live server is at its spawn or serves, or a kill or a signal before the
handlers ended it: `HandOn` waits for the server's end, and a forwarded signal does not
move the launcher.

### Planning

Two invariants. `IInv` (`SnapshotInv`, `PlanInv`, `SelectionInv`) gives the resolver's
choices and the derived inputs: every snapshot is a discovery of the site with some
providers failed and some rows lost or half read, every plan is a resolution of one or a selection, and a
selection's changes are those its reading of the input calls for. `SInv` gives
policy and target: the exploration in memory is one of a linked snapshot and its
candidates are derived from that snapshot's inventory (`SessionInv`), what is
selected is viable among them (`CandidateInv`), what a plan refers to is saved before
it (`StoredInv`), and each plan respects claims and target (`PlacedInv`).

The step from a list to its members rests on lemmas about the operators: flattening,
thinning and round robin add no element (`FlattenIn`, `RoundRobinIn`), every
candidate that the exploration lists was evaluated on a shape derived from a target
of the inventory (`CandidatesAreEvaluated`, `FoundBy`), and an evaluated candidate
that is viable breaks no claim (`ViableRespects`). The assumptions are on the inputs: a target's identity is its own and
nobody's name (`SitesAreWellFormed`), requests and providers have the shape
that parsing gives them (`RequestsAreWellFormed`, `ProvidersAreWellFormed`), a provider
binds parameters that the input has (`InputHoldsParameters`).

The three theorems about an exploration are about any `Limit`. A viable candidate's
shape has been checked against the request (`ViableSuffices`), and its layout divides
into shares that the directives ask for and the scheduler grants (`LayoutIsGranted`).
For `UntruncatedShowsEveryViable`, a list that was not cut keeps every member of
what was flattened and thinned (`FlattenComplete`, `ThinnedComplete`), and a group
with a viable combination is never among the pruned ones (`ViableIsOpen`). For
`LimitIsSharedByGroups`, round robin deals from distinct groups (`GroupsAreDistinct`,
`RoundRobinInjective`), so the places within the limit differ by at most one between
open groups (`PlacesAreShared`, `LimitIsShared`); `RecordInv` is the rest of the
service's state. What would be an induction over a list is a fact about positions in
it (`FlattenPositions`: where each list begins in the flattened one), proved by
looking at the least position where it would fail (`Least`).

### Only model-checked

Every invariant and every safety action property of the passing runs is a theorem,
under the hypotheses in the table. Model-checked only are:

* liveness (`WaitDelivers`, `WaitEnds`, `MigrationCompletes`, `CommandEnds`,
  `SignalEndsLauncher`): fairness and ENABLED are out of the prover's reach;
* the three violations, which are counterexamples.

## Not modelled

* Requests and their JSON (`execution_request.py`, `workload*.py`, `models.py`):
  stateless validation of text; the models take what it lets through.
* The parsing of scheduler and site commands beyond which rows or states survive it;
  the text of batch scripts beyond their resource directives.
* Memory and wall time in planning, which take the same paths as GPUs and CPUs.
* A capacity is one number. The resolver adds up a row's GPU entries and reads `64+` as
  64, `site_planning.py:464-508` takes the largest entry and rejects `64+`; rows where
  the two differ are not told apart.
* Executables given with a path (`resolver.py:340-349`), which are looked for in the file
  system and not in the inventory.
* In exploration, the request and workload that `explore_request` saves
  (`site_service.py:202`); in materialization, bases that differ from one changed name to
  another: one basis is chosen for all names of a selection.
* The provider subprocess protocol, read-only MCP tools, provenance collectors,
  lineage queries, presentation and the command line: no state of their own.
* The installation of the remote worker, which ends in a check of its version and digest.

`PROJECT.json` gives the reason for each component.
