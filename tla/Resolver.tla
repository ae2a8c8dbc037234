------------------------------- MODULE Resolver -------------------------------
(***************************************************************************)
(* resolver.py: the candidates of plan_request, direct and scheduled, and  *)
(* the one that is selected, if any.  Inventories and requests are those   *)
(* of SitePlanning; memory, wall time and the wording of reasons are left  *)
(* out.                                                                    *)
(***************************************************************************)
EXTENDS SitePlanning

OneIfNone(n) == IF n = None THEN 1 ELSE n

\* _matches_target and _matches_context
Matches(reference, names) == reference = "any" \/ reference \in names

Requested(n) == n # None /\ n > 1

\* How several ranks are started is open unless the request names a launcher.
LauncherOpen(request) ==
    IF Requested(request.ranks) /\ ~request.launcher THEN {"launcher"} ELSE {}

\* _evaluate_direct, with _executable_state and _direct_gpu_count observed by discovery: what
\* rules the login node out, and what is not known to be satisfied there.
DirectExcluded(request, inventory) ==
    (IF inventory.executable = "missing" THEN {"executable"} ELSE {})
        \cup (IF request.gpus > 0 /\ inventory.gpus # None /\ inventory.gpus < request.gpus
              THEN {"gpus"} ELSE {})
        \cup (IF Requested(request.nodes) THEN {"nodes"} ELSE {})

DirectUnresolved(request, inventory) ==
    (IF inventory.executable \notin {"observed", "missing"} THEN {"executable"} ELSE {})
        \cup (IF request.gpus > 0 /\ inventory.gpus = None THEN {"gpus"} ELSE {})
        \cup (IF Requested(request.cpus) THEN {"cpus"} ELSE {})
        \cup LauncherOpen(request)

EvaluateDirect(request, inventory) ==
    IF DirectExcluded(request, inventory) # {} THEN "incompatible"
    ELSE IF DirectUnresolved(request, inventory) # {} THEN "partial" ELSE "compatible"

\* What a request names, and what _evaluate_scheduler_resources takes a target to hold of it:
\* Slurm counts per node, PBS per queue, LSF not at all.
Resources == {"nodes", "cpus", "gpus"}
Demand(request) == [nodes |-> request.nodes, cpus |-> request.cpus,
                    gpus |-> IF request.gpus > 0 THEN request.gpus ELSE None]
Capacity(scheduler, target) ==
    [nodes |-> target.visible_nodes,
     cpus  |-> CASE scheduler.family = "slurm" -> target.cpus_per_node
                 [] scheduler.family = "pbs"   -> target.total_cpus
                 [] OTHER                      -> None,
     gpus  |-> IF scheduler.family = "slurm" THEN target.gpus_per_node ELSE None]
Times(request) == [nodes |-> 1, cpus |-> OneIfNone(request.nodes),
                   gpus |-> OneIfNone(request.nodes)]

\* _evaluate_scheduler: what rules a target out, ...
Exceeded(request, scheduler, target) ==
    {k \in Resources :
        LET wanted == Demand(request)[k]  available == Capacity(scheduler, target)[k]
        IN  wanted # None /\ available # None /\ wanted > available * Times(request)[k]}
Excluded(request, scheduler, target) ==
    Exceeded(request, scheduler, target) \cup (IF target.visible THEN {} ELSE {"hidden"})

\* Mutant: a GPU count that could not be read counts as enough.
UnresolvedTrusting(request, scheduler, target) ==
    {k \in {"nodes", "cpus"} : Demand(request)[k] # None /\ Capacity(scheduler, target)[k] = None}
        \cup LauncherOpen(request)

\* ... and what is left open.  (The compute node's executable, context and staging are open
\* in every scheduled plan and left out.)
Unresolved(request, scheduler, target) ==
    {k \in Resources : Demand(request)[k] # None /\ Capacity(scheduler, target)[k] = None}
        \cup LauncherOpen(request)

\* Never more than partial; the compute node is not seen.
EvaluateScheduler(request, scheduler, target) ==
    IF Excluded(request, scheduler, target) # {} THEN "incompatible" ELSE "partial"

\* _candidates
DirectCandidates(request, inventory) ==
    IF /\ request.backend \in {"auto", "direct"}
       /\ Matches(request.target, {"login"})
       /\ Matches(request.context, {c.id : c \in Range(inventory.contexts)} \cap {"current"})
    THEN {[backend |-> "direct", target |-> "login",
           state |-> EvaluateDirect(request, inventory),
           excluded |-> DirectExcluded(request, inventory),
           unresolved |-> DirectUnresolved(request, inventory)]}
    ELSE {}

ScheduledCandidates(request, inventory) ==
    UNION {{[backend |-> s.family, target |-> t.id, state |-> EvaluateScheduler(request, s, t),
             excluded |-> Excluded(request, s, t), unresolved |-> Unresolved(request, s, t)] :
               t \in {x \in Range(inventory.targets) :
                         /\ x.id \in s.targets
                         /\ Matches(request.target, {x.id, x.class})
                         /\ request.context = "any"}} :
           s \in {x \in Range(inventory.schedulers) : request.backend \in {"auto", x.family}}}

\* A scheduler without targets of its own is one candidate, unless a target is asked for.
BareCandidates(request, inventory) ==
    {[backend |-> s.family, target |-> "none", state |-> "partial", excluded |-> {},
      unresolved |-> {"target"} \cup LauncherOpen(request)] :
        s \in {x \in Range(inventory.schedulers) :
                  /\ request.backend \in {"auto", x.family}
                  /\ x.targets = {} /\ request.target = "any" /\ request.context = "any"}}

Candidates(request, inventory) ==
    IF ~inventory.access THEN {}
    ELSE DirectCandidates(request, inventory) \cup ScheduledCandidates(request, inventory)
         \cup BareCandidates(request, inventory)

NoPlan == [backend |-> "none", target |-> "none", state |-> "none", excluded |-> {},
           unresolved |-> {}]

TheOnly(S) == IF IsSingle(S) THEN CHOOSE x \in S : TRUE ELSE NoPlan

\* Mutant: the first of several scheduler candidates.
ResolveExecutionFirst(request, inventory) ==
    LET viable    == {c \in Candidates(request, inventory) : c.state # "incompatible"}
        direct    == {c \in viable : c.backend = "direct" /\ c.state = "compatible"}
        scheduled == {c \in viable : c.backend # "direct"}
    IN  IF request.backend # "auto" \/ request.target # "any" \/ request.context # "any"
        THEN TheOnly(viable)
        ELSE IF direct # {} THEN TheOnly(direct)
        ELSE IF scheduled # {} THEN CHOOSE c \in scheduled : TRUE ELSE NoPlan

\* resolve_execution
ResolveExecution(request, inventory) ==
    LET viable    == {c \in Candidates(request, inventory) : c.state # "incompatible"}
        direct    == {c \in viable : c.backend = "direct" /\ c.state = "compatible"}
        scheduled == {c \in viable : c.backend # "direct"}
    IN  IF request.backend # "auto" \/ request.target # "any" \/ request.context # "any"
        THEN TheOnly(viable)
        ELSE IF IsSingle(direct) THEN TheOnly(direct)
        ELSE TheOnly(scheduled)

=============================================================================
