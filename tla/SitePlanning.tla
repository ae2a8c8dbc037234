----------------------------- MODULE SitePlanning -----------------------------
(***************************************************************************)
(* The candidates of site-aware planning: resource shapes generated from   *)
(* an inventory (site_planning.py), the declarative provider's hints and   *)
(* constraints (constraint_providers.py), and the bounded exploration that *)
(* combines shapes, environments and parameters.                           *)
(*                                                                         *)
(* Nodes, CPUs, ranks and GPUs are kept; memory and wall time, which take  *)
(* the same paths as GPUs and CPUs, are not.  The code sorts shapes and    *)
(* groups by digest: here they keep the order they are generated in.       *)
(***************************************************************************)
EXTENDS Allocation

CONSTANT LargestCount   \* the largest number of nodes, CPUs or ranks that is tried
ASSUME LargestCountIsNatural == LargestCount \in Nat

\* A list cut at the limit, one thinned out (SelectSeq, in a form that can be reasoned about),
\* and the numbers of a set in order.
Take(s, limit) == SubSeq(s, 1, IF Len(s) < limit THEN Len(s) ELSE limit)
Filter(s, Test(_)) == FlattenSeq([i \in DOMAIN s |-> IF Test(s[i]) THEN <<s[i]>> ELSE <<>>])
Ascending(S) == Filter([n \in 1..LargestCount |-> n], LAMBDA n : n \in S)

\* The only element of a set.
IsSingle(S) == \E x \in S : S = {x}

-----------------------------------------------------------------------------
\* _evaluate_expression: a constant, a parameter, a resource, or one operator over those.
Unknown == -99

Leaf(e, params, layout) ==
    LET value == CASE e.key = "constant"  -> e.value
                   [] e.key = "parameter" -> IF e.value \in DOMAIN params
                                             THEN params[e.value] ELSE None
                   [] e.key = "resource"  -> layout[e.value]
    IN  IF value = None THEN Unknown ELSE value

IsLeaf(e) == e.key \in {"constant", "parameter", "resource"}

Expression(e, params, layout) ==
    IF IsLeaf(e) THEN Leaf(e, params, layout)
    ELSE LET values == [i \in DOMAIN e.value |-> Leaf(e.value[i], params, layout)]
         IN  IF Unknown \in Range(values) THEN Unknown
             ELSE CASE e.key = "add"      -> FoldLeft(+, 0, values)
                    [] e.key = "multiply" -> FoldLeft(LAMBDA x, y : x * y, 1, values)
                    [] e.key = "subtract" -> values[1] - values[2]

\* _compare
Compare(operator, left, right) ==
    CASE operator = "equal"            -> left = right
      [] operator = "not_equal"        -> left # right
      [] operator = "less_than"        -> left < right
      [] operator = "less_or_equal"    -> left <= right
      [] operator = "greater_than"     -> left > right
      [] operator = "greater_or_equal" -> left >= right
      [] operator = "divisible_by"     -> right # 0 /\ left % right = 0

\* DeclarativeConstraintProvider.evaluate, of one constraint
Evaluate(c, params, layout) ==
    LET left  == Expression(c.left, params, layout)
        right == Expression(c.right, params, layout)
    IN  IF Unknown \in {left, right} THEN "unknown"
        ELSE IF Compare(c.operator, left, right) THEN "satisfied" ELSE "violated"

Violates(provider, params, layout) ==
    \E c \in provider.constraints : c.hard /\ Evaluate(c, params, layout) = "violated"
Doubts(provider, params, layout) ==
    \E c \in provider.constraints : Evaluate(c, params, layout) = "unknown"

\* No provider, and one without parameters: a single empty assignment.
NoParameters == <<>>
NoProvider == [parameters |-> <<>>, constraints |-> {}, requires |-> {}, launchers |-> {}]

\* parameter_assignments: the product of the parameters' values, in order.
AllAssignments(provider) ==
    LET ps == provider.parameters
        with(partial, p) ==
            FlattenSeq([i \in DOMAIN partial |->
                           [j \in DOMAIN p.values |-> partial[i] @@ (p.name :> p.values[j])]])
        upto[k \in 0..Len(ps)] == IF k = 0 THEN <<NoParameters>> ELSE with(upto[k - 1], ps[k])
    IN  upto[Len(ps)]

\* resource_value_hints: a hard equality of a resource and something resource-free.
ResourceFree(e) ==
    IF IsLeaf(e) THEN e.key # "resource" ELSE \A x \in Range(e.value) : x.key # "resource"

ResourceValueHints(provider, limit, name) ==
    LET sides == UNION {{<<c.left, c.right>>, <<c.right, c.left>>} :
                           c \in {d \in provider.constraints : d.hard /\ d.operator = "equal"}}
        peers == {s[2] : s \in {t \in sides : /\ t[1].key = "resource" /\ t[1].value = name
                                              /\ ResourceFree(t[2])}}
    IN  {v \in {Expression(e, a, NoParameters) :
                    e \in peers, a \in Range(Take(AllAssignments(provider), limit))} :
            v > 0}

-----------------------------------------------------------------------------
\* policy_applies, for the scopes global and scheduler class
PolicyApplies(claim, class) == claim.scope \in {"global", class}

NotNumeric == -3

\* _applicable_hard_max_nodes: only an uncontested numeric maximum limits generation.
HardMaxNodes(target, claims) ==
    LET values == {c.value : c \in {d \in claims : /\ d.hard /\ d.property = "max_nodes"
                                                   /\ PolicyApplies(d, target.class)}}
    IN  IF Cardinality(values) # 1 \/ NotNumeric \in values THEN None
        ELSE CHOOSE v \in values : TRUE

\* _provider_layout_nodes
ProviderLayoutNodes(provider, limit, cpus, ranks) ==
    LET hints(name) == ResourceValueHints(provider, limit, name)
        over(total, per) == IF total = None THEN {}
                            ELSE {total \div p : p \in {q \in per : total % q = 0}}
    IN  {n \in hints("nodes") \cup over(cpus, hints("cpus_per_node"))
                \cup over(ranks, hints("ranks_per_node")) : n > 0}

\* _derived_node_values: the request's node count, else the provider's, else every common
\* divisor that the capacity and the policy leave.
DerivedNodeValues(target, request, provider, claims, limit, cpus, ranks) ==
    LET hinted  == ProviderLayoutNodes(provider, limit, cpus, ranks)
        maximum == HardMaxNodes(target, claims)
        within(n) == maximum = None \/ n <= maximum
        bounds  == {(b[1] + b[2] - 1) \div b[2] :
                       b \in {x \in {<<cpus, target.cpus_per_node>>,
                                     <<request.gpus, target.gpus_per_node>>} :
                                 None \notin {x[1], x[2]}}}
        totals  == {v \in {cpus, ranks, request.gpus} : v > 0}
    IN  IF maximum # None /\ maximum < 1 THEN <<>>
        ELSE IF request.nodes # None THEN <<request.nodes>>
        ELSE IF hinted # {} THEN Take(Ascending({n \in hinted : within(n)}), limit)
        ELSE IF bounds = {} \/ totals = {}
             THEN IF target.family = "lsf" THEN <<None>> ELSE <<1>>
        ELSE Take(Ascending({n \in 1..LargestCount : /\ \A v \in totals : v % n = 0
                                          /\ \A b \in bounds : n >= b
                                          /\ within(n)}), limit)

\* _within_observed_capacity
WithinCapacity(target, layout) ==
    \A dimension \in {"cpus_per_node", "gpus_per_node", "total_cpus"} :
        None \in {target[dimension], layout[dimension]} \/ layout[dimension] <= target[dimension]

\* _shape_with_target_evidence: discovery leaves authorization unknown; declared claims
\* that apply add what they say.
Grants(target, claims) ==
    {c.value : c \in {d \in claims : /\ d.property = "authorization" /\ d.declared
                                     /\ PolicyApplies(d, target.class)}}

\* _generated_target_shapes: ranks, then CPUs, then node counts; what does not divide
\* evenly or exceeds the capacity is skipped.
GeneratedTargetShapes(target, request, provider, claims, limit) ==
    LET hints(name) == Ascending(ResourceValueHints(provider, limit, name))
        orNone(s) == IF s = <<>> THEN <<None>> ELSE s
        ranks  == IF request.ranks # None THEN <<request.ranks>> ELSE orNone(hints("mpi_ranks"))
        cpus(r) == IF request.cpus # None THEN <<request.cpus>>
                   ELSE IF hints("total_cpus") # <<>> THEN hints("total_cpus") ELSE <<r>>
        layouts == FlattenSeq([i \in DOMAIN ranks |-> FlattenSeq([j \in DOMAIN cpus(ranks[i]) |->
                      LET c == cpus(ranks[i])[j]
                          nodes == Filter(DerivedNodeValues(target, request, provider, claims,
                                                            limit, c, ranks[i]),
                                          LAMBDA n : Divisible(n, c, ranks[i], request.gpus))
                      IN  [k \in DOMAIN nodes |-> DerivedShape(nodes[k], c, ranks[i],
                                                               request.gpus)]])])
        kept == Filter(layouts, LAMBDA h : WithinCapacity(target, h))
    IN  Take([i \in DOMAIN kept |->
                 [layout |-> kept[i], target |-> target.id, family |-> target.family,
                  class |-> target.class, grants |-> Grants(target, claims)]], limit)

\* Layer after layer, one element of each sequence that reaches so far.
RoundRobin(seqs) ==
    LET layer(i) == FlattenSeq([t \in DOMAIN seqs |->
                                   IF Len(seqs[t]) >= i THEN <<seqs[t][i]>> ELSE <<>>])
    IN  FlattenSeq([i \in 1..Len(FlattenSeq(seqs)) |-> layer(i)])

\* generate_resource_shapes, for targets whose metadata lists no shapes of its own (no
\* provider of the repository writes them).
GenerateResourceShapes(inventory, request, provider, claims, limit) ==
    Take(RoundRobin([t \in DOMAIN inventory.targets |->
                        GeneratedTargetShapes(inventory.targets[t], request, provider, claims,
                                              limit)]), limit)

\* resolve_environments: which contexts show every required capability and activate.
ResolveEnvironments(inventory, requires) ==
    [i \in DOMAIN inventory.contexts |->
        [id |-> inventory.contexts[i].id,
         compatible |-> /\ requires \subseteq inventory.contexts[i].observed
                        /\ inventory.contexts[i].activates]]

-----------------------------------------------------------------------------
\* _authorization: a denial outweighs any grant.
Authorization(shape) ==
    IF "denied" \in shape.grants THEN "denied"
    ELSE IF "authorized" \in shape.grants THEN "authorized" ELSE "unknown"

\* _resource_requirements, and the LSF mappings that are not known
Requirements == {<<"cpus", "total_cpus">>, <<"gpus", "gpus">>, <<"nodes", "nodes">>,
                 <<"ranks", "mpi_ranks">>}

Insufficient(request, layout) ==
    \E q \in Requirements : /\ None \notin {request[q[1]], layout[q[2]]}
                            /\ layout[q[2]] < request[q[1]]
Unclear(request, shape) ==
    \/ \E q \in Requirements : request[q[1]] # None /\ shape.layout[q[2]] = None
    \/ shape.family = "lsf" /\ request.gpus > 0

\* _policy
PolicyProperties ==
    {<<"max_nodes", "nodes">>, <<"max_total_cpus", "total_cpus">>, <<"max_gpus", "gpus">>}

HardValues(property, shape, claims) ==
    {c.value : c \in {d \in claims : /\ d.hard /\ d.property = property
                                     /\ PolicyApplies(d, shape.class)}}

\* Mutant: conflicting maxima are read permissively.
WithinAny(requested, values) == \E v \in values : requested <= v

\* The least of the maxima counts.
Within(requested, values) == \A v \in values : requested <= v

Policy(shape, claims) ==
    LET values(p) == HardValues(p[1], shape, claims)
        open(p)   == values(p) # {} /\ (NotNumeric \in values(p) \/ shape.layout[p[2]] = None)
        over(p)   == values(p) # {} /\ ~open(p) /\ ~Within(shape.layout[p[2]], values(p))
    IN  IF \E p \in PolicyProperties : over(p) THEN "policy_incompatible"
        ELSE IF \E p \in PolicyProperties : open(p) THEN "unresolved"
        ELSE "viable"

\* _evaluate_candidate
NoEnvironment == [id |-> "none", compatible |-> TRUE]

CandidateState(request, shape, env, params, provider, claims) ==
    IF \/ Authorization(shape) = "denied" \/ Insufficient(request, shape.layout)
       \/ Violates(provider, params, shape.layout) THEN "hard_invalid"
    ELSE IF Policy(shape, claims) = "policy_incompatible" THEN "policy_incompatible"
    ELSE IF \/ Authorization(shape) = "unknown" \/ Unclear(request, shape)
            \/ Policy(shape, claims) = "unresolved"
            \/ env = NoEnvironment /\ provider.requires # {}
            \/ ~env.compatible
            \/ Doubts(provider, params, shape.layout) THEN "unresolved"
    ELSE "viable"

EvaluateCandidate(request, group, params, provider, claims) ==
    [shape |-> group[1], env |-> group[2], params |-> params,
     state |-> CandidateState(request, group[1], group[2], params, provider, claims)]

\* Mutant: the first assignment's violation prunes the whole group.
GroupIsHardInvalidFirst(request, group, provider, claims) ==
    \/ Authorization(group[1]) = "denied"
    \/ Insufficient(request, group[1].layout)
    \/ Policy(group[1], claims) = "policy_incompatible"
    \/ Violates(provider, AllAssignments(provider)[1], group[1].layout)

\* _group_is_hard_invalid: without parameters, a constraint on them is unknown.
GroupIsHardInvalid(request, group, provider, claims) ==
    \/ Authorization(group[1]) = "denied"
    \/ Insufficient(request, group[1].layout)
    \/ Policy(group[1], claims) = "policy_incompatible"
    \/ Violates(provider, NoParameters, group[1].layout)

\* _assignments_by_constraint_feasibility: a stable sort; hard violations come last.
ByFeasibility(provider, assignments, layout) ==
    LET bad(a)   == Violates(provider, a, layout)
        vague(a) == ~bad(a) /\ Doubts(provider, a, layout)
    IN  Filter(assignments, LAMBDA a : ~bad(a) /\ ~vague(a))
        \o Filter(assignments, LAMBDA a : vague(a))
        \o Filter(assignments, LAMBDA a : bad(a))

\* explore_candidates: one assignment of every expandable group, then the next, up to the
\* limit; then a representative of each pruned group while there is room.
Groups(shapes, envs) ==
    LET known == IF envs = <<>> THEN <<NoEnvironment>> ELSE envs
    IN  FlattenSeq([i \in DOMAIN shapes |-> [j \in DOMAIN known |-> <<shapes[i], known[j]>>]])

\* Mutant: group after group, each with all its assignments.
LayersByGroup(groups, assigned) ==
    FlattenSeq([g \in DOMAIN groups |->
                   [i \in DOMAIN assigned[g] |-> <<groups[g], assigned[g][i]>>]])

Layers(groups, assigned) ==
    RoundRobin([g \in DOMAIN groups |->
                   [i \in DOMAIN assigned[g] |-> <<groups[g], assigned[g][i]>>]])

ExploreCandidates(request, shapes, envs, provider, claims, limit) ==
    LET all      == AllAssignments(provider)
        tried    == Take(all, limit)
        groups   == Groups(shapes, envs)
        invalid(g) == GroupIsHardInvalid(request, g, provider, claims)
        hard     == Filter(groups, invalid)
        open     == Filter(groups, LAMBDA g : ~invalid(g))
        layered  == Layers(open, [g \in DOMAIN open |->
                                     ByFeasibility(provider, tried, open[g][1].layout)])
        chosen   == Take(layered \o [g \in DOMAIN hard |-> <<hard[g], tried[1]>>], limit)
        shown    == Len(chosen) - Len(Take(layered, limit))
        pruned   == Len(hard) * Len(all) - shown
    IN  [candidates |-> [i \in DOMAIN chosen |->
                            EvaluateCandidate(request, chosen[i][1], chosen[i][2], provider,
                                              claims)],
         expandable |-> Range(open),
         pruned     |-> pruned,
         truncated  |-> Len(groups) * Len(all) > Len(chosen) + pruned]

-----------------------------------------------------------------------------
\* _scheduler_selection: the family the request names, else the site's hint, else the only
\* one observed; ...
SchedulerFamily(backend, hint, inventory) ==
    LET families == {s.family : s \in Range(inventory.schedulers)} \cap Families
    IN  IF backend \in Families THEN backend
        ELSE IF hint \in Families THEN hint
        ELSE IF IsSingle(families) THEN CHOOSE f \in families : TRUE
        ELSE "ambiguous"

\* Mutant: the class name alone decides.
TargetOfByClass(own, inventory, shape) ==
    LET named == Filter(inventory.targets, LAMBDA t : t.id \in own /\ t.class = shape.class)
    IN  IF named # <<>> THEN named[1].id
        ELSE IF IsSingle(own) THEN CHOOSE t \in own : TRUE
        ELSE "none"

\* ... its target by the shape's evidence, else by class name, else its only one.
TargetOf(own, inventory, shape) ==
    LET named == Filter(inventory.targets, LAMBDA t : t.id \in own /\ t.class = shape.class)
    IN  IF shape.target \in own THEN shape.target
        ELSE IF named # <<>> THEN named[1].id
        ELSE IF IsSingle(own) THEN CHOOSE t \in own : TRUE
        ELSE "none"

SchedulerSelection(backend, hint, inventory, candidate) ==
    LET family   == SchedulerFamily(backend, hint, inventory)
        matching == {s \in Range(inventory.schedulers) : s.family = family}
        own      == (CHOOSE s \in matching : TRUE).targets
    IN  IF ~IsSingle(matching) THEN [family |-> "ambiguous", target |-> "none"]
        ELSE [family |-> family, target |-> TargetOf(own, inventory, candidate.shape)]

-----------------------------------------------------------------------------
\* automatic_change_allowed
AutomaticChangeAllowed(p, declared, approved, trusted) ==
    \/ approved
    \/ p.class = "execution_only" /\ (declared \/ (trusted /\ p.contract))
    \/ p.class = "performance_tunable" /\ p.equivalent /\ trusted /\ p.contract

\* Mutant: the first change only.
CandidateVariantChangesFirst(provider, params, content) ==
    LET differs == {p.name : p \in {q \in Range(provider.parameters) :
                                       q.bound /\ content[q.name] # params[q.name]}}
    IN  IF differs = {} THEN {} ELSE {CHOOSE n \in differs : TRUE}

\* candidate_variant_changes: the bound parameters whose value the input does not hold.
CandidateVariantChanges(provider, params, content) ==
    {p.name : p \in {q \in Range(provider.parameters) :
                        q.bound /\ content[q.name] # params[q.name]}}

=============================================================================
