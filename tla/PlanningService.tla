---------------------------- MODULE PlanningService ----------------------------
(***************************************************************************)
(* Planning as a service over one database: discovery of a site            *)
(* (site_service.py, discovery.py), policy claims, the two routes to a     *)
(* plan - plan_request through the resolver and explore_request/select     *)
(* through the site's candidates (agent_interface.py) - and the derived    *)
(* input of a selection (variants.py).                                     *)
(*                                                                         *)
(* The service runs one call at a time, but a selection is a sequence of   *)
(* reads, file writes and transactions: other processes add claims, users  *)
(* edit the input, and the service may stop between any two of them.       *)
(* Exploration is kept in memory only.                                     *)
(***************************************************************************)
EXTENDS Resolver, Discovery

CONSTANTS
    Sites,          \* what a site may really be
    Requests,       \* execution requests
    Providers,      \* workload constraint providers, NoProvider among them
    Claims,         \* the policy claims that may be submitted
    Limit,          \* the exploration limit (64 in the code)
    MaxClaims, MaxSnapshots, MaxPlans, MaxEdits, MaxFaults

ASSUME BoundsAreNatural ==
    {Limit, MaxClaims, MaxSnapshots, MaxPlans, MaxEdits, MaxFaults} \subseteq Nat
ASSUME LimitIsPositive == Limit > 0
\* _derived_node_values divides by what a node is said to hold: sinfo's "gpu:0" would end it.
ASSUME CapacityIsPositive ==
    \A s \in Sites, f \in Families : \A r \in Range(s.rows[f]) :
        0 \notin {r.cpus_per_node, r.gpus_per_node}
ASSUME NoProviderIsOne == NoProvider \in Providers

\* A target's identity is its own, and nobody's name ("login" is the login node's).
ASSUME SitesAreWellFormed ==
    /\ Sites \subseteq SiteRecords
    /\ \A s \in Sites, f, g \in Families : \A r \in Range(s.rows[f]), q \in Range(s.rows[g]) :
          /\ r.family = f
          /\ r.id \notin {"any", "none", "login", q.class} \cup q.cut_names
          /\ "login" \notin {r.class} \cup r.cut_names
          /\ r.id = q.id => r = q
\* What is discovered gets an identity of its own (new_ulid): no target and no context is
\* listed twice.
ContextKinds == {"current", "conda", "virtualenv"}
ASSUME IdentitiesAreNew ==
    \A s \in Sites :
        /\ \A f \in Families : IsInjective(s.rows[f])
        /\ \A k, l \in ContextKinds : \A i \in DOMAIN s.contexts[k], j \in DOMAIN s.contexts[l] :
              s.contexts[k][i].id = s.contexts[l][j].id => k = l /\ i = j
\* _resource_integer lets a request name no zero but of GPUs.
RequestRecords ==
    [backend : Families \cup {"auto", "direct"}, target : STRING, context : STRING,
     nodes : Counts \ {0}, cpus : Counts \ {0}, ranks : Counts \ {0}, gpus : Counts,
     launcher : BOOLEAN]
ASSUME RequestsAreWellFormed == Requests \subseteq RequestRecords
\* candidate_values is never empty; _validate_expression lets operators nest, of which one
\* level is kept.
ASSUME ProvidersAreWellFormed ==
    \A p \in Providers :
        /\ p.parameters \in Seq(Range(p.parameters))
        /\ \A q \in Range(p.parameters) : q.values \in Seq(Range(q.values)) /\ q.values # <<>>
        /\ \A c \in p.constraints : \A e \in {c.left, c.right} :
              IsLeaf(e) \/ \A x \in Range(e.value) : IsLeaf(x)

\* Two bound parameters of one JSON input; a provider binds no other.
ParameterNames == {"a", "b"}
ParameterValues == {1, 2}
Bound(provider) == {p.name : p \in {q \in Range(provider.parameters) : q.bound}}
ASSUME InputHoldsParameters == \A p \in Providers : Bound(p) \subseteq ParameterNames

VARIABLES
    site,           \* the site as it is
    snapshots,      \* saved inventories, each linked to the site or not
    linking,        \* the snapshot discover has saved and not yet linked, or 0
    claims,         \* saved policy claims
    content,        \* the bound values the original input file holds
    session,        \* the exploration in memory
    selection,      \* the selection in progress
    stored,         \* the kinds of record it has saved
    plans,          \* saved plans
    refused,        \* why the last selection ended without one
    edits

vars == <<site, snapshots, linking, claims, content, session, selection, stored, plans,
          refused, edits>>

NoSession == [state |-> "none"]
NoSelection == [pc |-> "idle"]

Idle == selection.pc = "idle"

\* Between two calls.  A behaviour is followed until it has its plans or an edited input.
Open == Idle /\ linking = 0 /\ Len(plans) < MaxPlans /\ edits < MaxEdits

Init ==
    /\ site \in Sites
    /\ snapshots = <<>> /\ linking = 0 /\ claims = {}
    /\ content = [a |-> 1, b |-> 2]
    /\ session = NoSession /\ selection = NoSelection
    /\ stored = {} /\ plans = <<>> /\ refused = "none"
    /\ edits = 0

-----------------------------------------------------------------------------
\* discover_site of the agent leaves the snapshot unlinked; SiteService.discover links it
\* in a second transaction.
Discover ==
    /\ Open /\ Len(snapshots) < MaxSnapshots
    /\ \E raised \in SUBSET Isolated, collected \in BOOLEAN, own \in BOOLEAN,
          slurm \in Answers(site, "slurm"), pbs \in Answers(site, "pbs"),
          lsf \in Answers(site, "lsf") :
          LET answers == [slurm |-> slurm, pbs |-> pbs, lsf |-> lsf]
          IN
          /\ Cardinality(raised)
                 + Cardinality({f \in Families : answers[f] # WholeAnswer(site, f)})
                 + (IF collected THEN 0 ELSE 1) <= MaxFaults
          /\ snapshots' = Append(snapshots,
                              [inventory |-> DiscoverSite(site, raised, collected, answers),
                               linked |-> FALSE])
          /\ linking' = IF own THEN Len(snapshots) + 1 ELSE 0
    /\ UNCHANGED <<site, claims, content, session, selection, stored, plans, refused, edits>>

LinkInventory ==
    /\ linking # 0
    /\ snapshots' = [snapshots EXCEPT ![linking].linked = TRUE]
    /\ linking' = 0
    /\ UNCHANGED <<site, claims, content, session, selection, stored, plans, refused, edits>>

\* submit_policy_claim, before or after the exploration; select evaluates no claim again.
SubmitPolicyClaim ==
    /\ Open /\ Cardinality(claims) < MaxClaims
    /\ \E c \in Claims \ claims : claims' = claims \cup {c}
    /\ UNCHANGED <<site, snapshots, linking, content, session, selection, stored, plans,
                   refused, edits>>

\* save_plan: the records a plan refers to exist and belong together.
SavePlan(plan) ==
    LET inventory == snapshots[plan.snapshot].inventory
    IN  /\ inventory.access
        /\ plan.target \in {"login", "none"} \cup {t.id : t \in Range(inventory.targets)}
        /\ plan.backend = "direct" \/ \E s \in Range(inventory.schedulers) : s.family = plan.backend
        /\ plan.route = "site" => snapshots[plan.snapshot].linked /\ plan.needs \subseteq stored

\* plan_request: the request is saved, and the plan when one was selected.
PlanRequest ==
    /\ Open
    /\ \E i \in DOMAIN snapshots, request \in Requests :
          LET chosen == ResolveExecution(request, snapshots[i].inventory)
              plan   == [route |-> "resolver", snapshot |-> i, request |-> request,
                         backend |-> chosen.backend, target |-> chosen.target,
                         state |-> chosen.state, unresolved |-> chosen.unresolved]
          IN  /\ chosen # NoPlan /\ SavePlan(plan)
              /\ plans' = Append(plans, plan)
    /\ UNCHANGED <<site, snapshots, linking, claims, content, session, selection, stored,
                   refused, edits>>

-----------------------------------------------------------------------------
\* explore_request: the snapshot must be linked to the site.
UsableSnapshot(snapshot) == snapshot.linked

SessionShapes(s, limit) ==
    GenerateResourceShapes(snapshots[s.snapshot].inventory, s.request, s.provider, s.claims,
                           limit)

\* A context must show what the environment and what the launcher need.
ContextNeeds(provider) == provider.requires \cup provider.launchers
SessionEnvironments(s) ==
    ResolveEnvironments(snapshots[s.snapshot].inventory, ContextNeeds(s.provider))

\* Shapes come from generation, not from the caller; the request and workload rows that are
\* saved here are not looked at before the selection saves its own.
ExploreRequest ==
    /\ Open /\ session = NoSession
    /\ \E i \in DOMAIN snapshots, request \in Requests, provider \in Providers :
          LET s == [state |-> "explored", request |-> request, snapshot |-> i,
                    provider |-> provider, claims |-> claims, exploration |-> <<>>]
          IN  /\ UsableSnapshot(snapshots[i])
              /\ session' = [s EXCEPT !.exploration =
                     ExploreCandidates(request, SessionShapes(s, Limit), SessionEnvironments(s),
                                       provider, claims, Limit)]
    /\ UNCHANGED <<site, snapshots, linking, claims, content, selection, stored, plans, refused,
                   edits>>

\* select of a viable candidate, with the approvals of this call
Select ==
    /\ Open /\ session # NoSession
    /\ \E c \in Range(session.exploration.candidates),
          basis \in {"none", "approved", "declared", "trusted"} :
          /\ Bound(session.provider) = {} => basis = "none"
          /\ c.state = "viable"
          /\ selection' = [pc |-> IF Bound(session.provider) = {} THEN "summary" ELSE "read",
                           candidate |-> c, basis |-> basis,
                           changes |-> {}, input |-> content, edited |-> FALSE]
          /\ stored' = {} /\ refused' = "none"
    /\ UNCHANGED <<site, snapshots, linking, claims, content, session, plans, edits>>

\* candidate_variant_changes reads the input, ...
ReadInput ==
    /\ selection.pc = "read"
    /\ LET changes == CandidateVariantChanges(session.provider, selection.candidate.params,
                                              content)
       IN  selection' = [selection EXCEPT !.pc = IF changes = {} THEN "summary"
                                                 ELSE "materialize",
                                          !.changes = changes, !.input = content]
    /\ UNCHANGED <<site, snapshots, linking, claims, content, session, stored, plans, refused,
                   edits>>

\* A call that raises leaves what it has saved.
Refuse(why) ==
    /\ refused' = why
    /\ selection' = NoSelection
    /\ UNCHANGED <<site, snapshots, linking, claims, content, session, stored, plans, edits>>

Parameter(name) == CHOOSE p \in Range(session.provider.parameters) : p.name = name

Allowed(name) ==
    AutomaticChangeAllowed(Parameter(name), selection.basis = "declared",
                           selection.basis = "approved", selection.basis = "trusted")

\* ... and materialize_json_variant reads it again, writes the derived file, and select
\* saves the variant.  (One basis holds for every name that changes.)
Materialize ==
    /\ selection.pc = "materialize"
    /\ \/ (\E n \in selection.changes : ~Allowed(n)) /\ Refuse("permission")
       \/ /\ \A n \in selection.changes : Allowed(n)
          /\ selection' = [selection EXCEPT
                              !.pc = "variant",
                              !.input = [n \in ParameterNames |->
                                            IF n \in selection.changes
                                            THEN selection.candidate.params[n]
                                            ELSE content[n]]]
          /\ UNCHANGED <<site, snapshots, linking, claims, content, session, stored, plans,
                         refused, edits>>

Save(pc, record, next) ==
    /\ selection.pc = pc
    /\ stored' = stored \cup {record}
    /\ selection' = [selection EXCEPT !.pc = next]
    /\ UNCHANGED <<site, snapshots, linking, claims, content, session, plans, refused, edits>>

SaveVariant == Save("variant", "variant", "summary")

SaveSelection == Save("summary", "summary", IF selection.changes = {} THEN "plan" ELSE "request")

\* _variant_request, with the shape's resources in place of the request's; a remote site
\* without a project root has no place for the derived input.
SaveRequest ==
    \/ site.rooted /\ Save("request", "request", "plan")
    \/ ~site.rooted /\ selection.pc = "request" /\ Refuse("root")

\* _scheduler_selection, the access target, and save_plan
PlanSelection ==
    /\ selection.pc = "plan"
    /\ LET inventory == snapshots[session.snapshot].inventory
           chosen == SchedulerSelection(session.request.backend, site.hint, inventory,
                                        selection.candidate)
           plan   == [route |-> "site", snapshot |-> session.snapshot,
                      request |-> session.request, backend |-> chosen.family,
                      target |-> chosen.target, candidate |-> selection.candidate,
                      claims |-> session.claims, provider |-> session.provider,
                      changes |-> selection.changes, input |-> selection.input,
                      edited |-> selection.edited,
                      needs |-> {"summary"} \cup (IF selection.changes = {} THEN {}
                                                  ELSE {"variant", "request"})]
           why    == IF chosen.family = "ambiguous" THEN "scheduler"
                     ELSE IF chosen.target = "none" THEN "target"
                     ELSE IF ~inventory.access THEN "access"
                     ELSE IF ~SavePlan(plan) THEN "store" ELSE "none"
       IN  /\ refused' = why
           /\ plans' = IF why = "none" THEN Append(plans, plan) ELSE plans
    /\ selection' = NoSelection
    /\ UNCHANGED <<site, snapshots, linking, claims, content, session, stored, edits>>

SelectionStep ==
    \/ ReadInput \/ Materialize \/ SaveVariant \/ SaveSelection \/ SaveRequest \/ PlanSelection

-----------------------------------------------------------------------------
\* A user edits the input before a selection has read it for the last time (external).
EditInput ==
    /\ edits < MaxEdits /\ selection.pc \in {"read", "materialize"}
    /\ \E n \in ParameterNames, v \in ParameterValues :
          content' = [content EXCEPT ![n] = v]
    /\ content' # content
    /\ edits' = edits + 1
    /\ selection' = [selection EXCEPT !.edited = TRUE]
    /\ UNCHANGED <<site, snapshots, linking, claims, session, stored, plans, refused>>

\* The service stops; _site_sessions goes with it.
Restart ==
    /\ linking # 0 \/ session # NoSession
    /\ Len(plans) < MaxPlans
    /\ linking' = 0 /\ session' = NoSession /\ selection' = NoSelection
    /\ stored' = {} /\ refused' = "none"
    /\ UNCHANGED <<site, snapshots, claims, content, plans, edits>>

Next ==
    \/ Discover \/ LinkInventory \/ SubmitPolicyClaim \/ PlanRequest \/ ExploreRequest
    \/ Select \/ SelectionStep \/ EditInput \/ Restart

Spec == Init /\ [][Next]_vars

-----------------------------------------------------------------------------
Explored == session # NoSession
\* The exploration as its caller sees it, between two calls.
Shown == Explored /\ Idle
Found == session.exploration
Selected == {p \in Range(plans) : p.route = "site"}
Resolved == {p \in Range(plans) : p.route = "resolver"}
Inventory(p) == snapshots[p.snapshot].inventory
WholeSite == DiscoverSite(site, {}, TRUE, [f \in Families |-> WholeAnswer(site, f)])

\* The service's state is well formed: the exploration never holds more than Limit
\* candidates, and whatever is in progress belongs to a session.
PlanningTypeOK ==
    /\ \A i \in DOMAIN snapshots : snapshots[i].linked \in BOOLEAN
    /\ linking \in 0..Len(snapshots)
    /\ claims \subseteq Claims
    /\ content \in [ParameterNames -> ParameterValues]
    /\ Explored => /\ Len(Found.candidates) <= Limit /\ Found.pruned >= 0
                   /\ session.claims \subseteq claims
    /\ ~Idle => Explored
    /\ stored \subseteq {"variant", "summary", "request"}
    /\ refused \in {"none", "permission", "root", "scheduler", "target", "access", "store"}

ViableIn(s, shapes) ==
    {c \in {EvaluateCandidate(s.request, g, a, s.provider, s.claims) :
                g \in Range(Groups(shapes, SessionEnvironments(s))),
                a \in Range(AllAssignments(s.provider))} : c.state = "viable"}

\* An exploration that does not call itself truncated shows every viable combination of the
\* shapes it was given: pruning a group without parameters never hides a viable one.
UntruncatedIsExhaustive ==
    Shown /\ ~Found.truncated =>
        ViableIn(session, SessionShapes(session, Limit)) \subseteq Range(Found.candidates)

\* What an untruncated exploration is read as: no viable candidate exists elsewhere on the
\* site.  generate_resource_shapes cuts its list at the limit without saying so.
UntruncatedCoversSite ==
    Shown /\ ~Found.truncated =>
        ViableIn(session, SessionShapes(session, 64)) \subseteq Range(Found.candidates)

\* The service's state is well formed, the limit on candidates included, and the limit is
\* shared: one shape and environment never takes two more of the candidates than another
\* that is still open, however many assignments it has.
GroupsShareTheLimit ==
    /\ PlanningTypeOK
    /\ Shown =>
          LET count(g) == Cardinality({i \in DOMAIN Found.candidates :
                                          /\ Found.candidates[i].shape = g[1]
                                          /\ Found.candidates[i].env = g[2]})
          IN  \A g, h \in Found.expandable : count(g) <= count(h) + 1

\* A candidate that is called viable can be turned into a batch script that asks for at
\* least what the request names, on the scheduler its shape was generated for; LSF's slots
\* count ranks, not their threads.
ViableIsRenderable ==
    Shown =>
        \A c \in {x \in Range(Found.candidates) : x.state = "viable"} :
            LET h == c.shape.layout
                d == Directives(c.shape.family, h)
                r == session.request
            IN  /\ d.rendered
                /\ LET g == Grant(c.shape.family, d)
                   IN  /\ r.nodes <= g.nodes /\ r.ranks <= g.tasks /\ r.gpus <= g.gpus
                       /\ r.cpus <= g.cpus \/ (c.shape.family = "lsf" /\ h.threads_per_rank > 1)

\* A selected plan breaks no hard maximum and no denial of a claim that was known when its
\* candidate was explored, conflicting claims included.
PlanRespectsPolicy ==
    \A p \in Selected : \A c \in {d \in p.claims : PolicyApplies(d, p.candidate.shape.class)} :
        /\ c.property = "authorization" /\ c.declared => c.value # "denied"
        /\ \A q \in PolicyProperties :
              c.property = q[1] /\ c.hard => p.candidate.shape.layout[q[2]] <= c.value

\* A plan runs where it was meant to.  A scheduler the request names is the plan's on both
\* routes, whatever the site's hint (the resolver keeps "direct" too, which a selection,
\* always scheduled, does not); and a selected plan runs on the target its shape was derived
\* from, unless the request or the site names another family than the candidate's.  A
\* selection that gets as far as save_plan is not refused there: the plan's site, summary,
\* variant and targets belong together.
PlanIsForItsTarget ==
    /\ refused # "store"
    /\ \A p \in Selected :
          p.backend = p.candidate.shape.family => p.target = p.candidate.shape.target
    /\ \A p \in Range(plans) :
          p.request.backend \in Families \/ (p.route = "resolver" /\ p.request.backend = "direct")
              => p.backend = p.request.backend

\* Naming the backend of an automatic choice, its target, or both chooses the same: what was
\* chosen was not one of several.
ChoiceIsStable ==
    \A p \in Resolved :
        \A backend \in {p.request.backend, p.backend},
           target \in {p.request.target, IF p.target = "none" THEN "any" ELSE p.target} :
            LET again == ResolveExecution([p.request EXCEPT !.backend = backend,
                                                            !.target = target], Inventory(p))
            IN  again.backend = p.backend /\ again.target = p.target

\* A request that names a plan's queue by what its name was cut to means that queue.
AskedByCutName(p) ==
    \E f \in Families : \E r \in Range(site.rows[f]) :
        r.id = p.target /\ p.request.target \in r.cut_names
Meant(p) == IF AskedByCutName(p) THEN [p.request EXCEPT !.target = p.target] ELSE p.request

\* A plan never rests on something the site contradicts: what was chosen is a candidate of
\* the complete inventory as well, and whatever rules it out there the plan lists among its
\* unresolved conditions.  Failed providers, cut answers and half-read rows can make a target
\* look possible that is too small, but then the plan says that the capacity is unknown.
\* (Named exception: a queue asked for by the cut-off name under which it was listed.)
ChoiceIsReal ==
    \A p \in {q \in Resolved : q.target # "none"} :
        \E c \in Candidates(Meant(p), WholeSite) :
            c.backend = p.backend /\ c.target = p.target /\ c.excluded \subseteq p.unresolved

\* The input a plan runs on holds the candidate's value of every bound parameter, unless
\* the original was edited while it was being selected; the fields the selection changed
\* hold them in any case.
VariantMatchesCandidate ==
    \A p \in Selected :
        /\ \A n \in p.changes : p.input[n] = p.candidate.params[n]
        /\ ~p.edited => \A n \in Bound(p.provider) : p.input[n] = p.candidate.params[n]

=============================================================================
