------------------------------ MODULE Discovery ------------------------------
(***************************************************************************)
(* discover_site (discovery.py) and its providers: what one snapshot holds *)
(* of a site when some of the providers fail, time out, are cut off or     *)
(* read rows they cannot parse.  A provider is isolated: an exception is   *)
(* an empty output, and the providers that need what it would have left    *)
(* fail in turn.                                                           *)
(*                                                                         *)
(* A site has rows (each scheduler's partitions or queues), the schedulers *)
(* that are installed, contexts with the capabilities they show, whether   *)
(* the requested executable is on the PATH, and the login node's GPUs.     *)
(* What is read of a row may be less than the row: a target can lose its   *)
(* last fields, or the end of its name, and still be listed.               *)
(***************************************************************************)
EXTENDS Allocation

Isolated == {"current_target", "current_environment", "path", "conda", "virtualenv"}

\* What there may be to discover; cut_names are what a queue's name may be cut to.
Counts == Nat \cup {None}
SiteRows == [id : STRING, family : Families, class : STRING, cut_names : SUBSET STRING,
             cpus_per_node : Counts,
             gpus_per_node : Counts, total_cpus : Counts, visible_nodes : Counts,
             visible : BOOLEAN]
SiteContexts == [id : STRING, observed : SUBSET STRING, activates : BOOLEAN]
SiteRecords ==
    [rows : [Families -> Seq(SiteRows)], installed : SUBSET Families,
     executable : {"observed", "historical", "missing"}, gpus : Nat,
     contexts : [{"current", "conda", "virtualenv"} -> Seq(SiteContexts)],
     hint : STRING, rooted : BOOLEAN]

\* What a row of sinfo, qstat -Qf and bqueues says of its target.
SlurmTarget(row) == [row EXCEPT !.total_cpus = None]
PbsTarget(row) == [row EXCEPT !.cpus_per_node = None, !.gpus_per_node = None,
                              !.visible_nodes = None]
LsfTarget(row) == [row EXCEPT !.cpus_per_node = None, !.gpus_per_node = None,
                              !.visible_nodes = None, !.total_cpus = None]

RowTarget(row) ==
    CASE row.family = "slurm" -> SlurmTarget(row)
      [] row.family = "pbs"   -> PbsTarget(row)
      [] row.family = "lsf"   -> LsfTarget(row)

\* What is read of a row that is cut off or partly unreadable.  sinfo's last field is the
\* GPUs, which may be gone, or added up from the part that is left; a queue of qstat is kept
\* with its name alone, with a part of its name, or without its last digits, and a line of it
\* that does not parse is skipped.  A row that lost any other field is dropped, as is every
\* incomplete row of bqueues.  (A "Queue:" line so garbled that the queue before it takes
\* its fields is left out; a part of the GPUs may be any smaller number.)
Readings(row) ==
    CASE row.family = "slurm" ->
            {[row EXCEPT !.gpus_per_node = n] : n \in {None, row.gpus_per_node}
                                                         \cup 1..row.gpus_per_node}
      [] row.family = "pbs" ->
            {[row EXCEPT !.total_cpus = n] : n \in {None, row.total_cpus}
                                                      \cup {k \in 1..row.total_cpus :
                                                               10 * k <= row.total_cpus}}
                \cup {[row EXCEPT !.class = n, !.total_cpus = None] : n \in row.cut_names}
      [] row.family = "lsf" -> {row}

\* What a provider makes of its command: no scheduler, or one with the rows it read.
NoAnswer == [answered |-> FALSE, rows |-> <<>>]
Answer(rows) == [answered |-> TRUE, rows |-> rows]

\* Some of the rows, in their order, each as it was read.
InOrder(m, n) == {g \in [1..m -> 1..n] : \A i, j \in 1..m : i < j => g[i] < g[j]}
PartialRows(own) ==
    UNION {{a \in [1..m -> UNION {Readings(r) : r \in Range(own)}] :
               \E g \in InOrder(m, Len(own)) : \A i \in 1..m : a[i] \in Readings(own[g[i]])} :
           m \in 0..Len(own)}

\* The command fails, times out or is answered by nothing that parses; only the allocation
\* is seen; or rows are read, all of them as they are at best.
Answers(site, family) ==
    {NoAnswer} \cup (IF family \in site.installed
                     THEN {Answer(a) : a \in PartialRows(site.rows[family])} ELSE {})
WholeAnswer(site, family) ==
    IF family \in site.installed THEN Answer(site.rows[family]) ELSE NoAnswer

\* SlurmProvider, PBSProvider, LSFProvider
SchedulerOutput(family, answer) ==
    LET read == answer.rows
    IN  IF ~answer.answered THEN [schedulers |-> <<>>, targets |-> <<>>]
        ELSE [schedulers |-> <<[family |-> family, targets |-> {r.id : r \in ToSet(read)}]>>,
              targets |-> [i \in DOMAIN read |-> RowTarget(read[i])]]

\* PathExecutableProvider, for the executable the resolver will look for: without the scan,
\* or a context to attach it to, it is not found.
PathScan(site, raised) ==
    IF {"path", "current_environment"} \cap raised = {} THEN site.executable ELSE "missing"

\* _executable_state: nothing can be known of it without the current context.
ExecutableState(site, raised) ==
    IF "current_environment" \in raised THEN "unknown" ELSE PathScan(site, raised)

\* CurrentEnvironmentProvider
CurrentContexts(site, raised) ==
    IF "current_environment" \in raised THEN <<>> ELSE site.contexts["current"]

\* CondaProvider and VirtualenvProvider attach what they find to the current context, and
\* raise where there is none.
FurtherContexts(site, raised) ==
    LET own(kind) == IF {kind, "current_environment"} \cap raised = {}
                     THEN site.contexts[kind] ELSE <<>>
    IN  own("conda") \o own("virtualenv")

\* CurrentTargetProvider: when the system collector fails no GPU is recorded.
GpuCount(site, collected) == IF collected THEN site.gpus ELSE 0

\* discover_site: the merged outputs, in the order of default_providers.
DiscoverSite(site, raised, collected, answers) ==
    LET out(f) == SchedulerOutput(f, answers[f])
    IN  [access     |-> "current_target" \notin raised,
         gpus       |-> GpuCount(site, collected),
         executable |-> ExecutableState(site, raised),
         contexts   |-> CurrentContexts(site, raised) \o FurtherContexts(site, raised),
         schedulers |-> out("slurm").schedulers \o out("pbs").schedulers
                            \o out("lsf").schedulers,
         targets    |-> out("slurm").targets \o out("pbs").targets \o out("lsf").targets]

=============================================================================
