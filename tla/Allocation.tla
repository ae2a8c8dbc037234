----------------------------- MODULE Allocation -----------------------------
(***************************************************************************)
(* From a plan's resource shape to the compute worker's preflight: the    *)
(* directives backends.py renders for Slurm, PBS and LSF, what such a     *)
(* scheduler grants and shows the job (external), what compute_worker.py   *)
(* reads off its environment, and the shortfall it reports.               *)
(***************************************************************************)
EXTENDS Integers, Sequences, FiniteSets, SequencesExt

None == -1

Divides(d, n) == d = None \/ n = None \/ n % d = 0
Per(total, count) == IF None \in {total, count} THEN None ELSE total \div count

\* The shape _generated_target_shapes builds from a node count, a CPU total, ranks and
\* GPUs; only LSF keeps an unknown node count.
DerivedShape(nodes, cpus, ranks, gpus) ==
    LET total == IF cpus = None THEN nodes ELSE cpus
    IN  [nodes |-> nodes, total_cpus |-> total, cpus_per_node |-> Per(total, nodes),
         mpi_ranks |-> ranks, ranks_per_node |-> Per(ranks, nodes),
         threads_per_rank |-> Per(total, ranks), gpus |-> gpus,
         gpus_per_node |-> Per(gpus, nodes)]

\* Mutant: only the CPUs are divided.
DivisibleCpus(nodes, cpus, ranks, gpus) ==
    Divides(nodes, IF cpus = None THEN nodes ELSE cpus)

\* The layouts it skips: what does not divide evenly over nodes and ranks.
Divisible(nodes, cpus, ranks, gpus) ==
    LET total == IF cpus = None THEN nodes ELSE cpus
    IN  /\ Divides(nodes, total) /\ Divides(nodes, ranks)
        /\ Divides(ranks, total) /\ Divides(nodes, gpus)

Families == {"slurm", "pbs", "lsf"}

-----------------------------------------------------------------------------
\* _shape_threads_per_rank; Uneven where it raises.
Uneven == -2

ThreadsPerRank(h) ==
    IF h.threads_per_rank # None THEN h.threads_per_rank
    ELSE IF h.total_cpus = None \/ h.mpi_ranks = None THEN None
    ELSE IF h.total_cpus % h.mpi_ranks # 0 THEN Uneven
    ELSE h.total_cpus \div h.mpi_ranks

OrOne(n) == IF n = None THEN 1 ELSE n

\* _shape_per_node
PerNode(total, each, nodes) ==
    IF each # None THEN each
    ELSE IF total = None THEN None
    ELSE IF total % OrOne(nodes) # 0 THEN Uneven
    ELSE total \div OrOne(nodes)

\* What a rendered batch script asks for.  A renderer that raises asks for nothing.
Unrendered == [rendered |-> FALSE]

\* (Plans without a shape take other branches of the three functions, left out here.)
\* _slurm_directives: --nodes, --ntasks, --ntasks-per-node, --cpus-per-task, and
\* --gpus-per-node or --gpus.
SlurmDirectives(h) ==
    LET threads == ThreadsPerRank(h)
        perTask == IF threads # None \/ h.mpi_ranks # None THEN threads
                   ELSE IF h.cpus_per_node # None THEN h.cpus_per_node
                   ELSE h.total_cpus
        perNode == IF threads = None /\ h.mpi_ranks = None /\ h.cpus_per_node # None
                   THEN 1 ELSE h.ranks_per_node
        unplaced == /\ threads = None /\ h.mpi_ranks = None /\ h.cpus_per_node = None
                    /\ h.total_cpus # None /\ h.nodes \notin {None, 1}
    IN  IF threads = Uneven \/ unplaced THEN Unrendered
        ELSE [rendered |-> TRUE, nodes |-> h.nodes, tasks |-> h.mpi_ranks,
              tasks_per_node |-> perNode, cpus_per_task |-> perTask,
              gpus_per_node |-> h.gpus_per_node,
              gpus |-> IF h.gpus_per_node = None THEN h.gpus ELSE None]

\* _pbs_directives: select=nodes:ncpus=:ngpus=:mpiprocs=, all per node.
PbsDirectives(h) ==
    LET cpus == PerNode(h.total_cpus, h.cpus_per_node, h.nodes)
        gpus == PerNode(h.gpus, h.gpus_per_node, h.nodes)
        ranks == PerNode(h.mpi_ranks, h.ranks_per_node, h.nodes)
    IN  IF Uneven \in {cpus, gpus, ranks} THEN Unrendered
        ELSE [rendered |-> TRUE, nodes |-> OrOne(h.nodes), tasks |-> ranks, cpus |-> cpus,
              gpus |-> gpus]

\* _lsf_directives: -n slots, span[ptile=...] or span[hosts=1]; GPUs are refused.
LsfDirectives(h) ==
    LET slots == IF h.mpi_ranks # None THEN h.mpi_ranks ELSE h.total_cpus
        perHost == IF h.mpi_ranks # None THEN h.ranks_per_node ELSE h.cpus_per_node
        placed == perHost # None /\ slots = h.nodes * perHost
    IN  IF \/ h.nodes # None /\ slots = None
           \/ h.nodes \notin {None, 1} /\ ~placed
           \/ h.gpus \notin {None, 0}
        THEN Unrendered
        ELSE [rendered |-> TRUE, slots |-> OrOne(slots),
              hosts |-> IF h.nodes # None THEN h.nodes
                        ELSE IF perHost # None
                             THEN (OrOne(slots) + perHost - 1) \div perHost ELSE 1]

\* render_batch_script
Directives(family, h) ==
    CASE family = "slurm" -> SlurmDirectives(h)
      [] family = "pbs"   -> PbsDirectives(h)
      [] family = "lsf"   -> LsfDirectives(h)

-----------------------------------------------------------------------------
\* A scheduler that grants exactly what was asked (external): nodes, tasks, CPUs, GPUs.
OrZero(n) == IF n = None THEN 0 ELSE n

Grant(family, d) ==
    CASE family = "slurm" ->
            LET nodes == OrOne(d.nodes)
                tasks == IF d.tasks # None THEN d.tasks ELSE nodes * OrOne(d.tasks_per_node)
            IN  [nodes |-> nodes, tasks |-> tasks, cpus |-> tasks * OrOne(d.cpus_per_task),
                 gpus |-> IF d.gpus_per_node # None THEN nodes * d.gpus_per_node
                          ELSE OrZero(d.gpus)]
      [] family = "pbs" ->
            [nodes |-> d.nodes, tasks |-> d.nodes * OrOne(d.tasks),
             cpus |-> d.nodes * OrOne(d.cpus), gpus |-> d.nodes * OrZero(d.gpus)]
      [] family = "lsf" ->
            [nodes |-> d.hosts, tasks |-> d.slots, cpus |-> d.slots, gpus |-> 0]

\* The allocation variables a scheduler may set for its job (external).
Variables(family) ==
    CASE family = "slurm" -> {"SLURM_JOB_NUM_NODES", "SLURM_NTASKS", "SLURM_CPUS_ON_NODE",
                              "SLURM_JOB_CPUS_PER_NODE", "SLURM_GPUS", "CUDA_VISIBLE_DEVICES"}
      [] family = "pbs"   -> {"PBS_NP", "CUDA_VISIBLE_DEVICES"}
      [] family = "lsf"   -> {"LSB_MCPU_HOSTS", "LSB_HOSTS", "LSB_DJOB_NUMPROC"}

\* Slurm's run-length layout of the CPUs on each node, "cpus(xnodes),...": a run of
\* full nodes, then what is left.
CpuLayout(g) ==
    LET share == (g.cpus + g.nodes - 1) \div g.nodes
        last  == g.cpus - share * (g.nodes - 1)
    IN  IF last = share \/ g.nodes = 1 THEN << <<share, g.nodes>> >>
        ELSE << <<share, g.nodes - 1>>, <<last, 1>> >>

\* _parse_slurm_cpus_per_node: the runs, expanded.
ParseCpusPerNode(layout) ==
    FlattenSeq([i \in DOMAIN layout |-> [n \in 1..layout[i][2] |-> layout[i][1]]])

\* _allocated_gpu_count: the devices this node shows, else the job's total.
AllocatedGpus(g, visible) ==
    IF "CUDA_VISIBLE_DEVICES" \in visible THEN (g.gpus + g.nodes - 1) \div g.nodes
    ELSE IF "SLURM_GPUS" \in visible THEN g.gpus
    ELSE None

Total(s) ==
    LET upto[i \in 0..Len(s)] == IF i = 0 THEN 0 ELSE upto[i - 1] + s[i] IN upto[Len(s)]

\* Mutant: the CPUs of this node are taken for the job's, and the layout is not read.
ObservedOneNode(g, visible) ==
    LET sees(v) == v \in visible
        lsf     == sees("LSB_MCPU_HOSTS")
    IN  [nodes     |-> IF lsf \/ sees("LSB_HOSTS") \/ sees("SLURM_JOB_NUM_NODES") THEN g.nodes
                       ELSE None,
         mpi_ranks |-> IF sees("SLURM_NTASKS") \/ sees("LSB_DJOB_NUMPROC") THEN g.tasks
                       ELSE None,
         cpus      |-> IF sees("SLURM_CPUS_ON_NODE") THEN g.cpus \div g.nodes
                       ELSE IF lsf \/ sees("PBS_NP") THEN g.cpus
                       ELSE None,
         gpus      |-> AllocatedGpus(g, visible)]

\* _observe_allocation of a scheduled job: what it establishes, None where it cannot.
Observed(g, visible) ==
    LET sees(v) == v \in visible
        layout  == ParseCpusPerNode(CpuLayout(g))
        lsf     == sees("LSB_MCPU_HOSTS")
        nodes   == IF lsf \/ sees("LSB_HOSTS") \/ sees("SLURM_JOB_NUM_NODES") THEN g.nodes
                   ELSE IF sees("SLURM_JOB_CPUS_PER_NODE") THEN Len(layout) ELSE None
    IN  [nodes     |-> nodes,
         mpi_ranks |-> IF sees("SLURM_NTASKS") \/ sees("LSB_DJOB_NUMPROC") THEN g.tasks
                       ELSE None,
         cpus      |-> IF sees("SLURM_JOB_CPUS_PER_NODE") THEN Total(layout)
                       ELSE IF sees("SLURM_CPUS_ON_NODE") /\ nodes = 1 THEN layout[1]
                       ELSE IF lsf \/ sees("PBS_NP") THEN g.cpus
                       ELSE None,
         gpus      |-> AllocatedGpus(g, visible)]

\* The resource loop of _preflight, for a plan with a shape.
Shortfall(h, o) ==
    LET below(required, observed) ==
            required # None /\ observed # None /\ observed < required
    IN  \/ below(h.nodes, o.nodes)
        \/ below(h.total_cpus, o.cpus)
        \/ below(h.gpus, o.gpus)
        \/ below(h.mpi_ranks, o.mpi_ranks)

\* Where the observation is narrower than the request: CUDA_VISIBLE_DEVICES lists one
\* node's devices, and LSF's -n counts ranks, not their threads.
KnownMisread(family, h) ==
    \/ h.gpus > 0 /\ Grant(family, Directives(family, h)).nodes > 1
    \/ family = "lsf" /\ h.threads_per_rank > 1

=============================================================================
