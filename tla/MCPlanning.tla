------------------------------ MODULE MCPlanning ------------------------------
EXTENDS PlanningService

Row(id, family, class, cpus, gpus, nodes) ==
    [id |-> id, family |-> family, class |-> class,
     cut_names |-> IF family = "pbs" THEN {"bat"} ELSE {}, cpus_per_node |-> cpus,
     gpus_per_node |-> gpus, total_cpus |-> cpus * nodes, visible_nodes |-> nodes,
     visible |-> TRUE]

Current(observed) == [id |-> "current", observed |-> observed, activates |-> TRUE]

Of(elements, Keys, Key(_)) == [k \in Keys |-> SelectSeq(elements, LAMBDA e : Key(e) = k)]

Site(rows, executable, gpus, contexts, hint) ==
    [rows |-> Of(rows, Families, LAMBDA r : r.family),
     installed |-> {r.family : r \in ToSet(rows)}, executable |-> executable, gpus |-> gpus,
     contexts |-> Of(contexts, {"current", "conda", "virtualenv"}, LAMBDA c : c.id),
     hint |-> hint, rooted |-> hint # "none"]

\* A partition with two kinds of node; Slurm beside PBS; LSF alone.
MCSites ==
    {Site(<<Row("s1", "slurm", "batch", 4, 1, 2), Row("s2", "slurm", "batch", 8, None, 4)>>,
          "observed", 1, <<Current({"mpi"})>>, "auto"),
     Site(<<Row("s1", "slurm", "batch", 4, 2, 2), Row("p1", "pbs", "batch", 4, None, 2)>>,
          "missing", 0, <<Current({}), [id |-> "conda", observed |-> {"mpi"},
                                        activates |-> TRUE]>>, "slurm"),
     Site(<<Row("l1", "lsf", "batch", 4, None, 2)>>, "observed", 0,
          <<Current({"mpi"}), [id |-> "virtualenv", observed |-> {}, activates |-> TRUE]>>, "none")}

Request(backend, target, nodes, cpus, ranks, gpus) ==
    [backend |-> backend, target |-> target, context |-> "any", nodes |-> nodes, cpus |-> cpus,
     ranks |-> ranks, gpus |-> gpus, launcher |-> FALSE]

MCRequests ==
    {Request("auto", "any", None, None, None, None),
     Request("auto", "any", None, 8, None, None),
     Request("auto", "any", 2, 4, None, 1),
     Request("auto", "any", None, 4, 2, 2),
     Request("slurm", "any", 2, 4, 2, None),
     Request("auto", "batch", 1, 4, None, None),
     Request("auto", "bat", None, 4, None, None),
     Request("pbs", "any", None, None, 2, None),
     Request("direct", "any", None, 1, None, 1),
     Request("direct", "any", None, 1, None, None),
     [Request("auto", "any", None, 1, 1, None) EXCEPT !.context = "current"]}

Parameter2(name, values, class, contract, equivalent) ==
    [name |-> name, values |-> values, bound |-> TRUE, class |-> class, contract |-> contract,
     equivalent |-> equivalent]

Equal(left, right) == [left |-> left, right |-> right, operator |-> "equal", hard |-> TRUE]
Res(name) == [key |-> "resource", value |-> name]
Par(name) == [key |-> "parameter", value |-> name]

\* None; two bound parameters; one that fixes the node count.
MCProviders ==
    {NoProvider,
     [parameters |-> <<Parameter2("a", <<1, 2>>, "execution_only", TRUE, TRUE),
                       Parameter2("b", <<1, 2>>, "performance_tunable", TRUE, TRUE)>>,
      constraints |-> {}, requires |-> {}, launchers |-> {"mpi"}],
     [parameters |-> <<Parameter2("a", <<2, 1>>, "semantic", FALSE, FALSE)>>,
      constraints |-> {Equal(Res("nodes"), Par("a"))}, requires |-> {"mpi"},
      launchers |-> {}]}

Claim(property, value, hard, scope) ==
    [property |-> property, value |-> value, hard |-> hard, declared |-> TRUE, scope |-> scope]

MCClaims ==
    {Claim("authorization", "authorized", FALSE, "global"),
     Claim("authorization", "denied", FALSE, "batch"),
     Claim("max_nodes", 1, TRUE, "batch"),
     Claim("max_nodes", 2, TRUE, "global")}

=============================================================================
