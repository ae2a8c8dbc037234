-------------------------- MODULE ExecutionContract -------------------------
(***************************************************************************)
(* What remote and local scheduled execution promise about an execution    *)
(* identity, with nothing said of how: it owns at most one scheduler job,  *)
(* ever; its evidence appears at most once, only after it owns a job, and  *)
(* never changes; and the store reports an outcome for it at most once,    *)
(* namely the one that the evidence shows.                                 *)
(***************************************************************************)
CONSTANTS Execs, Jobs, Outcomes

VARIABLES
    owned,      \* owned[e]: the jobs that run e's script
    evidence,   \* evidence[e]: the published outcome, or "none"
    report      \* report[e]: the outcome that the store holds, or "none"

Init ==
    /\ owned = [e \in Execs |-> {}]
    /\ evidence = [e \in Execs |-> "none"]
    /\ report = [e \in Execs |-> "none"]

Submit(e, j) ==
    /\ owned[e] = {}
    /\ \A f \in Execs : j \notin owned[f]
    /\ owned' = [owned EXCEPT ![e] = {j}]
    /\ UNCHANGED <<evidence, report>>

Publish(e, kind) ==
    /\ owned[e] # {}
    /\ evidence[e] = "none"
    /\ evidence' = [evidence EXCEPT ![e] = kind]
    /\ UNCHANGED <<owned, report>>

Report(e) ==
    /\ evidence[e] # "none"
    /\ report[e] = "none"
    /\ report' = [report EXCEPT ![e] = evidence[e]]
    /\ UNCHANGED <<owned, evidence>>

Next ==
    \E e \in Execs :
        \/ \E j \in Jobs : Submit(e, j)
        \/ \E kind \in Outcomes : Publish(e, kind)
        \/ Report(e)

Spec == Init /\ [][Next]_<<owned, evidence, report>>
=============================================================================
