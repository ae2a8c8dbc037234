--------------------------- MODULE MCLocalBackend ---------------------------
(* LocalBackend on a small instance. *)
EXTENDS LocalBackend

\* Identities and clients are numbers here, and the lowest that is free comes first.  Which
\* of the free ones is taken makes no difference, as nothing else compares them.
LowestFirst(S, taken, before) == \A x \in taken, y \in S : y < x => y \in before
UsedJobs == {j \in Jobs : jobPhase[j] # "free"}
Active == {p \in Clients : client[p] # IdleClient}
InTurn ==
    /\ LowestFirst(Execs, Created', Created')
    /\ LowestFirst(Jobs, UsedJobs', UsedJobs')
    /\ LowestFirst(Clients, Active' \ Active, Active)

\* LocalNext with executes one after the other, the hypothesis of LostJobBlocksPlan.  Only
\* an execute that starts can break OneExecute.
MCNext ==
    \/ PlaneNext /\ UNCHANGED <<storeVars, family, client, spent>>
    \/ \E p \in Clients :
        \/ ExecuteStep(p) /\ OneExecute' /\ InTurn
        \/ CommandStep(p) /\ InTurn
        \/ Crash(p)
        \/ \E j \in Jobs : CrashInSubmit(p, j) /\ InTurn

\* LocalFairSpec with these steps.
MCSpec == LocalInit /\ [][MCNext]_localVars /\ LocalFairness
=============================================================================
