--------------------------- MODULE MCRemoteBackend --------------------------
(* RemoteBackend on small instances. *)
EXTENDS RemoteBackend, TLC

Symmetry == Permutations(Jobs) \cup Permutations(Calls) \cup Permutations(Clients)
            \cup Permutations(Execs)

\* Symmetry is not sound for liveness.  There the identities are numbers, and the lowest
\* that is free comes first: which of the free ones is taken makes no difference, as nothing
\* else compares them.
LowestFirst(S, taken, before) == \A x \in taken, y \in S : y < x => y \in before
UsedJobs == {j \in Jobs : jobPhase[j] # "free"}
UsedCalls == {c \in Calls : call[c].pc # "idle"}
InTurn ==
    /\ LowestFirst(Execs, Created', Created')
    /\ LowestFirst(Jobs, UsedJobs', UsedJobs')
    /\ LowestFirst(Calls, UsedCalls' \ UsedCalls, UsedCalls)

\* BackendNext with identities in turn; the other actions take no identity.
LiveNext ==
    \/ SiteStep /\ InTurn
    \/ \E c \in Calls : SiteFault(c) \/ Discard(c)
    \/ \E p \in Clients :
        \/ ExecuteStep(p) /\ InTurn
        \/ CollectStep(p) /\ InTurn
        \/ CancelStep(p) /\ InTurn
        \/ Crash(p)

\* BackendFairSpec with identities in turn.
LiveSpec == BackendInit /\ [][LiveNext]_backendVars /\ BackendFairness
=============================================================================
