CONSTANTS
    Sites <- MCSites
    Requests <- MCRequests
    Providers <- MCProviders
    Claims <- MCClaims
    LargestCount = 8
    Limit = 3
    MaxClaims = 3
    MaxSnapshots = 1
    MaxPlans = 1
    MaxEdits = 1
    MaxFaults = 1
SPECIFICATION Spec
CHECK_DEADLOCK FALSE
INVARIANTS
    UntruncatedIsExhaustive GroupsShareTheLimit ViableIsRenderable PlanRespectsPolicy
    PlanIsForItsTarget ChoiceIsStable ChoiceIsReal VariantMatchesCandidate
