CONSTANTS
    None = None
    Candidates = {c1, c2, c3}
    MaxCandidates = 2
    MaxFailures = 1
    Plans = {p1, p2, p3}
    Versions = {v1, v2}
    MaxPlans = 1
    MaxConcurrent = 2
SPECIFICATION FairSpec
INVARIANTS
    PlansAreNearlyCapped
    OnePlanUnlessFailed
PROPERTIES
    ReplacementComesFirst
    PlansFollowCandidates
