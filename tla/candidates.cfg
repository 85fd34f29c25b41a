CONSTANTS
    None = None
    l1 = l1
    l2 = l2
    s1 = s1
    Keys = {l1, l2, s1}
    DirectionOf <- MCDirectionOf
    Candidates = {c1, c2, c3}
    MaxCandidates = 2
    MaxCrashes = 1
    MaxFaults = 1
SPECIFICATION Spec
SYMMETRY MCSymmetry
PROPERTIES
    ClosedSetupsStayAway
    ImplementsResearchCandidates
