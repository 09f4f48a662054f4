SPECIFICATION Spec
CONSTANTS
    v1 = v1
    v2 = v2
    v3 = v3
    s1 = s1
    s2 = s2
    Votes = {v1, v2}
    Sides = {s1, s2}
    Leases <- EachKind
    Preferred = s1
    MaxRequestPerVoter = 2
    MaxFailures = 1
INVARIANTS TypeOK NoSplitVerdict SomebodySurvives
SYMMETRY VoteSymmetry
CHECK_DEADLOCK FALSE
