CONSTANTS
    s1 = s1
    s2 = s2
    p1 = p1
    d1 = d1
    Session = {s1, s2}
    Plan = {p1}
    creator <- MCCreator
    inRepo = {p1}
    Delegation = {d1}
    None = None
    MaxChanges = 2
SPECIFICATION Spec
INVARIANTS UnmarkedNarrativeIsTrue
PROPERTIES NarrativeCatchesUp
