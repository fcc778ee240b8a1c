SPECIFICATION Spec
CONSTANTS
    p1 = p1
    p2 = p2
    t1 = t1
    t2 = t2
    w1 = w1
    w2 = w2
    Tests = {p1, p2}
    Selected <- TwoAndOne
    Workspaces = {w1, w2}
    Results <- TwoResults
SYMMETRY WorkspaceSymmetry
INVARIANTS
    OneStandIn
    OpenRunsHaveDied
