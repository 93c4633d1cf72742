SPECIFICATION Spec
CONSTANTS
    e1 = e1
    e2 = e2
    c1 = c1
    c2 = c2
    c3 = c3
    l1 = l1
    l2 = l2
    Key = {"key"}
    Evaluation = {e1, e2}
    Caller = {c1, c2}
    Loop = {l1, l2}
    Brief = {}
    LoopOf <- OwnLoops
    MemberOf <- OwnMembers
    Request <- LocalRequest
    Earlier <- Fresh
    MaxTimers = 2
    Nobody = Nobody
SYMMETRY Symmetry
VIEW View
PROPERTY LingerInFull
