\* A cycle through a celljoin, which nothing ends: the invocations nest without
\* bound.  Not among the runs: it shows why FingertipEnds excludes such cycles.
SPECIFICATION Spec
CONSTANTS
    source = source
    part = part
    whole = whole
    plan = plan
    Checksum = {part, whole, plan}
    Recipe <- CelljoinCycle
    Malformed = {}
    Asked = {part}
    Always = {plan}
    InWorker = FALSE
    RecursionLimit = 4
    MaxLost = 0
    None = None
INVARIANT NestingBounded
CHECK_DEADLOCK FALSE
