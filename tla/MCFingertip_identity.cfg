SPECIFICATION Spec
CONSTANTS
    source = source
    part = part
    whole = whole
    plan = plan
    Checksum = {whole}
    Recipe <- Identity
    Malformed = {}
    Asked = {whole}
    Always = {}
    InWorker = FALSE
    RecursionLimit = 5
    MaxLost = 0
    None = None
INVARIANT FallsBack
CHECK_DEADLOCK FALSE
