SPECIFICATION FairSpec
CONSTANTS
    source = source
    part = part
    whole = whole
    plan = plan
    Checksum = {source, part, whole, plan}
    Recipe <- Chain
    Malformed <- ChainMalformed
    Asked = {whole}
    Always = {}
    InWorker = FALSE
    RecursionLimit = 4
    MaxLost = 1
    None = None
INVARIANTS HighestReported RecoverableRecovered
PROPERTY FingertipEnds
CHECK_DEADLOCK FALSE
