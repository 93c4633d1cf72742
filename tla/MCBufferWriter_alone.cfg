SPECIFICATION FairSpec
CONSTANTS
    e1 = e1
    e2 = e2
    w1 = w1
    w2 = w2
    t1 = t1
    t2 = t2
    Checksum = {"buffer"}
    Metadata = {"metadata"}
    Entry = {e1, e2}
    Worker = {w1, w2}
    Thread = {t1}
    MaxBacklog = 1
    Stop = Stop
    Nobody = Nobody
INVARIANTS TypeOK OneWorker OwedIsRegistered
PROPERTY FlushReturns
