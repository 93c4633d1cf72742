\* A registration between the settlement of an entry and its removal is lost.
\* Not among the runs: it shows the window that OwedIsRegistered excepts.
SPECIFICATION ServiceSpec
CONSTANTS
    e1 = e1
    e2 = e2
    w1 = w1
    w2 = w2
    t1 = t1
    t2 = t2
    Checksum = {"buffer"}
    Metadata = {}
    Entry = {e1, e2}
    Worker = {w1}
    Thread = {t1, t2}
    MaxBacklog = 1
    Stop = Stop
    Nobody = Nobody
INVARIANT RegisterAdds
