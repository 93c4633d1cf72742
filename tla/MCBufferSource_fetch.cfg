SPECIFICATION FairSpec
CONSTANTS
    c1 = c1
    c2 = c2
    c3 = c3
    f1 = f1
    f2 = f2
    f3 = f3
    Caller = {c1, c2, c3}
    Task = {f1, f2}
    Owner = {"mount", "folder"}
    Getters <- BothGetters
    Trusted = {"folder"}
    Nothing = Nothing
INVARIANTS LookupWanted
PROPERTIES SharedFetchSpec LookupReturns
