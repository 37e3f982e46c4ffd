SPECIFICATION FairSpec
CONSTANTS
    h1 = h1
    r1 = r1
    r2 = r2
    NoRun = NoRun
    e1 = e1
    e2 = e2
    e3 = e3
    thread = thread
    w1 = w1
    t1 = t1
    t2 = t2
    v = v
    odd = odd
PROPERTIES
    RunsSettle
    ConnectionIsShown
    ProcessEnds
    ReadersGoOn
    RunsAndLooksEnd
