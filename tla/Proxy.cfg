CONSTANTS
    a = a
    b = b
    c = c
    d = d
    d1 = d1
    u1 = u1
    u2 = u2
    h1 = h1
    h2 = h2
    Handlers = {h1, h2}
    Batches <- MCBatches
    RealKeys = {a, b, c, d}
    Dummies = {d1}
    Rids = {u1, u2}
    Versions = {"old", "new"}
    InEtcd = {a, b, d1}
    BatchSize = 2
    Capacity = 3
    MaxTime = 2
    MaxFailures = 1
    Blank = Blank
    Nil = Nil
SPECIFICATION Spec
INVARIANTS EntriesAccounted CacheKeepsOrderOfUse HeapsOrdered EveryKeyScheduled ReadsAnsweredOnce
CHECK_DEADLOCK FALSE
