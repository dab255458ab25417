SPECIFICATION Spec
CONSTANTS
    r1 = r1
    r2 = r2
    r3 = r3
    d1 = d1
    d2 = d2
    x1 = x1
    x2 = x2
    p1 = p1
    p2 = p2
    p3 = p3
    m1 = m1
    m2 = m2
    m3 = m3
    NoMaster = NoMaster
    NoEntry = NoEntry
    NoRun = NoRun
    NoPort = NoPort
    Runs = {r1, r2, r3}
    Dests = {d1}
    Remotes = {x1, x2}
    Ports = {p1, p2, p3}
    Masters = {m1, m2}
    Slots <- Pairs
    SlotOf <- OwnSlot
    Jobs <- ReuseJobs
    Faults = {}
    Wedged = {}
SYMMETRY Sym3
INVARIANTS AtMostOneForward
