SPECIFICATION FairSpec
CONSTANTS
    init = init
    child = child
    other = other
    ktaskd = ktaskd
    wk = wk
    sem = sem
    ksem = ksem
    NoCpu = NoCpu
    NoThread = NoThread
    Cpus = {c1}
    Threads = {init, child, other, ktaskd}
    UserThreads = {init, child, other}
    InitThread = init
    Ktaskd = ktaskd
    KtaskdSem = ksem
    Sems = {sem, ksem}
    Consumers <- OneConsumer
    Pollers = {init}
    Sleepers = {}
    Signalled = {init}
    Exiters = {child}
    MaxCount = 0
    MaxReqs = 1
INVARIANTS
    NoPanic
    PollListSound
PROPERTIES
    WaitReturns
    RequestServed
