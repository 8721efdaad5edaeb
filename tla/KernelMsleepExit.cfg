SPECIFICATION Spec
CONSTANTS
    init = init
    child = child
    other = other
    ktaskd = ktaskd
    wk = wk
    sem = sem
    ksem = ksem
    NoCpu = NoCpu
    NoThread = NoThread
    Cpus = {c1}
    Threads = {init, child, ktaskd}
    UserThreads = {init, child}
    InitThread = init
    Ktaskd = ktaskd
    KtaskdSem = ksem
    Sems = {sem, ksem}
    Consumers <- OneConsumer
    Pollers = {init}
    Sleepers = {child}
    Signalled = {child}
    Exiters = {child}
    MaxCount = 0
    MaxReqs = 0
INVARIANTS
    RunQueueSound
