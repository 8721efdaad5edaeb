SPECIFICATION Spec
CONSTANTS
    init = init
    child = child
    other = other
    ktaskd = ktaskd
    wk = wk
    sem = sem
    ksem = ksem
    NoCpu = NoCpu
    NoThread = NoThread
    Cpus = {c1, c2}
    Threads = {init, child, ktaskd, wk}
    UserThreads = {init, child}
    InitThread = init
    Ktaskd = ktaskd
    KtaskdSem = ksem
    Sems = {sem, ksem}
    Consumers <- OneConsumer
    Pollers = {init}
    Sleepers = {init}
    Signalled = {child}
    Exiters = {child}
    MaxCount = 1
    MaxReqs = 1
SYMMETRY CpuSymmetry
INVARIANTS
    IInv
    NoPanic
    RunQueueSound
    KtaskdCountsRequests
    NoForgottenThread
    NoLostWakeup
