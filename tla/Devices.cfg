SPECIFICATION Spec
CONSTANTS
    MaxTimers = 3
    MaxMillis = 2
    MaxTime = 2
    MaxProcs = 2
    CONSOLE_WIDTH = 3
    CONSOLE_HEIGHT = 2
    TABSTOP_WIDTH = 2
    ESCSEQ_BUFF_SIZE = 4
    Word = 8
    Counts = {0, 1, 3, 4, 5, 10, 11}
    MaxDisks = 2
    Blocks = {0, 4, 15}
    SectorBytes = 2
    CountLimit = 4
    WideLimit = 10
    WideFrom = 4
    PrdSectors = 2
    PrdtSectors = 2
    MaxPrdEntries = 5
    NumPrdtEntries = 3
    DiskSize = 15
    PartCount = 1
    Labels <- LabelSeq
    NumDrives = 1
    NumPorts = 1
    NUM_RX_DESCS = 3
    NUM_TX_DESCS = 3
    Senders = {1, 2}
    MaxFrames = 6
    MaxSends = 6
    Addr = {"a1", "a2"}
    Self = "mac1"
    Other = "mac2"
    Ip = {"ip1", "ip2"}
    Mac = {"m1", "m2"}
    MaxPackets = 4
    ARP_RETRYS = 5
    ArpProcs = {1, 2}
    HalfWord = 5
    Isns <- IsnSeq
    MaxChildren = 2
    MaxBytes = 3
    MaxRecv = 2
    RecvBuffSize = 2
    IndexSpace = 16
    TCP_SYN_RETRYS = 1
INVARIANTS TimersKept CursorOnScreen TransferExact RingsInOrder AddressLeased ArpOnce TcpInOrder ReceiverAwake
PROPERTIES AccessReturns
CHECK_DEADLOCK FALSE
