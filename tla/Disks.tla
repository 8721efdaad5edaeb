------------------------------- MODULE Disks -------------------------------
(***************************************************************************)
(* The disks: kernel/src/driver/disk/ide.c and ahci.c, which find the      *)
(* drives and read and write their sectors, the labels of fs/label/ and    *)
(* the partitions of fs/subblock.c.  The controller and the drives are     *)
(* external.  One thread makes every access, during the boot.              *)
(***************************************************************************)
EXTENDS Sums

CONSTANTS Counts,           \* the numbers of sectors of an access
          MaxDisks,         \* bound on the block devices
          Blocks,           \* the first blocks of an access
          SectorBytes,      \* ATA_SECTOR_SIZE
          CountLimit,       \* the sectors that a count of 0 stands for: 256
          WideLimit,        \* those of a count of 0 in LBA48: 65536
          WideFrom,         \* the first sector that is accessed in LBA48
          PrdSectors,       \* the sectors of a full PRD entry: 64 KB
          PrdtSectors,      \* those of an entry of the AHCI driver: 16
          MaxPrdEntries,    \* MAX_PRD_ENTRIES
          NumPrdtEntries,   \* AHCI_NUM_PRDT_ENTRIES
          NumDrives,        \* the drives of an IDE channel: a master and a slave
          NumPorts,         \* AHCI_NUM_PORTS
          DiskSize,         \* the sectors of every drive
          Labels,           \* the kinds of partition table, in the order of disk_labels
          PartCount         \* the entries of a partition table that are looked at

ASSUME DisksAssumption ==
    /\ Counts \subseteq Nat /\ Blocks \subseteq Nat /\ MaxDisks \in Nat
    /\ {SectorBytes, PrdSectors, PrdtSectors, MaxPrdEntries, NumPrdtEntries} \subseteq Nat \ {0}
    /\ SectorBytes > 1
    /\ CountLimit \in Nat \ {0} /\ WideLimit \in Nat /\ WideFrom \in Nat

VARIABLES
    enabled,   \* how many of the positions were looked at
    disks,     \* the block devices, in the order they were registered
    probe,     \* the disk whose label register_disk() looks for
    access,    \* the access in progress
    irq,       \* channels[].irq
    drive,     \* external: what the drive does
    returned,  \* the last access: on which bus, how many sectors it asked for, what
               \* it returned, how many sectors are where they belong, and whether
               \* it was refused or met an error
    dead       \* the panic that the interrupt handler ended in, or "no"

diskVars == <<enabled, disks, probe, access, irq, drive, returned, dead>>

Channels == {0, 1}
\* The drives of each channel, and the ports of an AHCI controller.
Positions == [i \in 1 .. 2 * NumDrives |->
                 [bus |-> "ide", channel |-> (i - 1) \div NumDrives]]
                 \o [i \in 1 .. NumPorts |-> [bus |-> "ahci", channel |-> 0]]
NoDisk == 0
NoAccess == [pc |-> "none"]
NoProbe == [disk |-> NoDisk, labels |-> Labels, stage |-> "start", table |-> 0]
Nothing == [bus |-> "ide", asked |-> 0, said |-> 0, did |-> 0, failed |-> TRUE]

DisksTypeOK ==
    /\ enabled \in 0 .. Len(Positions)
    /\ \A d \in DOMAIN disks : disks[d].parent \in 0 .. d - 1
    /\ probe.disk \in 0 .. Len(disks)
    /\ irq \in [Channels -> BOOLEAN]
    /\ drive \in {"idle", "busy", "interrupt", "error"}
    /\ dead \in {"no", "error", "active"}

DisksInit ==
    /\ enabled = 0
    /\ disks = <<>>
    /\ probe = NoProbe
    /\ access = NoAccess
    /\ irq = [c \in Channels |-> FALSE]
    /\ drive = "idle"
    /\ returned = Nothing
    /\ dead = "no"
-----------------------------------------------------------------------------
\* A drive that was identified becomes a block device, and register_disk() looks
\* for a label on it.
Register(pos, type, dma) ==
    /\ Len(disks) < MaxDisks
    /\ disks' = Append(disks, [bus |-> pos.bus, channel |-> pos.channel, type |-> type,
                               dma |-> dma, parent |-> NoDisk, start |-> 0,
                               size |-> DiskSize])
    /\ probe' = [NoProbe EXCEPT !.disk = Len(disks) + 1]

\* ide_enable() and port_init(): nothing answers, or what answers is of a kind
\* that is skipped; or a drive does.
ide_enable(pos) ==
    \/ UNCHANGED <<disks, probe>>
    \/ \E dma \in BOOLEAN : Register(pos, "PATA", dma)
    \/ Register(pos, "PATAPI", FALSE)

port_init(pos) == UNCHANGED <<disks, probe>> \/ Register(pos, "SATA", TRUE)

probe_position ==
    /\ access = NoAccess /\ probe = NoProbe
    /\ enabled < Len(Positions)
    /\ enabled' = enabled + 1
    /\ \E pos \in {Positions[enabled + 1]} :
          \/ pos.bus = "ide" /\ ide_enable(pos)
          \/ pos.bus = "ahci" /\ port_init(pos)
    /\ UNCHANGED <<access, irq, drive, returned, dead>>
-----------------------------------------------------------------------------
\* The descriptors of a transfer: sequences of byte counts as they are written,
\* one for each piece of the buffer.
Pieces(full, size, rest) == [i \in 1 .. full |-> size] \o IF rest = 0 THEN <<>> ELSE <<rest>>

\* Mutant: full ones while one is left, then the rest, which may be empty.
prd_tableZero(n) ==
    LET sectors == IF n = 0 THEN 2 * CountLimit ELSE n
        full == IF sectors \div PrdSectors < MaxPrdEntries
                THEN sectors \div PrdSectors ELSE MaxPrdEntries
        rest == IF full = MaxPrdEntries THEN 0 ELSE sectors - full * PrdSectors
    IN  [fields |-> [i \in 1 .. full |-> 0] \o <<rest * SectorBytes>>,
         transfered |-> full * PrdSectors + rest]

\* Those of pata_access(), in the PRD table, and what it counts as transferred:
\* full ones, written as 0, while more than one is left and there is room, then the
\* rest if there is room.
prd_table(n) ==
    LET sectors == IF n = 0 THEN 2 * CountLimit ELSE n
        full == IF (sectors - 1) \div PrdSectors < MaxPrdEntries
                THEN (sectors - 1) \div PrdSectors ELSE MaxPrdEntries
        rest == IF full = MaxPrdEntries THEN 0 ELSE sectors - full * PrdSectors
    IN  [fields |-> IF rest = PrdSectors THEN [i \in 1 .. full + 1 |-> 0]
                                         ELSE Pieces(full, 0, rest * SectorBytes),
         transfered |-> full * PrdSectors + rest]

\* Those of sata_access(), which returns 1 whatever the number of sectors.
prdt(n) ==
    LET full == IF n \div PrdtSectors < NumPrdtEntries - 1
                THEN n \div PrdtSectors ELSE NumPrdtEntries - 1
    IN  [fields |-> Pieces(full, PrdtSectors * SectorBytes,
                           (n - full * PrdtSectors) * SectorBytes),
         transfered |-> 1]

\* External: the bytes of a descriptor.  A count of 0 is 64 KB for an IDE
\* controller; AHCI counts from 0.
Length(bus, field) ==
    IF bus = "ahci" THEN field + 1 ELSE IF field = 0 THEN PrdSectors * SectorBytes ELSE field

\* External: where the pieces begin in the bytes that the drive transfers.
Begins(a) == Sums([i \in DOMAIN a.table |-> Length(a.bus, a.table[i])])

\* External: the sectors that the drive transfers for a command with this count.
Wanted(a) == IF a.count # 0 THEN a.count ELSE IF a.wide THEN WideLimit ELSE CountLimit

Room(a) == Begins(a)[Len(a.table)]
PieceBytes(bus) == SectorBytes * IF bus = "ahci" THEN PrdtSectors ELSE PrdSectors

\* The sectors, from the first, that end up where they belong in the buffer: up to
\* the first piece that begins with another byte than its own.
InPlace(a) ==
    LET whole == IF Room(a) < Wanted(a) * SectorBytes THEN Room(a) ELSE Wanted(a) * SectorBytes
        wrong == {i \in DOMAIN a.table : /\ Begins(a)[i - 1] # (i - 1) * PieceBytes(a.bus)
                                         /\ Begins(a)[i - 1] < whole}
    IN  (IF wrong = {} THEN whole
         ELSE Begins(a)[(CHOOSE i \in wrong : \A j \in wrong : i <= j) - 1]) \div SectorBytes

\* A read or write of a block device: subblock_read() looks at the first block
\* only, ide_read_sectors() at the whole range, and ahci_read() at neither; a
\* packet device transfers nothing.
Base(d) == IF disks[d].parent = NoDisk THEN d ELSE disks[d].parent
Outside(d, block) == disks[d].parent # NoDisk /\ block >= disks[d].size
Refused(d, block, n) ==
    /\ disks[d].bus = "ide"
    /\ disks[Base(d)].type = "PATAPI" \/ disks[d].start + block + n > DiskSize

\* The count that is written to the drive, and the turns of the loops of a transfer
\* without DMA.
Count(n) == IF n >= CountLimit THEN 0 ELSE n
Turns(n) == IF Count(n) = 0 THEN CountLimit ELSE n

\* pata_access() and sata_access() up to the command.
Begin(d, block, n, write) ==
    /\ IF Outside(d, block) \/ Refused(d, block, n)
       THEN /\ returned' = [Nothing EXCEPT !.asked = n,
                               !.said = IF Outside(d, block) THEN -1 ELSE 0]
            /\ UNCHANGED <<access, drive>>
       ELSE /\ \E table \in {IF disks[d].bus = "ahci" THEN prdt(n) ELSE prd_table(n)} :
                  access' = [pc |-> IF disks[d].bus = "ahci" THEN "poll"
                                    ELSE IF disks[d].dma THEN "check" ELSE "pio",
                             bus |-> disks[d].bus, channel |-> disks[d].channel,
                             asked |-> n, write |-> write,
                             wide |-> disks[d].bus = "ahci" \/ disks[d].start + block >= WideFrom,
                             count |-> IF disks[d].bus = "ahci" THEN n ELSE Count(n),
                             table |-> IF disks[d].dma THEN table.fields ELSE <<>>,
                             transfered |-> IF disks[d].dma THEN table.transfered ELSE 0,
                             done |-> 0]
            /\ drive' = "busy"
            /\ returned' = Nothing
    /\ UNCHANGED <<enabled, disks, irq, dead>>

Return(said, did, failed) ==
    /\ access' = NoAccess
    /\ returned' = [bus |-> access.bus, asked |-> access.asked, said |-> said, did |-> did,
                    failed |-> failed]

\* What ide_poll() returns on an error: -1 and -2, as bytes.
PollErrors == {CountLimit - 1, CountLimit - 2}

\* One sector of the loop of a transfer without DMA, with ide_poll().  An error
\* ends a read, with a code that is a positive number; a write goes on, and counts
\* the sector as transferred.
pio_sector ==
    /\ access.pc = "pio"
    /\ IF access.transfered = Turns(access.asked)
       THEN /\ Return(access.transfered, access.done, access.done # access.transfered)
            /\ drive' = "idle"
       ELSE \/ /\ access' = [access EXCEPT !.transfered = @ + 1, !.done = @ + 1]
               /\ UNCHANGED <<returned, drive>>
            \/ /\ access.write
               /\ access' = [access EXCEPT !.transfered = @ + 1]
               /\ UNCHANGED <<returned, drive>>
            \/ /\ ~access.write
               /\ \E code \in PollErrors : Return(code, access.done, TRUE)
               /\ drive' = "idle"
    /\ UNCHANGED <<enabled, disks, probe, irq, dead>>

\* External: the drive has transferred the sectors.  It does not come to the end
\* when the descriptors hold less.
drive_done ==
    /\ drive = "busy" /\ access.pc # "pio"
    /\ Room(access) >= Wanted(access) * SectorBytes
    /\ drive' = IF access.pc = "poll" THEN "idle" ELSE "interrupt"
    /\ UNCHANGED <<enabled, disks, probe, access, irq, returned, dead>>

\* External: the drive or the controller meets an error.
drive_error ==
    /\ drive = "busy" /\ access.pc # "pio"
    /\ drive' = "error"
    /\ UNCHANGED <<enabled, disks, probe, access, irq, returned, dead>>

\* sata_access() polls the port until the command is gone, which it never is
\* after an error.
sata_done ==
    /\ access.pc = "poll" /\ drive = "idle"
    /\ Return(access.transfered, InPlace(access), FALSE)
    /\ UNCHANGED <<enabled, disks, probe, irq, drive, dead>>

Woken == IF access.pc = "halted" THEN [access EXCEPT !.pc = "check"] ELSE access

\* The interrupt handler panics on an error, and when the controller reports that
\* descriptors are left.
Panic ==
    IF drive = "error" THEN "error"
    ELSE IF Room(access) > Wanted(access) * SectorBytes THEN "active" ELSE "no"

\* Mutant: the command is stopped and the flag is not set.
handle_irqSilent ==
    /\ drive \in {"interrupt", "error"} /\ access.pc # "poll"
    /\ drive' = "idle"
    /\ dead' = Panic
    /\ access' = Woken
    /\ UNCHANGED <<enabled, disks, probe, irq, returned>>

\* handle_irq_primary() and handle_irq_secondary(): the flag is set, and hlt()
\* returns.
handle_irq ==
    /\ drive \in {"interrupt", "error"} /\ access.pc # "poll"
    /\ drive' = "idle"
    /\ dead' = Panic
    /\ irq' = [irq EXCEPT ![access.channel] = (Panic = "no")]
    /\ access' = Woken
    /\ UNCHANGED <<enabled, disks, probe, returned>>

\* irq_wait(): the flag is looked at, then the processor halts; an interrupt
\* between the two is not noticed until the next one, such as a tick.
irq_wait ==
    /\ access.pc \in {"check", "hlt"}
    /\ IF access.pc = "hlt"
       THEN access' = [access EXCEPT !.pc = "halted"] /\ UNCHANGED <<irq, returned>>
       ELSE IF ~irq[access.channel]
       THEN access' = [access EXCEPT !.pc = "hlt"] /\ UNCHANGED <<irq, returned>>
       ELSE /\ irq' = [irq EXCEPT ![access.channel] = FALSE]
            /\ Return(access.transfered, InPlace(access), FALSE)
    /\ UNCHANGED <<enabled, disks, probe, drive, dead>>

\* The tick of the clock ends a hlt() too.
Tick ==
    /\ access.pc = "halted"
    /\ access' = Woken
    /\ UNCHANGED <<enabled, disks, probe, irq, drive, returned, dead>>
-----------------------------------------------------------------------------
\* register_disk(): the labels are tried until one fits.
Label == Head(probe.labels)
Probes(stage) == probe.disk # NoDisk /\ access = NoAccess /\ probe.stage = stage

NextLabel == IF Len(probe.labels) = 1 THEN NoProbe
             ELSE [probe EXCEPT !.labels = Tail(@), !.stage = "start"]

HeaderSector == IF Label = "gpt" THEN 1 ELSE 0

probe_read ==
    /\ Probes("start")
    /\ probe' = [probe EXCEPT !.stage = "header"]
    /\ Begin(probe.disk, HeaderSector, 1, FALSE)

\* The header was not read, or is not one of this label.
probe_fail ==
    /\ Probes("header")
    /\ probe' = NextLabel
    /\ UNCHANGED <<enabled, disks, access, irq, drive, returned, dead>>

\* register_partition(), with subblock_device_open(), of the entries in use.  The
\* last sector of a GPT entry is in the partition, and not in its size.
Part == [used : BOOLEAN, start : {1}, size : {IF Label = "gpt" THEN 1 ELSE 2}]

register_partitions(parts) ==
    /\ probe' = NoProbe
    /\ \E used \in {SelectSeq(parts, LAMBDA part : part.used)} :
          /\ Len(disks) + Len(used) <= MaxDisks
          /\ disks' = disks \o [i \in DOMAIN used |->
                                   [disks[probe.disk] EXCEPT !.parent = probe.disk,
                                       !.start = used[i].start, !.size = used[i].size]]
    /\ UNCHANGED <<enabled, access, irq, drive, returned, dead>>

msdos_probe(parts) ==
    /\ Probes("header") /\ Label = "msdos"
    /\ returned.said = 1
    /\ register_partitions(parts)

\* gpt_probe() reads the table, of n sectors, and goes through its entries.
gpt_probe_table(n) ==
    /\ Probes("header") /\ Label = "gpt"
    /\ returned.said = 1
    /\ probe' = [probe EXCEPT !.stage = "table", !.table = n]
    /\ Begin(probe.disk, 2, n, FALSE)

gpt_probe(parts) ==
    /\ Probes("table")
    /\ IF returned.said = probe.table
       THEN register_partitions(parts)
       ELSE probe' = NextLabel /\ UNCHANGED <<enabled, disks, access, irq, drive, returned, dead>>
-----------------------------------------------------------------------------
\* Any other access, through the operations of a block device.
BlockAccess ==
    /\ enabled = Len(Positions) /\ probe = NoProbe /\ access = NoAccess
    /\ \E d \in DOMAIN disks, block \in Blocks, n \in Counts,
          write \in BOOLEAN : Begin(d, block, n, write)
    /\ UNCHANGED probe

DisksNext ==
    /\ dead = "no"
    /\ \/ probe_position \/ probe_read \/ probe_fail
       \/ \E parts \in [1 .. PartCount -> Part] : msdos_probe(parts) \/ gpt_probe(parts)
       \/ \E n \in Counts : gpt_probe_table(n)
       \/ BlockAccess
       \/ pio_sector \/ drive_done \/ drive_error \/ sata_done \/ handle_irq \/ irq_wait \/ Tick

DisksSpec == DisksInit /\ [][DisksNext]_diskVars

\* Interrupts arrive, the drive answers, and the thread runs on.
DisksFairness ==
    LET alive == dead = "no"
    IN  /\ WF_diskVars(alive /\ drive_done) /\ WF_diskVars(alive /\ handle_irq)
        /\ WF_diskVars(alive /\ (irq_wait \/ pio_sector \/ sata_done))
        /\ WF_diskVars(alive /\ Tick)

\* An access to an IDE disk, with DMA or without, that is not refused and meets no
\* error returns the number of sectors that are in the buffer, each in its place;
\* and that is the number it was asked for if that is one the drive can be told,
\* whatever full and partial pieces it comes in.  Only another number makes the
\* handler find descriptors left.  An access to an AHCI disk has all its sectors in
\* their places if they fit in one descriptor.
TransferExact ==
    /\ ~returned.failed /\ returned.bus = "ide" =>
          /\ returned.said = returned.did
          /\ returned.asked \in 1 .. CountLimit => returned.said = returned.asked
    /\ ~returned.failed /\ returned.bus = "ahci" /\ returned.asked \in 1 .. PrdtSectors
          => returned.did = returned.asked
    /\ dead = "active" => access.asked \notin 1 .. CountLimit

\* A disk access returns or the kernel panics, although the interrupt may come
\* between the look at the flag and the hlt() that waits for it, if the number of
\* sectors can be told the drive in one byte, and an AHCI drive reports no error.
AccessReturns ==
    access # NoAccess /\ access.asked \in 1 .. CountLimit - 1
        ~> \/ access = NoAccess
           \/ dead # "no"
           \/ access.pc = "poll" /\ drive = "error"
=============================================================================
