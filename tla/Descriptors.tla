---------------------------- MODULE Descriptors ----------------------------
(***************************************************************************)
(* The descriptor tables of kernel/src/sched/sched.c and the open files    *)
(* they refer to, of kernel/src/fs/fd.c.  A table changes under its own    *)
(* lock and a file's count under gfdt_lock, and no two processes share a   *)
(* table, so each call is one step.                                        *)
(***************************************************************************)
EXTENDS Naturals, FiniteSets

CONSTANTS Procs,       \* the processes, and so the tables
          File,        \* the file_t objects of file_cache
          MaxNumFds,   \* MAX_NUM_FDS
          MaxFileRefs  \* bound on the count of a file stored behind a table

ASSUME DescriptorsAssumption ==
    MaxNumFds \in Nat \ {0, 1} /\ IsFiniteSet(Procs) /\ {"null", "junk"} \cap File = {}

VARIABLES
    table,     \* per process: ufd->table
    ufdrefs,   \* per process: ufd->refs, NoTable before it is built
    filerefs,  \* per file: f->refs
    inuse,     \* the files allocated from file_cache
    wild       \* history: what was done to memory that is no file and no table

fdVars == <<table, ufdrefs, filerefs, inuse, wild>>

Fd == 0 .. MaxNumFds - 1
LastFd == MaxNumFds - 1

\* A slot holds NULL, a file, or what the memory of the table held before.
Null == "null"
Junk == "junk"
NoTable == 2

DescriptorsTypeOK ==
    /\ table \in [Procs -> [Fd -> File \cup {Null, Junk}]]
    /\ ufdrefs \in [Procs -> 0 .. NoTable]
    /\ filerefs \in [File -> Nat]
    /\ inuse \subseteq File
    /\ wild \subseteq {"get", "put", "store"}
-----------------------------------------------------------------------------
\* gfdt_get(), gfdt_put() and gfdt_free() on the counts and the set of files in
\* use.  A count of zero is left as it is and the file is freed again.  f may be
\* what an uninitialised slot holds.
gfdt_get(fs, f) ==
    IF f \in File THEN [fs EXCEPT !.refs[f] = @ + 1]
                  ELSE [fs EXCEPT !.wild = @ \cup {"get"}]

gfdt_put(fs, f) ==
    LET n == IF fs.refs[f] > 0 THEN fs.refs[f] - 1 ELSE 0
    IN  IF f \in File
        THEN [fs EXCEPT !.refs[f] = n,
                        !.inuse = IF n = 0 THEN @ \ {f} ELSE @]
        ELSE [fs EXCEPT !.wild = @ \cup {"put"}]

Files == [refs |-> filerefs, inuse |-> inuse, wild |-> wild]
SetFiles(fs) == filerefs' = fs.refs /\ inuse' = fs.inuse /\ wild' = fs.wild

IsPresent(tab, fd) == fd \in Fd /\ tab[fd] # Null

\* __ufdt_find_next(), or MaxNumFds for UFD_INVALID.
FindNext(tab) ==
    LET free == {fd \in Fd : ~IsPresent(tab, fd)}
    IN  IF free = {} THEN MaxNumFds ELSE CHOOSE fd \in free : \A g \in free : fd <= g

\* ufd_context_build() and ufd_context_dup() leave the last slot as it was.
Fresh == {[fd \in Fd |-> IF fd = LastFd THEN last ELSE Null] : last \in {Null, Junk}}
Copies(tab) == {[tab EXCEPT ![LastFd] = last] : last \in {Null, Junk}}

DescriptorsInit(root) ==
    /\ \E new \in Fresh : table = [p \in Procs |-> IF p = root THEN new
                                                   ELSE [fd \in Fd |-> Null]]
    /\ ufdrefs = [p \in Procs |-> IF p = root THEN 1 ELSE NoTable]
    /\ filerefs = [f \in File |-> 0]
    /\ inuse = {}
    /\ wild = {}

\* ufd_context_dup(): the child refers to every file of the parent but the one
\* in the last slot.
Slots(tab, f) == {fd \in Fd : tab[fd] = f}

DupContext(p, c) ==
    /\ \E copy \in Copies(table[p]) : table' = [table EXCEPT ![c] = copy]
    /\ ufdrefs' = [ufdrefs EXCEPT ![c] = 1]
    /\ filerefs' = [f \in File |->
                       filerefs[f] + Cardinality(Slots(table[p], f) \ {LastFd})]
    /\ wild' = IF \E fd \in Fd \ {LastFd} : table[p][fd] = Junk
               THEN wild \cup {"get"} ELSE wild
    /\ UNCHANGED inuse

\* ufd_context_destroy() gives the files of all the slots back.
ufd_context_destroy(p) ==
    /\ filerefs' = [f \in File |-> filerefs[f] - Cardinality(Slots(table[p], f))]
    /\ inuse' = inuse \ {f \in File : Slots(table[p], f) # {} /\ filerefs'[f] = 0}
    /\ table' = [table EXCEPT ![p] = [fd \in Fd |-> Null]]
    /\ wild' = IF \E fd \in Fd : table[p][fd] = Junk THEN wild \cup {"put"} ELSE wild

\* put_ufds() tests the count it had before: the table is not destroyed when the
\* one process that refers to it exits.
PutContext(p) ==
    /\ ufdrefs' = [ufdrefs EXCEPT ![p] = @ - 1]
    /\ IF ufdrefs[p] = 0 THEN ufd_context_destroy(p)
                         ELSE UNCHANGED <<filerefs, inuse, table, wild>>
-----------------------------------------------------------------------------
\* Mutant: the file's count is not taken.
InstallNoRef(p, fd, f, fs) ==
    /\ table' = [table EXCEPT ![p][fd] = f]
    /\ SetFiles(fs)

\* __ufdt_install() in slot fd, from the files fs.  The slot may be one behind
\* the end of the table.
Install(p, fd, f, fs) ==
    IF fd \in Fd
    THEN /\ table' = [table EXCEPT ![p][fd] = f]
         /\ SetFiles(gfdt_get(fs, f))
    ELSE /\ SetFiles([gfdt_get(fs, f) EXCEPT !.wild = @ \cup {"store"}])
         /\ UNCHANGED table

\* ufdt_add(): a file that finds no slot stays allocated, with the count it has.
ufdt_add(p, f, fs) ==
    IF FindNext(table[p]) = MaxNumFds
    THEN SetFiles(fs) /\ UNCHANGED table
    ELSE Install(p, FindNext(table[p]), f, fs)

\* gfdt_obtain() from file_cache.
gfdt_obtain(f) ==
    [refs |-> [filerefs EXCEPT ![f] = 0], inuse |-> inuse \cup {f}, wild |-> wild]

\* open(), socket() and accept().
OpenFd(p) ==
    /\ inuse # File
    /\ \E f \in {CHOOSE f \in File : f \notin inuse} : ufdt_add(p, f, gfdt_obtain(f))
    /\ UNCHANGED ufdrefs

\* Given any other descriptor, the system calls below return -EBADF.
Holds(p, fd) == IsPresent(table[p], fd)

\* close(), with ufdt_close().
CloseFd(p, fd) ==
    /\ Holds(p, fd)
    /\ SetFiles(gfdt_put(Files, table[p][fd]))
    /\ table' = [table EXCEPT ![p][fd] = Null]
    /\ UNCHANGED ufdrefs

DupFd(p, fd) ==
    /\ Holds(p, fd)
    /\ ufdt_add(p, table[p][fd], Files)
    /\ UNCHANGED ufdrefs

\* dup2(), with ufdt_replace(): close what the slot holds, then install.  No call
\* looks at whether the number fd2 is one of the table.
Dup2Fd(p, fd, fd2) ==
    /\ Holds(p, fd)
    /\ fd # fd2
    /\ fd2 \notin Fd /\ table[p][fd] \in File => filerefs[table[p][fd]] < MaxFileRefs
    /\ Install(p, fd2, table[p][fd],
               IF IsPresent(table[p], fd2) THEN gfdt_put(Files, table[p][fd2])
                                           ELSE Files)
    /\ UNCHANGED ufdrefs

\* What becomes of the tables: Tasks says which processes fork, call and exit.
DescriptorsNext ==
    \E p \in Procs :
        /\ ufdrefs[p] = 1
        /\ \/ \E c \in Procs : ufdrefs[c] = NoTable /\ DupContext(p, c)
           \/ PutContext(p)
           \/ OpenFd(p)
           \/ \E fd \in Fd : CloseFd(p, fd) \/ DupFd(p, fd)
           \/ \E fd \in Fd, fd2 \in Nat : Dup2Fd(p, fd, fd2)

DescriptorsSpec(root) == DescriptorsInit(root) /\ [][DescriptorsNext]_fdVars
-----------------------------------------------------------------------------
\* The count of an open file is the number of slots that hold it, in the tables
\* of all the processes, those of exited ones included, and no slot holds a
\* file that was freed: a file is closed exactly when its last descriptor is.
\* This is so until a call follows the last slot of a table, which nothing
\* initialises, or dup2() stores a file behind the end of the table.
FilesCounted ==
    wild = {} =>
        /\ \A f \in File :
              filerefs[f] = Cardinality({s \in Procs \X Fd : table[s[1]][s[2]] = f})
        /\ \A p \in Procs, fd \in Fd : table[p][fd] \in File => table[p][fd] \in inuse

\* ufdt_replace() closes the descriptor it replaces only if it is open, and
\* close() closes what was opened: what they close is a file.
ClosesOpenFiles == "put" \notin wild
=============================================================================
