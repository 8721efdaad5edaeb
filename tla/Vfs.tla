-------------------------------- MODULE Vfs --------------------------------
(***************************************************************************)
(* Path names, of kernel/src/fs/vfs.c, with the two file systems that are  *)
(* mounted: a ramfs at the root and the devfs of fs/type/devfs.c on        *)
(* /dev.  A path is [abs, segs]: it starts with a separator or not, and    *)
(* its segments.  Each call is one step, although vfs.c takes no lock      *)
(* around a walk.                                                          *)
(***************************************************************************)
EXTENDS Integers, Sequences

CONSTANTS Name,          \* the names of files and directories
          DevName,       \* the names of devices
          Mntpoint,      \* mntpoint, one name below the root
          Longer,        \* the pairs <<short, long>> of names with the same hash of
                         \* which short is the beginning of long
          MaxDentries,   \* bound on the directory entries
          MaxPath        \* bound on the length of a path

ASSUME VfsAssumption ==
    /\ MaxDentries \in Nat /\ MaxPath \in Nat
    /\ Longer \subseteq (Name \cup DevName \cup {Mntpoint}) \X (Name \cup DevName \cup {Mntpoint})
    /\ {".", ".."} \cap (DevName \cup {Mntpoint}) = {}

VARIABLES
    dentries,  \* a sequence of [name, parent, kids, dir, mountpoint, devfs]
    mounts,    \* a sequence of [parent, mountpoint, root]; the first is root_mount
    devices,   \* devfs_pending, first element first
    booted,    \* the initcalls have run
    nullcall,  \* the kernel has called ops->create of an inode without one
    pwd,       \* fs->pwd of a process: [mount, dentry]
    dirfile    \* a directory the process lists: its dentry, the offset of the
               \* file; history: the entries returned, and how many entries
               \* there were in all when it was opened

pathVars == <<dentries, mounts, devices, booted, nullcall, pwd, dirfile>>

Seg == Name \cup DevName \cup {Mntpoint, ".", ".."}
NoDentry == 0
RootDentry == 1
DevRoot == 2

Fill(isdevfs) == [name |-> "", parent |-> NoDentry, kids |-> <<>>, dir |-> TRUE,
                  mountpoint |-> FALSE, devfs |-> isdevfs]

MntRoot(m) == [mount |-> m, dentry |-> mounts[m].root]
RootPath == [mount |-> 1, dentry |-> RootDentry]

VfsTypeOK ==
    /\ \A d \in DOMAIN dentries :
          /\ dentries[d].parent \in 0 .. Len(dentries)
          /\ \A i \in DOMAIN dentries[d].kids :
                dentries[dentries[d].kids[i]].parent = d
    /\ Len(mounts) \in 1 .. 2
    /\ nullcall \in BOOLEAN
    /\ pwd.mount \in DOMAIN mounts /\ pwd.dentry \in DOMAIN dentries

\* vfs_root_mount(); the root that devfs_fill() builds is there from the start.
VfsInit ==
    /\ dentries = <<Fill(FALSE), Fill(TRUE)>>
    /\ mounts = <<[parent |-> 0, mountpoint |-> NoDentry, root |-> RootDentry]>>
    /\ devices = <<>>
    /\ booted = FALSE
    /\ nullcall = FALSE
    /\ pwd = RootPath
    /\ dirfile = [dentry |-> NoDentry, offset |-> 0, listed |-> {}, since |-> 0]
-----------------------------------------------------------------------------
\* get_mount(), which the callers below know to succeed.
get_mount(at) ==
    CHOOSE m \in DOMAIN mounts :
        mounts[m].parent = at.mount /\ mounts[m].mountpoint = at.dentry

\* A walk that reaches a mountpoint goes on at the root mounted there.
Descend(at) ==
    IF at.dentry # NoDentry /\ dentries[at.dentry].mountpoint
    THEN MntRoot(get_mount(at)) ELSE at

\* Mutant: the mount stays the one that is left.
UpSameMount(at) ==
    LET below == IF dentries[at.dentry].parent = NoDentry /\ at.mount # 1
                 THEN [at EXCEPT !.dentry = mounts[at.mount].mountpoint]
                 ELSE at
        parent == dentries[below.dentry].parent
    IN  IF parent = NoDentry THEN below ELSE [below EXCEPT !.dentry = parent]

\* "..": from the root of a mount, first to its mountpoint.
Up(at) ==
    LET below == IF dentries[at.dentry].parent = NoDentry /\ at.mount # 1
                 THEN [mount |-> mounts[at.mount].parent,
                       dentry |-> mounts[at.mount].mountpoint]
                 ELSE at
        parent == dentries[below.dentry].parent
    IN  IF parent = NoDentry THEN below ELSE [below EXCEPT !.dentry = parent]

\* The search compares as many characters as the segment has, so that it also
\* finds a longer name in the same bucket.
Match(segment, name) == name = segment \/ <<segment, name>> \in Longer

\* The first child that the search for a name finds, newest first.
Child(d, name) ==
    LET kids == dentries[d].kids
        found == {i \in DOMAIN kids : Match(name, dentries[kids[i]].name)}
    IN  IF found = {} THEN NoDentry
                      ELSE kids[CHOOSE i \in found : \A j \in found : i <= j]

\* One turn of the loop of vfs_lookup(); the file systems look no name up
\* themselves.
LookupSegment(at, seg) ==
    IF at.dentry = NoDentry
    THEN at
    ELSE LET here == Descend(at)
         IN  CASE ~dentries[here.dentry].dir -> [here EXCEPT !.dentry = NoDentry]
               [] dentries[here.dentry].dir /\ seg = "." -> here
               [] dentries[here.dentry].dir /\ seg = ".." -> Up(here)
               [] OTHER -> [here EXCEPT !.dentry = Child(@, seg)]

\* The loop.
Walk(start, segs) ==
    LET at[i \in 0 .. Len(segs)] ==
            IF i = 0 THEN start ELSE LookupSegment(at[i - 1], segs[i])
    IN  at[Len(segs)]

vfs_lookup(start, path) == Descend(Walk(IF path.abs THEN RootPath ELSE start, path.segs))

Found(at) == at.dentry # NoDentry

Paths == [abs : BOOLEAN, segs : UNION {[1 .. n -> Seg] : n \in 1 .. MaxPath}]
-----------------------------------------------------------------------------
\* dentry_activate() of a new entry d below parent: ahead of its siblings.
dentry_activate(ds, parent, d) ==
    Append([ds EXCEPT ![parent].kids = <<Len(ds) + 1>> \o @],
           [d EXCEPT !.parent = parent])

NewDentry(name, isdir, isdevfs) ==
    [name |-> name, parent |-> NoDentry, kids |-> <<>>, dir |-> isdir,
     mountpoint |-> FALSE, devfs |-> isdevfs]

\* get_path_wd(): where the last segment is looked up.  Of an absolute path with
\* one segment, the empty string is left, which is relative.
WorkDir(start, path) ==
    IF Len(path.segs) = 1
    THEN IF path.abs THEN Descend(start) ELSE start
    ELSE vfs_lookup(start, [path EXCEPT !.segs = SubSeq(@, 1, Len(@) - 1)])

\* vfs_create() makes a new entry when the search finds none and the file system
\* creates files.  Nothing asks whether wd is a directory: a regular file of the
\* ramfs gets children, and the inode of a device has no ops->create to call.
vfs_create(start, path, isdir) ==
    /\ ~nullcall
    /\ Len(dentries) < MaxDentries
    /\ \E wd \in {WorkDir(start, path)}, last \in {path.segs[Len(path.segs)]} :
          /\ Found(wd)
          /\ ~Found(vfs_lookup(wd, [abs |-> FALSE, segs |-> <<last>>]))
          /\ \/ /\ ~dentries[wd.dentry].devfs
                /\ dentries' = dentry_activate(dentries, wd.dentry, NewDentry(last, isdir, FALSE))
                /\ UNCHANGED nullcall
             \/ /\ dentries[wd.dentry].devfs /\ ~dentries[wd.dentry].dir
                /\ nullcall' = TRUE
                /\ UNCHANGED dentries
    /\ UNCHANGED <<mounts, devices, booted, pwd, dirfile>>

\* open() with O_CREAT, and rootramfs_load() before the initcalls are over.
Create(path, isdir) == vfs_create(IF booted THEN pwd ELSE RootPath, path, isdir)

\* chdir(), with do_chdir().
chdir(path) ==
    /\ ~nullcall
    /\ booted
    /\ \E to \in {vfs_lookup(pwd, path)} :
          /\ Found(to)
          /\ dentries[to.dentry].dir
          /\ pwd' = to
    /\ UNCHANGED <<dentries, mounts, devices, booted, nullcall, dirfile>>

-----------------------------------------------------------------------------
\* devfs_add_dev(): kdevfsd is not woken, because devfs_task is never set.
devfs_add_dev(name) ==
    /\ ~nullcall
    /\ \A d \in DOMAIN dentries : dentries[d].name # name
    /\ \A i \in DOMAIN devices : devices[i] # name
    /\ devices' = Append(devices, name)
    /\ UNCHANGED <<dentries, mounts, booted, nullcall, pwd, dirfile>>

\* devfs_publish_pending(), with devfs_update() for each device.
Published ==
    LET ds[i \in 0 .. Len(devices)] ==
            IF i = 0 THEN dentries
            ELSE dentry_activate(ds[i - 1], DevRoot, NewDentry(devices[i], FALSE, TRUE))
    IN  ds[Len(devices)]

\* The first run of kdevfsd, and tty_create().
devfs_publish_pending ==
    /\ ~nullcall
    /\ booted
    /\ devices # <<>>
    /\ Len(dentries) + Len(devices) <= MaxDentries
    /\ dentries' = Published
    /\ devices' = <<>>
    /\ UNCHANGED <<mounts, booted, nullcall, pwd, dirfile>>

\* create_path() of the mountpoint fails when it exists.
CanCreatePath == ~Found(vfs_lookup(RootPath, [abs |-> TRUE, segs |-> <<Mntpoint>>]))
create_path(ds) == dentry_activate(ds, RootDentry, NewDentry(Mntpoint, TRUE, FALSE))

\* vfs_mount_add() of the devfs on a directory d of the root mount.
vfs_mount_add(ds, d) ==
    /\ dentries' = [ds EXCEPT ![d].mountpoint = TRUE]
    /\ mounts' = Append(mounts, [parent |-> 1, root |-> DevRoot, mountpoint |-> d])

\* devfs_mount(): publish what is pending, create the mountpoint and mount.
devfs_mount ==
    /\ ~nullcall
    /\ ~booted
    /\ booted' = TRUE
    /\ Len(dentries) + Len(devices) < MaxDentries
    /\ devices' = <<>>
    /\ IF CanCreatePath
       THEN vfs_mount_add(create_path(Published), Len(Published) + 1)
       ELSE dentries' = Published /\ UNCHANGED mounts
    /\ UNCHANGED <<nullcall, pwd, dirfile>>
-----------------------------------------------------------------------------
\* A directory is opened and listed with getdents(), which calls
\* simple_file_iterate() for a number of entries.
opendir(path) ==
    /\ ~nullcall
    /\ booted
    /\ \E to \in {vfs_lookup(pwd, path)} :
          /\ Found(to)
          /\ dentries[to.dentry].dir
          /\ dirfile' = [dentry |-> to.dentry, offset |-> 0, listed |-> {},
                         since |-> Len(dentries)]
    /\ UNCHANGED <<dentries, mounts, devices, booted, nullcall, pwd>>

\* The entries of a listing from offset, and where it stops.
Upto(kids, offset, num) == IF Len(kids) < offset + num THEN Len(kids) ELSE offset + num

\* Mutant: the offset also counts the entry it stopped at.
getdentsPast(num) ==
    /\ ~nullcall
    /\ dirfile.dentry # NoDentry
    /\ \E kids \in {dentries[dirfile.dentry].kids} :
       \E upto \in {Upto(kids, dirfile.offset, num)} :
          dirfile' = [dirfile EXCEPT
                        !.listed = @ \cup {kids[i] : i \in dirfile.offset + 1 .. upto},
                        !.offset = upto + 1]
    /\ UNCHANGED <<dentries, mounts, devices, booted, nullcall, pwd>>

getdents(num) ==
    /\ ~nullcall
    /\ dirfile.dentry # NoDentry
    /\ \E kids \in {dentries[dirfile.dentry].kids} :
       \E upto \in {Upto(kids, dirfile.offset, num)} :
          dirfile' = [dirfile EXCEPT
                        !.listed = @ \cup {kids[i] : i \in dirfile.offset + 1 .. upto},
                        !.offset = upto]
    /\ UNCHANGED <<dentries, mounts, devices, booted, nullcall, pwd>>

\* A turn of the loops of getcwd(), from cur.at to the directory above it, with
\* the names met so far; the root of a mount has the name of its mountpoint.
Climb(cur) ==
    LET at == IF dentries[cur.at.dentry].parent # NoDentry THEN cur.at
              ELSE [mount |-> mounts[cur.at.mount].parent,
                    dentry |-> mounts[cur.at.mount].mountpoint]
    IN  IF dentries[cur.at.dentry].parent = NoDentry /\ mounts[cur.at.mount].parent = 0
        THEN cur
        ELSE [at |-> [at EXCEPT !.dentry = dentries[@].parent],
              segs |-> <<dentries[at.dentry].name>> \o cur.segs]

\* The names from a directory up to the root.
getcwd(at) ==
    LET turns == 2 * Len(dentries)
        cur[i \in 0 .. turns] == IF i = 0 THEN [at |-> at, segs |-> <<>>] ELSE Climb(cur[i - 1])
    IN  cur[turns].segs
-----------------------------------------------------------------------------
VfsNext ==
    \/ \E path \in Paths, isdir \in BOOLEAN : Create(path, isdir)
    \/ \E path \in Paths : chdir(path) \/ opendir(path)
    \/ \E num \in 1 .. MaxDentries : getdents(num)
    \/ devfs_mount
    \/ devfs_publish_pending
    \/ \E name \in DevName : devfs_add_dev(name)

VfsSpec == VfsInit /\ [][VfsNext]_pathVars

\* The name that getcwd() gives a working directory leads vfs_lookup() back to
\* it, whatever was created or published since, below a mount or not, unless one
\* of the names on the way is the beginning of another in its bucket.
PathRoundTrip ==
    LET segs == getcwd(pwd)
        Unambiguous(i) == \A d \in DOMAIN dentries : <<segs[i], dentries[d].name>> \notin Longer
    IN  (\A i \in DOMAIN segs : Unambiguous(i))
            => vfs_lookup(RootPath, [abs |-> TRUE, segs |-> segs]) = pwd

\* Files created while a process lists a directory go ahead of the position it
\* has reached: getdents() may return an entry again, but by the time it has come
\* to the end it has skipped none that was there when the directory was opened.
ListingComplete ==
    dirfile.dentry # NoDentry =>
        LET kids == dentries[dirfile.dentry].kids
        IN  \A i \in DOMAIN kids :
                i <= dirfile.offset /\ kids[i] <= dirfile.since
                    => kids[i] \in dirfile.listed
=============================================================================
