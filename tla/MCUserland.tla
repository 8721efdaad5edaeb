----------------------------- MODULE MCUserland -----------------------------
(***************************************************************************)
(* What user programs do through system calls: processes, descriptors and  *)
(* signals, path names, the contents of a file, and running another        *)
(* program.  A behaviour picks one of these families and makes its calls;  *)
(* fork and exit, which all the process state takes part in, belong to the *)
(* first three.                                                            *)
(***************************************************************************)
EXTENDS Tasks, Vfs, Ramfs, Exec

VARIABLE focus

vars == <<taskVars, pathVars, ramVars, execVars, focus>>

Processes == {"tree", "files", "signals"}

\* Memory that is not initialised is zero where the family does not look at it.
Relevant(mask, tab) ==
    /\ focus # "signals" => \A p \in Pid : mask[p] = {}
    /\ focus # "files" => \A p \in Pid : tab[p][LastFd] # Junk

\* The files: two that may be scripts, and an ELF file whose segments are not
\* aligned to pages, share one, are cut off, have no bytes in the file, lie on
\* the stack, or are of a type that is not supported.
Segment(type, vaddr, from, filesz, memsz) ==
    [type |-> type, vaddr |-> vaddr, offset |-> from, filesz |-> filesz, memsz |-> memsz]
Contents(kind, len, interp, opt, phdrs) ==
    [kind |-> kind, len |-> len, interp |-> interp, opt |-> opt, phdrs |-> phdrs]
ElfFile(phdrs) == Contents("elf", 9, "", <<>>, phdrs)

Scripts == {Contents("script", 9, interp, opt, <<>>) :
               interp \in Program \cup {"missing"}, opt \in {<<>>, <<"-x">>}}
Others == {Contents("text", 9, "", <<>>, <<>>), Contents("text", 0, "", <<>>, <<>>)}
Elves == {ElfFile(<<Segment("LOAD", 1, 2, 4, 7)>>),
          ElfFile(<<Segment("LOAD", 0, 0, 4, 4), Segment("NULL", 0, 0, 0, 0),
                    Segment("LOAD", 4, 4, 3, 4)>>),
          ElfFile(<<Segment("LOAD", 0, 0, 2, 2), Segment("LOAD", 4, 6, 4, 4)>>),
          ElfFile(<<Segment("LOAD", 2, 0, 0, 3)>>),
          ElfFile(<<Segment("LOAD", 3 * StackPage, 0, 1, 1)>>),
          ElfFile(<<Segment("TLS", 0, 0, 1, 1)>>)}
SmallElf == ElfFile(<<Segment("LOAD", 1, 1, 1, 2)>>)

ProgramDisks ==
    {("sh" :> a) @@ ("py" :> b) @@ ("bin" :> c) :
        a \in Scripts \cup Others, b \in Scripts \cup {SmallElf}, c \in Elves}

\* The name "d" is the beginning of "dev".
SameBucket == {<<"d", "dev">>}

AnyDisk == CHOOSE d \in Disks : TRUE

Init ==
    /\ TasksInit
    /\ VfsInit
    /\ RamfsInit
    /\ focus \in Processes \cup {"paths", "contents", "programs"}
    /\ ExecInit
    /\ focus # "programs" => disk = AnyDisk /\ binfmts = <<"elf", "shebang">>
    /\ Relevant(sig_mask, table)

\* The tree has up to two children of init; the other families need one.
ForkAgain == focus = "tree" \/ ~Exists(2)

\* Nothing is claimed of the descriptors once `wild' is not empty.
ProcessCalls(p) ==
    \/ exit_call(p)
    \/ Reap(p)
    \/ ForkAgain /\ fork(p)
    \/ focus = "tree" /\ (TreeCalls(p) \/ WaitReturns(p))
    \/ focus = "files" /\ wild = {} /\ FdCalls(p)
    \/ focus = "signals" /\ p # InitPid /\ SignalCalls(p)
    \/ focus = "signals" /\ Deliver(p)
    \/ focus = "signals" /\ \E pgid \in User : tcsetpgrp(p, pgid)

\* Of the steps of VfsNext, those by a path without ".", which is used to list a
\* directory, one entry or two at a time; a relative path of two segments first
\* goes up.
Named == {path \in Paths :
             /\ \A i \in DOMAIN path.segs : path.segs[i] # "."
             /\ path.abs \/ Len(path.segs) = 1 \/ path.segs[1] = ".."}

PathCalls ==
    \/ \E path \in Named, isdir \in BOOLEAN : Create(path, isdir)
    \/ \E path \in Named : chdir(path)
    \/ opendir([abs |-> FALSE, segs |-> <<".">>])
    \/ \E num \in 1 .. 2 : getdents(num)
    \/ devfs_mount
    \/ devfs_publish_pending
    \/ \E name \in DevName : devfs_add_dev(name)

Next ==
    /\ UNCHANGED focus
    /\ \/ /\ focus \in Processes
          /\ (\E p \in User : ProcessCalls(p)) \/ (focus = "signals" /\ Interrupt)
          /\ Relevant(sig_mask', table')
          /\ UNCHANGED <<pathVars, ramVars, execVars>>
       \/ focus = "paths" /\ PathCalls /\ UNCHANGED <<taskVars, ramVars, execVars>>
       \/ focus = "contents" /\ RamfsNext /\ UNCHANGED <<taskVars, pathVars, execVars>>
       \/ focus = "programs" /\ ExecNext /\ UNCHANGED <<taskVars, pathVars, ramVars>>

Spec == Init /\ [][Next]_vars

TypeOK == TasksTypeOK /\ VfsTypeOK /\ RamfsTypeOK
=============================================================================
