-------------------------------- MODULE Exec --------------------------------
(***************************************************************************)
(* Running a program, of kernel/src/fs/exec.c and binfmt.c with the loaders*)
(* of fs/binfmt/: a script is replaced by its interpreter, any number of   *)
(* times up to a limit, and the segments of the ELF file found at the end  *)
(* are copied into a new address space page by page.  The call returns to  *)
(* the old address space, which every failure has to put back.             *)
(* The files are regular ones of a ramfs, and do not change meanwhile.     *)
(***************************************************************************)
EXTENDS Integers, Sequences, TLC

CONSTANTS Program,        \* the names of the files
          Disks,          \* what they may hold: functions from Program
          MaxLoadDepth,   \* MAX_LOAD_DEPTH
          PageBytes,      \* PAGE_SIZE
          StackPage,      \* the page at USTACK_ADDR_START, for all of the stack
          ArgsPage        \* the page at UARGS_ADDR_START

ASSUME ExecAssumption ==
    MaxLoadDepth \in Nat /\ PageBytes \in Nat \ {0} /\ StackPage # ArgsPage

VARIABLES
    disk,     \* per name: the kind of file, its length and what it holds
    binfmts,  \* the list of loaders
    at,       \* where the call is; "user" outside of one
    binary,   \* the binary_t
    loads,    \* per binfmt_load() being executed, the latest first: loaders left
    ret,      \* the error that is returned, "none" when the program was started
    mem,      \* the bytes of each page mapped for the user in thread->arch.dir
    olddir,   \* the local of load_elf()
    seg,      \* phdr index
    written,  \* bytes_written
    args,     \* node->argv, which is also what the page of arguments holds
    call      \* history: the last call, and the memory before it

execVars == <<disk, binfmts, at, binary, loads, ret, mem, olddir, seg, written,
              args, call>>

\* A byte of memory: one of a file, zero, or what the page held before.
FromFile(f, i) == [file |-> f, off |-> i]
Zero == FromFile("zero", 0)
Stale == FromFile("stale", 0)
PageOf(byte) == [i \in 0 .. PageBytes - 1 |-> byte]
NoPages == [page \in {} |-> PageOf(Zero)]

\* The loaders are registered by initcalls of one level, in the order of linking.
Orders == {<<"shebang", "elf">>, <<"elf", "shebang">>}

ExecInit ==
    /\ disk \in Disks
    /\ binfmts \in Orders
    /\ at = "user"
    /\ binary = [file |-> "", argv |-> <<>>, iterations |-> 0]
    /\ loads = <<>>
    /\ ret = "none"
    /\ mem = NoPages
    /\ olddir = NoPages
    /\ seg = 1
    /\ written = 0
    /\ args = <<>>
    /\ call = [file |-> "", mem |-> NoPages]

Elf == disk[binary.file]
-----------------------------------------------------------------------------
\* execve() and fexecve(), with do_execve() and execute_path(); argv[0] is the
\* name, as programs call it.
execve(f) ==
    /\ at = "user"
    /\ at' = "load"
    /\ binary' = [file |-> f, argv |-> <<f>>, iterations |-> 0]
    /\ call' = [file |-> f, mem |-> mem]
    /\ UNCHANGED <<disk, binfmts, loads, ret, mem, olddir, seg, written, args>>

\* binfmt_load() is called.
binfmt_load ==
    /\ at = "load"
    /\ IF binary.iterations > MaxLoadDepth
       THEN at' = "return" /\ ret' = "ELOOP" /\ UNCHANGED <<binary, loads>>
       ELSE /\ at' = "try"
            /\ binary' = [binary EXCEPT !.iterations = @ + 1]
            /\ loads' = <<binfmts>> \o loads
            /\ UNCHANGED ret
    /\ UNCHANGED <<disk, binfmts, mem, olddir, seg, written, args, call>>

\* It has tried every loader.
NoFormat ==
    /\ at = "try"
    /\ Head(loads) = <<>>
    /\ at' = "return"
    /\ ret' = "ENOEXEC"
    /\ binary' = [binary EXCEPT !.iterations = @ - 1]
    /\ loads' = Tail(loads)
    /\ UNCHANGED <<disk, binfmts, mem, olddir, seg, written, args, call>>

\* It returned, to the load_shebang() that called it and with that to the loop
\* of the call before, or to execute_path().  That makes a bool of the error:
\* the program is returned 1.
Return ==
    /\ at = "return"
    /\ \/ loads = <<>> /\ at' = "user" /\ UNCHANGED loads
       \/ loads # <<>> /\ ret = "ENOEXEC" /\ at' = "try" /\ UNCHANGED loads
       \/ loads # <<>> /\ ret # "ENOEXEC" /\ loads' = Tail(loads) /\ UNCHANGED at
    /\ UNCHANGED <<disk, binfmts, binary, ret, mem, olddir, seg, written, args, call>>

\* A loader of the current binfmt_load() is tried, and may fail with an error
\* that ends the loop.
Try(b) ==
    /\ at = "try"
    /\ Head(loads) # <<>>
    /\ Head(Head(loads)) = b

Skip == loads' = <<Tail(Head(loads))>> \o Tail(loads)
Fail(error) == at' = "return" /\ ret' = error /\ loads' = Tail(loads)
Panic == at' = "panic" /\ UNCHANGED <<loads, ret>>
-----------------------------------------------------------------------------
\* The interpreter and its one optional argument go before the arguments.
WithInterp(c, argv) == <<c.interp>> \o c.opt \o argv

\* load_shebang().  A file without contents has no chunk to seek in.
load_shebang ==
    /\ Try("shebang")
    /\ LET c == disk[binary.file]
       IN  CASE c.len = 0 -> Panic /\ UNCHANGED binary
             [] c.len > 0 /\ c.kind # "script" ->
                  Skip /\ UNCHANGED <<at, ret, binary>>
             [] c.len > 0 /\ c.kind = "script" /\ c.interp \notin Program ->
                  Fail("ENOENT") /\ UNCHANGED binary
             [] c.len > 0 /\ c.kind = "script" /\ c.interp \in Program ->
                  /\ Skip
                  /\ at' = "load"
                  /\ binary' = [binary EXCEPT !.file = c.interp,
                                              !.argv = WithInterp(c, @)]
                  /\ UNCHANGED ret
    /\ UNCHANGED <<disk, binfmts, mem, olddir, seg, written, args, call>>

\* load_elf() up to its loop: the address space is replaced before the header is
\* read, and put back when there is none.
load_elf ==
    /\ Try("elf")
    /\ CASE Elf.len = 0 -> Panic /\ mem' = NoPages /\ UNCHANGED <<seg, written>>
         [] Elf.len > 0 /\ Elf.kind # "elf" ->
              Skip /\ UNCHANGED <<at, ret, mem, seg, written>>
         [] Elf.len > 0 /\ Elf.kind = "elf" ->
              /\ Skip
              /\ at' = "segment"
              /\ mem' = NoPages
              /\ seg' = 1
              /\ written' = 0
              /\ UNCHANGED ret
    /\ olddir' = mem
    /\ UNCHANGED <<disk, binfmts, binary, args, call>>

\* Mutant: a page is allocated for every chunk.
AlwaysMapped(page) == (page :> PageOf(Stale)) @@ mem

\* user_get_page(), and user_alloc_page() without ALLOC_ZERO where it finds none.
Mapped(page) ==
    IF page \in DOMAIN mem THEN mem ELSE mem @@ (page :> PageOf(Stale))

\* The bytes are stored from address a; they stay on its page.
Store(a, bytes) ==
    LET page == a \div PageBytes
        off == a % PageBytes
    IN  [Mapped(page) EXCEPT ![page] = [i \in DOMAIN @ |->
            IF i - off \in DOMAIN bytes THEN bytes[i - off] ELSE @[i]]]

Least(a, b) == IF a < b THEN a ELSE b

\* The way out of load_elf() that puts the old address space back.
fail_io == Fail("EIO") /\ mem' = olddir

\* One round of the loop that copies a segment, from the file as long as there
\* are bytes of it and then zeros.
LoadChunk(p) ==
    LET a == p.vaddr + written
        left == PageBytes - (a % PageBytes)
        pos == p.offset + written
        fromfile == written < p.filesz
        n == Least(left, (IF fromfile THEN p.filesz ELSE p.memsz) - written)
        bytes == [i \in 0 .. n - 1 |->
                     IF fromfile THEN FromFile(binary.file, pos + i) ELSE Zero]
    IN  IF fromfile /\ pos + n > Elf.len
        THEN fail_io /\ UNCHANGED written
        ELSE /\ mem' = Store(a, bytes)
             /\ written' = written + n
             /\ UNCHANGED <<at, loads, ret>>

\* A step of the loop over the program headers.  Types other than these two, and
\* a seek past the end of the file, panic; PT_NULL headers have offset 0.
load_segment ==
    /\ at = "segment"
    /\ seg <= Len(Elf.phdrs)
    /\ LET p == Elf.phdrs[seg]
           bad == p.type \notin {"NULL", "LOAD"} \/ p.offset > Elf.len
           done == p.type = "NULL" \/ written >= p.memsz
       IN  \/ /\ ~bad /\ done
              /\ seg' = seg + 1
              /\ written' = 0
              /\ UNCHANGED <<at, loads, ret, mem>>
           \/ ~bad /\ ~done /\ LoadChunk(p) /\ UNCHANGED seg
           \/ bad /\ Panic /\ UNCHANGED <<mem, seg, written>>
    /\ UNCHANGED <<disk, binfmts, binary, olddir, args, call>>

\* designate_space() for the stack and the arguments maps zeroed pages.
designate_space(page) == page :> PageOf(Zero)

\* The end of load_elf(), with pl_bootstrap_userland().  The stack and the
\* arguments must not be designated where a segment is.
start_program ==
    /\ at = "segment"
    /\ seg > Len(Elf.phdrs)
    /\ args' = binary.argv
    /\ IF {StackPage, ArgsPage} \cap DOMAIN mem # {}
       THEN Panic /\ UNCHANGED mem
       ELSE /\ at' = "user"
            /\ ret' = "none"
            /\ loads' = <<>>
            /\ mem' = mem @@ designate_space(StackPage) @@ designate_space(ArgsPage)
    /\ UNCHANGED <<disk, binfmts, binary, olddir, seg, written, call>>

ExecNext ==
    \/ \E f \in Program : execve(f)
    \/ binfmt_load
    \/ NoFormat
    \/ Return
    \/ load_shebang
    \/ load_elf
    \/ load_segment
    \/ start_program
-----------------------------------------------------------------------------
\* The files that a name leads to through interpreters, as far as the limit lets.
Interpreters(f) ==
    LET chain[i \in 0 .. MaxLoadDepth] ==
            IF i = 0 THEN f
            ELSE IF chain[i - 1] \in Program /\ disk[chain[i - 1]].kind = "script"
            THEN disk[chain[i - 1]].interp
            ELSE ""
    IN  chain

\* The arguments of the program that is i interpreters away.
Arguments(f, i) ==
    LET chain == Interpreters(f)
        argv[j \in 0 .. MaxLoadDepth] ==
            IF j = 0 THEN <<f>> ELSE <<chain[j]>> \o disk[chain[j - 1]].opt \o argv[j - 1]
    IN  argv[i]

\* Memory holds the segments of program f.
HoldsImage(f) ==
    \A k \in DOMAIN disk[f].phdrs :
        LET p == disk[f].phdrs[k]
        IN  p.type = "LOAD" =>
              \A i \in 0 .. p.memsz - 1 :
                  LET a == p.vaddr + i
                  IN  /\ a \div PageBytes \in DOMAIN mem
                      /\ mem[a \div PageBytes][a % PageBytes]
                           = IF i < p.filesz THEN FromFile(f, p.offset + i) ELSE Zero

\* Every byte of the segments is in the file.
Complete(f) ==
    /\ disk[f].kind = "elf"
    /\ \A k \in DOMAIN disk[f].phdrs :
          LET p == disk[f].phdrs[k]
          IN  p.type = "LOAD" => p.offset + p.filesz <= disk[f].len

\* When execve() is over, through all the loaders and interpreters it tried and
\* whatever their order, either the program that the name leads to runs with
\* exactly its segments and the arguments of each script on the way, or there is
\* no such program and the caller has the memory it had.
ProgramLoaded ==
    (at = "user" /\ call.file # "") =>
        LET chain == Interpreters(call.file)
            found == {i \in 0 .. MaxLoadDepth :
                         chain[i] \in Program /\ Complete(chain[i])}
        IN  IF ret = "none"
            THEN \E i \in found : HoldsImage(chain[i]) /\ args = Arguments(call.file, i)
            ELSE found = {} /\ mem = call.mem
=============================================================================
