----------------------------- MODULE MCServices -----------------------------
(***************************************************************************)
(* What the rest of the kernel stands on: its memory, the spinlock, and    *)
(* the terminal.  They share no state; a behaviour picks one of them, and  *)
(* for the memory whether it is many pages or many objects that are used.  *)
(***************************************************************************)
EXTENDS Memory, TicketLock, Tty

VARIABLE focus

allVars == <<memoryVars, lockVars, ttyVars, focus>>

MCInit ==
    /\ focus \in {"pages", "objects", "lock", "terminal"}
    /\ MemoryInit /\ LockInit /\ TtyInit

MCNext ==
    /\ UNCHANGED focus
    /\ focus \in {"pages", "objects"} \/ UNCHANGED memoryVars
    /\ focus = "lock" \/ UNCHANGED lockVars
    /\ focus = "terminal" \/ UNCHANGED ttyVars
    /\ \/ focus = "pages" /\ MemoryNext /\ Cardinality(objects') < MaxLive
       \/ focus = "objects" /\ MemoryNext /\ Cardinality(blocks' \cup freeing') < MaxBlocks
       \/ focus = "lock" /\ LockNext
       \/ focus = "terminal" /\ TtyNext

MCSpec ==
    /\ MCInit /\ [][MCNext]_allVars
    /\ \A c \in Processors : WF_lockVars(focus = "lock" /\ Step(c))
    /\ WF_ttyVars(focus = "terminal" /\ (tty_notify \/ NotifyReader))
=============================================================================
