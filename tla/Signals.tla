------------------------------ MODULE Signals ------------------------------
(***************************************************************************)
(* Signals, of kernel/src/sched/sched.c, syscall.c and kernel/src/arch/    *)
(* pl.c: the pending set of a process, its actions and its mask, and the   *)
(* frames that its running handlers return through.  Only the terminal     *)
(* sends a signal, SIGINT; a process without a trampoline gets SIGKILL     *)
(* instead.  The other signals of the table are never pending.             *)
(***************************************************************************)
EXTENDS Naturals, Sequences

CONSTANTS SigProcs,      \* the processes
          Unkillable,    \* pid 1, which default actions are not applied to
          MaxFrames      \* bound on the handlers a process nests

VARIABLES
    sig_pending,  \* per process
    sig_mask,     \* per process
    sigactions,   \* per process and signal: sa_handler and sa_mask
    sigtramp,     \* per process: a trampoline is registered
    frames,       \* per process: what arch_setup_sigaction() put on its stack
    unmasked,     \* history: in a handler, the process reduced its own mask, or
                  \* was forked
    chosen        \* history: the mask outside of handlers

sigVars == <<sig_pending, sig_mask, sigactions, sigtramp, frames, unmasked, chosen>>

Sig == {"INT", "KILL"}
Handler == {"dfl", "ign", "fn"}
Action == [handler : Handler, mask : SUBSET Sig]
Default == [s \in Sig |-> [handler |-> "dfl", mask |-> {}]]

SignalsTypeOK ==
    /\ sig_pending \in [SigProcs -> SUBSET Sig]
    /\ sig_mask \in [SigProcs -> SUBSET Sig]
    /\ sigactions \in [SigProcs -> [Sig -> Action]]
    /\ sigtramp \in [SigProcs -> BOOLEAN]
    /\ frames \in [SigProcs -> Seq([sig : Sig, restore_mask : SUBSET Sig])]
    /\ unmasked \in [SigProcs -> BOOLEAN]
    /\ chosen \in [SigProcs -> SUBSET Sig]

\* task_node_build() and thread_build() for a child p.  The mask is not
\* initialised; the frames are in the memory copied from the parent.
BuildSignals(p, parent) ==
    /\ sig_pending' = [sig_pending EXCEPT ![p] = {}]
    /\ \E garbage \in SUBSET Sig :
          /\ sig_mask' = [sig_mask EXCEPT ![p] = garbage]
          /\ chosen' = [chosen EXCEPT ![p] = IF frames[parent] = <<>> THEN garbage
                                             ELSE chosen[parent]]
    /\ sigactions' = [sigactions EXCEPT ![p] = Default]
    /\ sigtramp' = [sigtramp EXCEPT ![p] = FALSE]
    /\ frames' = [frames EXCEPT ![p] = frames[parent]]
    /\ unmasked' = [unmasked EXCEPT ![p] = frames[parent] # <<>>]

SignalsInit ==
    /\ sig_pending = [p \in SigProcs |-> {}]
    /\ \E garbage \in SUBSET Sig : sig_mask = [p \in SigProcs |-> garbage]
    /\ chosen = sig_mask
    /\ sigactions = [p \in SigProcs |-> Default]
    /\ sigtramp = [p \in SigProcs |-> FALSE]
    /\ frames = [p \in SigProcs |-> <<>>]
    /\ unmasked = [p \in SigProcs |-> FALSE]
-----------------------------------------------------------------------------
\* pgroup_send_signal(): task_send_signal() to each member that has a thread.
SendInterrupt(members) ==
    /\ sig_pending' = [p \in SigProcs |-> IF p \in members
                                          THEN sig_pending[p] \cup {"INT"}
                                          ELSE sig_pending[p]]
    /\ UNCHANGED <<sig_mask, sigactions, sigtramp, frames, unmasked, chosen>>

\* The mask a handler runs with.
HandlerMask(mask, sa, s) == mask \cup sa.mask \cup {s}

\* do_invoke_sigaction() for signal s, from the state r that the signals before
\* it in dispatch order left.  A default action leaves the signal pending.
do_invoke_sigaction(p, r, s) ==
    LET sa == sigactions[p][s]
    IN  IF r.done \/ s \notin r.pending
        THEN r
        ELSE IF (sa.handler = "dfl" \/ s = "KILL") /\ p # Unkillable
        THEN [r EXCEPT !.killed = TRUE, !.done = TRUE]
        ELSE IF s \in r.mask
        THEN r
        ELSE IF sa.handler = "ign"
        THEN [r EXCEPT !.pending = @ \ {s}]
        ELSE [r EXCEPT !.pending = @ \ {s},
                       !.mask = HandlerMask(@, sa, s),
                       !.frames = <<[sig |-> s, restore_mask |-> r.mask]>> \o @,
                       !.done = TRUE]

\* sched_deliver_signals(), on the way to user mode: the process is killed when
\* `killed' holds of the result.
Delivery(p) ==
    LET upgraded == IF sigtramp[p] THEN sig_pending[p] ELSE {"KILL"}
        start == [pending |-> upgraded, mask |-> sig_mask[p], frames |-> frames[p],
                  killed |-> FALSE, done |-> FALSE]
    IN  do_invoke_sigaction(p, do_invoke_sigaction(p, start, "KILL"), "INT")

sched_deliver_signals(p, r) ==
    /\ sig_pending[p] # {}
    /\ Len(frames[p]) < MaxFrames
    /\ sig_pending' = [sig_pending EXCEPT ![p] = r.pending]
    /\ sig_mask' = [sig_mask EXCEPT ![p] = r.mask]
    /\ frames' = [frames EXCEPT ![p] = r.frames]
    /\ UNCHANGED <<sigactions, sigtramp, unmasked, chosen>>
-----------------------------------------------------------------------------
register_sigtramp(p) ==
    /\ sigtramp' = [sigtramp EXCEPT ![p] = TRUE]
    /\ UNCHANGED <<sig_pending, sig_mask, sigactions, frames, unmasked, chosen>>

\* Mutant: the mask of the handler is kept.
sigreturnKeepMask(p) ==
    /\ frames[p] # <<>>
    /\ sig_mask' = [sig_mask EXCEPT ![p] = @ \cup Head(frames[p]).restore_mask]
    /\ frames' = [frames EXCEPT ![p] = Tail(@)]
    /\ unmasked' = [unmasked EXCEPT ![p] = @ /\ Len(frames[p]) > 1]
    /\ UNCHANGED <<sig_pending, sigactions, sigtramp, chosen>>

\* A handler returns through the trampoline: arch_setup_sigreturn().
sigreturn(p) ==
    /\ frames[p] # <<>>
    /\ sig_mask' = [sig_mask EXCEPT ![p] = Head(frames[p]).restore_mask]
    /\ frames' = [frames EXCEPT ![p] = Tail(@)]
    /\ unmasked' = [unmasked EXCEPT ![p] = @ /\ Len(frames[p]) > 1]
    /\ UNCHANGED <<sig_pending, sigactions, sigtramp, chosen>>

sigaction(p, s, sa) ==
    /\ sigactions' = [sigactions EXCEPT ![p][s] = sa]
    /\ UNCHANGED <<sig_pending, sig_mask, sigtramp, frames, unmasked, chosen>>

\* SIG_UNBLOCK keeps the signals of the set instead of removing them.
NewMask(how, old, set) ==
    CASE how = "SIG_BLOCK"   -> old \cup set
      [] how = "SIG_UNBLOCK" -> old \cap set
      [] how = "SIG_SETMASK" -> set

sigprocmask(p, how, set) ==
    /\ sig_mask' = [sig_mask EXCEPT ![p] = NewMask(how, @, set)]
    /\ unmasked' = [unmasked EXCEPT
                      ![p] = @ \/ (frames[p] # <<>> /\ how # "SIG_BLOCK")]
    /\ chosen' = IF frames[p] = <<>> THEN [chosen EXCEPT ![p] = sig_mask'[p]] ELSE chosen
    /\ UNCHANGED <<sig_pending, sigactions, sigtramp, frames>>

\* The processes as far as their signals are concerned: Tasks says which of them
\* exist, fork and share the group of the terminal.
SignalsNext ==
    \/ \E members \in SUBSET SigProcs : SendInterrupt(members)
    \/ \E p \in SigProcs :
          \/ \E parent \in SigProcs : BuildSignals(p, parent)
          \/ sched_deliver_signals(p, Delivery(p))
          \/ register_sigtramp(p)
          \/ sigreturn(p)
          \/ \E s \in Sig, sa \in Action : sigaction(p, s, sa)
          \/ \E how \in {"SIG_BLOCK", "SIG_UNBLOCK", "SIG_SETMASK"}, set \in SUBSET Sig :
                sigprocmask(p, how, set)

SignalsSpec == SignalsInit /\ [][SignalsNext]_sigVars
-----------------------------------------------------------------------------
\* A handler is not entered again before it returns, unless it unmasks its
\* signal itself or is a copy that fork() made.  And whatever handlers do to the
\* mask, and however deep they nest once they unmask their signal, the last
\* return restores the mask the program chose outside of them.
HandlersMasked ==
    \A p \in SigProcs :
        /\ ~unmasked[p] => \A i \in DOMAIN frames[p] : frames[p][i].sig \in sig_mask[p]
        /\ frames[p] = <<>> => sig_mask[p] = chosen[p]
=============================================================================
