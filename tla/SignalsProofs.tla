--------------------------- MODULE SignalsProofs ---------------------------
(***************************************************************************)
(* Nested signal handlers, for any number of processes and of frames.      *)
(***************************************************************************)
EXTENDS Signals, TLAPS

Frame == [sig : Sig, restore_mask : SUBSET Sig]

\* What makes HandlersMasked inductive: each frame restores a mask that holds the
\* signals of the frames below it and not its own, so that returning through one
\* leaves the others masked.
Nested(fs, mask) ==
    /\ \A i \in 1 .. Len(fs) : fs[i].sig \in mask /\ fs[i].sig \notin fs[i].restore_mask
    /\ \A i, j \in 1 .. Len(fs) : i < j => fs[j].sig \in fs[i].restore_mask

\* The frame at the bottom restores the mask that was chosen outside of handlers.
Based(fs, mask, outside) ==
    IF fs = <<>> THEN mask = outside ELSE fs[Len(fs)].restore_mask = outside

NestedInv ==
    /\ SignalsTypeOK
    /\ \A p \in SigProcs : ~unmasked[p] => Nested(frames[p], sig_mask[p])
    /\ \A p \in SigProcs : Based(frames[p], sig_mask[p], chosen[p])

\* A frame put on top of a stack of frames.
LEMMA Pushed ==
    ASSUME NEW fs \in Seq(Frame), NEW f \in Frame
    PROVE  /\ <<f>> \o fs \in Seq(Frame)
           /\ Len(<<f>> \o fs) = Len(fs) + 1
           /\ (<<f>> \o fs)[1] = f
           /\ \A i \in 2 .. Len(fs) + 1 : (<<f>> \o fs)[i] = fs[i - 1]
  OBVIOUS

\* The stack below its top frame.
LEMMA Popped ==
    ASSUME NEW fs \in Seq(Frame), fs # <<>>
    PROVE  /\ Head(fs) = fs[1] /\ fs[1] \in Frame
           /\ Tail(fs) \in Seq(Frame)
           /\ Len(Tail(fs)) = Len(fs) - 1 /\ Len(fs) > 0
           /\ \A i \in 1 .. Len(fs) - 1 : Tail(fs)[i] = fs[i + 1]
  OBVIOUS

\* A handler entered for a signal that is not masked, with at least the mask it
\* had and the signal itself, keeps the stack nested.
LEMMA PushKeepsNested ==
    ASSUME NEW fs \in Seq(Frame), NEW mask \in SUBSET Sig, Nested(fs, mask),
           NEW s \in Sig, s \notin mask,
           NEW new \in SUBSET Sig, mask \cup {s} \subseteq new
    PROVE  Nested(<<[sig |-> s, restore_mask |-> mask]>> \o fs, new)
<1> DEFINE f == [sig |-> s, restore_mask |-> mask]
           gs == <<f>> \o fs
<1>1. f \in Frame /\ f.sig = s /\ f.restore_mask = mask
  BY DEF Frame
<1> HIDE DEF f
<1>2. /\ Len(gs) = Len(fs) + 1 /\ Len(fs) \in Nat
      /\ gs[1] = f
      /\ \A i \in 2 .. Len(fs) + 1 : gs[i] = fs[i - 1]
  BY <1>1, Pushed
<1> HIDE DEF gs
<1>3. ASSUME NEW i \in 1 .. Len(gs)
      PROVE  gs[i].sig \in new /\ gs[i].sig \notin gs[i].restore_mask
  <2>1. CASE i = 1
    BY <1>1, <1>2, <2>1
  <2>2. CASE i # 1
    <3>1. i - 1 \in 1 .. Len(fs) /\ gs[i] = fs[i - 1]
      BY <1>2, <2>2
    <3> QED
      BY <3>1 DEF Nested
  <2> QED
    BY <2>1, <2>2
<1>4. ASSUME NEW i \in 1 .. Len(gs), NEW j \in 1 .. Len(gs), i < j
      PROVE  gs[j].sig \in gs[i].restore_mask
  <2>1. j - 1 \in 1 .. Len(fs) /\ gs[j] = fs[j - 1]
    BY <1>2, <1>4
  <2>2. CASE i = 1
    BY <1>1, <1>2, <2>1, <2>2 DEF Nested
  <2>3. CASE i # 1
    <3>1. i - 1 \in 1 .. Len(fs) /\ gs[i] = fs[i - 1] /\ i - 1 < j - 1
      BY <1>2, <1>4, <2>3
    <3> QED
      BY <2>1, <3>1 DEF Nested
  <2> QED
    BY <2>2, <2>3
<1>5. Nested(gs, new)
  BY <1>3, <1>4 DEF Nested
<1> QED
  BY <1>5 DEF gs, f

\* Returning from a handler.
LEMMA PopKeepsNested ==
    ASSUME NEW fs \in Seq(Frame), fs # <<>>, NEW mask \in SUBSET Sig, Nested(fs, mask)
    PROVE  Nested(Tail(fs), Head(fs).restore_mask)
<1> DEFINE gs == Tail(fs)
           m == Head(fs).restore_mask
<1>1. /\ m = fs[1].restore_mask
      /\ Len(gs) = Len(fs) - 1 /\ Len(fs) \in Nat /\ Len(fs) > 0
      /\ \A i \in 1 .. Len(fs) - 1 : gs[i] = fs[i + 1]
  BY Popped
<1> HIDE DEF gs, m
<1>2. ASSUME NEW i \in 1 .. Len(gs)
      PROVE  gs[i].sig \in m /\ gs[i].sig \notin gs[i].restore_mask
  <2>1. i + 1 \in 1 .. Len(fs) /\ 1 \in 1 .. Len(fs) /\ 1 < i + 1 /\ gs[i] = fs[i + 1]
    BY <1>1
  <2> QED
    BY <1>1, <2>1 DEF Nested
<1>3. ASSUME NEW i \in 1 .. Len(gs), NEW j \in 1 .. Len(gs), i < j
      PROVE  gs[j].sig \in gs[i].restore_mask
  <2>1. /\ i + 1 \in 1 .. Len(fs) /\ j + 1 \in 1 .. Len(fs) /\ i + 1 < j + 1
        /\ gs[i] = fs[i + 1] /\ gs[j] = fs[j + 1]
    BY <1>1, <1>3
  <2> QED
    BY <2>1 DEF Nested
<1>4. Nested(gs, m)
  BY <1>2, <1>3 DEF Nested
<1> QED
  BY <1>4 DEF gs, m

\* A handler entered on any stack, or returning from one, leaves the bottom.
LEMMA PushKeepsBased ==
    ASSUME NEW fs \in Seq(Frame), NEW mask \in SUBSET Sig, NEW c \in SUBSET Sig,
           Based(fs, mask, c), NEW s \in Sig, NEW new
    PROVE  Based(<<[sig |-> s, restore_mask |-> mask]>> \o fs, new, c)
<1> DEFINE f == [sig |-> s, restore_mask |-> mask]
           gs == <<f>> \o fs
<1>1. f \in Frame /\ f.restore_mask = mask
  BY DEF Frame
<1> HIDE DEF f
<1>2. /\ gs \in Seq(Frame) /\ Len(gs) = Len(fs) + 1 /\ Len(fs) \in Nat
      /\ gs[1] = f
      /\ \A i \in 2 .. Len(fs) + 1 : gs[i] = fs[i - 1]
  BY <1>1, Pushed
<1> HIDE DEF gs
<1>3. gs # <<>>
  BY <1>2
<1>4. CASE fs = <<>>
  BY <1>1, <1>2, <1>3, <1>4 DEF Based
<1>5. CASE fs # <<>>
  <2>1. Len(fs) # 0 /\ Len(fs) + 1 \in 2 .. Len(fs) + 1 /\ Len(fs) + 1 - 1 = Len(fs)
    BY <1>2, <1>5
  <2>2. gs[Len(gs)] = fs[Len(fs)]
    BY <1>2, <2>1
  <2> QED
    BY <1>3, <1>5, <2>2 DEF Based
<1> QED
  BY <1>4, <1>5 DEF gs, f

LEMMA PopKeepsBased ==
    ASSUME NEW fs \in Seq(Frame), fs # <<>>, NEW mask, NEW c \in SUBSET Sig,
           Based(fs, mask, c)
    PROVE  Based(Tail(fs), Head(fs).restore_mask, c)
<1> DEFINE gs == Tail(fs)
           m == Head(fs).restore_mask
<1>1. /\ m = fs[1].restore_mask
      /\ gs \in Seq(Frame) /\ Len(gs) = Len(fs) - 1 /\ Len(fs) \in Nat /\ Len(fs) > 0
      /\ \A i \in 1 .. Len(fs) - 1 : gs[i] = fs[i + 1]
  BY Popped
<1> SUFFICES Based(gs, m, c)
  OBVIOUS
<1> HIDE DEF gs, m
<1>2. CASE gs = <<>>
  <2>1. Len(fs) = 1
    BY <1>1, <1>2
  <2> QED
    BY <1>1, <1>2, <2>1 DEF Based
<1>3. CASE gs # <<>>
  <2>1. Len(gs) \in 1 .. Len(fs) - 1 /\ Len(gs) + 1 = Len(fs)
    BY <1>1, <1>3
  <2>2. gs[Len(gs)] = fs[Len(fs)]
    BY <1>1, <2>1
  <2> QED
    BY <1>3, <2>2 DEF Based
<1> QED
  BY <1>2, <1>3

\* The signals of a nested stack are masked.
LEMMA NestedMasked ==
    ASSUME NEW fs \in Seq(Frame), NEW mask \in SUBSET Sig, Nested(fs, mask)
    PROVE  \A i \in DOMAIN fs : fs[i].sig \in mask
<1>1. DOMAIN fs = 1 .. Len(fs) /\ Len(fs) \in Nat
  OBVIOUS
<1> QED
  BY <1>1 DEF Nested

-----------------------------------------------------------------------------
\* What delivering signals does to a process: it enters no handler, or the handler
\* of one signal that was not masked.
State == [pending : SUBSET Sig, mask : SUBSET Sig, frames : Seq(Frame),
          killed : BOOLEAN, done : BOOLEAN]

Entered(r, s, q) ==
    /\ s \notin r.mask
    /\ r.mask \cup {s} \subseteq q.mask
    /\ q.frames = <<[sig |-> s, restore_mask |-> r.mask]>> \o r.frames
    /\ q.done

\* do_invoke_sigaction() for one signal.
LEMMA Invoked ==
    ASSUME SignalsTypeOK, NEW p \in SigProcs, NEW r \in State, NEW s \in Sig
    PROVE  LET q == do_invoke_sigaction(p, r, s)
           IN  /\ q \in State
               /\ r.done => q = r
               /\ (q.mask = r.mask /\ q.frames = r.frames) \/ Entered(r, s, q)
<1> DEFINE sa == sigactions[p][s]
           f == [sig |-> s, restore_mask |-> r.mask]
           q == do_invoke_sigaction(p, r, s)
<1>1. sa.mask \in SUBSET Sig
  BY DEF SignalsTypeOK, Action
<1>2. f \in Frame /\ <<f>> \o r.frames \in Seq(Frame)
  BY Pushed DEF Frame, State
<1> HIDE DEF sa, f
<1>3. CASE r.done \/ s \notin r.pending
  BY <1>3 DEF do_invoke_sigaction
<1>4. CASE /\ ~(r.done \/ s \notin r.pending)
           /\ (sigactions[p][s].handler = "dfl" \/ s = "KILL") /\ p # Unkillable
  <2>1. q = [r EXCEPT !.killed = TRUE, !.done = TRUE]
    BY <1>4 DEF do_invoke_sigaction
  <2> QED
    BY <1>4, <2>1 DEF State
<1>5. CASE /\ ~(r.done \/ s \notin r.pending)
           /\ ~((sigactions[p][s].handler = "dfl" \/ s = "KILL") /\ p # Unkillable)
  <2>1. CASE s \in r.mask
    BY <1>5, <2>1 DEF do_invoke_sigaction
  <2>2. CASE s \notin r.mask /\ sigactions[p][s].handler = "ign"
    <3>1. q = [r EXCEPT !.pending = @ \ {s}]
      BY <1>5, <2>2 DEF do_invoke_sigaction
    <3> QED
      BY <1>5, <3>1 DEF State
  <2>3. CASE s \notin r.mask /\ sigactions[p][s].handler # "ign"
    <3> DEFINE hm == r.mask \cup sa.mask \cup {s}
               fr == <<f>> \o r.frames
               pd == r.pending \ {s}
    <3>1. q = [r EXCEPT !.pending = pd, !.mask = hm, !.frames = fr, !.done = TRUE]
      BY <1>5, <2>3 DEF do_invoke_sigaction, HandlerMask, sa, f
    <3>a. pd \in SUBSET Sig /\ hm \in SUBSET Sig /\ fr \in Seq(Frame)
      BY <1>1, <1>2 DEF State
    <3> HIDE DEF hm, fr, pd, q
    <3>2. q \in State /\ q.mask = hm /\ q.frames = fr /\ q.done = TRUE
      BY <3>1, <3>a DEF State
    <3>3. Entered(r, s, q)
      BY <2>3, <3>2 DEF Entered, hm, fr, f
    <3> QED
      BY <1>5, <3>2, <3>3 DEF q
  <2> QED
    BY <2>1, <2>2, <2>3
<1> QED
  BY <1>3, <1>4, <1>5

\* sched_deliver_signals() enters at most one handler, for a signal not masked.
LEMMA Delivered ==
    ASSUME SignalsTypeOK, NEW p \in SigProcs
    PROVE  LET r == Delivery(p)
           IN  /\ r \in State
               /\ \/ r.mask = sig_mask[p] /\ r.frames = frames[p]
                  \/ \E s \in Sig :
                        /\ s \notin sig_mask[p]
                        /\ sig_mask[p] \cup {s} \subseteq r.mask
                        /\ r.frames = <<[sig |-> s, restore_mask |-> sig_mask[p]]>> \o frames[p]
<1> DEFINE upgraded == IF sigtramp[p] THEN sig_pending[p] ELSE {"KILL"}
           start == [pending |-> upgraded, mask |-> sig_mask[p], frames |-> frames[p],
                     killed |-> FALSE, done |-> FALSE]
           first == do_invoke_sigaction(p, start, "KILL")
           second == do_invoke_sigaction(p, first, "INT")
<1>1. start \in State /\ start.mask = sig_mask[p] /\ start.frames = frames[p]
  BY DEF SignalsTypeOK, State, Frame, Sig
<1>2. Delivery(p) = second
  BY DEF Delivery
<1>3. "KILL" \in Sig /\ "INT" \in Sig
  BY DEF Sig
<1> HIDE DEF start
<1>4. /\ first \in State
      /\ (first.mask = start.mask /\ first.frames = start.frames) \/ Entered(start, "KILL", first)
  BY <1>1, <1>3, Invoked
<1> HIDE DEF first
<1>5. /\ second \in State
      /\ first.done => second = first
      /\ (second.mask = first.mask /\ second.frames = first.frames) \/ Entered(first, "INT", second)
  BY <1>3, <1>4, Invoked
<1> HIDE DEF second
<1>6. CASE Entered(start, "KILL", first)
  <2>1. second = first
    BY <1>5, <1>6 DEF Entered
  <2> QED
    BY <1>1, <1>2, <1>3, <1>5, <1>6, <2>1 DEF Entered
<1>7. CASE first.mask = start.mask /\ first.frames = start.frames
  BY <1>1, <1>2, <1>3, <1>5, <1>7 DEF Entered
<1> QED
  BY <1>4, <1>6, <1>7
-----------------------------------------------------------------------------
\* The steps that leave the stack and the mask of a process alone, or are about
\* another process.
LEMMA NestedKept ==
    ASSUME NestedInv, SignalsTypeOK',
           NEW p \in SigProcs,
           \A q \in SigProcs \ {p} : /\ unmasked'[q] = unmasked[q]
                                     /\ frames'[q] = frames[q]
                                     /\ sig_mask'[q] = sig_mask[q]
                                     /\ chosen'[q] = chosen[q],
           ~unmasked'[p] => Nested(frames'[p], sig_mask'[p]),
           Based(frames'[p], sig_mask'[p], chosen'[p])
    PROVE  NestedInv'
  BY DEF NestedInv

\* Delivering a signal keeps the stacks nested.
LEMMA DeliverKeeps ==
    ASSUME NestedInv, NEW p \in SigProcs, sched_deliver_signals(p, Delivery(p))
    PROVE  NestedInv'
<1> DEFINE r == Delivery(p)
<1>0. SignalsTypeOK
  BY DEF NestedInv
<1>1. /\ r \in State
      /\ \/ r.mask = sig_mask[p] /\ r.frames = frames[p]
         \/ \E s \in Sig :
               /\ s \notin sig_mask[p]
               /\ sig_mask[p] \cup {s} \subseteq r.mask
               /\ r.frames = <<[sig |-> s, restore_mask |-> sig_mask[p]]>> \o frames[p]
  BY <1>0, Delivered
<1>2. /\ sig_pending' = [sig_pending EXCEPT ![p] = r.pending]
      /\ sig_mask' = [sig_mask EXCEPT ![p] = r.mask]
      /\ frames' = [frames EXCEPT ![p] = r.frames]
      /\ UNCHANGED <<sigactions, sigtramp, unmasked, chosen>>
  BY DEF sched_deliver_signals
<1> HIDE DEF r
<1>3. SignalsTypeOK'
  BY <1>0, <1>1, <1>2 DEF SignalsTypeOK, State, Frame
<1>4. frames[p] \in Seq(Frame) /\ sig_mask[p] \in SUBSET Sig /\ r.mask \in SUBSET Sig
  BY <1>0, <1>1 DEF SignalsTypeOK, State, Frame
<1>5. ASSUME ~unmasked[p] PROVE Nested(r.frames, r.mask)
  <2>1. Nested(frames[p], sig_mask[p])
    BY <1>5 DEF NestedInv
  <2>2. CASE r.mask = sig_mask[p] /\ r.frames = frames[p]
    BY <2>1, <2>2
  <2>3. ASSUME NEW s \in Sig,
               s \notin sig_mask[p], sig_mask[p] \cup {s} \subseteq r.mask,
               r.frames = <<[sig |-> s, restore_mask |-> sig_mask[p]]>> \o frames[p]
        PROVE  Nested(r.frames, r.mask)
    <3>1. Nested(<<[sig |-> s, restore_mask |-> sig_mask[p]]>> \o frames[p], r.mask)
      BY <1>4, <2>1, <2>3, PushKeepsNested
    <3> QED
      BY <2>3, <3>1
  <2> QED
    BY <1>1, <2>2, <2>3
<1>6. /\ frames'[p] = r.frames /\ sig_mask'[p] = r.mask
      /\ unmasked' = unmasked /\ chosen' = chosen
  BY <1>0, <1>2 DEF SignalsTypeOK
<1>7. \A q \in SigProcs \ {p} : frames'[q] = frames[q] /\ sig_mask'[q] = sig_mask[q]
  BY <1>0, <1>2 DEF SignalsTypeOK
<1>8. Based(r.frames, r.mask, chosen[p])
  <2>1. Based(frames[p], sig_mask[p], chosen[p]) /\ chosen[p] \in SUBSET Sig
    BY <1>0 DEF NestedInv, SignalsTypeOK
  <2>2. ASSUME NEW s \in Sig,
               r.frames = <<[sig |-> s, restore_mask |-> sig_mask[p]]>> \o frames[p]
        PROVE  Based(r.frames, r.mask, chosen[p])
    <3>1. Based(<<[sig |-> s, restore_mask |-> sig_mask[p]]>> \o frames[p], r.mask, chosen[p])
      BY <1>4, <2>1, PushKeepsBased
    <3> QED
      BY <2>2, <3>1
  <2> QED
    BY <1>1, <2>1, <2>2
<1> QED
  BY <1>3, <1>5, <1>6, <1>7, <1>8, NestedKept

\* Returning from a handler does, and a process whose last handler has returned
\* counts as masked again.
LEMMA ReturnKeeps ==
    ASSUME NestedInv, NEW p \in SigProcs, sigreturn(p)
    PROVE  NestedInv'
<1>0. SignalsTypeOK
  BY DEF NestedInv
<1>1. frames[p] \in Seq(Frame) /\ frames[p] # <<>> /\ sig_mask[p] \in SUBSET Sig
  BY <1>0 DEF SignalsTypeOK, Frame, sigreturn
<1>a. /\ Head(frames[p]) \in Frame
      /\ Tail(frames[p]) \in Seq(Frame)
      /\ Len(Tail(frames[p])) = Len(frames[p]) - 1
      /\ Len(frames[p]) \in Nat /\ Len(frames[p]) > 0
  BY <1>1, Popped
<1>2. Head(frames[p]).restore_mask \in SUBSET Sig
  BY <1>a DEF Frame
<1>3. /\ frames'[p] = Tail(frames[p])
      /\ sig_mask'[p] = Head(frames[p]).restore_mask
      /\ unmasked'[p] = (unmasked[p] /\ Len(frames[p]) > 1)
      /\ \A q \in SigProcs \ {p} : /\ unmasked'[q] = unmasked[q]
                                   /\ frames'[q] = frames[q]
                                   /\ sig_mask'[q] = sig_mask[q]
      /\ chosen' = chosen
  BY <1>0 DEF SignalsTypeOK, sigreturn
<1>4. SignalsTypeOK'
  BY <1>0, <1>a, <1>2 DEF SignalsTypeOK, sigreturn, Frame
<1>5. ASSUME ~unmasked'[p] PROVE Nested(frames'[p], sig_mask'[p])
  <2>1. CASE ~unmasked[p]
    <3>1. Nested(frames[p], sig_mask[p])
      BY <2>1 DEF NestedInv
    <3> QED
      BY <1>1, <1>3, <3>1, PopKeepsNested
  <2>2. CASE ~(Len(frames[p]) > 1)
    <3>0. ASSUME NEW n \in Nat, n > 0, ~(n > 1) PROVE n - 1 = 0
      BY <3>0
    <3>a. Len(Tail(frames[p])) = 0
      BY <1>a, <2>2, <3>0, Zenon
    <3>1. Len(frames'[p]) = 0
      BY <1>3, <3>a, Zenon
    <3> QED
      BY <3>1 DEF Nested
  <2> QED
    BY <1>3, <1>5, <2>1, <2>2
<1>6. Based(frames'[p], sig_mask'[p], chosen'[p])
  <2>1. Based(frames[p], sig_mask[p], chosen[p]) /\ chosen[p] \in SUBSET Sig
    BY <1>0 DEF NestedInv, SignalsTypeOK
  <2>2. Based(Tail(frames[p]), Head(frames[p]).restore_mask, chosen[p])
    BY <1>1, <2>1, PopKeepsBased
  <2> QED
    BY <1>3, <2>2
<1> QED
  BY <1>3, <1>4, <1>5, <1>6, NestedKept

\* So does a call of sigprocmask(): blocking more keeps what is masked, and a
\* handler that does anything else has unmasked itself.
LEMMA MaskKeeps ==
    ASSUME NestedInv, NEW p \in SigProcs,
           NEW how \in {"SIG_BLOCK", "SIG_UNBLOCK", "SIG_SETMASK"}, NEW set \in SUBSET Sig,
           sigprocmask(p, how, set)
    PROVE  NestedInv'
<1> DEFINE mask == NewMask(how, sig_mask[p], set)
<1>0. SignalsTypeOK
  BY DEF NestedInv
<1>1. mask \in SUBSET Sig /\ (how = "SIG_BLOCK" => sig_mask[p] \subseteq mask)
  BY <1>0 DEF NewMask, SignalsTypeOK
<1> HIDE DEF mask
<1>2. /\ sig_mask' = [sig_mask EXCEPT ![p] = mask]
      /\ unmasked'[p] = (unmasked[p] \/ (frames[p] # <<>> /\ how # "SIG_BLOCK"))
      /\ \A q \in SigProcs \ {p} : unmasked'[q] = unmasked[q]
      /\ UNCHANGED <<sig_pending, sigactions, sigtramp, frames>>
  BY <1>0 DEF sigprocmask, mask, SignalsTypeOK
<1>3. sig_mask'[p] = mask /\ \A q \in SigProcs \ {p} : sig_mask'[q] = sig_mask[q]
  BY <1>0, <1>2 DEF SignalsTypeOK
<1>4. unmasked' \in [SigProcs -> BOOLEAN]
  BY <1>0 DEF SignalsTypeOK, sigprocmask
<1>a. /\ chosen' \in [SigProcs -> SUBSET Sig]
      /\ \A q \in SigProcs \ {p} : chosen'[q] = chosen[q]
      /\ chosen'[p] = IF frames[p] = <<>> THEN mask ELSE chosen[p]
  BY <1>0, <1>1, <1>3 DEF SignalsTypeOK, sigprocmask
<1>5. SignalsTypeOK'
  BY <1>0, <1>1, <1>2, <1>4, <1>a DEF SignalsTypeOK
<1>6. ASSUME ~unmasked'[p] PROVE Nested(frames'[p], sig_mask'[p])
  <2>1. Nested(frames[p], sig_mask[p]) /\ (frames[p] = <<>> \/ how = "SIG_BLOCK")
    BY <1>2, <1>6 DEF NestedInv
  <2>2. CASE frames[p] = <<>>
    BY <1>2, <2>2 DEF Nested
  <2>3. CASE how = "SIG_BLOCK"
    BY <1>1, <1>2, <1>3, <2>1, <2>3 DEF Nested
  <2> QED
    BY <2>1, <2>2, <2>3
<1>7. Based(frames'[p], sig_mask'[p], chosen'[p])
  BY <1>2, <1>3, <1>a DEF Based, NestedInv
<1> QED
  BY <1>2, <1>3, <1>a, <1>5, <1>6, <1>7, NestedKept

\* A child of fork() that has a copy of its parent's frames counts as unmasked.
LEMMA BuildKeeps ==
    ASSUME NestedInv, NEW p \in SigProcs, NEW parent \in SigProcs, BuildSignals(p, parent)
    PROVE  NestedInv'
<1>0. SignalsTypeOK
  BY DEF NestedInv
<1>1. PICK garbage \in SUBSET Sig :
        /\ sig_mask' = [sig_mask EXCEPT ![p] = garbage]
        /\ chosen' = [chosen EXCEPT ![p] = IF frames[parent] = <<>> THEN garbage
                                           ELSE chosen[parent]]
  BY DEF BuildSignals
<1>2. Default \in [Sig -> Action]
  BY DEF Default, Action, Handler
<1>3. SignalsTypeOK'
  BY <1>0, <1>1, <1>2 DEF SignalsTypeOK, BuildSignals
<1>4. frames'[p] = frames[parent] /\ unmasked'[p] = (frames[parent] # <<>>)
  BY <1>0 DEF SignalsTypeOK, BuildSignals
<1>5. \A q \in SigProcs \ {p} : /\ unmasked'[q] = unmasked[q]
                                /\ frames'[q] = frames[q]
                                /\ sig_mask'[q] = sig_mask[q]
                                /\ chosen'[q] = chosen[q]
  BY <1>0, <1>1 DEF SignalsTypeOK, BuildSignals
<1>6. ~unmasked'[p] => Nested(frames'[p], sig_mask'[p])
  <2>1. ASSUME ~unmasked'[p] PROVE frames'[p] = <<>>
    BY <1>4, <2>1
  <2>2. ASSUME frames'[p] = <<>> PROVE Len(frames'[p]) = 0
    BY <2>2
  <2> QED
    BY <2>1, <2>2 DEF Nested
<1>7. Based(frames'[p], sig_mask'[p], chosen'[p])
  <2>1. /\ sig_mask'[p] = garbage
        /\ chosen'[p] = IF frames[parent] = <<>> THEN garbage ELSE chosen[parent]
    BY <1>0, <1>1 DEF SignalsTypeOK
  <2> QED
    BY <1>4, <2>1 DEF Based, NestedInv
<1> QED
  BY <1>3, <1>5, <1>6, <1>7, NestedKept

\* The other steps change neither masks nor frames.
LEMMA OthersKeep ==
    ASSUME NestedInv,
           \/ \E members \in SUBSET SigProcs : SendInterrupt(members)
           \/ \E p \in SigProcs :
                 \/ register_sigtramp(p)
                 \/ \E s \in Sig, sa \in Action : sigaction(p, s, sa)
    PROVE  NestedInv'
<1>0. SignalsTypeOK
  BY DEF NestedInv
<1>1. UNCHANGED <<sig_mask, frames, unmasked, chosen>>
  BY DEF SendInterrupt, register_sigtramp, sigaction
<1>2. SignalsTypeOK'
  <2>1. ASSUME NEW members \in SUBSET SigProcs, SendInterrupt(members) PROVE SignalsTypeOK'
    BY <1>0, <2>1 DEF SignalsTypeOK, SendInterrupt, Sig
  <2>2. ASSUME NEW p \in SigProcs, register_sigtramp(p) PROVE SignalsTypeOK'
    BY <1>0, <2>2 DEF SignalsTypeOK, register_sigtramp
  <2>3. ASSUME NEW p \in SigProcs, NEW s \in Sig, NEW sa \in Action, sigaction(p, s, sa)
        PROVE  SignalsTypeOK'
    BY <1>0, <2>3 DEF SignalsTypeOK, sigaction
  <2> QED
    BY <2>1, <2>2, <2>3
<1> QED
  BY <1>1, <1>2 DEF NestedInv

\* Through handlers nested to any depth, their returns, changes of the mask and
\* forks, every signal whose handler has not returned is masked, unless the process
\* unmasked it itself or is a copy made by fork(); and outside of handlers a process
\* has the mask it last chose there.
THEOREM HandlersTheorem == SignalsSpec => []HandlersMasked
<1>1. SignalsInit => NestedInv
  <2> SUFFICES ASSUME SignalsInit PROVE NestedInv
    OBVIOUS
  <2>1. Default \in [Sig -> Action]
    BY DEF Default, Action, Handler
  <2>2. SignalsTypeOK
    BY <2>1 DEF SignalsInit, SignalsTypeOK
  <2>3. \A p \in SigProcs : frames[p] = <<>>
    BY DEF SignalsInit
  <2> QED
    BY <2>2, <2>3 DEF NestedInv, Nested, Based, SignalsInit
<1>2. NestedInv /\ [SignalsNext]_sigVars => NestedInv'
  <2> SUFFICES ASSUME NestedInv, [SignalsNext]_sigVars PROVE NestedInv'
    OBVIOUS
  <2>1. CASE SignalsNext
    BY <2>1, DeliverKeeps, ReturnKeeps, MaskKeeps, BuildKeeps, OthersKeep DEF SignalsNext
  <2>2. CASE UNCHANGED sigVars
    BY <2>2 DEF sigVars, NestedInv, SignalsTypeOK
  <2> QED
    BY <2>1, <2>2
<1>3. NestedInv => HandlersMasked
  <2> SUFFICES ASSUME NestedInv, NEW p \in SigProcs
               PROVE  /\ ~unmasked[p] =>
                            \A i \in DOMAIN frames[p] : frames[p][i].sig \in sig_mask[p]
                      /\ frames[p] = <<>> => sig_mask[p] = chosen[p]
    BY DEF HandlersMasked
  <2>1. /\ frames[p] \in Seq(Frame) /\ sig_mask[p] \in SUBSET Sig
        /\ ~unmasked[p] => Nested(frames[p], sig_mask[p])
    BY DEF NestedInv, SignalsTypeOK, Frame
  <2>2. frames[p] = <<>> => sig_mask[p] = chosen[p]
    BY DEF NestedInv, Based
  <2> QED
    BY <2>1, <2>2, NestedMasked
<1> QED
  BY <1>1, <1>2, <1>3, PTL DEF SignalsSpec
=============================================================================
