----------------------------- MODULE InputQueue -----------------------------
(***************************************************************************)
(* What a terminal promises: scan codes wait in the order in which the     *)
(* keys were pressed, as many as there is room for.  The oldest key is     *)
(* turned into its characters, which wait in that order behind the earlier *)
(* ones, again as many as there is room for.  A read returns and removes   *)
(* the oldest characters.                                                  *)
(***************************************************************************)
EXTENDS Naturals, Sequences

CONSTANTS Code, Readers,
          CodeCapacity, CharCapacity,  \* how many codes, characters may wait
          KeyLength(_),   \* how many of the waiting codes are the oldest key
          Chars(_, _),    \* the characters of a key, given whether Ctrl is down
          CtrlAfter(_, _) \* whether Ctrl is down after a key

VARIABLES codes,  \* the codes that have not been translated
          ctrl,   \* Ctrl is down
          queue,  \* the characters that have not been read
          got     \* per reader: what its last read returned

Init ==
    /\ codes = <<>>
    /\ ctrl = FALSE
    /\ queue = <<>>
    /\ got = [r \in Readers |-> <<>>]

\* The first elements of a sequence, as many as fit.
Fitting(seq, capacity) ==
    SubSeq(seq, 1, IF Len(seq) < capacity THEN Len(seq) ELSE capacity)

Press(code) ==
    /\ codes' = Fitting(Append(codes, code), CodeCapacity)
    /\ UNCHANGED <<ctrl, queue, got>>

Translate ==
    LET key == Fitting(codes, KeyLength(codes))
    IN  /\ codes' = SubSeq(codes, Len(key) + 1, Len(codes))
        /\ ctrl' = CtrlAfter(key, ctrl)
        /\ queue' = Fitting(queue \o Chars(key, ctrl), CharCapacity)
        /\ UNCHANGED got

Read(r) ==
    \E n \in 1 .. Len(queue) :
        /\ got' = [got EXCEPT ![r] = SubSeq(queue, 1, n)]
        /\ queue' = SubSeq(queue, n + 1, Len(queue))
        /\ UNCHANGED <<codes, ctrl>>

\* The reader goes on and forgets what it read, or is interrupted.
Forget(r) ==
    /\ got' = [got EXCEPT ![r] = <<>>]
    /\ UNCHANGED <<codes, ctrl, queue>>

Next ==
    \/ \E code \in Code : Press(code)
    \/ Translate
    \/ \E r \in Readers : Read(r) \/ Forget(r)

Spec == Init /\ [][Next]_<<codes, ctrl, queue, got>>
=============================================================================
