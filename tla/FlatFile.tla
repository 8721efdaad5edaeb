------------------------------ MODULE FlatFile ------------------------------
(***************************************************************************)
(* What a file promises to its reader and writer: a sequence of bytes and  *)
(* a position.  A read returns what is there from the position on, at most *)
(* as much as was asked for; a write replaces and extends; a seek goes     *)
(* anywhere in the file; opening it again starts at its beginning.         *)
(***************************************************************************)
EXTENDS Naturals, Sequences

CONSTANTS Byte, MaxSize, MaxRead

VARIABLES content, pos, got

vars == <<content, pos, got>>

Init == content = <<>> /\ pos = 0 /\ got = <<>>

Least(a, b) == IF a < b THEN a ELSE b

Read(len) ==
    /\ got' = SubSeq(content, pos + 1, Least(pos + len, Len(content)))
    /\ pos' = pos + Len(got')
    /\ UNCHANGED content

Write(bytes) ==
    /\ content' = SubSeq(content, 1, pos) \o bytes
                      \o SubSeq(content, pos + Len(bytes) + 1, Len(content))
    /\ pos' = pos + Len(bytes)
    /\ UNCHANGED got

Seek(offset) == pos' = offset /\ UNCHANGED <<content, got>>

Next ==
    \/ \E len \in 1 .. MaxRead : Read(len)
    \/ \E n \in 1 .. MaxRead : \E bytes \in [1 .. n -> Byte] : Write(bytes)
    \/ \E offset \in 0 .. Len(content) : Seek(offset)

Spec == Init /\ [][Next]_vars
=============================================================================
