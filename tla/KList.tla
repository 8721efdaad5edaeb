------------------------------- MODULE KList -------------------------------
(***************************************************************************)
(* The doubly linked lists of kernel/inc/common/list.h, as sequences: the  *)
(* first element is the node behind the list head.                         *)
(***************************************************************************)
EXTENDS Naturals, Sequences

\* list_add() inserts behind the list head: a list used with list_add() and
\* list_first() is a stack.
ListAdd(t, list) == <<t>> \o list

\* list_rm(): unlink one node.
ListRm(t, list) ==
    LET i == CHOOSE j \in DOMAIN list : list[j] = t
    IN  SubSeq(list, 1, i - 1) \o SubSeq(list, i + 1, Len(list))

OnList(t, list) == \E i \in DOMAIN list : list[i] = t

NoDuplicates(list) ==
    \A i, j \in DOMAIN list : list[i] = list[j] => i = j
=============================================================================
