---------------------------- MODULE MCLinkedList ----------------------------
(***************************************************************************)
(* Three data, two of which compare equal, in a private and in a shared    *)
(* list.                                                                   *)
(***************************************************************************)
EXTENDS LinkedList

CONSTANTS n1, n2, n3, d1, d2, d3

MCNode == {n1, n2, n3}
MCData == {d1, d2, d3}
MCKey(d) == IF d = d2 THEN d1 ELSE d
=============================================================================
