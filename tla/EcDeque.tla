------------------------------ MODULE EcDeque ------------------------------
(***************************************************************************)
(* What the lists of ethercat/nuttx/linux/list.h promise the EtherCAT      *)
(* master: each head holds a sequence of entries, no entry is in two       *)
(* places, and an operation changes the sequence it names and no other.    *)
(***************************************************************************)
EXTENDS SequencesExt

CONSTANTS ListHead, Entry

VARIABLE lists        \* the entries of each head, first to last

Init == lists = [h \in ListHead |-> <<>>]

In(e, h) == Contains(lists[h], e)
Free(e) == \A h \in ListHead : ~In(e, h)

AddFirst(e, h) == Free(e) /\ lists' = [lists EXCEPT ![h] = <<e>> \o @]
AddLast(e, h) == Free(e) /\ lists' = [lists EXCEPT ![h] = Append(@, e)]

\* e is the entry at place i of the list g.
Without(g, i) == [lists EXCEPT ![g] = RemoveAt(@, i)]

Delete(e) ==
  \E g \in ListHead : \E i \in DOMAIN lists[g] :
    lists[g][i] = e /\ lists' = Without(g, i)

MoveLast(e, h) ==
  \E g \in ListHead : \E i \in DOMAIN lists[g] :
    lists[g][i] = e /\ lists' = [Without(g, i) EXCEPT ![h] = Append(@, e)]

Next ==
  \E e \in Entry :
    \/ Delete(e)
    \/ \E h \in ListHead : AddFirst(e, h) \/ AddLast(e, h) \/ MoveLast(e, h)

Spec == Init /\ [][Next]_lists
=============================================================================
