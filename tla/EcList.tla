------------------------------- MODULE EcList -------------------------------
(***************************************************************************)
(* The circular doubly linked lists of the EtherCAT shim                   *)
(* (ethercat/nuttx/linux/list.h): the linkage of every head and entry, the *)
(* operations as the pointer assignments they are, and one loop of         *)
(* list_for_each_entry_safe whose body may unlink the entry it is at.      *)
(*                                                                         *)
(* The callers are the master (external): they add an entry that is in no  *)
(* list and unlink one that is in a list, which is what the file's         *)
(* comments ask for.  They may list_del the head of an empty list, and,    *)
(* with MisuseHead, of any list, which a comment allows.                   *)
(***************************************************************************)
EXTENDS Naturals, Sequences, FiniteSets

CONSTANTS
  ListHead,         \* list heads
  Entry,        \* linkage of the elements
  Null,         \* a pointer in memory nothing was stored to yet
  MisuseHead    \* callers also call list_del(head)

ASSUME ListAssumption ==
  /\ ListHead \cap Entry = {} /\ Null \notin ListHead \cup Entry
  /\ IsFiniteSet(Entry)
  /\ MisuseHead \in BOOLEAN

Node == ListHead \cup Entry

VARIABLES
  next, prev,   \* the two fields of struct list_head
  in,           \* history: the head each linked entry was added under
  loop,         \* the head a list_for_each_entry_safe is at, or Null
  pos, tmp,     \* its two iterators
  due,          \* history: entries linked since the loop began, not yet visited
  seen          \* history: entries the loop visited, and linked ever since

links == <<next, prev>>
iter == <<loop, pos, tmp>>
history == <<due, seen>>
vars == <<links, in, iter, history>>

\* LIST_HEAD_INIT, INIT_LIST_HEAD: the heads are initialised, the entries are
\* as malloc left them.
Init ==
  /\ next = [n \in Node |-> IF n \in ListHead THEN n ELSE Null]
  /\ prev = next
  /\ in = [e \in Entry |-> Null]
  /\ loop = Null
  /\ pos = Null
  /\ tmp = Null
  /\ due = {}
  /\ seen = {}

Linked == {e \in Entry : in[e] # Null}

-----------------------------------------------------------------------------
(* The operations on the linkage.                                          *)

AddBetweenHalf(e, p, n) ==   \* fault: next->prev is forgotten
  /\ next' = [next EXCEPT ![e] = n, ![p] = e]
  /\ prev' = [prev EXCEPT ![e] = p]

AddBetween(e, p, n) ==                                     \* __list_add
  /\ next' = [next EXCEPT ![e] = n, ![p] = e]
  /\ prev' = [prev EXCEPT ![n] = e, ![e] = p]

Unlink(e) ==                                               \* __list_del
  /\ prev' = [prev EXCEPT ![next[e]] = prev[e]]
  /\ next' = [next EXCEPT ![prev[e]] = next[e]]

ListAdd(e, h) ==
  /\ AddBetween(e, h, next[h])
  /\ in' = [in EXCEPT ![e] = h]

ListAddTail(e, h) ==
  /\ AddBetween(e, prev[h], h)
  /\ in' = [in EXCEPT ![e] = h]

ListDel(e) ==
  /\ Unlink(e)
  /\ in' = [in EXCEPT ![e] = Null]

\* __list_del, then INIT_LIST_HEAD(entry).
ListDelInit(e) ==
  /\ prev' = [prev EXCEPT ![next[e]] = prev[e], ![e] = e]
  /\ next' = [next EXCEPT ![prev[e]] = next[e], ![e] = e]
  /\ in' = [in EXCEPT ![e] = Null]

ListMoveTailStale(e, h) ==   \* fault: head->prev is read before __list_del
  /\ next' = [next EXCEPT ![prev[e]] = next[e], ![e] = h, ![prev[h]] = e]
  /\ prev' = [prev EXCEPT ![next[e]] = prev[e], ![h] = e, ![e] = prev[h]]
  /\ in' = [in EXCEPT ![e] = h]

ListMoveTailLost(e, h) ==    \* fault: the old neighbours are not joined
  /\ next' = [next EXCEPT ![e] = h, ![prev[h]] = e]
  /\ prev' = [prev EXCEPT ![h] = e, ![e] = prev[h]]
  /\ in' = [in EXCEPT ![e] = h]

\* __list_del(list->prev, list->next), then list_add_tail(list, head): the
\* second reads head->prev after the first wrote it.
ListMoveTail(e, h) ==
  /\ LET n == [next EXCEPT ![prev[e]] = next[e]]
         p == [prev EXCEPT ![next[e]] = prev[e]]
     IN /\ next' = [n EXCEPT ![e] = h, ![p[h]] = e]
        /\ prev' = [p EXCEPT ![h] = e, ![e] = p[h]]
  /\ in' = [in EXCEPT ![e] = h]

ListEmpty(h) == next[h] = h

-----------------------------------------------------------------------------
(* The callers.  While a loop runs its body may add entries and unlink or  *)
(* move away the entry it is at.                                           *)

May(e) == e \in Linked /\ (loop # Null => e = pos)

\* The history, when es leave their list.
Settle(es) == due' = due \ es /\ seen' = seen \ es

\* ...and when the loop visits n.
Visit(n) == due' = due \ {n} /\ seen' = seen \cup ({n} \cap Entry)

Add ==
  \E e \in Entry \ Linked, h \in ListHead :
    /\ ListAdd(e, h) \/ ListAddTail(e, h)
    /\ Settle({})
    /\ UNCHANGED iter

Del ==
  \E e \in Entry :
    /\ May(e)
    /\ ListDel(e) \/ ListDelInit(e)
    /\ Settle({e})
    /\ UNCHANGED iter

\* In a loop only away from the list it goes through, which would not end.
Move ==
  \E e \in Entry, h \in ListHead :
    /\ May(e)
    /\ h # loop
    /\ ListMoveTail(e, h)
    /\ Settle({e})
    /\ UNCHANGED iter

\* while (!list_empty(h)) list_del_init(list_first_entry(h))
TakeFirst ==
  \E h \in ListHead :
    /\ loop = Null
    /\ ~ListEmpty(h)
    /\ next[h] \in Entry
    /\ ListDelInit(next[h])
    /\ Settle({})
    /\ UNCHANGED iter

DelHead ==
  /\ \E h \in ListHead :
       /\ MisuseHead \/ ListEmpty(h)
       /\ Unlink(h)
  /\ UNCHANGED <<in, iter, history>>

-----------------------------------------------------------------------------
(* list_for_each_entry_safe(pos, tmp, head)                                *)

ForEach ==
  /\ loop = Null
  /\ \E h \in ListHead :
       /\ loop' = h
       /\ pos' = next[h]
       /\ tmp' = next[next[h]]
       /\ due' = {e \in Linked : in[e] = h} \ {next[h]}
       /\ seen' = {next[h]} \cap Entry
  /\ UNCHANGED <<links, in>>

AdvanceFromPos ==            \* fault: list_for_each_entry, no backup pointer
  /\ loop # Null
  /\ pos # loop
  /\ pos' = next[pos]
  /\ tmp' = next[next[pos]]
  /\ Visit(next[pos])
  /\ UNCHANGED <<links, in, loop>>

Advance ==
  /\ loop # Null
  /\ pos # loop
  /\ pos' = tmp
  /\ tmp' = next[tmp]
  /\ Visit(tmp)
  /\ UNCHANGED <<links, in, loop>>

ForEachEnds ==
  /\ loop # Null
  /\ pos = loop
  /\ loop' = Null
  /\ pos' = Null
  /\ tmp' = Null
  /\ due' = {}
  /\ seen' = {}
  /\ UNCHANGED <<links, in>>

Next ==
  \/ Add \/ Del \/ Move \/ TakeFirst \/ DelHead
  \/ ForEach \/ Advance \/ ForEachEnds

Spec == Init /\ [][Next]_vars

-----------------------------------------------------------------------------
(* The lists as sequences: for (pos = head->next; pos is an entry;         *)
(* pos = pos->next), for at most as many steps as there are entries.       *)

Walk(field, h) ==
  LET from[k \in 0 .. Cardinality(Entry)] ==
        IF k = 0 THEN <<>>
        ELSE LET s == from[k - 1]
                 n == IF s = <<>> THEN field[h] ELSE field[s[Len(s)]]
             IN  IF n \in Entry THEN Append(s, n) ELSE s
  IN from[Cardinality(Entry)]

Contents == [h \in ListHead |-> Walk(next, h)]

Deque == INSTANCE EcDeque WITH lists <- Contents

-----------------------------------------------------------------------------
(* Properties                                                              *)

\* Every variable has its type, and the pointers of a head are never
\* uninitialised memory.
TypeOK ==
  /\ next \in [Node -> Node \cup {Null}]
  /\ prev \in [Node -> Node \cup {Null}]
  /\ \A h \in ListHead : Null \notin {next[h], prev[h]}
  /\ in \in [Entry -> ListHead \cup {Null}]
  /\ loop \in ListHead \cup {Null}
  /\ pos \in Node \cup {Null} /\ tmp \in Node \cup {Null}
  /\ due \subseteq Entry /\ seen \subseteq Entry

\* Every head and every linked entry is in a ring: the two fields are inverse
\* to each other and lead to heads and linked entries only, never to memory
\* nothing was stored to or to an entry that was unlinked.
Ring ==
  \A n \in ListHead \cup Linked :
    /\ next[n] \in ListHead \cup Linked /\ prev[next[n]] = n
    /\ prev[n] \in ListHead \cup Linked /\ next[prev[n]] = n

\* The list a head or a linked entry belongs to.
Home(n) == IF n \in ListHead THEN n ELSE in[n]

\* Following next never leads from one list into another: an entry added to,
\* or moved under, one head does not show up under another.
HeadsApart ==
  \A n \in ListHead \cup Linked : Home(next[n]) = Home(n)

\* list_for_each_entry_safe never holds a pointer to an entry outside its list
\* as the next one to visit, whatever its body does to the current entry, nor
\* one it has visited before, unless that one was unlinked since, and has
\* visited, when it ends, every entry that was in the list when it began and
\* was not unlinked: each of these exactly once.
VisitsAll ==
  loop # Null =>
    /\ tmp = loop \/ (tmp \in Linked /\ in[tmp] = loop)
    /\ pos # loop => tmp \notin seen
    /\ pos = loop => due = {}

\* The pointer operations implement sequences.
ImplementsDeque == Deque!Spec
=============================================================================
