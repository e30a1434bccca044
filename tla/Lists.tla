------------------------------- MODULE Lists -------------------------------
(***************************************************************************)
(* The two lists of src/list.h: dLIST, in which the event queues of a       *)
(* loop_base are kept, and dlist_t, the list of json_parser.h.  Neither     *)
(* writes to an element it takes out, so what an element outside of every   *)
(* list points to is stale.                                                 *)
(*                                                                         *)
(* In a dLIST, le_prev is the address of the pointer to the element: the    *)
(* lh_first of a head or the le_next of another element.  Here an address   *)
(* is the head or the element that pointer is in.                           *)
(***************************************************************************)
EXTENDS Integers, Sequences, FiniteSets

CONSTANTS NULL, Heads, Elems

ASSUME NamesAssumption == /\ Heads \cap Elems = {} /\ NULL \notin Heads \cup Elems
                          /\ IsFiniteSet(Elems)

Places == Heads \cup Elems

VARIABLES
  link,   \* dLIST: lh_first of a head, le_next of an element
  back,   \* dLIST: le_prev
  on,     \* the elements in a dLIST
  next, prev,  \* dlist_t: the pointers of heads and elements
  in      \* the elements in a dlist_t

dLISTs == <<link, back, on>>
dlists == <<next, prev, in>>
vars == <<dLISTs, dlists>>

\* dLIST_INIT and dlist_init of the heads; the elements are zeroed
Init == /\ link = [p \in Places |-> NULL]
        /\ back = [e \in Elems |-> NULL] /\ on = {}
        /\ next = [p \in Places |-> IF p \in Heads THEN p ELSE NULL] /\ prev = next
        /\ in = {}

-----------------------------------------------------------------------------
(* dLIST *)

\* dLIST_INSERT_HEAD at a head, dLIST_INSERT_AFTER at an element of a list
InsertAfter(p, e) ==
  /\ p \in Heads \cup on /\ e \notin on
  /\ link' = [link EXCEPT ![e] = link[p], ![p] = e]
  /\ back' = [x \in Elems |-> IF x = e THEN p ELSE IF x = link[p] THEN e ELSE back[x]]
  /\ on' = on \cup {e} /\ UNCHANGED dlists

\* the element before is not told
MutInsertBefore(x, e) ==
  /\ x \in on /\ e \notin on
  /\ link' = [link EXCEPT ![e] = x]
  /\ back' = [back EXCEPT ![e] = back[x], ![x] = e]
  /\ on' = on \cup {e} /\ UNCHANGED dlists
\* dLIST_INSERT_BEFORE
InsertBefore(x, e) ==
  /\ x \in on /\ e \notin on
  /\ link' = [link EXCEPT ![e] = x, ![back[x]] = e]
  /\ back' = [back EXCEPT ![e] = back[x], ![x] = e]
  /\ on' = on \cup {e} /\ UNCHANGED dlists

\* dLIST_REMOVE
Remove(e) ==
  /\ e \in on
  /\ link' = [link EXCEPT ![back[e]] = link[e]]
  /\ back' = [x \in Elems |-> IF x = link[e] THEN back[e] ELSE back[x]]
  /\ on' = on \ {e} /\ UNCHANGED dlists

\* dLIST_REPLACE
Replace(x, e) ==
  /\ x \in on /\ e \notin on
  /\ link' = [link EXCEPT ![e] = link[x], ![back[x]] = e]
  /\ back' = [y \in Elems |-> IF y = e THEN back[x] ELSE IF y = link[x] THEN e ELSE back[y]]
  /\ on' = (on \ {x}) \cup {e} /\ UNCHANGED dlists

-----------------------------------------------------------------------------
(* dlist_t *)

\* __dlist_add, between two neighbours
AddBetween(e, p, n) ==
  /\ next' = [next EXCEPT ![e] = n, ![p] = e]
  /\ prev' = [prev EXCEPT ![e] = p, ![n] = e]
  /\ in' = in \cup {e} /\ UNCHANGED dLISTs

\* dlist_add and dlist_add_tail, at a head or an element of a list
Add(q, e) == q \in Heads \cup in /\ e \notin in /\ AddBetween(e, q, next[q])
AddTail(q, e) == q \in Heads \cup in /\ e \notin in /\ AddBetween(e, prev[q], q)

\* only the way forward is mended
MutDel(e) == /\ e \in in
             /\ next' = [next EXCEPT ![prev[e]] = next[e]] /\ UNCHANGED prev
             /\ in' = in \ {e} /\ UNCHANGED dLISTs
\* dlist_del
Del(e) == /\ e \in in
          /\ next' = [next EXCEPT ![prev[e]] = next[e]]
          /\ prev' = [prev EXCEPT ![next[e]] = prev[e]]
          /\ in' = in \ {e} /\ UNCHANGED dLISTs

-----------------------------------------------------------------------------
Next ==
  \/ \E p \in Places, e \in Elems : InsertAfter(p, e)
  \/ \E x, e \in Elems : InsertBefore(x, e) \/ Replace(x, e)
  \/ \E e \in Elems : Remove(e)
  \/ \E q \in Places, e \in Elems : Add(q, e) \/ AddTail(q, e)
  \/ \E e \in Elems : Del(e)
Spec == Init /\ [][Next]_vars

-----------------------------------------------------------------------------
(* Properties *)

\* The elements from the successor of a head on, up to the first that is no element
Follow(l) ==
  LET f[n \in 0..Cardinality(Elems)] ==
        [p \in Places |-> IF n = 0 \/ l[p] \notin Elems THEN << >>
                          ELSE <<l[p]>> \o f[n - 1][l[p]]]
  IN  [h \in Heads |-> f[Cardinality(Elems)][h]]

Walk == Follow(link)        \* LIST_FOREACH, up to NULL
WalkRound == Follow(next)   \* dlist_for_each, up to a head
WalkBack == Follow(prev)    \* dlist_for_each_entry_reverse

TypeOK ==
  /\ link \in [Places -> Elems \cup {NULL}] /\ back \in [Elems -> Places \cup {NULL}]
  /\ on \in SUBSET Elems /\ in \in SUBSET Elems
  /\ next \in [Places -> Places \cup {NULL}] /\ prev \in [Places -> Places \cup {NULL}]

\* Whatever is inserted and removed where, the pointers of heads and elements lead to
\* elements of a list and back again: nothing stale is ever followed
\* (list.h:103-141, 167-204).
Forward == \A p \in Heads \cup on : link[p] # NULL => link[p] \in on /\ back[link[p]] = p
Backward == \A e \in on : back[e] \in Heads \cup on /\ link[back[e]] = e
Round == \A p \in Heads \cup in : /\ next[p] \in Heads \cup in /\ prev[next[p]] = p
                                  /\ prev[p] \in Heads \cup in /\ next[prev[p]] = p
LinkedBothWays == Forward /\ Backward /\ Round

\* Both lists are queues: a walk, in either direction, finds every element that was inserted
\* and not removed, once and in its place (list.h:91-94, 245-246, 305-308).
OfEvents == INSTANCE Queues WITH queue <- Walk
OfJson == INSTANCE Queues WITH queue <- WalkRound
Backwards == INSTANCE Queues WITH queue <- WalkBack
ImplementsQueues == OfEvents!Spec /\ OfJson!Spec /\ Backwards!Spec
=============================================================================
