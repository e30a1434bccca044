------------------------------- MODULE Queues -------------------------------
(***************************************************************************)
(* What a doubly linked list promises its users: queues of elements, each   *)
(* element in one queue at most, that change in one place at a time.        *)
(***************************************************************************)
EXTENDS SequencesExt

CONSTANTS Heads, Elems
VARIABLE queue

Members == UNION {ToSet(queue[h]) : h \in Heads}

Init == queue = [h \in Heads |-> << >>]

Enter(h, i, e) == /\ e \notin Members
                   /\ queue' = [queue EXCEPT ![h] = InsertAt(@, i, e)]
Leave(h, i) == queue' = [queue EXCEPT ![h] = RemoveAt(@, i)]
Exchange(h, i, e) == /\ e \notin Members
                    /\ queue' = [queue EXCEPT ![h] = ReplaceAt(@, i, e)]

Next == \E h \in Heads :
          \/ \E e \in Elems, i \in 1..(Len(queue[h]) + 1) : Enter(h, i, e)
          \/ \E i \in DOMAIN queue[h] : Leave(h, i) \/ \E e \in Elems : Exchange(h, i, e)
Spec == Init /\ [][Next]_queue
=============================================================================
