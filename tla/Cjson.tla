------------------------------- MODULE Cjson -------------------------------
(***************************************************************************)
(* The items of src/cJSON.c in the heap: how they are linked, moved,        *)
(* copied and freed.  A pointer is a number, 0 is NULL.  Of an item's       *)
(* contents only its name is kept, and names that differ in case only are   *)
(* the same name.                                                           *)
(*                                                                         *)
(* The caller holds pointers to the roots.  It passes a function an array   *)
(* or object that is no reference, and an item to put in that it holds and  *)
(* that does not contain the array; and it deletes nothing that a           *)
(* reference elsewhere points into.                                         *)
(***************************************************************************)
EXTENDS Integers, Sequences, FiniteSets, TLC

CONSTANTS MaxItems, Names

Items == 1..MaxItems
NULL == 0

VARIABLES
  heap,     \* the items allocated
  held,     \* the roots the caller has a pointer to
  crashed   \* a null pointer has been followed
vars == <<heap, held, crashed>>

Init == heap = << >> /\ held = {} /\ crashed = FALSE

-----------------------------------------------------------------------------
(* Memory *)

Item0 == [next |-> NULL, prev |-> NULL, child |-> NULL, isRef |-> FALSE, string |-> NULL]
Fresh(h) == Items \ DOMAIN h

\* cJSON_New_Item: where it is put; NULL when malloc fails
NewItem(h, left) == IF left = 0 \/ Fresh(h) = {} THEN NULL
                    ELSE CHOOSE i \in Fresh(h) : \A j \in Fresh(h) : i <= j
Alloc(h, i) == (i :> Item0) @@ h

\* the items from c on, along next
RECURSIVE Chain(_, _)
Chain(h, c) == IF c \notin DOMAIN h THEN << >>
               ELSE <<c>> \o Chain([j \in DOMAIN h \ {c} |-> h[j]], h[c].next)
Children(h, a) == Chain(h, h[a].child)

\* a reference's children too
RECURSIVE MutFreed(_, _)
MutFreed(h, c) ==
  IF c \notin DOMAIN h THEN {}
  ELSE LET rest == [j \in DOMAIN h \ {c} |-> h[j]]
       IN  {c} \cup MutFreed(rest, h[c].next) \cup MutFreed(rest, h[c].child)
\* cJSON_Delete frees c, what follows it along next, and their children, but for a
\* reference's
RECURSIVE Freed(_, _)
Freed(h, c) ==
  IF c \notin DOMAIN h THEN {}
  ELSE LET rest == [j \in DOMAIN h \ {c} |-> h[j]]
       IN  {c} \cup Freed(rest, h[c].next)
               \cup (IF h[c].isRef THEN {} ELSE Freed(rest, h[c].child))
Delete(h, c) == [i \in DOMAIN h \ Freed(h, c) |-> h[i]]

-----------------------------------------------------------------------------
(* Lists of children *)

\* the field of an item, if there is an item
Set(h, p, field, v) == IF p = NULL THEN h ELSE [h EXCEPT ![p][field] = v]

Suffix(h, p, i) == Set(Set(h, p, "next", i), i, "prev", p)

\* cJSON_AddItemToArray
AddItemToArray(h, a, i) ==
  IF h[a].child = NULL THEN Set(h, a, "child", i)
  ELSE Suffix(h, Children(h, a)[Len(Children(h, a))], i)

\* the next item still thinks that c comes before it
MutDetach(h, a, c) ==
  LET g == Set(h, h[c].prev, "next", h[c].next)
      f == IF c = g[a].child THEN Set(g, a, "child", h[c].next) ELSE g
  IN  Set(Set(f, c, "next", NULL), c, "prev", NULL)
\* cJSON_DetachItemFromArray, of the item c
Detach(h, a, c) ==
  LET g1 == Set(h, h[c].prev, "next", h[c].next)
      g2 == Set(g1, h[c].next, "prev", h[c].prev)
      g3 == IF c = h[a].child THEN Set(g2, a, "child", h[c].next) ELSE g2
  IN  Set(Set(g3, c, "next", NULL), c, "prev", NULL)

\* cJSON_InsertItemInArray, before the item c
InsertBefore(h, a, c, i) ==
  LET g == Set(Set(Set(h, i, "next", c), i, "prev", h[c].prev), c, "prev", i)
  IN  IF c = h[a].child THEN Set(g, a, "child", i) ELSE Set(g, h[c].prev, "next", i)

\* cJSON_ReplaceItemInArray, of the item c
Replace(h, a, c, i) ==
  LET g1 == Set(Set(h, i, "next", h[c].next), i, "prev", h[c].prev)
      g2 == Set(g1, h[c].next, "prev", i)
      g3 == IF c = h[a].child THEN Set(g2, a, "child", i) ELSE Set(g2, h[c].prev, "next", i)
  IN  Delete(Set(Set(g3, c, "next", NULL), c, "prev", NULL), c)

\* cJSON_strcasecmp: NULL is no name, and a name stands for all strings that differ from it
\* in case only
cJSON_strcasecmp(s, n) == IF s = n THEN 0 ELSE 1

\* cJSON_GetObjectItem and the functions ...FromObject, ...InObject: the first of the name
Named(h, a, n) ==
  LET Differs(k) == cJSON_strcasecmp(h[Children(h, a)[k]].string, n) # 0
  IN  {k \in DOMAIN Children(h, a) : ~Differs(k) /\ \A j \in 1..(k - 1) : Differs(j)}

-----------------------------------------------------------------------------
(* Copies *)

\* cJSON_Duplicate, with `left' calls of malloc that succeed: the heap afterwards, how many
\* calls are left, and the copy.  What has been copied when a call fails is deleted
\* (also when it is the copy of a string: the same as if there had been no item)
RECURSIVE Duplicate(_, _, _, _)
RECURSIVE DuplicateFrom(_, _, _, _, _)
Duplicate(h, i, recurse, left) ==
  LET new == NewItem(h, left)
      g == [Alloc(h, new) EXCEPT ![new].string = h[i].string]
  IN  IF new = NULL THEN [heap |-> h, left |-> 0, item |-> NULL]
      ELSE IF recurse THEN DuplicateFrom(g, h[i].child, new, NULL, left - 1)
      ELSE [heap |-> g, left |-> left - 1, item |-> new]
\* the loop over the children from c on; last is the one copied before
DuplicateFrom(h, c, new, last, left) ==
  IF c = NULL THEN [heap |-> h, left |-> left, item |-> new]
  ELSE LET copy == Duplicate(h, c, TRUE, left)
       IN  IF copy.item = NULL
           THEN [heap |-> Delete(copy.heap, new), left |-> 0, item |-> NULL]
           ELSE DuplicateFrom(IF last = NULL THEN Set(copy.heap, new, "child", copy.item)
                              ELSE Suffix(copy.heap, last, copy.item),
                              h[c].next, new, copy.item, copy.left)

-----------------------------------------------------------------------------
(* Calls *)

Below(i) == Freed([heap EXCEPT ![i].next = NULL], i)
Targets == {a \in DOMAIN heap : ~heap[a].isRef}
\* what the caller may put into a
Loose(a) == {i \in held : a \notin Below(i)}
\* no reference elsewhere points into the tree of i
Unreferred(i) == \A r \in DOMAIN heap \ Below(i) : heap[r].isRef => heap[r].child \notin Below(i)

Becomes(h, roots) == held' = roots /\ heap' = h /\ UNCHANGED crashed

\* cJSON_Create...
Create == Fresh(heap) # {} /\ LET i == NewItem(heap, 1) IN Becomes(Alloc(heap, i), held \cup {i})

\* how many items there is memory for behind the first
Spare(left) == IF left < Cardinality(Fresh(heap)) - 1 THEN left ELSE Cardinality(Fresh(heap)) - 1
\* cJSON_CreateIntArray and its like.  Without memory for an item a first one that is the
\* only one is left out, and with more suffix_object follows a null pointer
CreateArrayOf(count, left) ==
  LET a == NewItem(heap, 1)
      free == Spare(left)
      Child(k) == CHOOSE i \in Fresh(heap) : Cardinality({j \in Fresh(heap) : j < i}) = k
      array == [Item0 EXCEPT !.child = IF count = 0 \/ free = 0 THEN NULL ELSE Child(1)]
      child(k) == [Item0 EXCEPT !.next = IF k = count THEN NULL ELSE Child(k + 1),
                                !.prev = IF k = 1 THEN NULL ELSE Child(k - 1)]
  IN  /\ a # NULL
      /\ IF count <= free
         THEN Becomes([i \in {Child(k) : k \in 1..count} |-> child(CHOOSE k \in 1..count : Child(k) = i)]
                      @@ (a :> array) @@ heap, held \cup {a})
         ELSE IF count = 1 THEN Becomes((a :> array) @@ heap, held \cup {a})
         ELSE crashed' = TRUE /\ UNCHANGED <<heap, held>>

\* cJSON_AddItemToArray leaves the item its name.  cJSON_AddItemToObject gives it one first,
\* or none when the copy of the name fails; with ...CS it is not copied
NameOf(i) == {heap[i].string, NULL}
Add(a, i, n) == /\ i \in Loose(a)
                /\ Becomes(AddItemToArray(Set(heap, i, "string", n), a, i), held \ {i})

\* the copy keeps the links of the item
MutReference(i, n) == [heap[i] EXCEPT !.string = n, !.isRef = TRUE]
\* create_reference
Reference(i, n) == [heap[i] EXCEPT !.string = n, !.isRef = TRUE, !.next = NULL, !.prev = NULL]
AddReference(a, i, n) ==
  LET r == NewItem(heap, 1)
  IN  r # NULL /\ Becomes(AddItemToArray((r :> Reference(i, n)) @@ heap, a, r), held)

DetachItem(a, c) == Becomes(Detach(heap, a, c), held \cup {c})
DeleteItem(a, c) == Unreferred(c) /\ Becomes(Delete(Detach(heap, a, c), c), held)
InsertItem(a, c, i) == i \in Loose(a) /\ Becomes(InsertBefore(heap, a, c, i), held \ {i})
ReplaceItem(a, c, i, n) == /\ i \in Loose(a) /\ Unreferred(c)
                           /\ Becomes(Replace(Set(heap, i, "string", n), a, c, i), held \ {i})

DeleteRoot(i) == Unreferred(i) /\ Becomes(Delete(heap, i), held \ {i})
DuplicateItem(i, recurse, left) ==
  LET copy == Duplicate(heap, i, recurse, left)
  IN  Becomes(copy.heap, IF copy.item = NULL THEN held ELSE held \cup {copy.item})

\* By place and by name.  Where there is no such item, nothing is done, but that
\* cJSON_InsertItemInArray adds the new one at the end
Elements(a) == {Children(heap, a)[k] : k \in DOMAIN Children(heap, a)}
First(a, n) == {Children(heap, a)[k] : k \in Named(heap, a, n)}

\* how many calls of malloc succeed
Mallocs == 0..Cardinality(Fresh(heap))

Next ==
  /\ ~crashed
  /\ \/ Create
     \/ \E count \in 0..MaxItems : \E left \in 0..count : CreateArrayOf(count, left)
     \/ \E a \in Targets, i \in held : \E n \in Names \cup NameOf(i) : Add(a, i, n)
     \/ \E a \in Targets, i \in DOMAIN heap, n \in Names \cup {NULL} : AddReference(a, i, n)
     \/ \E a \in Targets : \E c \in Elements(a) :
          \/ DetachItem(a, c) \/ DeleteItem(a, c)
          \/ \E i \in held : InsertItem(a, c, i) \/ ReplaceItem(a, c, i, heap[i].string)
     \/ \E a \in Targets, n \in Names : \E c \in First(a, n) :
          \/ DetachItem(a, c) \/ DeleteItem(a, c)
          \/ \E i \in held : ReplaceItem(a, c, i, n) \/ ReplaceItem(a, c, i, NULL)
     \/ \E i \in held : DeleteRoot(i)
     \/ \E i \in DOMAIN heap, recurse \in BOOLEAN, left \in Mallocs :
          DuplicateItem(i, recurse, left)
Spec == Init /\ [][Next]_vars

-----------------------------------------------------------------------------
(* Properties *)

\* Nothing points to an item that has been freed, neither the caller nor another item (but
\* a reference, which the caller outlives by Unreferred), and siblings know each other.
TypeOK ==
  /\ DOMAIN heap \subseteq Items /\ held \subseteq DOMAIN heap
  /\ \A i \in DOMAIN heap :
       /\ {heap[i].next, heap[i].prev, heap[i].child} \subseteq DOMAIN heap \cup {NULL}
       /\ heap[i].string \in Names \cup {NULL}
       /\ heap[i].next # NULL => heap[heap[i].next].prev = i
       /\ heap[i].prev # NULL => heap[heap[i].prev].next = i

\* Every call does to the trees what cJSON.h says of it, in its place, and nothing else: no
\* item is lost, freed twice or freed while it is part of another tree (a leak, a double free
\* or a use after free is a step that is none of Forest's).  When a malloc fails meanwhile,
\* an item may go in without its name (cJSON.c:684, 701), and cJSON_Create...Array does not
\* keep its promise: see ArraysAreWhole.
Trees == INSTANCE Forest
         WITH kids <- [i \in DOMAIN heap |-> IF heap[i].isRef THEN << >> ELSE Children(heap, i)],
              name <- [i \in DOMAIN heap |-> heap[i].string],
              refs <- {i \in DOMAIN heap : heap[i].isRef}
NewArray(count, left) ==
  \/ Trees!New(count)
  \/ Spare(left) = 0 /\ count = 1 /\ Trees!New(0)
  \/ Spare(left) < count /\ count > 1 /\ Trees!Crash
EachInItsPlace ==
  LET given == held \ held'  made == held' \ held
  IN  /\ made # {} \/ crashed' =>
           /\ Create => Trees!New(0)
           /\ \A count \in 0..MaxItems : \A left \in 0..count :
                CreateArrayOf(count, left) => NewArray(count, left)
           /\ \A i \in DOMAIN heap, recurse \in BOOLEAN, left \in Mallocs :
                DuplicateItem(i, recurse, left) => Trees!Copy(i, recurse)
           /\ \A a \in Targets : \A c \in Elements(a) : DetachItem(a, c) => Trees!Take(a, c)
      /\ \A i \in given :
           /\ DeleteRoot(i) => Trees!Delete(i)
           /\ \A a \in Targets, n \in Names \cup {NULL} :
                /\ Add(a, i, n) => Trees!PutLast(a, i, n)
                /\ \A c \in Elements(a) :
                     /\ InsertItem(a, c, i) => Trees!PutBefore(a, c, i)
                     /\ ReplaceItem(a, c, i, n) => Trees!Swap(a, c, i, n)
      /\ held' = held => \A a \in Targets :
           /\ \A i \in DOMAIN heap, n \in Names \cup {NULL} :
                AddReference(a, i, n) => Trees!Refer(a, n)
           /\ \A c \in Elements(a) : DeleteItem(a, c) => Trees!Delete(c)
ImplementsForest == Trees!Spec /\ [][EachInItsPlace]_vars

\* "These utilities create an Array of count items" (cJSON.h:100), or nothing.  The code
\* breaks this when malloc fails (cJSON.c:714-717).
ArraysAreWhole ==
  [][\A count \in 0..MaxItems : \A left \in 0..count : CreateArrayOf(count, left) =>
       ~crashed' /\ \A i \in held' \ held : Len(Children(heap', i)) = count]_vars
=============================================================================
