------------------------------- MODULE Forest -------------------------------
(***************************************************************************)
(* What the functions of cJSON.h promise: trees of items with ordered,      *)
(* named children, of which the caller holds the roots, and no item that    *)
(* is in no tree.  A reference is an item without children of its own.      *)
(* Crash is no promise: cJSON_Create...Array may end the program.           *)
(***************************************************************************)
EXTENDS SequencesExt

CONSTANTS Items, NULL, Names
VARIABLES kids, name, held, refs, crashed

Used == DOMAIN kids

RECURSIVE Tree(_)
Tree(i) == {i} \cup UNION {Tree(k) : k \in ToSet(kids[i])}
RECURSIVE Shape(_)
Shape(i) == [k \in DOMAIN kids[i] |-> <<name[kids[i][k]], Shape(kids[i][k])>>]

\* the items of gone no longer exist
Without(f, gone) == [i \in DOMAIN f \ gone |-> f[i]]
\* where c is among the children of a
PlaceOf(a, c) == CHOOSE k \in DOMAIN kids[a] : kids[a][k] = c
Child(a, c) == c \in ToSet(kids[a])

Init == kids = << >> /\ name = << >> /\ held = {} /\ refs = {} /\ crashed = FALSE

\* the items that begin to exist, and how they become a tree that the caller holds
Begun == DOMAIN kids' \ Used
Grown(i) ==
  /\ held' = held \cup {i} /\ UNCHANGED <<refs, crashed>>
  /\ Used \subseteq DOMAIN kids' /\ i \in Begun /\ Tree(i)' = Begun
  /\ \A u \in Used : kids'[u] = kids[u] /\ name'[u] = name[u]

\* An item with count new children, without names
New(count) ==
  \E i \in Items \ Used :
    /\ Grown(i) /\ Len(kids'[i]) = count /\ Cardinality(Begun) = count + 1
    /\ \A k \in Begun : name'[k] = NULL /\ (k # i => kids'[k] = << >>)

\* An item named as j, and with it what is below j; of what references lead to, no promise
Copy(j, recurse) ==
  \E i \in Items \ Used :
    /\ Grown(i) /\ name'[i] = name[j]
    /\ IF ~recurse THEN kids'[i] = << >>
       ELSE Shape(i)' = Shape(j) \/ Tree(j) \cap refs # {}

\* A new leaf, a reference, becomes the last child of a
Refer(a, n) == \E i \in Items \ Used :
                 /\ UNCHANGED <<held, crashed>>
                 /\ kids' = (i :> << >>) @@ [kids EXCEPT ![a] = Append(@, i)]
                 /\ name' = (i :> n) @@ name /\ refs' = refs \cup {i}

Put(a, k, i, n) == /\ i \in held /\ held' = held \ {i} /\ UNCHANGED <<refs, crashed>>
                   /\ kids' = [kids EXCEPT ![a] = InsertAt(@, k, i)]
                   /\ name' = [name EXCEPT ![i] = n]
\* i becomes the last child of a, or the one before c
PutLast(a, i, n) == Put(a, Len(kids[a]) + 1, i, n)
PutBefore(a, c, i) == Child(a, c) /\ Put(a, PlaceOf(a, c), i, name[i])

Take(a, c) == /\ held' = held \cup {c} /\ Child(a, c) /\ UNCHANGED <<name, refs, crashed>>
              /\ kids' = [kids EXCEPT ![a] = RemoveAt(@, PlaceOf(a, c))]

\* i takes the place of c, which is deleted
Swap(a, c, i, n) ==
  /\ i \in held /\ held' = held \ {i} /\ Child(a, c) /\ refs' = refs \ Tree(c)
  /\ kids' = Without([kids EXCEPT ![a] = ReplaceAt(@, PlaceOf(a, c), i)], Tree(c))
  /\ name' = Without([name EXCEPT ![i] = n], Tree(c)) /\ UNCHANGED crashed

\* a root or a child, with all that is below it
Delete(i) == /\ held' = held \ {i} /\ refs' = refs \ Tree(i) /\ UNCHANGED crashed
             /\ kids' = Without([a \in Used |-> SelectSeq(kids[a], LAMBDA x : x # i)], Tree(i))
             /\ name' = Without(name, Tree(i))

Crash == crashed' = TRUE /\ UNCHANGED <<kids, name, held, refs>>

Next == \/ \E count \in 0..Cardinality(Items) : New(count)
        \/ \E j \in Used, recurse \in BOOLEAN : Copy(j, recurse)
        \/ \E a \in Used, n \in Names \cup {NULL} :
             \/ Refer(a, n)
             \/ \E i \in held : PutLast(a, i, n) \/ \E c \in Used : Swap(a, c, i, n)
        \/ \E a, c \in Used : Take(a, c) \/ \E i \in held : PutBefore(a, c, i)
        \/ \E i \in Used : Delete(i)
        \/ Crash
Spec == Init /\ [][Next]_<<kids, name, held, refs, crashed>>
=============================================================================
