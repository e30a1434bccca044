---------------------------- MODULE Lists_proofs ----------------------------
(***************************************************************************)
(* The lists of src/list.h stay linked both ways and are the queues of      *)
(* Queues, for any number of lists and elements.                            *)
(***************************************************************************)
EXTENDS Lists, FiniteSetTheorems, SequenceTheorems, WellFoundedInduction, TLAPS

\* No dLIST runs into itself: its elements can be numbered upwards.  Without this an element
\* could be its own neighbour, and dLIST_REPLACE would keep the one it replaces.
Rising(r) == \A p \in Heads \cup on : link[p] # NULL => r[p] < r[link[p]]
NoCircle == \E r \in [Places -> Nat] : Rising(r)

IInv == TypeOK /\ LinkedBothWays /\ NoCircle

\* Empty lists are linked both ways.
LEMMA ListsInit == Init => IInv
<1> SUFFICES ASSUME Init PROVE IInv
  OBVIOUS
<1>1. TypeOK /\ LinkedBothWays
  BY NamesAssumption DEF Init, TypeOK, LinkedBothWays, Forward, Backward, Round, Places
<1>2. NoCircle
  <2>1. [p \in Places |-> 0] \in [Places -> Nat] /\ Rising([p \in Places |-> 0])
    BY DEF Init, Rising, Places
  <2> QED BY <2>1 DEF NoCircle
<1> QED BY <1>1, <1>2 DEF IInv

\* Inserting behind a place of a dLIST: the new element is numbered one above it, those above
\* move up.
LEMMA InsertAfterPreserves ==
  ASSUME IInv, NEW p \in Places, NEW e \in Elems, InsertAfter(p, e)
  PROVE  IInv'
<1> USE NamesAssumption DEF IInv, InsertAfter, Places
<1>1. TypeOK'
  BY DEF TypeOK, dlists
<1>2. Forward'
  BY DEF TypeOK, LinkedBothWays, Forward, Backward
<1>3. Backward'
  BY DEF TypeOK, LinkedBothWays, Forward, Backward
<1>4. Round'
  BY DEF LinkedBothWays, Round, dlists
<1>5. NoCircle'
  <2>1. PICK r \in [Places -> Nat] : Rising(r)
    BY DEF NoCircle
  <2> DEFINE s == [x \in Places |-> IF x = e THEN r[p] + 1 ELSE IF r[x] <= r[p] THEN r[x] ELSE r[x] + 1]
  <2>2. s \in [Places -> Nat]
    OBVIOUS
  <2>3. Rising(s)'
    BY <2>1 DEF Rising, TypeOK, LinkedBothWays, Forward, Backward
  <2> QED BY <2>2, <2>3 DEF NoCircle
<1> QED BY <1>1, <1>2, <1>3, <1>4, <1>5 DEF LinkedBothWays

\* Inserting before an element of a dLIST.
LEMMA InsertBeforePreserves ==
  ASSUME IInv, NEW x \in Elems, NEW e \in Elems, InsertBefore(x, e)
  PROVE  IInv'
<1> USE NamesAssumption DEF IInv, InsertBefore, Places
<1>1. TypeOK'
  BY DEF TypeOK, dlists
<1>2. Forward'
  BY DEF TypeOK, LinkedBothWays, Forward, Backward
<1>3. Backward'
  BY DEF TypeOK, LinkedBothWays, Forward, Backward
<1>4. Round'
  BY DEF LinkedBothWays, Round, dlists
<1>5. NoCircle'
  <2>1. PICK r \in [Places -> Nat] : Rising(r)
    BY DEF NoCircle
  <2> DEFINE s == [y \in Places |-> IF y = e THEN r[x] ELSE IF r[y] < r[x] THEN r[y] ELSE r[y] + 1]
  <2>2. s \in [Places -> Nat]
    OBVIOUS
  <2>3. ASSUME NEW p \in Heads \cup on', link'[p] # NULL PROVE s[p] < s[link'[p]]
    <3>0. back[x] \in Heads \cup on /\ link[back[x]] = x /\ r[back[x]] < r[x]
      BY <2>1 DEF Rising, TypeOK, LinkedBothWays, Backward
    <3>1. CASE p = e
      <4>1. back[x] # e /\ x # e /\ x \in Places
        BY <3>0
      <4>2. link'[e] = x
        BY <4>1 DEF TypeOK
      <4>3. s[e] = r[x] /\ s[x] = r[x] + 1 /\ r[x] \in Nat
        BY <4>1
      <4> QED BY <3>1, <4>2, <4>3
    <3>2. CASE p = back[x]
      BY <3>2, <3>0, <2>1 DEF TypeOK
    <3>3. CASE p # e /\ p # back[x]
      <4>1. link'[p] = link[p] /\ link[p] \in on /\ r[p] < r[link[p]]
        BY <2>3, <3>3, <2>1 DEF TypeOK, Rising, LinkedBothWays, Forward
      <4>2. p \in Places /\ link[p] \in Places /\ link[p] # e /\ x \in Places
        BY <4>1, <3>3 DEF TypeOK
      <4>3. r[p] \in Nat /\ r[link[p]] \in Nat /\ r[x] \in Nat
        BY <4>2
      <4>4. s[p] < s[link[p]]
        BY <4>1, <4>2, <4>3, <3>3
      <4> QED BY <4>1, <4>4
    <3> QED BY <3>1, <3>2, <3>3
  <2>4. Rising(s)'
    BY <2>3 DEF Rising
  <2> QED BY <2>2, <2>4 DEF NoCircle
<1> QED BY <1>1, <1>2, <1>3, <1>4, <1>5 DEF LinkedBothWays

\* Removing from a dLIST keeps the order of the rest.
LEMMA RemovePreserves ==
  ASSUME IInv, NEW e \in Elems, Remove(e)
  PROVE  IInv'
<1> USE NamesAssumption DEF IInv, Remove, Places
<1>1. TypeOK'
  BY DEF TypeOK, LinkedBothWays, Backward, dlists
<1>2. Forward'
  BY DEF TypeOK, LinkedBothWays, Forward, Backward
<1>3. Backward'
  BY DEF TypeOK, LinkedBothWays, Forward, Backward
<1>4. Round'
  BY DEF LinkedBothWays, Round, dlists
<1>5. NoCircle'
  <2>1. PICK r \in [Places -> Nat] : Rising(r)
    BY DEF NoCircle
  <2>2. Rising(r)'
    BY <2>1 DEF Rising, TypeOK, LinkedBothWays, Forward, Backward
  <2> QED BY <2>2 DEF NoCircle
<1> QED BY <1>1, <1>2, <1>3, <1>4, <1>5 DEF LinkedBothWays

\* The replacement takes the number of the element it replaces.
LEMMA ReplacePreserves ==
  ASSUME IInv, NEW x \in Elems, NEW e \in Elems, Replace(x, e)
  PROVE  IInv'
<1> USE NamesAssumption DEF IInv, Replace, Places
<1>1. TypeOK'
  BY DEF TypeOK, dlists
<1>0. link[x] # x
  BY DEF NoCircle, Rising, TypeOK
<1>2. Forward'
  BY <1>0 DEF TypeOK, LinkedBothWays, Forward, Backward
<1>3. Backward'
  BY <1>0 DEF TypeOK, LinkedBothWays, Forward, Backward
<1>4. Round'
  BY DEF LinkedBothWays, Round, dlists
<1>5. NoCircle'
  <2>1. PICK r \in [Places -> Nat] : Rising(r)
    BY DEF NoCircle
  <2> DEFINE s == [y \in Places |-> IF y = e THEN r[x] ELSE r[y]]
  <2>2. s \in [Places -> Nat]
    OBVIOUS
  <2>3. Rising(s)'
    BY <2>1 DEF Rising, TypeOK, LinkedBothWays, Forward, Backward
  <2> QED BY <2>2, <2>3 DEF NoCircle
<1> QED BY <1>1, <1>2, <1>3, <1>4, <1>5 DEF LinkedBothWays

\* dlist_add and dlist_add_tail put the element between two neighbours
LEMMA AddBetweenPreserves ==
  ASSUME IInv, NEW e \in Elems, e \notin in, NEW p \in Heads \cup in, AddBetween(e, p, next[p])
  PROVE  IInv'
<1> USE NamesAssumption DEF IInv, AddBetween, Places
<1>1. next[p] \in Heads \cup in /\ prev[next[p]] = p
  BY DEF LinkedBothWays, Round
<1>2. TypeOK'
  BY <1>1 DEF TypeOK, dLISTs
<1>3. Forward' /\ Backward'
  BY DEF LinkedBothWays, Forward, Backward, dLISTs
<1>4. Round'
  BY <1>1 DEF TypeOK, LinkedBothWays, Round
<1>5. NoCircle'
  BY DEF NoCircle, Rising, dLISTs
<1> QED BY <1>2, <1>3, <1>4, <1>5 DEF LinkedBothWays

\* Taking an element out of a dlist_t joins its neighbours.
LEMMA DelPreserves ==
  ASSUME IInv, NEW e \in Elems, Del(e)
  PROVE  IInv'
<1> USE NamesAssumption DEF IInv, Del, Places
<1>1. TypeOK'
  BY DEF TypeOK, LinkedBothWays, Round, dLISTs
<1>2. Forward' /\ Backward'
  BY DEF LinkedBothWays, Forward, Backward, dLISTs
<1>3. Round'
  BY DEF TypeOK, LinkedBothWays, Round
<1>5. NoCircle'
  BY DEF NoCircle, Rising, dLISTs
<1> QED BY <1>1, <1>2, <1>3, <1>5 DEF LinkedBothWays

\* Every step keeps the lists as they should be.
LEMMA ListsStep == IInv /\ [Next]_vars => IInv'
<1> SUFFICES ASSUME IInv, [Next]_vars PROVE IInv'
  OBVIOUS
<1>1. ASSUME NEW p \in Places, NEW e \in Elems, InsertAfter(p, e) PROVE IInv'
  BY <1>1, InsertAfterPreserves
<1>2. ASSUME NEW x \in Elems, NEW e \in Elems, InsertBefore(x, e) PROVE IInv'
  BY <1>2, InsertBeforePreserves
<1>3. ASSUME NEW x \in Elems, NEW e \in Elems, Replace(x, e) PROVE IInv'
  BY <1>3, ReplacePreserves
<1>4. ASSUME NEW e \in Elems, Remove(e) PROVE IInv'
  BY <1>4, RemovePreserves
<1>5. ASSUME NEW q \in Places, NEW e \in Elems, Add(q, e) PROVE IInv'
  BY <1>5, AddBetweenPreserves DEF Add
<1>6. ASSUME NEW q \in Places, NEW e \in Elems, AddTail(q, e) PROVE IInv'
  <2>1. prev[q] \in Heads \cup in /\ next[prev[q]] = q
    BY <1>6 DEF AddTail, IInv, LinkedBothWays, Round
  <2> QED BY <1>6, <2>1, AddBetweenPreserves DEF AddTail
<1>7. ASSUME NEW e \in Elems, Del(e) PROVE IInv'
  BY <1>7, DelPreserves
<1>8. CASE UNCHANGED vars
  BY <1>8 DEF vars, dLISTs, dlists, IInv, TypeOK, LinkedBothWays, Forward, Backward, Round,
               NoCircle, Rising
<1> QED BY <1>1, <1>2, <1>3, <1>4, <1>5, <1>6, <1>7, <1>8 DEF Next

-----------------------------------------------------------------------------
(* Rows of elements *)

\* place i of the row s that starts at h
At(h, s, i) == IF i = 0 THEN h ELSE s[i]

\* The pointers l lead through the rows q, each element is in one place of one of them, and
\* row h ends at end[h].
Rows(l, q, end) ==
  /\ q \in [Heads -> Seq(Elems)] /\ end \in [Heads -> Heads \cup {NULL}]
  /\ l \in [Places -> Places \cup {NULL}]
  /\ \A h \in Heads : \A i \in 0..Len(q[h]) :
       l[At(h, q[h], i)] = IF i < Len(q[h]) THEN q[h][i + 1] ELSE end[h]
  /\ \A h, g \in Heads : \A i \in 1..Len(q[h]), j \in 1..Len(q[g]) :
       q[h][i] = q[g][j] => h = g /\ i = j

Among(q, e) == \E h \in Heads : \E i \in 1..Len(q[h]) : q[h][i] = e

\* Induction over the natural numbers, for a set.
LEMMA Induction ==
  ASSUME NEW S, 0 \in S, \A n \in Nat : n \in S => n + 1 \in S
  PROVE  \A n \in Nat : n \in S
<1> SUFFICES ASSUME Nat \ S # {} PROVE FALSE
  OBVIOUS
<1>1. PICK n \in Nat \ S : \A m \in Nat \ S : ~ (<<m, n>> \in OpToRel(<, Nat))
  BY NatLessThanWellFounded, WFMin
<1>2. n # 0 /\ n \in Nat
  OBVIOUS
<1>3. n - 1 \in Nat /\ (n - 1) + 1 = n /\ n - 1 < n
  BY <1>2
<1>4. n - 1 \notin S
  BY <1>3
<1>5. <<n - 1, n>> \notin OpToRel(<, Nat)
  BY <1>1, <1>3, <1>4
<1>6. <<n - 1, n>> \notin {ss \in Nat \X Nat : ss[1] < ss[2]}
  BY <1>5 DEF OpToRel
<1> QED
  BY <1>2, <1>3, <1>6

\* The recursion of Follow has a solution.
LEMMA FollowIs ==
  ASSUME NEW l
  PROVE  \E f : /\ \A p \in Places : f[0][p] = << >>
                /\ \A n \in 1..Cardinality(Elems) : \A p \in Places :
                     f[n][p] = IF l[p] \notin Elems THEN << >> ELSE <<l[p]>> \o f[n - 1][l[p]]
                /\ Follow(l) = [h \in Heads |-> f[Cardinality(Elems)][h]]
<1> DEFINE N == Cardinality(Elems)
           Row(n, g) == [p \in Places |-> IF n = 0 \/ l[p] \notin Elems THEN << >>
                                          ELSE <<l[p]>> \o g[l[p]]]
           Upto(f, m) == \A n \in 0..m : f[n] = Row(n, f[n - 1])
           Buildable(m) == \E f : Upto(f, m)
           S == {m \in Nat : Buildable(m)}
<1>0. N \in Nat
  BY NamesAssumption, FS_CardinalityType
<1>1. 0 \in S
  <2> DEFINE f0 == [n \in {0, 0 - 1} |-> [p \in Places |-> << >>]]
  <2>1. Upto(f0, 0)
    OBVIOUS
  <2> QED BY <2>1
<1>2. ASSUME NEW m \in Nat, Buildable(m) PROVE Buildable(m + 1)
  <2>1. PICK f : Upto(f, m)
    BY <1>2
  <2> DEFINE g == [n \in (0 - 1)..(m + 1) |-> IF n = m + 1 THEN Row(m + 1, f[m]) ELSE f[n]]
  <2>2. ASSUME NEW n \in 0..(m + 1) PROVE g[n] = Row(n, g[n - 1])
    <3>1. g[n - 1] = f[n - 1] /\ n - 1 # m + 1
      OBVIOUS
    <3>2. CASE n = m + 1
      <4>1. g[n] = Row(m + 1, f[m]) /\ n - 1 = m
        BY <3>2
      <4> HIDE DEF g, Row
      <4> QED BY <3>1, <3>2, <4>1
    <3>3. CASE n # m + 1
      <4>1. g[n] = f[n] /\ n \in 0..m
        BY <3>3
      <4>2. f[n] = Row(n, f[n - 1])
        BY <2>1, <4>1
      <4> HIDE DEF g, Row
      <4> QED BY <3>1, <4>1, <4>2
    <3> QED BY <3>2, <3>3
  <2> HIDE DEF g
  <2> QED BY <2>2
<1>3. N \in S
  <2> HIDE DEF S
  <2>1. \A m \in Nat : m \in S => m + 1 \in S
    <3> HIDE DEF Buildable
    <3> QED BY <1>2 DEF S
  <2> QED BY <1>0, <1>1, <2>1, Induction
<1>4. PICK e : Upto(e, N)
  BY <1>3
<1> DEFINE IsF(f) == f = [n \in 0..N |-> Row(n, f[n - 1])]
           e2 == [n \in 0..N |-> e[n]]
           F == CHOOSE f : IsF(f)
<1>5. IsF(e2)
  <2>1. \A n \in 0..N : e2[n] = Row(n, e2[n - 1])
    <3> TAKE n \in 0..N
    <3>1. e2[n] = e[n] /\ e[n] = Row(n, e[n - 1])
      BY <1>4
    <3>2. CASE n = 0
      <4>1. Row(n, e[n - 1]) = Row(n, e2[n - 1])
        BY <3>2
      <4> HIDE DEF Row
      <4> QED BY <3>1, <4>1
    <3>3. CASE n # 0
      <4>1. n - 1 \in 0..N /\ e2[n - 1] = e[n - 1]
        BY <1>0, <3>3
      <4> HIDE DEF Row, e2
      <4> QED BY <3>1, <4>1
    <3> QED BY <3>2, <3>3
  <2> HIDE DEF Row
  <2> QED BY <2>1
<1>6. IsF(F)
  <2> HIDE DEF IsF, e2
  <2> QED BY <1>5
<1>7. \A n \in 0..N : F[n] = Row(n, F[n - 1])
  <2> HIDE DEF F, Row
  <2> QED BY <1>6
<1>8. Follow(l) = [h \in Heads |-> F[N][h]]
  BY DEF Follow
<1> HIDE DEF F
<1>9. \A p \in Places : F[0][p] = << >>
  <2>1. F[0] = Row(0, F[0 - 1])
    <3> HIDE DEF Row
    <3> QED BY <1>0, <1>7
  <2> QED BY <2>1
<1>10. \A n \in 1..N : \A p \in Places :
         F[n][p] = IF l[p] \notin Elems THEN << >> ELSE <<l[p]>> \o F[n - 1][l[p]]
  <2> TAKE n \in 1..N
  <2>1. F[n] = Row(n, F[n - 1])
    <3> HIDE DEF Row
    <3> QED BY <1>0, <1>7
  <2> QED BY <1>0, <2>1
<1> QED BY <1>8, <1>9, <1>10

\* No row is longer than there are elements.
LEMMA RowLength ==
  ASSUME NEW l, NEW q, NEW end, Rows(l, q, end), NEW h \in Heads
  PROVE  Len(q[h]) \in Nat /\ Len(q[h]) <= Cardinality(Elems)
<1>1. q[h] \in Seq(Elems) /\ Len(q[h]) \in Nat
  BY LenProperties DEF Rows
<1>2. q[h] \in Injection(1..Len(q[h]), Elems)
  <2>1. q[h] \in [1..Len(q[h]) -> Elems]
    BY <1>1, LenProperties
  <2>2. \A i, j \in 1..Len(q[h]) : q[h][i] = q[h][j] => i = j
    BY DEF Rows
  <2> QED BY <2>1, <2>2 DEF Injection, IsInjective
<1>3. Cardinality(1..Len(q[h])) <= Cardinality(Elems)
  BY <1>2, NamesAssumption, FS_Injection
<1>4. Cardinality(1..Len(q[h])) = Len(q[h])
  BY <1>1, FS_Interval
<1> QED BY <1>1, <1>3, <1>4

\* A walk finds the rows.
LEMMA FollowsRows ==
  ASSUME NEW l, NEW q, NEW end, Rows(l, q, end)
  PROVE  Follow(l) = q
<1> DEFINE N == Cardinality(Elems)
<1>0. N \in Nat /\ Elems \subseteq Places /\ Heads \subseteq Places
      /\ \A h \in Heads : Len(q[h]) \in Nat /\ q[h] \in Seq(Elems) /\ Len(q[h]) <= N /\ end[h] \notin Elems
  <2>1. N \in Nat
    BY NamesAssumption, FS_CardinalityType
  <2>2. ASSUME NEW h \in Heads PROVE Len(q[h]) \in Nat /\ Len(q[h]) <= N
    BY RowLength
  <2>3. ASSUME NEW h \in Heads PROVE q[h] \in Seq(Elems) /\ end[h] \notin Elems
    BY NamesAssumption DEF Rows
  <2> QED BY <2>1, <2>2, <2>3 DEF Places
<1>1. PICK f : /\ \A p \in Places : f[0][p] = << >>
               /\ \A n \in 1..N : \A p \in Places :
                    f[n][p] = IF l[p] \notin Elems THEN << >> ELSE <<l[p]>> \o f[n - 1][l[p]]
               /\ Follow(l) = [h \in Heads |-> f[N][h]]
  BY FollowIs
<1> SUFFICES ASSUME NEW h \in Heads PROVE f[N][h] = q[h]
  BY <1>1 DEF Rows
<1> DEFINE s == q[h]
           Rest(i) == [j \in 1..(Len(s) - i) |-> s[i + j]]
           Found(n) == \A i \in 0..Len(s) : Len(s) - i <= n => f[n][At(h, s, i)] = Rest(i)
           S == {n \in Nat : n <= N => Found(n)}
<1>2. s \in Seq(Elems) /\ Len(s) \in Nat /\ \A i \in 1..Len(s) : s[i] \in Elems
  BY <1>0, ElementOfSeq
<1>3. \A i \in 0..Len(s) : At(h, s, i) \in Places
  BY <1>0, <1>2 DEF At
<1>4. \A i \in 0..Len(s) : l[At(h, s, i)] = IF i < Len(s) THEN s[i + 1] ELSE end[h]
  BY DEF Rows
<1>5. Rest(Len(s)) = << >>
  BY <1>2
<1>6. 0 \in S
  <2>1. Found(0)
    <3> SUFFICES ASSUME NEW i \in 0..Len(s), Len(s) - i <= 0 PROVE f[0][At(h, s, i)] = Rest(i)
      OBVIOUS
    <3>1. i = Len(s)
      BY <1>2
    <3> QED BY <1>1, <1>3, <1>5, <3>1
  <2> QED BY <2>1
<1>7. ASSUME NEW n \in Nat, n \in S PROVE n + 1 \in S
  <2> SUFFICES ASSUME n + 1 <= N PROVE Found(n + 1)
    OBVIOUS
  <2>0. Found(n) /\ n + 1 \in 1..N /\ (n + 1) - 1 = n
    BY <1>0, <1>7
  <2> SUFFICES ASSUME NEW i \in 0..Len(s), Len(s) - i <= n + 1
               PROVE  f[n + 1][At(h, s, i)] = Rest(i)
    OBVIOUS
  <2> DEFINE p == At(h, s, i)
  <2>1. f[n + 1][p] = IF l[p] \notin Elems THEN << >> ELSE <<l[p]>> \o f[n][l[p]]
    <3>1. f[n + 1][p] = IF l[p] \notin Elems THEN << >> ELSE <<l[p]>> \o f[(n + 1) - 1][l[p]]
      <4> HIDE DEF p
      <4> QED BY <1>1, <1>3, <2>0 DEF p
    <3> QED BY <2>0, <3>1
  <2>2. CASE i = Len(s)
    <3>1. l[p] \notin Elems
      BY <1>0, <1>2, <1>4, <2>2
    <3> QED BY <1>5, <2>1, <2>2, <3>1
  <2>3. CASE i < Len(s)
    <3>1. l[p] = s[i + 1] /\ s[i + 1] \in Elems /\ s[i + 1] = At(h, s, i + 1) /\ i + 1 \in 0..Len(s)
      BY <1>2, <1>4, <2>3 DEF At
    <3>2. f[n][At(h, s, i + 1)] = Rest(i + 1)
      BY <1>2, <2>0, <2>3, <3>1
    <3>3. <<s[i + 1]>> \o Rest(i + 1) = Rest(i)
      <4> DEFINE r == Rest(i + 1)  w == <<s[i + 1]>> \o r
      <4>1. r \in Seq(Elems) /\ Len(r) = Len(s) - (i + 1)
        <5>1. Len(s) - (i + 1) \in Nat /\ \A j \in 1..(Len(s) - (i + 1)) : s[(i + 1) + j] \in Elems
          BY <1>2, <2>3
        <5>2. PICK d \in Nat : d = Len(s) - (i + 1)
          BY <5>1
        <5>3. r \in [1..d -> Elems]
          BY <5>1, <5>2
        <5> HIDE DEF r
        <5> QED BY <5>2, <5>3
      <4>2. Rest(i) \in Seq(Elems) /\ Len(Rest(i)) = Len(s) - i
        <5>1. Len(s) - i \in Nat /\ \A j \in 1..(Len(s) - i) : s[i + j] \in Elems
          BY <1>2, <2>3
        <5>2. PICK d \in Nat : d = Len(s) - i
          BY <5>1
        <5>3. Rest(i) \in [1..d -> Elems]
          BY <5>1, <5>2
        <5> HIDE DEF Rest
        <5> QED BY <5>2, <5>3
      <4>3. w \in Seq(Elems) /\ Len(w) = Len(s) - i
        BY <1>2, <2>3, <3>1, <4>1
      <4>4. \A j \in 1..(Len(s) - i) : w[j] = Rest(i)[j]
        <5> TAKE j \in 1..(Len(s) - i)
        <5>1. CASE j = 1
          BY <1>2, <2>3, <3>1, <4>1, <5>1
        <5>2. CASE j > 1
          <6>1. w[j] = r[j - 1]
            <7> HIDE DEF r
            <7> QED BY <1>2, <2>3, <3>1, <4>1, <5>2
          <6>2. r[j - 1] = s[(i + 1) + (j - 1)] /\ (i + 1) + (j - 1) = i + j
            BY <1>2, <2>3, <5>2
          <6>3. Rest(i)[j] = s[i + j]
            OBVIOUS
          <6> QED BY <6>1, <6>2, <6>3
        <5> QED BY <5>1, <5>2
      <4> HIDE DEF w, Rest
      <4> QED BY <4>2, <4>3, <4>4, SeqEqual DEF w
    <3> HIDE DEF Rest
    <3> QED BY <2>1, <3>1, <3>2, <3>3
  <2> QED BY <1>2, <2>2, <2>3
<1>8. N \in S
  <2> HIDE DEF S
  <2>1. \A n \in Nat : n \in S => n + 1 \in S
    BY <1>7
  <2> QED BY <1>0, <1>6, <2>1, Induction
<1>9. f[N][At(h, s, 0)] = Rest(0)
  BY <1>0, <1>8
<1>10. Rest(0) = s
  <2>1. Rest(0) \in Seq(Elems) /\ Len(Rest(0)) = Len(s) /\ \A j \in 1..Len(s) : Rest(0)[j] = s[j]
    BY <1>2
  <2> HIDE DEF Rest
  <2> QED BY <1>2, <2>1, SeqEqual
<1> QED BY <1>9, <1>10 DEF At

-----------------------------------------------------------------------------
(* Rows that change in one place *)

\* InsertAt makes room for one element.
LEMMA InsertAtIs ==
  ASSUME NEW s \in Seq(Elems), NEW i \in 1..(Len(s) + 1), NEW e \in Elems
  PROVE  /\ OfEvents!InsertAt(s, i, e) \in Seq(Elems) /\ Len(OfEvents!InsertAt(s, i, e)) = Len(s) + 1
         /\ \A j \in 1..(Len(s) + 1) :
              OfEvents!InsertAt(s, i, e)[j] = IF j < i THEN s[j] ELSE IF j = i THEN e ELSE s[j - 1]
<1> DEFINE n == Len(s)  a == SubSeq(s, 1, i - 1)  b == SubSeq(s, i, n)  ae == a \o <<e>>
<1>0. n \in Nat
  BY LenProperties
<1>1. /\ a \in Seq(Elems) /\ Len(a) = i - 1 /\ \A j \in 1..(i - 1) : a[j] = s[j]
  BY <1>0, SubSeqProperties, ElementOfSeq
<1>2. /\ b \in Seq(Elems) /\ Len(b) = n - i + 1 /\ \A j \in 1..(n - i + 1) : b[j] = s[i + j - 1]
  BY <1>0, SubSeqProperties, ElementOfSeq
<1> HIDE DEF a, b
<1>3. ae \in Seq(Elems) /\ Len(ae) = i /\ \A j \in 1..i : ae[j] = IF j < i THEN s[j] ELSE e
  BY <1>0, <1>1
<1> HIDE DEF ae
<1> DEFINE w == ae \o b
<1>4. w \in Seq(Elems) /\ Len(w) = n + 1
  <2>1. w \in Seq(Elems) /\ Len(w) = Len(ae) + Len(b)
    BY <1>2, <1>3, ConcatProperties
  <2> HIDE DEF w
  <2> QED BY <1>0, <1>2, <1>3, <2>1
<1>5. \A j \in 1..(n + 1) : w[j] = IF j <= i THEN ae[j] ELSE b[j - i]
  <2>1. \A j \in 1..(Len(ae) + Len(b)) : w[j] = IF j <= Len(ae) THEN ae[j] ELSE b[j - Len(ae)]
    BY <1>2, <1>3, ConcatProperties
  <2> HIDE DEF w
  <2> QED BY <1>0, <1>2, <1>3, <2>1
<1> HIDE DEF w
<1>6. ASSUME NEW j \in 1..(n + 1)
      PROVE  w[j] = IF j < i THEN s[j] ELSE IF j = i THEN e ELSE s[j - 1]
  <2>1. CASE j <= i
    BY <1>0, <1>3, <1>5, <2>1
  <2>2. CASE j > i
    <3>1. j - i \in 1..(n - i + 1) /\ i + (j - i) - 1 = j - 1
      BY <1>0, <2>2
    <3> QED BY <1>0, <1>2, <1>5, <2>2, <3>1
  <2> QED BY <1>0, <2>1, <2>2
<1>7. OfEvents!InsertAt(s, i, e) = w
  BY DEF OfEvents!InsertAt, w, ae, a, b
<1> QED BY <1>4, <1>6, <1>7

\* RemoveAt closes up.
LEMMA RemoveAtIs ==
  ASSUME NEW s \in Seq(Elems), NEW i \in 1..Len(s)
  PROVE  /\ OfEvents!RemoveAt(s, i) \in Seq(Elems) /\ Len(OfEvents!RemoveAt(s, i)) = Len(s) - 1
         /\ \A j \in 1..(Len(s) - 1) : OfEvents!RemoveAt(s, i)[j] = IF j < i THEN s[j] ELSE s[j + 1]
<1> DEFINE n == Len(s)  a == SubSeq(s, 1, i - 1)  b == SubSeq(s, i + 1, n)
<1>0. n \in Nat
  BY LenProperties
<1>1. /\ a \in Seq(Elems) /\ Len(a) = i - 1 /\ \A j \in 1..(i - 1) : a[j] = s[j]
  BY <1>0, SubSeqProperties, ElementOfSeq
<1>2. /\ b \in Seq(Elems) /\ Len(b) = n - i /\ \A j \in 1..(n - i) : b[j] = s[i + j]
  BY <1>0, SubSeqProperties, ElementOfSeq
<1> HIDE DEF a, b
<1> DEFINE w == a \o b
<1>3. w \in Seq(Elems) /\ Len(w) = n - 1
  <2>1. w \in Seq(Elems) /\ Len(w) = Len(a) + Len(b)
    BY <1>1, <1>2, ConcatProperties
  <2> HIDE DEF w
  <2> QED BY <1>0, <1>1, <1>2, <2>1
<1>4. \A j \in 1..(n - 1) : w[j] = IF j <= i - 1 THEN a[j] ELSE b[j - (i - 1)]
  <2>1. \A j \in 1..(Len(a) + Len(b)) : w[j] = IF j <= Len(a) THEN a[j] ELSE b[j - Len(a)]
    BY <1>1, <1>2, ConcatProperties
  <2> HIDE DEF w
  <2> QED BY <1>0, <1>1, <1>2, <2>1
<1> HIDE DEF w
<1>5. ASSUME NEW j \in 1..(n - 1) PROVE w[j] = IF j < i THEN s[j] ELSE s[j + 1]
  <2>1. CASE j < i
    BY <1>0, <1>1, <1>4, <2>1
  <2>2. CASE j >= i
    <3>1. j - (i - 1) \in 1..(n - i) /\ i + (j - (i - 1)) = j + 1
      BY <1>0, <2>2
    <3>2. w[j] = b[j - (i - 1)]
      BY <1>0, <1>4, <2>2
    <3>3. b[j - (i - 1)] = s[i + (j - (i - 1))]
      BY <1>2, <3>1
    <3> QED BY <1>0, <2>2, <3>1, <3>2, <3>3
  <2> QED BY <1>0, <2>1, <2>2
<1>6. OfEvents!RemoveAt(s, i) = w
  BY DEF OfEvents!RemoveAt, w, a, b
<1> QED BY <1>3, <1>5, <1>6

\* A pointer belongs to one place of one row.
LEMMA OnePlace ==
  ASSUME NEW l, NEW q, NEW end, Rows(l, q, end), NEW h \in Heads, NEW g \in Heads,
         NEW i \in 0..Len(q[h]), NEW j \in 0..Len(q[g]), At(h, q[h], i) = At(g, q[g], j)
  PROVE  h = g /\ i = j
<1>1. \A f \in Heads : q[f] \in Seq(Elems) /\ Len(q[f]) \in Nat /\ \A k \in 1..Len(q[f]) : q[f][k] \in Elems
  BY LenProperties, ElementOfSeq DEF Rows
<1>2. CASE i = 0 \/ j = 0
  BY <1>1, <1>2, NamesAssumption DEF At
<1>3. CASE i # 0 /\ j # 0
  <2>1. i \in 1..Len(q[h]) /\ j \in 1..Len(q[g]) /\ q[h][i] = q[g][j]
    BY <1>1, <1>3 DEF At
  <2> QED BY <2>1 DEF Rows
<1> QED BY <1>2, <1>3

\* Its place is a head or an element of a row.
LEMMA PlaceIs ==
  ASSUME NEW l, NEW q, NEW end, Rows(l, q, end), NEW h \in Heads, NEW i \in 0..Len(q[h])
  PROVE  /\ At(h, q[h], i) \in Heads \cup {x \in Elems : Among(q, x)} /\ At(h, q[h], i) \in Places
         /\ Len(q[h]) \in Nat
<1>1. Len(q[h]) \in Nat /\ \A k \in 1..Len(q[h]) : q[h][k] \in Elems
  BY LenProperties, ElementOfSeq DEF Rows
<1>2. CASE i = 0
  BY <1>1, <1>2 DEF At, Places
<1>3. CASE i # 0
  BY <1>1, <1>3 DEF At, Places, Among
<1> QED BY <1>2, <1>3

\* An element put behind a place is in its row behind it.
LEMMA InsertRow ==
  ASSUME NEW l, NEW q, NEW end, Rows(l, q, end), NEW e \in Elems, ~Among(q, e),
         NEW h \in Heads, NEW i \in 0..Len(q[h])
  PROVE  LET p == At(h, q[h], i)
             m == [l EXCEPT ![e] = l[p], ![p] = e]
             r == [q EXCEPT ![h] = OfEvents!InsertAt(@, i + 1, e)]
         IN  Rows(m, r, end) /\ \A x : Among(r, x) <=> Among(q, x) \/ x = e
<1> DEFINE p == At(h, q[h], i)
           m == [l EXCEPT ![e] = l[p], ![p] = e]
           r == [q EXCEPT ![h] = OfEvents!InsertAt(@, i + 1, e)]
           s == q[h]  n == Len(s)  t == OfEvents!InsertAt(s, i + 1, e)
<1>0. /\ q \in [Heads -> Seq(Elems)] /\ l \in [Places -> Places \cup {NULL}]
      /\ end \in [Heads -> Heads \cup {NULL}]
      /\ n \in Nat /\ i \in 0..n /\ s \in Seq(Elems) /\ \A g \in Heads : Len(q[g]) \in Nat
      /\ p \in Places /\ e \in Places /\ p # e
  <2>1. p \in Heads \cup {x \in Elems : Among(q, x)} /\ p \in Places
    BY PlaceIs
  <2> HIDE DEF p
  <2> QED BY <2>1, LenProperties, NamesAssumption DEF Rows, Places
<1>1. /\ t \in Seq(Elems) /\ Len(t) = n + 1
      /\ \A j \in 1..(n + 1) : t[j] = IF j < i + 1 THEN s[j] ELSE IF j = i + 1 THEN e ELSE s[j - 1]
  <2>1. i + 1 \in 1..(Len(s) + 1)
    BY <1>0
  <2> HIDE DEF s
  <2> QED BY ZenonT(30), <1>0, <2>1, InsertAtIs
<1>2. r[h] = t /\ \A g \in Heads : g # h => r[g] = q[g]
  BY <1>0
<1>3. r \in [Heads -> Seq(Elems)]
  BY <1>0, <1>1
<1>4. m \in [Places -> Places \cup {NULL}]
  BY <1>0
<1>5. m[e] = l[p] /\ m[p] = e /\ \A x \in Places : x # e /\ x # p => m[x] = l[x]
  BY <1>0
<1>6. \A g \in Heads : \A j \in 0..Len(q[g]) :
        /\ At(g, q[g], j) \in Places /\ At(g, q[g], j) # e
        /\ l[At(g, q[g], j)] = IF j < Len(q[g]) THEN q[g][j + 1] ELSE end[g]
        /\ At(g, q[g], j) = p => g = h /\ j = i
  <2> TAKE g \in Heads
  <2> TAKE j \in 0..Len(q[g])
  <2>1. At(g, q[g], j) \in Heads \cup {x \in Elems : Among(q, x)} /\ At(g, q[g], j) \in Places
    BY PlaceIs
  <2>2. At(g, q[g], j) # e
    BY <2>1, NamesAssumption
  <2>3. At(g, q[g], j) = p => g = h /\ j = i
    BY OnePlace
  <2> QED BY <2>1, <2>2, <2>3 DEF Rows
<1> HIDE DEF p, m, r, t, s
<1>7. ASSUME NEW g \in Heads, NEW k \in 0..Len(r[g])
      PROVE  m[At(g, r[g], k)] = IF k < Len(r[g]) THEN r[g][k + 1] ELSE end[g]
  <2>1. CASE g # h
    <3>1. r[g] = q[g] /\ k \in 0..Len(q[g])
      BY <1>2, <1>7, <2>1
    <3> QED BY <1>5, <1>6, <2>1, <3>1
  <2>2. CASE g = h
    <3>0. r[g] = t /\ Len(r[g]) = n + 1 /\ k \in 0..(n + 1)
      BY <1>1, <1>2, <1>7, <2>2
    <3>1. CASE k < i
      <4>0. k \in 0..n /\ k < n /\ k + 1 < i + 1 /\ k + 1 \in 1..(n + 1) /\ (k # 0 => k \in 1..(n + 1))
        BY <1>0, <3>0, <3>1
      <4>1. At(h, t, k) = At(h, q[h], k) /\ k \in 0..Len(q[h]) /\ t[k + 1] = s[k + 1] /\ k < n
        <5>1. k # 0 => t[k] = s[k]
          BY <1>0, <1>1, <3>0, <3>1
        <5>2. t[k + 1] = s[k + 1]
          BY <1>0, <1>1, <4>0
        <5> QED BY <4>0, <5>1, <5>2 DEF At, s
      <4>2. m[At(h, t, k)] = l[At(h, q[h], k)]
        BY <1>5, <1>6, <3>1, <4>1
      <4>3. l[At(h, q[h], k)] = s[k + 1]
        BY <1>6, <4>1 DEF s
      <4> QED BY <1>0, <2>2, <3>0, <4>1, <4>2, <4>3
    <3>2. CASE k = i
      <4>1. At(h, t, k) = p /\ t[k + 1] = e /\ k < n + 1
        BY <1>0, <1>1, <3>0, <3>2 DEF At, p, s
      <4> QED BY <1>5, <2>2, <3>0, <4>1
    <3>3. CASE k = i + 1
      <4>1. At(h, t, k) = e
        BY <1>0, <1>1, <3>0, <3>3 DEF At
      <4>2. l[p] = IF i < n THEN s[i + 1] ELSE end[h]
        BY <1>6 DEF p, s
      <4>3. i < n => t[k + 1] = s[i + 1]
        BY <1>0, <1>1, <3>3
      <4> QED BY <1>0, <1>5, <2>2, <3>0, <3>3, <4>1, <4>2, <4>3
    <3>4. CASE k > i + 1
      <4>1. At(h, t, k) = At(h, q[h], k - 1) /\ k - 1 \in 0..Len(q[h]) /\ k - 1 # i
        BY <1>0, <1>1, <3>0, <3>4 DEF At, s
      <4>2. m[At(h, t, k)] = l[At(h, q[h], k - 1)]
        BY <1>5, <1>6, <4>1
      <4>3. l[At(h, q[h], k - 1)] = IF k - 1 < n THEN s[(k - 1) + 1] ELSE end[h]
        BY <1>6, <4>1 DEF s
      <4>4. k < n + 1 => t[k + 1] = s[k]
        BY <1>0, <1>1, <3>0, <3>4
      <4> QED BY <1>0, <2>2, <3>0, <4>2, <4>3, <4>4
    <3> QED BY <1>0, <3>0, <3>1, <3>2, <3>3, <3>4
  <2> QED BY <2>1, <2>2
<1>8. \A g \in Heads : \A j \in 1..Len(q[g]) : q[g][j] # e
  BY DEF Among
<1>9. ASSUME NEW j \in 1..(n + 1), j # i + 1
      PROVE  LET o == IF j < i + 1 THEN j ELSE j - 1 IN o \in 1..n /\ t[j] = s[o]
  <2>1. CASE j < i + 1
    BY <1>0, <1>1, <2>1
  <2>2. CASE j > i + 1
    BY <1>0, <1>1, <2>2
  <2> QED BY <1>0, <1>9, <2>1, <2>2
<1>10. t[i + 1] = e /\ i + 1 \in 1..(n + 1)
  BY <1>0, <1>1
<1>11. ASSUME NEW f \in Heads, NEW g \in Heads,
             NEW j \in 1..Len(r[f]), NEW k \in 1..Len(r[g]), r[f][j] = r[g][k]
       PROVE  f = g /\ j = k
  <2>0. \A a, b \in Heads : \A c \in 1..Len(q[a]), d \in 1..Len(q[b]) :
          q[a][c] = q[b][d] => a = b /\ c = d
    BY DEF Rows
  <2>1. CASE f = h /\ g = h
    <3>0. j \in 1..(n + 1) /\ k \in 1..(n + 1) /\ t[j] = t[k]
      BY <1>1, <1>2, <1>11, <2>1
    <3>1. CASE j = i + 1 \/ k = i + 1
      BY <1>8, <1>9, <1>10, <2>1, <3>0, <3>1 DEF s
    <3>2. CASE j # i + 1 /\ k # i + 1
      <4> DEFINE o1 == IF j < i + 1 THEN j ELSE j - 1
                 o2 == IF k < i + 1 THEN k ELSE k - 1
      <4>1. o1 \in 1..n /\ o2 \in 1..n /\ s[o1] = s[o2]
        BY <1>9, <3>0, <3>2
      <4>2. o1 = o2
        <5> HIDE DEF o1, o2
        <5> QED BY <2>0, <4>1 DEF s
      <4> QED BY <1>0, <2>1, <3>0, <3>2, <4>2
    <3> QED BY <3>1, <3>2
  <2>2. CASE f = h /\ g # h
    <3>0. j \in 1..(n + 1) /\ k \in 1..Len(q[g]) /\ t[j] = q[g][k]
      BY <1>1, <1>2, <1>11, <2>2
    <3>1. j # i + 1
      BY <1>8, <1>10, <3>0
    <3> DEFINE o == IF j < i + 1 THEN j ELSE j - 1
    <3>2. o \in 1..n /\ s[o] = q[g][k]
      BY <1>9, <3>0, <3>1
    <3> HIDE DEF o
    <3> QED BY <2>0, <2>2, <3>0, <3>2 DEF s
  <2>3. CASE f # h /\ g = h
    <3>0. k \in 1..(n + 1) /\ j \in 1..Len(q[f]) /\ t[k] = q[f][j]
      BY <1>1, <1>2, <1>11, <2>3
    <3>1. k # i + 1
      BY <1>8, <1>10, <3>0
    <3> DEFINE o == IF k < i + 1 THEN k ELSE k - 1
    <3>2. o \in 1..n /\ s[o] = q[f][j]
      BY <1>9, <3>0, <3>1
    <3> HIDE DEF o
    <3> QED BY <2>0, <2>3, <3>0, <3>2 DEF s
  <2>4. CASE f # h /\ g # h
    BY <1>2, <1>11, <2>0, <2>4
  <2> QED BY <2>1, <2>2, <2>3, <2>4
<1>12. Rows(m, r, end)
  BY <1>0, <1>3, <1>4, <1>7, <1>11 DEF Rows
<1>13. ASSUME NEW x PROVE Among(r, x) <=> Among(q, x) \/ x = e
  <2>1. ASSUME Among(r, x) PROVE Among(q, x) \/ x = e
    <3>0. PICK g \in Heads : \E j \in 1..Len(r[g]) : r[g][j] = x
      BY <2>1 DEF Among
    <3>1. PICK j \in 1..Len(r[g]) : r[g][j] = x
      BY <3>0
    <3>2. CASE g # h
      BY <1>2, <3>1, <3>2 DEF Among
    <3>3. CASE g = h /\ j # i + 1
      <4>1. j \in 1..(n + 1) /\ t[j] = x
        BY <1>1, <1>2, <3>1, <3>3
      <4>2. \E o \in 1..n : s[o] = x
        BY <1>9, <3>3, <4>1
      <4> QED BY <4>2 DEF Among, s
    <3>4. CASE g = h /\ j = i + 1
      BY <1>2, <1>10, <3>1, <3>4
    <3> QED BY <3>2, <3>3, <3>4
  <2>2. Among(r, e)
    BY <1>1, <1>2, <1>10 DEF Among
  <2>3. ASSUME Among(q, x) PROVE Among(r, x)
    <3>0. PICK g \in Heads : \E j \in 1..Len(q[g]) : q[g][j] = x
      BY <2>3 DEF Among
    <3>1. PICK j \in 1..Len(q[g]) : q[g][j] = x
      BY <3>0
    <3>2. CASE g # h
      BY <1>2, <3>1, <3>2 DEF Among
    <3>3. CASE g = h
      <4> DEFINE o == IF j < i + 1 THEN j ELSE j + 1
      <4>1. o \in 1..(n + 1) /\ t[o] = s[j] /\ s[j] = x
        BY <1>0, <1>1, <3>1, <3>3 DEF s
      <4> HIDE DEF o
      <4> QED BY <1>1, <1>2, <3>3, <4>1 DEF Among
    <3> QED BY <3>2, <3>3
  <2> QED BY <2>1, <2>2, <2>3
<1> QED BY <1>12, <1>13 DEF m, r, p

\* ReplaceAt changes one element.
LEMMA ReplaceAtIs ==
  ASSUME NEW s \in Seq(Elems), NEW i \in 1..Len(s), NEW e \in Elems
  PROVE  /\ OfEvents!ReplaceAt(s, i, e) \in Seq(Elems) /\ Len(OfEvents!ReplaceAt(s, i, e)) = Len(s)
         /\ \A j \in 1..Len(s) : OfEvents!ReplaceAt(s, i, e)[j] = IF j = i THEN e ELSE s[j]
  BY ExceptSeq DEF OfEvents!ReplaceAt

\* An element taken out of its row leaves the rest in place.
LEMMA RemoveRow ==
  ASSUME NEW l, NEW q, NEW end, Rows(l, q, end), NEW h \in Heads, NEW i \in 1..Len(q[h])
  PROVE  LET e == q[h][i]
             m == [l EXCEPT ![At(h, q[h], i - 1)] = l[e]]
             r == [q EXCEPT ![h] = OfEvents!RemoveAt(@, i)]
         IN  Rows(m, r, end) /\ \A x : Among(r, x) <=> Among(q, x) /\ x # e
<1> DEFINE s == q[h]  n == Len(s)  t == OfEvents!RemoveAt(s, i)
           e == q[h][i]
           p == At(h, q[h], i - 1)
           m == [l EXCEPT ![p] = l[e]]
           r == [q EXCEPT ![h] = OfEvents!RemoveAt(@, i)]
<1>0. /\ q \in [Heads -> Seq(Elems)] /\ l \in [Places -> Places \cup {NULL}]
      /\ end \in [Heads -> Heads \cup {NULL}]
      /\ n \in Nat /\ i \in 1..n /\ s \in Seq(Elems) /\ \A g \in Heads : Len(q[g]) \in Nat
      /\ p \in Places /\ e \in Elems /\ e \in Places
  <2>1. \A g \in Heads : q[g] \in Seq(Elems) /\ Len(q[g]) \in Nat
    BY LenProperties DEF Rows
  <2>2. i - 1 \in 0..Len(q[h]) /\ e \in Elems
    BY <2>1, ElementOfSeq
  <2>3. p \in Places
    BY <2>2, PlaceIs
  <2> HIDE DEF p, e
  <2> QED BY <2>1, <2>2, <2>3 DEF Rows, Places
<1>1. /\ t \in Seq(Elems) /\ Len(t) = n - 1
      /\ \A j \in 1..(n - 1) : t[j] = IF j < i THEN s[j] ELSE s[j + 1]
  <2> HIDE DEF s
  <2> QED BY <1>0, RemoveAtIs
<1>2. r[h] = t /\ \A g \in Heads : g # h => r[g] = q[g]
  BY <1>0
<1>3. r \in [Heads -> Seq(Elems)]
  BY <1>0, <1>1
<1>4. m \in [Places -> Places \cup {NULL}]
  BY <1>0
<1>5. m[p] = l[e] /\ \A x \in Places : x # p => m[x] = l[x]
  BY <1>0
<1>6. \A g \in Heads : \A j \in 0..Len(q[g]) :
        /\ At(g, q[g], j) \in Places
        /\ l[At(g, q[g], j)] = IF j < Len(q[g]) THEN q[g][j + 1] ELSE end[g]
        /\ At(g, q[g], j) = p => g = h /\ j = i - 1
  <2> TAKE g \in Heads
  <2> TAKE j \in 0..Len(q[g])
  <2>1. At(g, q[g], j) \in Places
    BY PlaceIs
  <2>2. i - 1 \in 0..Len(q[h])
    BY <1>0
  <2>3. At(g, q[g], j) = p => g = h /\ j = i - 1
    BY <2>2, OnePlace
  <2> QED BY <2>1, <2>3 DEF Rows
<1>7. e = At(h, q[h], i) /\ e = s[i] /\ p = At(h, s, i - 1)
  BY <1>0 DEF At
<1> HIDE DEF p, e, m, r, t, s
<1>8. ASSUME NEW g \in Heads, NEW k \in 0..Len(r[g])
      PROVE  m[At(g, r[g], k)] = IF k < Len(r[g]) THEN r[g][k + 1] ELSE end[g]
  <2>1. CASE g # h
    <3>1. r[g] = q[g] /\ k \in 0..Len(q[g])
      BY <1>2, <1>8, <2>1
    <3> QED BY <1>5, <1>6, <2>1, <3>1
  <2>2. CASE g = h
    <3>0. r[g] = t /\ Len(r[g]) = n - 1 /\ k \in 0..(n - 1)
      BY <1>1, <1>2, <1>8, <2>2
    <3>1. CASE k < i - 1
      <4>0. k \in 0..n /\ k < n - 1 /\ k + 1 < i /\ k + 1 \in 1..(n - 1) /\ (k # 0 => k \in 1..(n - 1))
        BY <1>0, <3>0, <3>1
      <4>1. At(h, t, k) = At(h, q[h], k)
        BY <1>0, <1>1, <3>1, <4>0 DEF At, s
      <4>2. t[k + 1] = s[k + 1]
        BY <1>1, <4>0
      <4>3. m[At(h, t, k)] = l[At(h, q[h], k)]
        BY <1>5, <1>6, <3>1, <4>0, <4>1 DEF s
      <4>4. l[At(h, q[h], k)] = s[k + 1]
        BY <1>0, <1>6, <4>0 DEF s
      <4> QED BY <2>2, <3>0, <4>0, <4>2, <4>3, <4>4
    <3>2. CASE k = i - 1
      <4>1. At(h, t, k) = p
        <5>1. k # 0 => t[k] = s[k]
          BY <1>0, <1>1, <3>0, <3>2
        <5> QED BY <1>7, <3>2, <5>1 DEF At
      <4>2. l[e] = IF i < n THEN s[i + 1] ELSE end[h]
        <5>1. i \in 0..Len(q[h])
          BY <1>0 DEF s
        <5>2. l[At(h, q[h], i)] = IF i < Len(q[h]) THEN q[h][i + 1] ELSE end[h]
          BY <1>6, <5>1
        <5> QED BY <1>7, <5>2 DEF s
      <4>3. k < n - 1 => t[k + 1] = s[i + 1] /\ i < n
        BY <1>0, <1>1, <3>0, <3>2
      <4> QED BY <1>0, <1>5, <2>2, <3>0, <3>2, <4>1, <4>2, <4>3
    <3>3. CASE k >= i
      <4>0. k + 1 \in 0..n /\ k # 0 /\ k \in 1..(n - 1) /\ k + 1 # i - 1
        BY <1>0, <3>0, <3>3
      <4>1. At(h, t, k) = At(h, q[h], k + 1)
        <5>1. t[k] = s[k + 1] /\ k + 1 # 0
          BY <1>0, <1>1, <3>3, <4>0
        <5> QED BY <4>0, <5>1 DEF At, s
      <4>2. m[At(h, t, k)] = l[At(h, q[h], k + 1)]
        BY <1>5, <1>6, <4>0, <4>1 DEF s
      <4>3. l[At(h, q[h], k + 1)] = IF k + 1 < n THEN s[(k + 1) + 1] ELSE end[h]
        BY <1>6, <4>0 DEF s
      <4>4. k < n - 1 => t[k + 1] = s[(k + 1) + 1]
        BY SMTT(30), <1>0, <1>1, <3>0, <3>3
      <4> QED BY <1>0, <2>2, <3>0, <4>2, <4>3, <4>4
    <3> QED BY <1>0, <3>0, <3>1, <3>2, <3>3
  <2> QED BY <2>1, <2>2
<1>9. ASSUME NEW j \in 1..(n - 1)
      PROVE  LET o == IF j < i THEN j ELSE j + 1 IN o \in 1..n /\ o # i /\ t[j] = s[o]
  BY <1>0, <1>1, <1>9
<1>10. \A a, b \in Heads : \A c \in 1..Len(q[a]), d \in 1..Len(q[b]) :
         q[a][c] = q[b][d] => a = b /\ c = d
  BY DEF Rows
<1>11. ASSUME NEW f \in Heads, NEW g \in Heads,
             NEW j \in 1..Len(r[f]), NEW k \in 1..Len(r[g]), r[f][j] = r[g][k]
       PROVE  f = g /\ j = k
  <2>1. CASE f = h /\ g = h
    <3>0. j \in 1..(n - 1) /\ k \in 1..(n - 1) /\ t[j] = t[k]
      BY <1>1, <1>2, <1>11, <2>1
    <3> DEFINE o1 == IF j < i THEN j ELSE j + 1
               o2 == IF k < i THEN k ELSE k + 1
    <3>1. o1 \in 1..n /\ o2 \in 1..n /\ s[o1] = s[o2]
      BY <1>9, <3>0
    <3>2. o1 = o2
      <4> HIDE DEF o1, o2
      <4> QED BY <1>10, <3>1 DEF s
    <3> QED BY <1>0, <2>1, <3>0, <3>2
  <2>2. CASE f = h /\ g # h
    <3>0. j \in 1..(n - 1) /\ k \in 1..Len(q[g]) /\ t[j] = q[g][k]
      BY <1>1, <1>2, <1>11, <2>2
    <3> DEFINE o == IF j < i THEN j ELSE j + 1
    <3>1. o \in 1..n /\ s[o] = q[g][k]
      BY <1>9, <3>0
    <3> HIDE DEF o
    <3> QED BY <1>10, <2>2, <3>0, <3>1 DEF s
  <2>3. CASE f # h /\ g = h
    <3>0. k \in 1..(n - 1) /\ j \in 1..Len(q[f]) /\ t[k] = q[f][j]
      BY <1>1, <1>2, <1>11, <2>3
    <3> DEFINE o == IF k < i THEN k ELSE k + 1
    <3>1. o \in 1..n /\ s[o] = q[f][j]
      BY <1>9, <3>0
    <3> HIDE DEF o
    <3> QED BY <1>10, <2>3, <3>0, <3>1 DEF s
  <2>4. CASE f # h /\ g # h
    BY <1>2, <1>10, <1>11, <2>4
  <2> QED BY <2>1, <2>2, <2>3, <2>4
<1>12. Rows(m, r, end)
  BY <1>0, <1>3, <1>4, <1>8, <1>11 DEF Rows
<1>13. ASSUME NEW x PROVE Among(r, x) <=> Among(q, x) /\ x # e
  <2>1. ASSUME Among(r, x) PROVE Among(q, x) /\ x # e
    <3>0. PICK g \in Heads : \E j \in 1..Len(r[g]) : r[g][j] = x
      BY <2>1 DEF Among
    <3>1. PICK j \in 1..Len(r[g]) : r[g][j] = x
      BY <3>0
    <3>2. CASE g # h
      BY <1>0, <1>2, <1>7, <1>10, <3>1, <3>2 DEF Among, s
    <3>3. CASE g = h
      <4> DEFINE o == IF j < i THEN j ELSE j + 1
      <4>1. o \in 1..n /\ o # i /\ s[o] = x
        BY <1>1, <1>2, <1>9, <3>1, <3>3
      <4> HIDE DEF o
      <4> QED BY <1>0, <1>7, <1>10, <4>1 DEF Among, s
    <3> QED BY <3>2, <3>3
  <2>3. ASSUME Among(q, x), x # e PROVE Among(r, x)
    <3>0. PICK g \in Heads : \E j \in 1..Len(q[g]) : q[g][j] = x
      BY <2>3 DEF Among
    <3>1. PICK j \in 1..Len(q[g]) : q[g][j] = x
      BY <3>0
    <3>2. CASE g # h
      BY <1>2, <3>1, <3>2 DEF Among
    <3>3. CASE g = h
      <4> DEFINE o == IF j < i THEN j ELSE j - 1
      <4>0. j # i /\ j \in 1..n /\ s[j] = x
        BY <1>7, <2>3, <3>1, <3>3 DEF s
      <4>1. o \in 1..(n - 1) /\ t[o] = x
        BY <1>0, <1>1, <4>0
      <4> HIDE DEF o
      <4> QED BY <1>1, <1>2, <3>3, <4>1 DEF Among
    <3> QED BY <3>2, <3>3
  <2> QED BY <2>1, <2>3
<1> QED BY <1>12, <1>13 DEF m, r, p, e

\* e for what is behind p, and the i-th element of row h
Replacement(l, p, e) == [l EXCEPT ![e] = l[l[p]], ![p] = e]
WithReplaced(q, h, i, e) == [q EXCEPT ![h] = OfEvents!ReplaceAt(@, i, e)]

\* An element takes the place of another.
LEMMA ReplaceRow ==
  ASSUME NEW l, NEW q, NEW end, Rows(l, q, end), NEW h \in Heads, NEW i \in 1..Len(q[h]),
         NEW e \in Elems, ~Among(q, e)
  PROVE  /\ Rows(Replacement(l, At(h, q[h], i - 1), e), WithReplaced(q, h, i, e), end)
         /\ \A y : Among(WithReplaced(q, h, i, e), y) <=> (Among(q, y) /\ y # q[h][i]) \/ y = e
<1> DEFINE s == q[h]  n == Len(s)  t == OfEvents!ReplaceAt(s, i, e)
           x == q[h][i]
           p == At(h, q[h], i - 1)
           m == Replacement(l, p, e)
           r == WithReplaced(q, h, i, e)
<1>0. /\ q \in [Heads -> Seq(Elems)] /\ l \in [Places -> Places \cup {NULL}]
      /\ end \in [Heads -> Heads \cup {NULL}]
      /\ n \in Nat /\ i \in 1..n /\ s \in Seq(Elems) /\ \A g \in Heads : Len(q[g]) \in Nat
      /\ p \in Places /\ p # e /\ x \in Elems /\ x \in Places /\ e \in Places /\ x # e
  <2>1. \A g \in Heads : q[g] \in Seq(Elems) /\ Len(q[g]) \in Nat
    BY LenProperties DEF Rows
  <2>2. i - 1 \in 0..Len(q[h]) /\ x \in Elems /\ Among(q, x)
    BY <2>1, ElementOfSeq DEF Among
  <2>3. p \in Heads \cup {y \in Elems : Among(q, y)} /\ p \in Places
    BY <2>2, PlaceIs
  <2> HIDE DEF p, x
  <2> QED BY <2>1, <2>2, <2>3, NamesAssumption DEF Rows, Places
<1>1. t \in Seq(Elems) /\ Len(t) = n /\ \A j \in 1..n : t[j] = IF j = i THEN e ELSE s[j]
  <2> HIDE DEF s
  <2> QED BY <1>0, ReplaceAtIs
<1>2. r[h] = t /\ \A g \in Heads : g # h => r[g] = q[g]
  BY <1>0 DEF WithReplaced
<1>3. r \in [Heads -> Seq(Elems)]
  BY <1>0, <1>1 DEF WithReplaced
<1> HIDE DEF p, x
<1>4. l[p] = x
  <2>1. i - 1 \in 0..n /\ i - 1 < n /\ (i - 1) + 1 = i
    BY <1>0
  <2> QED BY <2>1 DEF Rows, p, x
<1>5. /\ m \in [Places -> Places \cup {NULL}]
      /\ m[p] = e /\ m[e] = l[x] /\ \A y \in Places : y # p /\ y # e => m[y] = l[y]
  BY <1>0, <1>4 DEF Replacement
<1>6. \A g \in Heads : \A j \in 0..Len(q[g]) :
        /\ At(g, q[g], j) \in Places /\ At(g, q[g], j) # e
        /\ l[At(g, q[g], j)] = IF j < Len(q[g]) THEN q[g][j + 1] ELSE end[g]
        /\ At(g, q[g], j) = p => g = h /\ j = i - 1
  <2> TAKE g \in Heads
  <2> TAKE j \in 0..Len(q[g])
  <2>1. At(g, q[g], j) \in Heads \cup {y \in Elems : Among(q, y)} /\ At(g, q[g], j) \in Places
    BY PlaceIs
  <2>2. i - 1 \in 0..Len(q[h])
    BY <1>0
  <2>3. At(g, q[g], j) = p => g = h /\ j = i - 1
    BY <2>2, OnePlace DEF p
  <2>4. At(g, q[g], j) # e
    BY <2>1, NamesAssumption
  <2> QED BY <2>1, <2>3, <2>4 DEF Rows
<1>7. x = At(h, q[h], i) /\ x = s[i] /\ p = At(h, s, i - 1)
  BY <1>0 DEF At, x, p
<1> HIDE DEF m, r, t, s
<1>8. ASSUME NEW g \in Heads, NEW k \in 0..Len(r[g])
      PROVE  m[At(g, r[g], k)] = IF k < Len(r[g]) THEN r[g][k + 1] ELSE end[g]
  <2>1. CASE g # h
    <3>1. r[g] = q[g] /\ k \in 0..Len(q[g])
      BY <1>2, <1>8, <2>1
    <3> QED BY <1>5, <1>6, <2>1, <3>1
  <2>2. CASE g = h
    <3>0. r[g] = t /\ Len(r[g]) = n /\ k \in 0..n
      BY <1>1, <1>2, <1>8, <2>2
    <3>1. CASE k # i - 1 /\ k # i
      <4>1. At(h, t, k) = At(h, q[h], k)
        <5>1. k # 0 => t[k] = s[k]
          BY <1>0, <1>1, <3>0, <3>1
        <5> QED BY <5>1 DEF At, s
      <4>2. k < n => t[k + 1] = s[k + 1]
        BY <1>0, <1>1, <3>0, <3>1
      <4>3. m[At(h, t, k)] = l[At(h, q[h], k)]
        BY <1>5, <1>6, <3>0, <3>1, <4>1 DEF s
      <4>4. l[At(h, q[h], k)] = IF k < n THEN s[k + 1] ELSE end[h]
        BY <1>6, <3>0 DEF s
      <4> QED BY <2>2, <3>0, <4>2, <4>3, <4>4
    <3>2. CASE k = i - 1
      <4>1. At(h, t, k) = p
        <5>1. k # 0 => t[k] = s[k]
          BY <1>0, <1>1, <3>0, <3>2
        <5> QED BY <1>7, <3>2, <5>1 DEF At
      <4>2. k < n /\ t[k + 1] = e
        BY <1>0, <1>1, <3>0, <3>2
      <4> QED BY <1>5, <2>2, <3>0, <4>1, <4>2
    <3>3. CASE k = i
      <4>1. At(h, t, k) = e
        BY <1>0, <1>1, <3>3 DEF At
      <4>2. l[x] = IF i < n THEN s[i + 1] ELSE end[h]
        <5>1. i \in 0..Len(q[h])
          BY <1>0 DEF s
        <5>2. l[At(h, q[h], i)] = IF i < Len(q[h]) THEN q[h][i + 1] ELSE end[h]
          BY <1>6, <5>1
        <5> QED BY <1>7, <5>2 DEF s
      <4>3. k < n => t[k + 1] = s[i + 1]
        BY <1>0, <1>1, <3>0, <3>3
      <4> QED BY <1>5, <2>2, <3>0, <3>3, <4>1, <4>2, <4>3
    <3> QED BY <3>1, <3>2, <3>3
  <2> QED BY <2>1, <2>2
<1>9. \A a, b \in Heads : \A c \in 1..Len(q[a]), d \in 1..Len(q[b]) :
         q[a][c] = q[b][d] => a = b /\ c = d
  BY DEF Rows
<1>10. \A g \in Heads : \A j \in 1..Len(q[g]) : q[g][j] # e
  BY DEF Among
<1>11. ASSUME NEW f \in Heads, NEW g \in Heads,
             NEW j \in 1..Len(r[f]), NEW k \in 1..Len(r[g]), r[f][j] = r[g][k]
       PROVE  f = g /\ j = k
  <2>1. /\ j \in 1..Len(q[f]) /\ r[f][j] = IF f = h /\ j = i THEN e ELSE q[f][j]
        /\ k \in 1..Len(q[g]) /\ r[g][k] = IF g = h /\ k = i THEN e ELSE q[g][k]
    BY <1>1, <1>2, <1>11 DEF s
  <2>2. CASE ~(f = h /\ j = i) /\ ~(g = h /\ k = i)
    <3>1. q[f][j] = q[g][k]
      BY <1>11, <2>1, <2>2
    <3> QED BY <1>9, <2>1, <3>1
  <2>3. CASE f = h /\ j = i
    <3>1. r[g][k] = e
      BY <1>11, <2>1, <2>3
    <3> QED BY <1>10, <2>1, <2>3, <3>1
  <2>4. CASE g = h /\ k = i
    <3>1. r[f][j] = e
      BY <1>11, <2>1, <2>4
    <3> QED BY <1>10, <2>1, <2>4, <3>1
  <2> QED BY <2>2, <2>3, <2>4
<1>12. Rows(m, r, end)
  BY <1>0, <1>3, <1>5, <1>8, <1>11 DEF Rows
<1>13. ASSUME NEW y PROVE Among(r, y) <=> (Among(q, y) /\ y # x) \/ y = e
  <2>0. \A g \in Heads : /\ Len(r[g]) = Len(q[g])
                         /\ \A j \in 1..Len(q[g]) : r[g][j] = IF g = h /\ j = i THEN e ELSE q[g][j]
    BY <1>1, <1>2 DEF s
  <2>1. ASSUME Among(r, y) PROVE (Among(q, y) /\ y # x) \/ y = e
    <3>0. PICK g \in Heads : \E j \in 1..Len(r[g]) : r[g][j] = y
      BY <2>1 DEF Among
    <3>1. PICK j \in 1..Len(q[g]) : r[g][j] = y
      BY <2>0, <3>0
    <3>2. CASE g = h /\ j = i
      BY <2>0, <3>1, <3>2
    <3>3. CASE ~(g = h /\ j = i)
      <4>1. q[g][j] = y
        BY <2>0, <3>1, <3>3
      <4>2. y # x
        BY <1>0, <1>7, <1>9, <3>3, <4>1 DEF s
      <4> QED BY <4>1, <4>2 DEF Among
    <3> QED BY <3>2, <3>3
  <2>2. Among(r, e)
    BY <1>0, <2>0 DEF Among, s
  <2>3. ASSUME Among(q, y), y # x PROVE Among(r, y)
    <3>0. PICK g \in Heads : \E j \in 1..Len(q[g]) : q[g][j] = y
      BY <2>3 DEF Among
    <3>1. PICK j \in 1..Len(q[g]) : q[g][j] = y
      BY <3>0
    <3>2. ~(g = h /\ j = i)
      BY <1>7, <2>3, <3>1 DEF s
    <3>3. r[g][j] = y /\ j \in 1..Len(r[g])
      BY <2>0, <3>1, <3>2
    <3> QED BY <3>3 DEF Among
  <2> QED BY <2>1, <2>2, <2>3
<1> QED BY <1>12, <1>13 DEF m, r, p, x

-----------------------------------------------------------------------------
(* What the walks find *)

\* A walk along l finds the elements S, in rows that end at end.
Finds(l, end, S) == Rows(l, Follow(l), end) /\ \A x : Among(Follow(l), x) <=> x \in S

\* e behind p, and without what is behind p
Insertion(l, p, e) == [l EXCEPT ![e] = l[p], ![p] = e]
Removal(l, p) == [l EXCEPT ![p] = l[l[p]]]

\* What becomes of the rows
Grows(q, r, e) == \E h \in Heads : \E i \in 1..(Len(q[h]) + 1) :
                    r = [q EXCEPT ![h] = OfEvents!InsertAt(@, i, e)]
Shrinks(q, r) == \E h \in Heads : \E i \in 1..Len(q[h]) :
                   r = [q EXCEPT ![h] = OfEvents!RemoveAt(@, i)]
Exchanges(q, r, e) == \E h \in Heads : \E i \in 1..Len(q[h]) : r = WithReplaced(q, h, i, e)

\* Every head and every element of a list is a place of a row.
LEMMA PlaceOf ==
  ASSUME NEW l, NEW end, NEW S, Finds(l, end, S), NEW p \in Heads \cup S
  PROVE  \E h \in Heads : \E i \in 0..Len(Follow(l)[h]) : At(h, Follow(l)[h], i) = p
<1> DEFINE q == Follow(l)
<1>0. \A h \in Heads : Len(q[h]) \in Nat
  BY LenProperties DEF Finds, Rows
<1>1. CASE p \in Heads
  <2>1. 0 \in 0..Len(q[p]) /\ At(p, q[p], 0) = p
    BY <1>0, <1>1 DEF At
  <2> QED BY <1>1, <2>1
<1>2. CASE p \in S
  <2>1. PICK h \in Heads : \E i \in 1..Len(q[h]) : q[h][i] = p
    BY <1>2 DEF Finds, Among
  <2>2. PICK i \in 1..Len(q[h]) : q[h][i] = p
    BY <2>1
  <2>3. i \in 0..Len(q[h]) /\ At(h, q[h], i) = p
    BY <1>0, <2>2 DEF At
  <2> QED BY <2>3
<1> QED BY <1>1, <1>2

\* What points to an element of a list is before it in its row.
LEMMA PlaceBefore ==
  ASSUME NEW l, NEW end, NEW S, Finds(l, end, S), NEW p \in Heads \cup S, l[p] \in Elems
  PROVE  \E h \in Heads : \E i \in 1..Len(Follow(l)[h]) :
           At(h, Follow(l)[h], i - 1) = p /\ Follow(l)[h][i] = l[p]
<1> DEFINE q == Follow(l)
<1>0. PICK h \in Heads : \E i \in 0..Len(q[h]) : At(h, q[h], i) = p
  BY PlaceOf
<1>1. PICK i \in 0..Len(q[h]) : At(h, q[h], i) = p
  BY <1>0
<1>2. l[p] = IF i < Len(q[h]) THEN q[h][i + 1] ELSE end[h]
  BY <1>1 DEF Finds, Rows
<1>3. end[h] \notin Elems /\ Len(q[h]) \in Nat
  BY NamesAssumption, LenProperties DEF Finds, Rows
<1>4. i + 1 \in 1..Len(q[h]) /\ l[p] = q[h][i + 1] /\ (i + 1) - 1 = i
  BY <1>2, <1>3
<1> QED BY <1>1, <1>4

\* An insertion behind a place.
LEMMA Inserted ==
  ASSUME NEW l, NEW end, NEW S, Finds(l, end, S),
         NEW p \in Heads \cup S, NEW e \in Elems, e \notin S
  PROVE  /\ Finds(Insertion(l, p, e), end, S \cup {e})
         /\ Grows(Follow(l), Follow(Insertion(l, p, e)), e)
<1> DEFINE q == Follow(l)  m == Insertion(l, p, e)
<1>0. PICK h \in Heads : \E i \in 0..Len(q[h]) : At(h, q[h], i) = p
  BY PlaceOf
<1>1. PICK i \in 0..Len(q[h]) : At(h, q[h], i) = p
  BY <1>0
<1> DEFINE r == [q EXCEPT ![h] = OfEvents!InsertAt(@, i + 1, e)]
<1>2. Rows(l, q, end) /\ ~Among(q, e)
  BY DEF Finds
<1>3. Rows(m, r, end) /\ \A x : Among(r, x) <=> Among(q, x) \/ x = e
  <2> HIDE DEF q
  <2> QED BY <1>1, <1>2, InsertRow DEF Insertion
<1> HIDE DEF m, r
<1>4. Follow(m) = r
  BY <1>3, FollowsRows
<1>5. Finds(m, end, S \cup {e})
  BY <1>3, <1>4 DEF Finds
<1>6. i + 1 \in 1..(Len(q[h]) + 1)
  BY <1>2, LenProperties DEF Rows
<1> QED BY <1>4, <1>5, <1>6 DEF m, r, Grows

\* A removal of what is behind a place.
LEMMA Removed ==
  ASSUME NEW l, NEW end, NEW S, Finds(l, end, S),
         NEW p \in Heads \cup S, l[p] \in Elems
  PROVE  Finds(Removal(l, p), end, S \ {l[p]}) /\ Shrinks(Follow(l), Follow(Removal(l, p)))
<1> DEFINE q == Follow(l)  m == Removal(l, p)
<1>0. PICK h \in Heads : \E i \in 1..Len(q[h]) : At(h, q[h], i - 1) = p /\ q[h][i] = l[p]
  BY PlaceBefore
<1>1. PICK i \in 1..Len(q[h]) : At(h, q[h], i - 1) = p /\ q[h][i] = l[p]
  BY <1>0
<1> DEFINE r == [q EXCEPT ![h] = OfEvents!RemoveAt(@, i)]
<1>2. Rows(l, q, end)
  BY DEF Finds
<1>3. Rows(m, r, end) /\ \A x : Among(r, x) <=> Among(q, x) /\ x # l[p]
  <2> HIDE DEF q
  <2> QED BY ZenonT(30), <1>1, <1>2, RemoveRow DEF Removal
<1> HIDE DEF m, r
<1>4. Follow(m) = r
  BY <1>3, FollowsRows
<1>5. Finds(m, end, S \ {l[p]})
  BY <1>3, <1>4 DEF Finds
<1> QED BY <1>4, <1>5 DEF m, r, Shrinks

\* A replacement of what is behind a place.
LEMMA Replaced ==
  ASSUME NEW l, NEW end, NEW S, Finds(l, end, S),
         NEW p \in Heads \cup S, l[p] \in Elems, NEW e \in Elems, e \notin S
  PROVE  /\ Finds(Replacement(l, p, e), end, (S \ {l[p]}) \cup {e})
         /\ Exchanges(Follow(l), Follow(Replacement(l, p, e)), e)
<1> DEFINE q == Follow(l)  m == Replacement(l, p, e)
<1>0. PICK h \in Heads : \E i \in 1..Len(q[h]) : At(h, q[h], i - 1) = p /\ q[h][i] = l[p]
  BY PlaceBefore
<1>1. PICK i \in 1..Len(q[h]) : At(h, q[h], i - 1) = p /\ q[h][i] = l[p]
  BY <1>0
<1> DEFINE r == WithReplaced(q, h, i, e)
<1>2. Rows(l, q, end) /\ ~Among(q, e)
  BY DEF Finds
<1>3. Rows(m, r, end) /\ \A x : Among(r, x) <=> (Among(q, x) /\ x # l[p]) \/ x = e
  <2> HIDE DEF q
  <2> QED BY <1>1, <1>2, ReplaceRow
<1> HIDE DEF m, r
<1>4. Follow(m) = r
  BY <1>3, FollowsRows
<1>5. Finds(m, end, (S \ {l[p]}) \cup {e})
  BY <1>3, <1>4 DEF Finds
<1> QED BY <1>4, <1>5 DEF m, r, Exchanges

\* The members of the queues.
LEMMA MembersAre ==
  ASSUME NEW l, NEW end, NEW S, Finds(l, end, S)
  PROVE  UNION {OfEvents!ToSet(Follow(l)[h]) : h \in Heads} = S
<1> DEFINE q == Follow(l)
<1>1. \A h \in Heads : DOMAIN q[h] = 1..Len(q[h])
  BY LenProperties DEF Finds, Rows
<1>2. \A h \in Heads : OfEvents!ToSet(q[h]) = {q[h][i] : i \in 1..Len(q[h])}
  BY <1>1 DEF OfEvents!ToSet
<1>3. \A x : x \in S <=> \E h \in Heads : x \in OfEvents!ToSet(q[h])
  <2>1. \A x : x \in S <=> Among(q, x)
    BY DEF Finds
  <2>2. \A h \in Heads : \A x : x \in OfEvents!ToSet(q[h]) <=> \E i \in 1..Len(q[h]) : q[h][i] = x
    BY <1>2
  <2> HIDE DEF q
  <2> QED BY <2>1, <2>2 DEF Among
<1> HIDE DEF q
<1>4. UNION {OfEvents!ToSet(q[h]) : h \in Heads} = S
  BY <1>3
<1> QED BY <1>4 DEF q
-----------------------------------------------------------------------------
(* The lists are queues *)

Ends == [h \in Heads |-> NULL]
Rounds == [h \in Heads |-> h]
QInv == Finds(link, Ends, on) /\ Finds(next, Rounds, in) /\ Finds(prev, Rounds, in)

\* Lists without elements.
LEMMA EmptyRows ==
  ASSUME NEW l, NEW end, l \in [Places -> Places \cup {NULL}], end \in [Heads -> Heads \cup {NULL}],
         \A h \in Heads : l[h] = end[h]
  PROVE  Finds(l, end, {}) /\ Follow(l) = [h \in Heads |-> << >>]
<1> DEFINE q == [h \in Heads |-> << >>]
<1>1. \A h \in Heads : q[h] = << >> /\ Len(q[h]) = 0 /\ 0..Len(q[h]) = {0} /\ 1..Len(q[h]) = {}
  OBVIOUS
<1>2. q \in [Heads -> Seq(Elems)]
  OBVIOUS
<1> HIDE DEF q
<1>3. \A h \in Heads : At(h, q[h], 0) = h
  BY DEF At
<1>4. Rows(l, q, end)
  BY <1>1, <1>2, <1>3 DEF Rows
<1>5. Follow(l) = q
  BY <1>4, FollowsRows
<1>6. \A x : ~Among(q, x)
  BY <1>1 DEF Among
<1> QED BY <1>4, <1>5, <1>6 DEF Finds, q

\* At the start every queue is empty.
LEMMA QueuesInit ==
  ASSUME Init
  PROVE  QInv /\ OfEvents!Init /\ OfJson!Init /\ Backwards!Init
<1>1. /\ link \in [Places -> Places \cup {NULL}] /\ \A h \in Heads : link[h] = Ends[h]
      /\ next \in [Places -> Places \cup {NULL}] /\ prev \in [Places -> Places \cup {NULL}]
      /\ \A h \in Heads : next[h] = Rounds[h] /\ prev[h] = Rounds[h]
      /\ Ends \in [Heads -> Heads \cup {NULL}] /\ Rounds \in [Heads -> Heads \cup {NULL}]
  BY DEF Init, Ends, Rounds, Places
<1>2. /\ Finds(link, Ends, {}) /\ Walk = [h \in Heads |-> << >>]
      /\ Finds(next, Rounds, {}) /\ WalkRound = [h \in Heads |-> << >>]
      /\ Finds(prev, Rounds, {}) /\ WalkBack = [h \in Heads |-> << >>]
  BY <1>1, EmptyRows DEF Walk, WalkRound, WalkBack
<1>3. on = {} /\ in = {}
  BY DEF Init
<1> QED BY <1>2, <1>3 DEF QInv, OfEvents!Init, OfJson!Init, Backwards!Init

\* Next of Queues, from q to r
Held(q) == UNION {OfEvents!ToSet(q[h]) : h \in Heads}
QueueNext(q, r) ==
  \E h \in Heads :
    \/ \E e \in Elems, i \in 1..(Len(q[h]) + 1) :
         e \notin Held(q) /\ r = [q EXCEPT ![h] = OfEvents!InsertAt(@, i, e)]
    \/ \E i \in DOMAIN q[h] :
         \/ r = [q EXCEPT ![h] = OfEvents!RemoveAt(@, i)]
         \/ \E e \in Elems : e \notin Held(q) /\ r = [q EXCEPT ![h] = OfEvents!ReplaceAt(@, i, e)]

\* The steps of the queues; S is what they hold.
LEMMA QueueSteps ==
  ASSUME NEW l, NEW m, NEW end, NEW S, Finds(l, end, S),
         \/ \E e \in Elems \ S : Grows(Follow(l), Follow(m), e)
         \/ Shrinks(Follow(l), Follow(m))
         \/ \E e \in Elems \ S : Exchanges(Follow(l), Follow(m), e)
  PROVE  QueueNext(Follow(l), Follow(m))
<1> DEFINE q == Follow(l)  r == Follow(m)
<1>1. Held(q) = S
  BY MembersAre DEF Held
<1>2. \A h \in Heads : DOMAIN q[h] = 1..Len(q[h])
  BY LenProperties DEF Finds, Rows
<1> HIDE DEF q, r
<1>3. ASSUME \E e \in Elems \ S : Grows(q, r, e) PROVE QueueNext(q, r)
  BY <1>1, <1>3 DEF Grows, QueueNext
<1>4. ASSUME Shrinks(q, r) PROVE QueueNext(q, r)
  BY <1>2, <1>4 DEF Shrinks, QueueNext
<1>5. ASSUME \E e \in Elems \ S : Exchanges(q, r, e) PROVE QueueNext(q, r)
  BY <1>1, <1>2, <1>5 DEF Exchanges, WithReplaced, QueueNext
<1>6. (\E e \in Elems \ S : Grows(q, r, e)) \/ Shrinks(q, r) \/ \E e \in Elems \ S : Exchanges(q, r, e)
  BY DEF q, r
<1>7. QueueNext(q, r)
  BY <1>3, <1>4, <1>5, <1>6
<1> QED BY <1>7 DEF q, r

\* What a step of a list does to the rows
Changes(l, m, S) == \/ \E e \in Elems \ S : Grows(Follow(l), Follow(m), e)
                    \/ Shrinks(Follow(l), Follow(m))
                    \/ \E e \in Elems \ S : Exchanges(Follow(l), Follow(m), e)

\* Each change is a step of the queues.
LEMMA QueuesStep ==
  /\ Finds(link, Ends, on) /\ Changes(link, link', on) => OfEvents!Next
  /\ Finds(next, Rounds, in) /\ Changes(next, next', in) => OfJson!Next
  /\ Finds(prev, Rounds, in) /\ Changes(prev, prev', in) => Backwards!Next
<1>1. QueueNext(Walk, Walk') => OfEvents!Next
  BY DEF QueueNext, Held, OfEvents!Next, OfEvents!Enter, OfEvents!Leave, OfEvents!Exchange, OfEvents!Members
<1>2. QueueNext(WalkRound, WalkRound') => OfJson!Next
  BY DEF QueueNext, Held, OfJson!Next, OfJson!Enter, OfJson!Leave, OfJson!Exchange, OfJson!Members, OfJson!ToSet, OfJson!InsertAt, OfJson!RemoveAt, OfJson!ReplaceAt, OfEvents!ToSet, OfEvents!InsertAt,
     OfEvents!RemoveAt, OfEvents!ReplaceAt
<1>3. QueueNext(WalkBack, WalkBack') => Backwards!Next
  BY DEF QueueNext, Held, Backwards!Next, Backwards!Enter, Backwards!Leave, Backwards!Exchange, Backwards!Members, Backwards!ToSet, Backwards!InsertAt, Backwards!RemoveAt, Backwards!ReplaceAt, OfEvents!ToSet, OfEvents!InsertAt,
     OfEvents!RemoveAt, OfEvents!ReplaceAt
<1>4. Finds(link, Ends, on) /\ Changes(link, link', on) => QueueNext(Walk, Walk')
  BY QueueSteps DEF Changes, Walk
<1>5. Finds(next, Rounds, in) /\ Changes(next, next', in) => QueueNext(WalkRound, WalkRound')
  BY QueueSteps DEF Changes, WalkRound
<1>6. Finds(prev, Rounds, in) /\ Changes(prev, prev', in) => QueueNext(WalkBack, WalkBack')
  BY QueueSteps DEF Changes, WalkBack
<1> QED BY <1>1, <1>2, <1>3, <1>4, <1>5, <1>6

\* A step of a dLIST
LEMMA EventsStep ==
  ASSUME IInv, QInv, NEW p \in Heads \cup on, NEW e \in Elems, UNCHANGED dlists,
         \/ e \notin on /\ link' = Insertion(link, p, e) /\ on' = on \cup {e}
         \/ link[p] \in Elems /\ link' = Removal(link, p) /\ on' = on \ {link[p]}
         \/ /\ link[p] \in Elems /\ e \notin on
            /\ link' = Replacement(link, p, e) /\ on' = (on \ {link[p]}) \cup {e}
  PROVE  QInv' /\ OfEvents!Next /\ UNCHANGED <<WalkRound, WalkBack>>
<1>1. Finds(link, Ends, on)
  BY DEF QInv
<1>2. Finds(link', Ends, on') /\ Changes(link, link', on)
  <2>1. CASE e \notin on /\ link' = Insertion(link, p, e) /\ on' = on \cup {e}
    BY <1>1, <2>1, Inserted DEF Changes
  <2>2. CASE link[p] \in Elems /\ link' = Removal(link, p) /\ on' = on \ {link[p]}
    BY <1>1, <2>2, Removed DEF Changes
  <2>3. CASE /\ link[p] \in Elems /\ e \notin on
             /\ link' = Replacement(link, p, e) /\ on' = (on \ {link[p]}) \cup {e}
    BY <1>1, <2>3, Replaced DEF Changes
  <2> QED BY <2>1, <2>2, <2>3
<1>3. OfEvents!Next
  BY <1>1, <1>2, QueuesStep
<1>4. UNCHANGED <<next, prev, in>>
  BY DEF dlists
<1>5. QInv'
  BY <1>2, <1>4 DEF QInv, Ends, Rounds
<1>6. UNCHANGED <<WalkRound, WalkBack>>
  BY <1>4 DEF WalkRound, WalkBack
<1> QED BY <1>3, <1>5, <1>6

\* A step of a dlist_t, forwards and backwards
LEMMA JsonStep ==
  ASSUME IInv, QInv, UNCHANGED dLISTs, NEW p \in Heads \cup in, NEW n \in Heads \cup in,
         NEW e \in Elems,
         \/ /\ e \notin in /\ in' = in \cup {e}
            /\ next' = Insertion(next, p, e) /\ prev' = Insertion(prev, n, e)
         \/ /\ next[p] = e /\ prev[n] = e /\ in' = in \ {e}
            /\ next' = Removal(next, p) /\ prev' = Removal(prev, n)
  PROVE  QInv' /\ OfJson!Next /\ Backwards!Next /\ UNCHANGED Walk
<1>1. Finds(next, Rounds, in) /\ Finds(prev, Rounds, in)
  BY DEF QInv
<1>2. /\ Finds(next', Rounds, in') /\ Changes(next, next', in)
      /\ Finds(prev', Rounds, in') /\ Changes(prev, prev', in)
  <2>1. CASE /\ e \notin in /\ in' = in \cup {e}
             /\ next' = Insertion(next, p, e) /\ prev' = Insertion(prev, n, e)
    BY <1>1, <2>1, Inserted DEF Changes
  <2>2. CASE /\ next[p] = e /\ prev[n] = e /\ in' = in \ {e}
             /\ next' = Removal(next, p) /\ prev' = Removal(prev, n)
    BY <1>1, <2>2, Removed DEF Changes
  <2> QED BY <2>1, <2>2
<1>3. OfJson!Next /\ Backwards!Next
  BY <1>1, <1>2, QueuesStep
<1>4. UNCHANGED <<link, back, on>>
  BY DEF dLISTs
<1>5. QInv'
  BY <1>2, <1>4 DEF QInv, Ends, Rounds
<1>6. UNCHANGED Walk
  BY <1>4 DEF Walk
<1> QED BY <1>3, <1>5, <1>6

QueuesNext == [OfEvents!Next]_Walk /\ [OfJson!Next]_WalkRound /\ [Backwards!Next]_WalkBack

\* dlist_add and dlist_add_tail
LEMMA AddBetweenIsStep ==
  ASSUME IInv, QInv, NEW e \in Elems, e \notin in, NEW p \in Heads \cup in, AddBetween(e, p, next[p])
  PROVE  QInv' /\ QueuesNext
<1>1. next[p] \in Heads \cup in /\ prev[next[p]] = p
  BY DEF IInv, LinkedBothWays, Round
<1>2. next' = Insertion(next, p, e) /\ prev' = Insertion(prev, next[p], e)
  BY <1>1 DEF AddBetween, Insertion
<1>3. UNCHANGED dLISTs /\ in' = in \cup {e}
  BY DEF AddBetween
<1> QED BY <1>1, <1>2, <1>3, JsonStep DEF QueuesNext

\* Every step of the lists is one of the queues.
LEMMA QueuesNextStep ==
  ASSUME IInv, QInv, [Next]_vars
  PROVE  QInv' /\ QueuesNext
<1>0. on \subseteq Elems /\ in \subseteq Elems
  BY DEF IInv, TypeOK
<1>1. ASSUME NEW p \in Places, NEW e \in Elems, InsertAfter(p, e) PROVE QInv' /\ QueuesNext
  <2>1. p \in Heads \cup on /\ e \notin on /\ on' = on \cup {e} /\ UNCHANGED dlists
    BY <1>1 DEF InsertAfter
  <2>2. link' = Insertion(link, p, e)
    BY <1>1 DEF InsertAfter, Insertion
  <2> QED BY <2>1, <2>2, EventsStep DEF QueuesNext
<1>2. ASSUME NEW x \in Elems, NEW e \in Elems, InsertBefore(x, e) PROVE QInv' /\ QueuesNext
  <2>1. e \notin on /\ on' = on \cup {e} /\ UNCHANGED dlists
    BY <1>2 DEF InsertBefore
  <2>2. back[x] \in Heads \cup on /\ link[back[x]] = x
    BY <1>2 DEF InsertBefore, IInv, LinkedBothWays, Backward
  <2>3. link' = Insertion(link, back[x], e)
    BY <1>2, <2>2 DEF InsertBefore, Insertion
  <2> QED BY <2>1, <2>2, <2>3, EventsStep DEF QueuesNext
<1>3. ASSUME NEW x \in Elems, NEW e \in Elems, Replace(x, e) PROVE QInv' /\ QueuesNext
  <2>1. e \notin on /\ on' = (on \ {x}) \cup {e} /\ UNCHANGED dlists
    BY <1>3 DEF Replace
  <2>2. back[x] \in Heads \cup on /\ link[back[x]] = x
    BY <1>3 DEF Replace, IInv, LinkedBothWays, Backward
  <2>3. link' = Replacement(link, back[x], e)
    BY <1>3, <2>2 DEF Replace, Replacement
  <2> QED BY <2>1, <2>2, <2>3, EventsStep DEF QueuesNext
<1>4. ASSUME NEW e \in Elems, Remove(e) PROVE QInv' /\ QueuesNext
  <2>1. on' = on \ {e} /\ UNCHANGED dlists
    BY <1>4 DEF Remove
  <2>2. back[e] \in Heads \cup on /\ link[back[e]] = e
    BY <1>4 DEF Remove, IInv, LinkedBothWays, Backward
  <2>3. link' = Removal(link, back[e])
    BY <1>4, <2>2 DEF Remove, Removal
  <2> QED BY <2>1, <2>2, <2>3, EventsStep DEF QueuesNext
<1>5. ASSUME NEW q \in Places, NEW e \in Elems, Add(q, e) PROVE QInv' /\ QueuesNext
  BY <1>5, AddBetweenIsStep DEF Add
<1>6. ASSUME NEW q \in Places, NEW e \in Elems, AddTail(q, e) PROVE QInv' /\ QueuesNext
  <2>1. prev[q] \in Heads \cup in /\ next[prev[q]] = q
    BY <1>6 DEF AddTail, IInv, LinkedBothWays, Round
  <2> QED BY <1>6, <2>1, AddBetweenIsStep DEF AddTail
<1>7. ASSUME NEW e \in Elems, Del(e) PROVE QInv' /\ QueuesNext
  <2>1. in' = in \ {e} /\ UNCHANGED dLISTs
    BY <1>7 DEF Del
  <2>2. /\ prev[e] \in Heads \cup in /\ next[prev[e]] = e
        /\ next[e] \in Heads \cup in /\ prev[next[e]] = e
    BY <1>7 DEF Del, IInv, LinkedBothWays, Round
  <2>3. next' = Removal(next, prev[e]) /\ prev' = Removal(prev, next[e])
    BY <1>7, <2>2 DEF Del, Removal
  <2> QED BY <2>1, <2>2, <2>3, JsonStep DEF QueuesNext
<1>8. CASE UNCHANGED vars
  BY <1>8 DEF vars, dLISTs, dlists, QInv, QueuesNext, Walk, WalkRound, WalkBack, Ends, Rounds
<1> QED BY <1>1, <1>2, <1>3, <1>4, <1>5, <1>6, <1>7, <1>8 DEF Next

\* Whatever is inserted and removed where, heads and elements stay linked both ways
\* (list.h:103-141, 167-204).
THEOREM StaysLinked == Spec => []LinkedBothWays
<1>1. Init => IInv
  BY ListsInit
<1>2. IInv /\ [Next]_vars => IInv'
  BY ListsStep
<1>3. IInv => LinkedBothWays
  BY DEF IInv
<1> QED BY <1>1, <1>2, <1>3, PTL DEF Spec

\* The pointers stay pointers to heads, elements or nothing.
THEOREM Types == Spec => []TypeOK
<1>1. IInv => TypeOK
  BY DEF IInv
<1> QED BY <1>1, ListsInit, ListsStep, PTL DEF Spec

\* Both lists implement the queues of Queues: a walk in either direction finds every element
\* that was inserted and not removed, once and in its place (list.h:91-94, 245-246, 305-308).
THEOREM QueuesImplemented == Spec => ImplementsQueues
<1>1. Init => IInv /\ QInv /\ OfEvents!Init /\ OfJson!Init /\ Backwards!Init
  BY ListsInit, QueuesInit
<1>2. IInv /\ QInv /\ [Next]_vars => (IInv /\ QInv)' /\ QueuesNext
  BY ListsStep, QueuesNextStep
<1>3. IInv /\ QInv /\ [Next]_vars
      => [OfEvents!Next]_Walk /\ [OfJson!Next]_WalkRound /\ [Backwards!Next]_WalkBack
  BY <1>2 DEF QueuesNext
<1> QED BY <1>1, <1>2, <1>3, PTL
    DEF Spec, ImplementsQueues, OfEvents!Spec, OfJson!Spec, Backwards!Spec
=============================================================================
