-------------------------------- MODULE Json --------------------------------
(***************************************************************************)
(* The items of Cjson printed and parsed as JsonText: a program builds      *)
(* trees, sends their text and reads it again (httpclient.c:76-97).         *)
(***************************************************************************)
EXTENDS Cjson, JsonText

\* What is printed of an item: with children it is an object, if they have names, or an array
RECURSIVE Value(_)
Value(i) ==
  LET c == Children(heap, i)
      object == \E k \in DOMAIN c : heap[c[k]].string # NULL
      kid(k) == [Value(c[k]) EXCEPT !.name = IF object THEN <<97>> ELSE << >>]
  IN  IF c = << >> THEN Empty
      ELSE [Empty EXCEPT !.type = IF object THEN "object" ELSE "array",
                         !.kids = [k \in DOMAIN c |-> kid(k)]]
\* Printing does not end where a reference leads back to where it is, and crashes at a child
\* without a name in an object
Plain(i) == \A j \in Below(i) :
              /\ ~heap[j].isRef
              /\ \A k, l \in ToSet(Children(heap, j)) :
                   heap[k].string = NULL => heap[l].string = NULL

\* Every tree that calls can build is the same after printing and parsing, and so is every
\* kind of value, but for the sign and the scale of its numbers (see ReadsBack), in the room
\* that was computed for it.
TextSurvives == /\ ValuesReadBack /\ RoomEnough /\ EscapesAreUtf8
                /\ \A i \in held : Plain(i) => ReadsBack(Value(i))

\* A number that is printed of an item is read back as the same number: what is read is
\* "number = +/- number.fraction * 10^+/- exponent" (cJSON.c:114, a comment behind a line that
\* is one itself).  The code breaks this for negative numbers and fractions.
NumbersReadBack ==
  \A i \in held, v \in Values :
    v.type = "number" /\ Children(heap, i) = << >> => NumberReadsBack(v)
=============================================================================
