------------------------------- MODULE MCJson -------------------------------
(***************************************************************************)
(* Instances of Json for TLC.                                               *)
(***************************************************************************)
EXTENDS Json

\* bytes that are printed as they are, with a backslash, with \u, and one of UTF-8
Characters == {97, 34, 92, 10, 1, 31, 127, 233}
Strings == UNION {[1..n -> Characters] : n \in 0..2}
FewStrings == {<< >>, <<34, 97>>, <<1>>}
Leaf(type) == [Empty EXCEPT !.type = type]
String(s) == [Leaf("string") EXCEPT !.str = s]
Number(n) == [Leaf("number") EXCEPT !.num = n]
Decimal(neg, n, micro) == [Number(n) EXCEPT !.neg = neg, !.micro = micro]
\* -1, 1.5, -0.25, 20.000001, an int's limit, and what is printed with an exponent
Decimals == {Decimal(TRUE, 1, 0), Decimal(FALSE, 1, 500000), Decimal(TRUE, 0, 250000),
             Decimal(FALSE, 20, 1), Decimal(TRUE, 2147483647, 0),
             Decimal(FALSE, 1000000000, 250000), Decimal(TRUE, 1999999999, 999999)}
Leaves == {Leaf("null"), Leaf("true"), Leaf("false"), Number(0), Number(120), Decimal(TRUE, 3, 750000),
           String(<<92, 97>>)}
Member(v, n) == [v EXCEPT !.name = n]

\* what arrays and objects are made of some values
Arrays(S) == {[Leaf("array") EXCEPT !.kids = k] : k \in UNION {[1..n -> S] : n \in 0..2}}
Objects(S) ==
  {[Leaf("object") EXCEPT !.kids = k] :
     k \in UNION {[1..n -> {Member(v, s) : v \in S, s \in FewStrings}] : n \in 0..2}}
Flat == {Leaf("null"), Number(120)}
Nested == Arrays({Number(7)}) \cup Objects({String(<<10>>)})

JsonValues ==
  {String(s) : s \in Strings} \cup {Number(n) : n \in {0, 9, 10, 100, 2147483647}}
  \cup Decimals
  \cup Arrays(Leaves) \cup Objects(Flat) \cup Arrays(Nested)
  \cup {[Leaf("object") EXCEPT !.kids = <<Member(v, <<97>>)>>] : v \in Nested \cup Arrays(Nested)}

\* at the limits of UTF-8 and UTF-16
CodeLimits == {1, 127, 128, 2047, 2048, 55295, 57344, 65535, 65536, 66559, 66560, 1114111}

\* each kind of comment, with a star, a slash and a quote in it
Comments == <<47, 42, 34, 42, 32, 47, 42, 47, 32, 47, 47, 34, 10>>
=============================================================================
