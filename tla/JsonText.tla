------------------------------ MODULE JsonText ------------------------------
(***************************************************************************)
(* The text of JSON values in src/cJSON.c: printing, into blocks of memory  *)
(* sized beforehand or into a buffer that grows, parsing and minifying.     *)
(*                                                                         *)
(* A text is a sequence of bytes, without the 0 that ends it.  A value is   *)
(* an item with its kids, and where it is a member of an object its name.   *)
(* A number is a sign, a whole part that fits an int, and millionths, which *)
(* is what print_number writes of it.  Every malloc succeeds, no text ends  *)
(* in a string or comment.                                                  *)
(***************************************************************************)
EXTENDS Integers, SequencesExt, TLC

NullText  == <<110, 117, 108, 108>>
FalseText == <<102, 97, 108, 115, 101>>
TrueText  == <<116, 114, 117, 101>>
Quote == 34
Comma == 44
Colon == 58
Backslash == 92
Newline == 10
Tab == 9
Open(v)  == IF v.type = "object" THEN 123 ELSE 91
Close(v) == IF v.type = "object" THEN 125 ELSE 93

Minus == 45
Point == 46

Empty == [type |-> "null", neg |-> FALSE, num |-> 0, micro |-> 0, str |-> << >>,
          kids |-> << >>, name |-> << >>]

-----------------------------------------------------------------------------
(* Printing *)

Tabs(n) == [i \in 1..n |-> Tab]
If(condition, text) == IF condition THEN text ELSE << >>

RECURSIVE Digits(_)
Digits(n) == IF n < 10 THEN <<48 + n>> ELSE Append(Digits(n \div 10), 48 + (n % 10))

\* print_number: %d of what an int holds, %f of what has a fraction, and %e of what is
\* larger than 10^9 then (what is smaller than 10^-6 has no millionths)
Places(n, count) == [i \in 1..count |-> 48 + ((n \div (10 ^ (count - i))) % 10)]
\* the seven digits %e writes of a number of ten
Mantissa(n) == n \div 1000 + (IF n % 1000 >= 500 THEN 1 ELSE 0)
Magnitude(v) ==
  CASE v.micro = 0 -> Digits(v.num)
    [] v.micro # 0 /\ v.num < 1000000000 -> Digits(v.num) \o <<Point>> \o Places(v.micro, 6)
    [] v.micro # 0 /\ v.num >= 1000000000 ->
         Places(Mantissa(v.num) \div 1000000, 1) \o <<Point>> \o Places(Mantissa(v.num), 6)
         \o <<101, 43, 48, 57>>
NumberText(v) == If(v.neg, <<Minus>>) \o Magnitude(v)
NumberRoom(v) == IF v.micro # 0 THEN 64 ELSE IF v.num = 0 THEN 2 ELSE 21

\* print_string_ptr: the letter that stands for a byte behind a backslash
Letter == (Quote :> Quote) @@ (Backslash :> Backslash) @@ (8 :> 98) @@ (12 :> 102)
          @@ (Newline :> 110) @@ (13 :> 114) @@ (Tab :> 116)
HexDigit(d) == IF d < 10 THEN 48 + d ELSE 87 + d
Escape(c) == CASE c \in DOMAIN Letter -> <<Backslash, Letter[c]>>
               [] c \notin DOMAIN Letter /\ c < 32 ->
                    <<Backslash, 117, 48, 48, HexDigit(c \div 16), HexDigit(c % 16)>>
               [] OTHER -> <<c>>
Quoted(s) == <<Quote>> \o FlattenSeq([i \in DOMAIN s |-> Escape(s[i])]) \o <<Quote>>

\* the block it asks for, without room for the hexadecimal digits
MutStringRoom(s) == 3 + Len(s) + Len(SelectSeq(s, LAMBDA c : c < 32 \/ c \in DOMAIN Letter))
\* the block it asks for
StringRoom(s) == 3 + FoldLeft(LAMBDA n, c : n + (CASE c \in DOMAIN Letter -> 2
                                                   [] c \notin DOMAIN Letter /\ c < 32 -> 6
                                                   [] OTHER -> 1), 0, s)

\* print_value without a buffer: text and the block of memory it is put in
LeafText(v) == CASE v.type = "null"   -> NullText
                 [] v.type = "false"  -> FalseText
                 [] v.type = "true"   -> TrueText
                 [] v.type = "number" -> NumberText(v)
                 [] v.type = "string" -> Quoted(v.str)
LeafRoom(v) == CASE v.type \in {"null", "true"} -> 5
                 [] v.type = "false"            -> 6
                 [] v.type = "number"           -> NumberRoom(v)
                 [] v.type = "string"           -> StringRoom(v.str)
IsLeaf(v) == v.type \notin {"array", "object"}
NoKids(v, depth, fmt) == IF v.type = "array" THEN <<Open(v), Close(v)>>
                         ELSE <<Open(v)>> \o If(fmt, <<Newline>> \o Tabs(depth - 1)) \o <<Close(v)>>
NoKidsRoom(v, depth, fmt) == IF v.type = "object" /\ fmt THEN depth + 4 ELSE 3
IsLast(v, i) == i = Len(v.kids)

RECURSIVE Printed(_, _, _)
Printed(v, depth, fmt) ==
  LET kid(i) == Printed(v.kids[i], depth + 1, fmt)
      entry(i) == kid(i) \o If(~IsLast(v, i), <<Comma>> \o If(fmt, <<32>>))
      member(i) == If(fmt, Tabs(depth + 1)) \o Quoted(v.kids[i].name)
                   \o <<Colon>> \o If(fmt, <<Tab>>) \o kid(i)
                   \o If(~IsLast(v, i), <<Comma>>) \o If(fmt, <<Newline>>)
  IN  CASE IsLeaf(v) -> LeafText(v)
        [] ~IsLeaf(v) /\ v.kids = << >> -> NoKids(v, depth, fmt)
        [] v.type = "array" /\ v.kids # << >> ->
             <<Open(v)>> \o FlattenSeq([i \in DOMAIN v.kids |-> entry(i)]) \o <<Close(v)>>
        [] v.type = "object" /\ v.kids # << >> ->
             <<Open(v)>> \o If(fmt, <<Newline>>) \o FlattenSeq([i \in DOMAIN v.kids |-> member(i)])
             \o If(fmt, Tabs(depth)) \o <<Close(v)>>

Room(v, depth, fmt) ==
  LET kid(i) == Len(Printed(v.kids[i], depth + 1, fmt))
      each(n, i) ==
        n + kid(i) + 2
          + (IF v.type = "array" THEN IF fmt THEN 1 ELSE 0
             ELSE Len(Quoted(v.kids[i].name)) + (IF fmt THEN depth + 3 ELSE 0))
  IN  CASE IsLeaf(v) -> LeafRoom(v)
        [] ~IsLeaf(v) /\ v.kids = << >> -> NoKidsRoom(v, depth, fmt)
        [] v.type = "array" /\ v.kids # << >> -> FoldLeftDomain(each, 5, v.kids)
        [] v.type = "object" /\ v.kids # << >> ->
             FoldLeftDomain(each, 7 + (IF fmt THEN depth + 1 ELSE 0), v.kids)

-----------------------------------------------------------------------------
(* Printing to a printbuffer *)

pow2gt(x) == CHOOSE p \in {2 ^ k : k \in 0..30} : p >= x /\ p \div 2 < x

\* ensure(p, needed), and then a text at the offset, with a 0 behind it or without
Write(p, needed, text, end) ==
  [p EXCEPT !.length = IF p.offset + needed <= @ THEN @ ELSE pow2gt(p.offset + needed),
            !.text = SubSeq(@, 1, p.offset) \o text,
            !.fits = @ /\ Len(text) + end <= needed]
WriteOn(p, needed, text, end) == [Write(p, needed, text, end) EXCEPT !.offset = @ + Len(text)]
\* the offset left as it was
MutUpdate(p) == p
update(p) == [p EXCEPT !.offset = Len(p.text)]

RECURSIVE Buffered(_, _, _, _)
Buffered(v, depth, fmt, p) ==
  LET object == v.type = "object"
      long == IF fmt THEN 2 ELSE 1
      begun == IF object THEN WriteOn(p, long + 1, <<Open(v)>> \o If(fmt, <<Newline>>), 1)
               ELSE WriteOn(p, 1, <<Open(v)>>, 0)
      named(q, i) ==
        LET t == IF fmt THEN WriteOn(q, depth + 1, Tabs(depth + 1), 0) ELSE q
            n == v.kids[i].name
        IN  WriteOn(update(Write(t, StringRoom(n), Quoted(n), 1)), long,
                    <<Colon>> \o If(fmt, <<Tab>>), 0)
      comma(i) == If(~IsLast(v, i), <<Comma>>)
                  \o If(fmt /\ object, <<Newline>>) \o If(fmt /\ ~object /\ ~IsLast(v, i), <<32>>)
      kid(q, i) ==
        LET printed == update(Buffered(v.kids[i], depth + 1, fmt, IF object THEN named(q, i) ELSE q))
        IN  WriteOn(printed, Len(comma(i)) + 1, comma(i), 1)
  IN  CASE IsLeaf(v) -> Write(p, LeafRoom(v), LeafText(v), 1)
        [] ~IsLeaf(v) /\ v.kids = << >> ->
             Write(p, NoKidsRoom(v, depth, fmt), NoKids(v, depth, fmt), 1)
        [] ~IsLeaf(v) /\ v.kids # << >> ->
             Write(FoldLeftDomain(kid, begun, v.kids), IF object /\ fmt THEN depth + 2 ELSE 2,
                   If(object /\ fmt, Tabs(depth)) \o <<Close(v)>>, 1)

cJSON_PrintBuffered(v, prebuffer, fmt) ==
  Buffered(v, 0, fmt, [text |-> << >>, offset |-> 0, length |-> prebuffer, fits |-> TRUE])

-----------------------------------------------------------------------------
(* Parsing.  A result has no item when the function returns 0 *)

Drop(t, n) == SubSeq(t, n + 1, Len(t))
At(t, i) == IF i \in DOMAIN t THEN t[i] ELSE 0
\* how many bytes at the start are in S
Span(t, S) == CHOOSE n \in 0..Len(t) : /\ \A i \in 1..n : t[i] \in S
                                       /\ At(t, n + 1) \notin S
Failed == [ok |-> FALSE, item |-> Empty, rest |-> << >>]
Parsed(item, rest) == [ok |-> TRUE, item |-> item, rest |-> rest]

skip(t) == Drop(t, Span(t, 1..32))

Digit == 48..57
\* the digits at the start, and what is behind them
Leading(t) == SubSeq(t, 1, Span(t, Digit))
Past(t) == Drop(t, Span(t, Digit))
Exponent(t) == IF At(t, 1) \in {101, 69} THEN Past(Drop(t, IF At(t, 2) \in {43, 45} THEN 2 ELSE 1))
               ELSE t
Numeral(digits, rest) ==
  Parsed([Empty EXCEPT !.type = "number",
                       !.num = FoldLeft(LAMBDA n, digit : 10 * n + digit - 48, 0, digits)],
         Exponent(rest))
\* the digits of the fraction count like those before it: the line that would apply sign,
\* scale and exponent is a comment
Fraction(digits, t) ==
  IF At(t, 1) = Point /\ At(t, 2) \in Digit
  THEN Numeral(digits \o Leading(Drop(t, 1)), Past(Drop(t, 1)))
  ELSE Numeral(digits, t)
Whole(t) == IF At(t, 1) = 48 THEN Fraction(<< >>, t) ELSE Fraction(Leading(t), Past(t))
parse_number(t) ==
  LET sign == IF At(t, 1) = Minus THEN 1 ELSE 0
  IN  Whole(Drop(t, IF At(t, sign + 1) = 48 THEN sign + 1 ELSE sign))

\* parse_hex4, 0 where there is no digit
HexValue(c) == CASE c \in Digit -> c - 48
                 [] c \in 65..70 -> c - 55
                 [] c \in 97..102 -> c - 87
                 [] OTHER -> 16
Hex(h) == IF 16 \in {h[i] : i \in 1..4} THEN 0 ELSE ((h[1] * 16 + h[2]) * 16 + h[3]) * 16 + h[4]
parse_hex4(t) == Hex([i \in 1..4 |-> HexValue(At(t, i))])

\* one byte too few for the larger two-byte codes
MutEncoded(uc) == IF uc < 1024 THEN <<192 + uc \div 64, 128 + (uc % 64)>>
                  ELSE <<224 + uc \div 4096, 128 + ((uc \div 64) % 64), 128 + (uc % 64)>>
Encoded(uc) ==
  LET low(n) == 128 + ((uc \div (64 ^ n)) % 64)
  IN  CASE uc < 128   -> <<uc>>
        [] uc \in 128..2047    -> <<192 + uc \div 64, low(0)>>
        [] uc \in 2048..65535  -> <<224 + uc \div 4096, low(1), low(0)>>
        [] uc > 65535          -> <<240 + uc \div 262144, low(2), low(1), low(0)>>

\* what \u at the start of t stands for, and what follows: uc is the number behind it, and
\* uc2 the one behind a second \u, where there is a pair
Units(t, uc, pair, uc2) ==
  CASE uc = 0 \/ uc \in 56320..57343 -> [out |-> << >>, rest |-> Drop(t, 6)]
    [] uc \in 55296..56319 /\ ~pair  -> [out |-> << >>, rest |-> Drop(t, 6)]
    [] uc \in 55296..56319 /\ pair   ->
         [out |-> If(uc2 \in 56320..57343, Encoded(65536 + (uc % 1024) * 1024 + (uc2 % 1024))),
          rest |-> Drop(t, 12)]
    [] OTHER -> [out |-> Encoded(uc), rest |-> Drop(t, 6)]
Unicode(t) == Units(t, parse_hex4(Drop(t, 2)), At(t, 7) = Backslash /\ At(t, 8) = 117,
                    parse_hex4(Drop(t, 8)))

Unescaped(letter) == IF \E c \in 1..31 : c \in DOMAIN Letter /\ Letter[c] = letter
                     THEN CHOOSE c \in 1..31 : c \in DOMAIN Letter /\ Letter[c] = letter
                     ELSE letter
RECURSIVE StringFrom(_, _)
StringBehind(u, out) == StringFrom(u.rest, out \o u.out)
StringFrom(t, out) ==
  CASE t = << >> \/ At(t, 1) = Quote ->
         Parsed([Empty EXCEPT !.type = "string", !.str = out], Drop(t, 1))
    [] t # << >> /\ At(t, 1) \notin {Quote, Backslash} -> StringFrom(Drop(t, 1), Append(out, t[1]))
    [] At(t, 1) = Backslash /\ At(t, 2) = 117 -> StringBehind(Unicode(t), out)
    [] At(t, 1) = Backslash /\ At(t, 2) # 117 ->
         StringFrom(Drop(t, 2), Append(out, Unescaped(t[2])))
parse_string(t) == IF At(t, 1) = Quote THEN StringFrom(Drop(t, 1), << >>) ELSE Failed

RECURSIVE parse_value(_)
RECURSIVE KidsFrom(_, _)
MemberValue(name, t) == IF name.ok /\ At(t, 1) = Colon
                        THEN [parse_value(skip(Drop(t, 1))) EXCEPT !.item.name = name.item.str]
                        ELSE Failed
MemberFrom(name) == MemberValue(name, skip(name.rest))
\* an element of an array, a member of an object
Kid(v, t) == IF v.type = "array" THEN parse_value(skip(t)) ELSE MemberFrom(parse_string(skip(t)))
\* the loops of parse_array and parse_object, when a kid has been parsed
KidsFrom(v, kid) ==
  LET more == [v EXCEPT !.kids = Append(@, kid.item)]
      rest == skip(kid.rest)
  IN  CASE kid.ok /\ At(rest, 1) = Comma    -> KidsFrom(more, Kid(v, Drop(rest, 1)))
        [] kid.ok /\ At(rest, 1) = Close(v) -> Parsed(more, Drop(rest, 1))
        [] OTHER -> Failed
\* v has no kid yet, and t is what is behind the opening bracket
Kids(v, t) == IF At(t, 1) = Close(v) THEN Parsed(v, Drop(t, 1)) ELSE KidsFrom(v, Kid(v, t))
parse_value(t) ==
  LET starts(text) == IsPrefix(text, t)
      as(type, n) == Parsed([Empty EXCEPT !.type = type], Drop(t, n))
  IN  CASE starts(NullText)  -> as("null", 4)
        [] starts(FalseText) -> as("false", 5)
        [] starts(TrueText)  -> as("true", 4)
        [] At(t, 1) = Quote  -> parse_string(t)
        [] At(t, 1) \in Digit \cup {Minus} -> parse_number(t)
        [] At(t, 1) \in {91, 123} ->
             Kids([Empty EXCEPT !.type = IF At(t, 1) = 91 THEN "array" ELSE "object"],
                  skip(Drop(t, 1)))
        [] OTHER -> Failed

\* nothing may follow a result but spaces
Ended(r) == IF skip(r.rest) # << >> THEN Failed ELSE r
cJSON_ParseWithOpts(t, require_null_terminated) ==
  IF require_null_terminated THEN Ended(parse_value(skip(t))) ELSE parse_value(skip(t))

-----------------------------------------------------------------------------
(* cJSON_Minify *)

\* where the string that begins at t[1] ends
RECURSIVE EndOfString(_, _)
EndOfString(t, i) == IF At(t, i) \in {0, Quote} THEN i
                     ELSE EndOfString(t, i + (IF t[i] = Backslash THEN 2 ELSE 1))
EndOfComment(t) == CHOOSE i \in 2..(Len(t) + 1) :
                     /\ i = Len(t) + 1 \/ (At(t, i) = 42 /\ At(t, i + 1) = 47)
                     /\ \A j \in 2..(i - 1) : At(t, j) # 42 \/ At(t, j + 1) # 47
RECURSIVE cJSON_Minify(_)
cJSON_Minify(t) ==
  LET string == EndOfString(t, 2)
  IN  CASE t = << >> -> << >>
        [] At(t, 1) \in {32, Tab, 13, Newline} -> cJSON_Minify(Drop(t, 1))
        [] At(t, 1) = 47 /\ At(t, 2) = 47 -> cJSON_Minify(Drop(t, Span(t, (1..255) \ {Newline})))
        [] At(t, 1) = 47 /\ At(t, 2) = 42 -> cJSON_Minify(Drop(t, EndOfComment(t) + 1))
        [] At(t, 1) = Quote -> SubSeq(t, 1, string) \o cJSON_Minify(Drop(t, string))
        [] OTHER -> <<t[1]>> \o cJSON_Minify(Drop(t, 1))

-----------------------------------------------------------------------------
(* Properties *)

CONSTANTS Values, Codes, Prebuffers, Comment

\* the code point UTF-8 bytes stand for
CodePoint(s) == LET lead == <<0, 192, 224, 240>>[Len(s)]
                IN  FoldLeft(LAMBDA n, b : n * 64 + b - 128, s[1] - lead, Tail(s))
\* the escape of a code point, as one unit of UTF-16 or two
Unit(u) == <<Backslash, 117>> \o [i \in 1..4 |-> HexDigit((u \div (16 ^ (4 - i))) % 16)]
Escaped(c) == IF c < 65536 THEN Unit(c)
              ELSE Unit(55296 + ((c - 65536) \div 1024)) \o Unit(56320 + ((c - 65536) % 1024))

\* Of a number the digits that are printed are read back, and no more
AsRead(v) ==
  [v EXCEPT !.neg = FALSE, !.micro = 0,
            !.num = CASE v.micro = 0 -> @
                      [] v.micro # 0 /\ @ < 1000000000 -> @ * 1000000 + v.micro
                      [] v.micro # 0 /\ @ >= 1000000000 -> Mantissa(@)]
RECURSIVE AllAsRead(_)
AllAsRead(v) == [AsRead(v) EXCEPT !.kids = [i \in DOMAIN @ |-> AllAsRead(@[i])]]

\* What is printed, with spaces and without, is read back as the same value, but for its
\* negative numbers and fractions, of which the digits are read: see NumbersReadBack of Json.  With
\* comments around it and minified, it is what is printed without spaces (cJSON.c:347, 348,
\* 747).
ReadsBack(v) ==
  /\ \A fmt \in BOOLEAN :
       cJSON_ParseWithOpts(Printed(v, 0, fmt), TRUE) = Parsed(AllAsRead(v), << >>)
  /\ cJSON_Minify(Comment \o Printed(v, 0, TRUE) \o Comment) = Printed(v, 0, FALSE)
ValuesReadBack == \A v \in Values : ReadsBack(v)

NumberReadsBack(v) == cJSON_ParseWithOpts(Printed(v, 0, FALSE), TRUE) = Parsed(v, << >>)

\* No text outgrows the block computed for it beforehand, in the buffer neither, and the
\* buffer holds the same text however small it was at first (cJSON.c:283, 490, 636, 126).
RECURSIVE Fits(_, _, _)
Fits(v, depth, fmt) == /\ Len(Printed(v, depth, fmt)) < Room(v, depth, fmt)
                       /\ \A i \in DOMAIN v.kids : Fits(v.kids[i], depth + 1, fmt)
Holds(p, text) == p.fits /\ p.text = text /\ Len(p.text) < p.length
RoomEnough ==
  \A v \in Values, fmt \in BOOLEAN :
    /\ Fits(v, 0, fmt)
    /\ \A n \in Prebuffers : Holds(cJSON_PrintBuffered(v, n, fmt), Printed(v, 0, fmt))

\* An escape of UTF-16 is read as the UTF-8 of the same character, in the fewest bytes
\* (cJSON.c:221-243).
IsUtf8(s, c) == CodePoint(s) = c /\ Len(s) = (CASE c < 128 -> 1 [] c \in 128..2047 -> 2
                                                [] c \in 2048..65535 -> 3 [] c > 65535 -> 4)
EscapesAreUtf8 ==
  \A c \in Codes :
    IsUtf8(cJSON_ParseWithOpts(<<Quote>> \o Escaped(c) \o <<Quote>>, TRUE).item.str, c)
=============================================================================
