----------------------------- MODULE TopicMatch -----------------------------
(***************************************************************************)
(* isTopicMatched (src/mqtt/MQTTClient.c:220): whether a message's topic    *)
(* name matches the filter of a handler, in one pass over both strings.     *)
(* Strings are sequences of characters.                                     *)
(***************************************************************************)
EXTENDS Integers, Sequences, FiniteSets

Slash == 47
Plus == 43
Hash == 35

\* The index of the separator behind index n of `name', or the end of it
NextSeparator(name, n) ==
  CHOOSE m \in (n + 1)..(Len(name) + 1) :
    /\ m = Len(name) + 1 \/ name[m] = Slash
    /\ \A k \in (n + 1)..(m - 1) : name[k] # Slash

\* a `+' that takes one character only
MutMatched(filter, name) ==
  LET match[f \in 1..(Len(filter) + 1)] ==
        [n \in 1..(Len(name) + 1) |->
           IF f > Len(filter) \/ n > Len(name) THEN f > Len(filter) /\ n > Len(name)
           ELSE IF name[n] = Slash /\ filter[f] # Slash THEN FALSE
           ELSE IF filter[f] \notin {Plus, Hash, name[n]} THEN FALSE
           ELSE match[f + 1][IF filter[f] = Hash THEN Len(name) + 1 ELSE n + 1]]
  IN  match[1][1]
\* curf is f, curn is n.  A break leaves curn before the end: no match
isTopicMatched(filter, name) ==
  LET match[f \in 1..(Len(filter) + 1)] ==
        [n \in 1..(Len(name) + 1) |->
           IF f > Len(filter) \/ n > Len(name) THEN f > Len(filter) /\ n > Len(name)
           ELSE IF name[n] = Slash /\ filter[f] # Slash THEN FALSE
           ELSE IF filter[f] \notin {Plus, Hash, name[n]} THEN FALSE
           ELSE match[f + 1][IF filter[f] = Plus THEN NextSeparator(name, n)
                             ELSE IF filter[f] = Hash THEN Len(name) + 1 ELSE n + 1]]
  IN  match[1][1]

\* Both strings are what is used of them, whether they end with a 0 or have a length
MQTTPacket_equals(name, filter) == name = filter

\* deliverMessage: the message goes to the handler of the filter
GoesTo(filter, name) == MQTTPacket_equals(name, filter) \/ isTopicMatched(filter, name)

-----------------------------------------------------------------------------
(* What MQTT says, level by level *)

\* The levels of a string, the parts between its separators
Levels(s) ==
  LET seps == {i \in DOMAIN s : s[i] = Slash}
      Nth(k) == CHOOSE i \in seps : Cardinality({j \in seps : j < i}) = k - 1
      Begin(k) == IF k = 1 THEN 1 ELSE Nth(k - 1) + 1
      Finish(k) == IF k = Cardinality(seps) + 1 THEN Len(s) ELSE Nth(k) - 1
  IN  [k \in 1..(Cardinality(seps) + 1) |-> SubSeq(s, Begin(k), Finish(k))]

\* `#' is the last level only, and a wildcard is a level of its own (MQTTClient.c:217-219)
WellFormed(filter) ==
  LET fl == Levels(filter)
  IN  /\ filter # << >>
      /\ \A k \in DOMAIN fl, i \in 1..Len(filter) :
           i <= Len(fl[k]) /\ fl[k][i] \in {Plus, Hash} =>
             Len(fl[k]) = 1 /\ (fl[k][i] = Hash => k = Len(fl))

\* Each level is the filter's or falls under its wildcard.  Here a wildcard wants a level
\* that is not empty, and a `#' at least one level
MatchesByLevel(filter, name) ==
  LET fl == Levels(filter)
      nl == Levels(name)
      open == fl[Len(fl)] = <<Hash>>
  IN  /\ IF open THEN Len(nl) >= Len(fl) ELSE Len(nl) = Len(fl)
      /\ \A k \in 1..Len(fl) : \/ fl[k] = nl[k]
                               \/ fl[k] \in {<<Plus>>, <<Hash>>} /\ nl[k] # << >>
=============================================================================
