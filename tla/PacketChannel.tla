--------------------------- MODULE PacketChannel ---------------------------
(***************************************************************************)
(* What a reader of packets promises to whoever handles them: the packets   *)
(* the other side sends are handled one by one, each once, whole and in     *)
(* order.                                                                   *)
(***************************************************************************)
EXTENDS Naturals, Sequences

VARIABLES Sent,    \* the packets the other side sends, each a sequence of bytes; it is set
                   \* at the start
          got      \* the packets handled

Init == got = << >>
Handle == /\ Len(got) < Len(Sent) /\ got' = Append(got, Sent[Len(got) + 1])
          /\ UNCHANGED Sent
Spec == Init /\ [][Handle]_<<Sent, got>>
=============================================================================
