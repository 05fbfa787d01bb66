----------------------------- MODULE LineEditor ------------------------------
(***************************************************************************)
(* What the console promises: typed characters make up a line that can be  *)
(* edited until it is entered; entered characters are delivered once, in   *)
(* order, a line at most to a call, and an end of file only to a call that *)
(* has got nothing else.                                                   *)
(***************************************************************************)
EXTENDS Naturals, Sequences

CONSTANTS Readers, Chars, Newline, Eof, Capacity

VARIABLES entered, line, got    \* got[p]: what the current call of p has

EdInit == entered = <<>> /\ line = <<>> /\ got = [p \in Readers |-> <<>>]

Room == Len(entered) + Len(line) < Capacity

EdType(c) ==
    /\ Room
    /\ IF c \in {Newline, Eof} \/ Len(entered) + Len(line) + 1 = Capacity
       THEN entered' = entered \o Append(line, c) /\ line' = <<>>
       ELSE entered' = entered /\ line' = Append(line, c)
    /\ UNCHANGED got

EdErase ==
    /\ \E n \in {0, Len(line) - 1} : line # <<>> /\ line' = SubSeq(line, 1, n)
    /\ UNCHANGED <<entered, got>>

EdDeliver(p) ==
    /\ entered # <<>>
    /\ got[p] = <<>> \/ got[p][Len(got[p])] # Newline
    /\ Head(entered) # Eof
    /\ entered' = Tail(entered)
    /\ got' = [got EXCEPT ![p] = Append(@, Head(entered))]
    /\ UNCHANGED line

EdEof(p) ==
    /\ entered # <<>> /\ Head(entered) = Eof
    /\ got[p] = <<>>
    /\ entered' = Tail(entered)
    /\ UNCHANGED <<line, got>>

EdReturn(p) == got' = [got EXCEPT ![p] = <<>>] /\ UNCHANGED <<entered, line>>

EdNext ==
    \/ \E c \in Chars : EdType(c)
    \/ EdErase
    \/ \E p \in Readers : EdDeliver(p) \/ EdEof(p) \/ EdReturn(p)

EdSpec == EdInit /\ [][EdNext]_<<entered, line, got>>
=============================================================================
