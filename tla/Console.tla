------------------------------- MODULE Console -------------------------------
(***************************************************************************)
(* Console input (console.c): interrupts of the keyboard and the serial    *)
(* line put characters into a ring, readers take the entered ones out.     *)
(*                                                                         *)
(* The indices r, w and e only grow and wrap at Modulus (2^32), a multiple *)
(* of INPUT_BUF.  A reader holds cons.lock from its first look to its      *)
(* sleep or return, one character per step; an interrupt, which spins for  *)
(* the lock, handles one character per step.  The echo and the list of     *)
(* processes on ^P are output only and left out.                           *)
(***************************************************************************)
EXTENDS Integers, Sequences, FiniteSets

CONSTANTS
    Readers, INPUT_BUF, Modulus32,
    Letters, Newline, Return, Eof, KillLine, Backspace, NoChar,
    ReadSizes,              \* the n of consoleread()
    NoReader

Chars == Letters \cup {Newline, Eof}
Keys == Chars \cup {Return, KillLine, Backspace, NoChar}

ASSUME ConsoleAssumption ==
    /\ INPUT_BUF \in Nat \ {0} /\ Modulus32 \in Nat
    /\ INPUT_BUF < Modulus32 /\ Modulus32 % INPUT_BUF = 0
    /\ NoReader \notin Readers
    /\ ReadSizes \subseteq Nat

VARIABLES
    input,                  \* [buf, r, w, e]
    consLock,
    cpc, left, got, dead    \* of each reader: where, n, dst, killed

consVars == <<input, consLock, cpc, left, got, dead>>

ConsInit ==
    /\ input = [buf |-> [i \in 0..(INPUT_BUF - 1) |-> NoChar],
                r |-> 0, w |-> 0, e |-> 0]
    /\ consLock = NoReader
    /\ cpc = [p \in Readers |-> "out"]
    /\ left = [p \in Readers |-> 0]
    /\ got = [p \in Readers |-> <<>>]
    /\ dead = [p \in Readers |-> FALSE]

Plus(i, k) == (i + k) % Modulus32
Dist(i, j) == (j - i) % Modulus32       \* j - i as unsigned
At(i) == input.buf[i % INPUT_BUF]

\* wakeup(&input.r)
ReadersWoken == [p \in Readers |-> IF cpc[p] = "sleep" THEN "entry" ELSE cpc[p]]

\* Whether c, put at input.e, enters the line.
Enters(c) ==
    c \in {Newline, Eof} \/ Plus(input.e, 1) = Plus(input.r, INPUT_BUF)

\* One character of consoleintr()'s loop.
Consoleintr(key) ==
    LET c == IF key = Return THEN Newline ELSE key IN
    /\ consLock = NoReader
    /\ \/ /\ key = KillLine
          /\ \E k \in 0..Dist(input.w, input.e) :
                /\ \A j \in 1..k : At(Plus(input.e, -j)) # Newline
                /\ \/ k = Dist(input.w, input.e)
                   \/ At(Plus(input.e, -(k + 1))) = Newline
                /\ input' = [input EXCEPT !.e = Plus(@, -k)]
          /\ UNCHANGED cpc
       \/ /\ key = Backspace
          /\ input.e # input.w
          /\ input' = [input EXCEPT !.e = Plus(@, -1)]
          /\ UNCHANGED cpc
       \/ /\ key \notin {KillLine, Backspace, NoChar}
          /\ Dist(input.r, input.e) < INPUT_BUF
          /\ input' = [input EXCEPT !.buf[input.e % INPUT_BUF] = c,
                            !.e = Plus(@, 1),
                            !.w = IF Enters(c) THEN Plus(input.e, 1) ELSE @]
          /\ cpc' = IF Enters(c) THEN ReadersWoken ELSE cpc
    /\ UNCHANGED <<consLock, left, got, dead>>

\* consoleread(n), up to the lock.
ReadStart(p, n) ==
    /\ cpc[p] = "out"
    /\ cpc' = [cpc EXCEPT ![p] = "entry"]
    /\ left' = [left EXCEPT ![p] = n]
    /\ UNCHANGED <<input, consLock, got, dead>>

\* acquire(&cons.lock), at the start or at the end of sleep().
ReadEnter(p) ==
    /\ cpc[p] = "entry" /\ consLock = NoReader
    /\ consLock' = p
    /\ cpc' = [cpc EXCEPT ![p] = "locked"]
    /\ UNCHANGED <<input, left, got, dead>>

Returns(p) ==
    /\ cpc' = [cpc EXCEPT ![p] = "out"]
    /\ got' = [got EXCEPT ![p] = <<>>]
    /\ left' = [left EXCEPT ![p] = 0]
    /\ consLock' = NoReader

\* Nothing is entered: killed is looked at, and not again before the sleep.
ReadEmpty(p) ==
    /\ cpc[p] = "locked" /\ left[p] > 0 /\ input.r = input.w
    /\ \/ dead[p] /\ Returns(p)
       \/ /\ ~dead[p]
          /\ cpc' = [cpc EXCEPT ![p] = "tosleep"]
          /\ UNCHANGED <<got, left, consLock>>
    /\ UNCHANGED <<input, dead>>

\* Mutant: the lock is given up before the reader is asleep.
ReadSleepLate(p) ==
    /\ cpc[p] = "tosleep"
    /\ \/ consLock = p /\ consLock' = NoReader /\ UNCHANGED cpc
       \/ consLock # p /\ cpc' = [cpc EXCEPT ![p] = "sleep"]
                       /\ UNCHANGED consLock
    /\ UNCHANGED <<input, left, got, dead>>

ReadSleep(p) ==
    /\ cpc[p] = "tosleep"
    /\ cpc' = [cpc EXCEPT ![p] = "sleep"]
    /\ consLock' = NoReader
    /\ UNCHANGED <<input, left, got, dead>>

\* Mutant: an end of file is taken even when the call has characters.
EofTakenAlways(p) == input' = [input EXCEPT !.r = Plus(@, 1)]

\* ^D is kept for the next call if this one has characters to return.
EofTaken(p) ==
    input' = [input EXCEPT !.r = IF got[p] # <<>> THEN @ ELSE Plus(@, 1)]

ReadChar(p) ==
    /\ cpc[p] = "locked" /\ left[p] > 0 /\ input.r # input.w
    /\ At(input.r) # Eof
    /\ input' = [input EXCEPT !.r = Plus(@, 1)]
    /\ got' = [got EXCEPT ![p] = Append(@, At(input.r))]
    /\ left' = [left EXCEPT ![p] = IF At(input.r) = Newline THEN 0 ELSE @ - 1]
    /\ UNCHANGED <<consLock, cpc, dead>>

ReadEof(p) ==
    /\ cpc[p] = "locked" /\ left[p] > 0 /\ input.r # input.w
    /\ At(input.r) = Eof
    /\ EofTaken(p)
    /\ left' = [left EXCEPT ![p] = 0]
    /\ UNCHANGED <<consLock, cpc, got, dead>>

ReadReturn(p) ==
    /\ cpc[p] = "locked" /\ left[p] = 0
    /\ Returns(p)
    /\ UNCHANGED <<input, dead>>

\* kill(): the flag, and the wakeup of a sleeper.
KillReader(p) ==
    /\ ~dead[p]
    /\ dead' = [dead EXCEPT ![p] = TRUE]
    /\ cpc' = [cpc EXCEPT ![p] = IF @ = "sleep" THEN "entry" ELSE @]
    /\ UNCHANGED <<input, consLock, left, got>>

ReaderStep(p) ==
    \/ ReadEnter(p) \/ ReadEmpty(p) \/ ReadSleep(p)
    \/ ReadChar(p) \/ ReadEof(p) \/ ReadReturn(p)

ConsNext ==
    \/ \E key \in Keys : Consoleintr(key)
    \/ \E p \in Readers :
        \/ \E n \in ReadSizes : ReadStart(p, n)
        \/ ReaderStep(p) \/ KillReader(p)

-----------------------------------------------------------------------------
\* The characters from index i to index j.
Between(i, j) == [k \in 1..Dist(i, j) |-> At(Plus(i, k - 1))]

Editor == INSTANCE LineEditor WITH
    entered <- Between(input.r, input.w),
    line <- Between(input.w, input.e),
    Capacity <- INPUT_BUF

\* The ring, its three indices and their wrap implement the line editor: no
\* character is lost, repeated or overtaken by an edit, a full buffer enters
\* the line instead of blocking it, and a call with characters leaves ^D.
ImplementsEditor == Editor!EdSpec

\* No reader sleeps while characters are entered, whichever of several
\* readers took some of them or put a ^D back, and whenever the line came.
ReadersServed ==
    \A p \in Readers : cpc[p] = "sleep" => input.r = input.w
=============================================================================
