----------------------------- MODULE MCResources -----------------------------
(***************************************************************************)
(* What hands out and takes back: pages of the kernel, blocks of a user's  *)
(* heap, the processes and descriptors of the two shells, the turns of a   *)
(* file transfer.  They meet only in failures that each model takes at any *)
(* time (sbrk(), fork() or open() that fails), so a behaviour follows one  *)
(* of them: the states are those of each, not their product.               *)
(*                                                                         *)
(* 15 pages let the first process run a program and fork a child while the *)
(* memory gives out in every call; user space is two tables of two pages.  *)
(* The heap reaches three extensions.  In a session of two lines the first *)
(* can leave three jobs, of which any may be gone, stopped or running when *)
(* the second is typed.  The lines for the shell of xv6 use every operator *)
(* of its grammar, and every error of it.  A file of the transfer is empty *)
(* or takes two chunks, the second one short; one file changes, and after  *)
(* a fault, of which its properties say nothing, the get under way goes on *)
(* but no other one is begun and no client comes or leaves.                *)
(***************************************************************************)
EXTENDS VM, UserHeap, Shell, Sh, Transfer, TLC

VARIABLE which              \* what the behaviour is about

Seg(v, f, m, s) == [vaddr |-> v, filesz |-> f, memsz |-> m, short |-> s]
Call(s, a) == [segs |-> s, args |-> a]

\* Programs that load; that fail in their second header (unaligned, filesz
\* above memsz, an overflow) or in the read; arguments that overrun the stack.
MCExecCalls == {
    Call(<<Seg(0, 1, 1, FALSE)>>, <<1, 1>>),
    Call(<<Seg(0, 1, 3, FALSE), Seg(1, 1, 4, FALSE)>>, <<>>),
    Call(<<Seg(0, 1, 1, FALSE), Seg(4, 3, 1, FALSE)>>, <<2>>),
    Call(<<Seg(0, 1, 1, FALSE), Seg(2, 0, 14, FALSE)>>, <<2>>),
    Call(<<Seg(0, 1, 3, TRUE)>>, <<>>),
    Call(<<>>, <<2, 1>>)}
MCIncrements == {3, -2}

Stage(what, redirs) == [what |-> what, redirs |-> redirs, job |-> 1, sig |-> "TERM"]
Kjob(n, s) == [what |-> "kjob", redirs |-> <<>>, job |-> n, sig |-> s]
Program == Stage("program", <<>>)
Command(bg, s) == [bg |-> bg, stages |-> s]

\* a | b <x & c & kjob 2 15; fg 1     a | b <x >y &     a | b | | c
\* pwd >x | unfinished <; |           kjob 2 19 | kjob 2 18 | kjob 2 9 | overkill | quit
MCLines == {
    <<Command(TRUE, <<Program, Stage("program", <<"<">>)>>), Command(TRUE, <<Program>>),
      Command(FALSE, <<Kjob(2, "TERM")>>),
      Command(FALSE, <<Stage("fg", <<>>)>>)>>,
    <<Command(TRUE, <<Program, Stage("program", <<"<", ">">>)>>)>>,
    <<Command(FALSE, <<Program, Program, Stage("blank", <<>>), Program>>)>>,
    <<Command(FALSE, <<Stage("builtin", <<">">>), Stage("unfinished", <<"<">>)>>),
      Command(FALSE, <<>>)>>,
    <<Command(FALSE, <<Kjob(2, "STOP"), Kjob(2, "CONT"), Kjob(2, "KILL"),
                       Stage("overkill", <<>>), Stage("quit", <<>>)>>)>>}

\* Lines for the shell of xv6 with what they mean; words of a parsed line are
\* ended.
W(x) == [w |-> x, ended |-> TRUE]
E(args) == Execcmd([i \in DOMAIN args |-> W(args[i])])
Right(text, tree) == [text |-> text, tree |-> tree]
Wrong(text) == Right(text, NoCmd)

\* e <f >>g & ; h , then p | q       a x | (b ; c) >f | d       >f n x <g | o ;
MCShSessions == {
    <<Right(<<"e", "<", "f", ">>", "g", "&", ";", "h">>,
            Listcmd(Backcmd(Redircmd(Redircmd(E(<<"e">>), W("f"), 0), W("g"), 1)),
                    E(<<"h">>))),
      Right(<<"p", "|", "q">>, Pipecmd(E(<<"p">>), E(<<"q">>)))>>,
    <<Right(<<"a", "x", "|", "(", "b", ";", "c", ")", ">", "f", "|", "d">>,
            Pipecmd(E(<<"a", "x">>),
                    Pipecmd(Redircmd(Listcmd(E(<<"b">>), E(<<"c">>)), W("f"), 1),
                            E(<<"d">>))))>>,
    <<Right(<<">", "f", "n", "x", "<", "g", "|", "o", ";">>,
            Listcmd(Pipecmd(Redircmd(Redircmd(E(<<"n", "x">>), W("f"), 1), W("g"), 0),
                            E(<<"o">>)), E(<<>>)))>>,
    <<Wrong(<<"cd", "m">>), Wrong(<<"i", "&", "j">>), Wrong(<<"m", ">">>),
      Wrong(<<"(", "m">>), Wrong(<<"m", "(">>), Wrong(<<"m", ")">>),
      Wrong(<<"m", "m", "m">>)>>}

\* Names of which one begins with the other, one of them ending in a digit; and
\* a link, a link to a directory and a socket.
NameA == <<"a">>
NameA1 == <<"a", "1">>
Special == {<<"l">>, <<"d">>, <<"s">>}
MCFiles == {NameA, NameA1} \cup Special
MCKind == [f \in MCFiles |-> CASE f = <<"l">> -> "link" [] f = <<"d">> -> "dirlink"
                               [] f = <<"s">> -> "socket" [] OTHER -> "file"]
MCHeapJunk == {<<"?", "?">>}
MCGetCalls == {<<NameA>>, <<NameA, NameA1>>} \cup
              {<<f>> : f \in Special}
MCContents == {<<>>, <<1, 2, 3>>}

\* The pids are alike.
Alike == Permutations(Pids)

allVars == <<which, vmVars, heapVars, shellVars, shVars, transferVars>>

Init ==
    /\ VMInit /\ HeapInit /\ ShellInit /\ ShInit /\ TransferInit
    /\ which \in {"pages", "heap", "shell", "sh", "transfer"}
    \* The client may have "a" from before, the server an empty one or none.
    /\ \A f \in Files : local[f] # <<>> /\ (f # NameA => local[f] = NoFile)
    /\ \A f \in Files \ {NameA} : which = "transfer" => remote[f] = <<1, 2, 3>>
    /\ which # "transfer" => local[NameA] = NoFile /\ remote = local
    /\ which # "sh" => toType = CHOOSE session \in ShSessions : TRUE

Next ==
    \/ /\ which = "pages" /\ VMNext
       /\ UNCHANGED <<which, heapVars, shellVars, shVars, transferVars>>
    \/ /\ which = "heap" /\ HeapNext
       /\ UNCHANGED <<which, vmVars, shellVars, shVars, transferVars>>
    \/ /\ which = "shell" /\ ShellNext
       /\ UNCHANGED <<which, vmVars, heapVars, shVars, transferVars>>
    \/ /\ which = "sh" /\ ShNext
       /\ UNCHANGED <<which, vmVars, heapVars, shellVars, transferVars>>
    \/ /\ which = "transfer" /\ TransferNext
       /\ fault => gets' = gets /\ clients' = clients /\ open' = open
       /\ \A f \in Files \ {NameA} : remote'[f] = remote[f]
       /\ UNCHANGED <<which, vmVars, heapVars, shellVars, shVars>>

Spec == Init /\ [][Next]_allVars

-----------------------------------------------------------------------------
\* Memory is handed out right at both levels: every physical page is in one
\* place and the size of a process tells what is mapped (looked at in the
\* behaviours of module VM alone), and the blocks of a user's heap are whole,
\* apart and none lost.
MemoryRight == (which = "pages" => MemorySound) /\ HeapSound
=============================================================================
