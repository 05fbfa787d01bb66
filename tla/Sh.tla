---------------------------------- MODULE Sh ---------------------------------
(***************************************************************************)
(* The shell of xv6 (sh.c): the parser, and the processes that run a       *)
(* parsed line.                                                            *)
(*                                                                         *)
(* A line is a sequence of tokens, words and symbols.  A word of a parsed  *)
(* command is [w, ended]: it points into the line, and until               *)
(* nulterminate() has put a 0 after it, it goes on to the end of the line. *)
(* fork1() gives the least number that is free (which one it is makes no   *)
(* difference).  A program may do anything but touch its descriptors.      *)
(***************************************************************************)
EXTENDS Integers, Sequences, FiniteSets, Descriptors

CONSTANTS
    NSHPROC,        \* processes below the shell
    MAXARGS,
    NDESC,          \* NOFILE of xv6
    ShSessions,     \* what may be typed, sequences of lines [text, tree]:
                    \* the tokens, and the command they are for their reader
                    \* (NoCmd if they are wrong); their programs differ
    MaxShFails      \* bound on the calls of fork, exec, open and pipe that fail

ASSUME ShAssumption == MAXARGS > 1 /\ NDESC > 4 /\ NSHPROC > 0

VARIABLES
    shAt,           \* main(): "prompt", "wait" or "gone"
    shProc,         \* the processes below it
    ran,            \* the programs started so far, by their arguments
    toType, typed,  \* the lines still to type, and the set of the others
    shFails

shVars == <<shAt, shProc, ran, toType, typed, shFails>>

-----------------------------------------------------------------------------
(* Commands.                                                               *)

Execcmd(argv) == [type |-> "EXEC", argv |-> argv]
Redircmd(cmd, file, n) ==
    [type |-> "REDIR", cmd |-> cmd, file |-> file, fd |-> n]
Pipecmd(left, right) == [type |-> "PIPE", left |-> left, right |-> right]
Listcmd(left, right) == [type |-> "LIST", left |-> left, right |-> right]
Backcmd(cmd) == [type |-> "BACK", cmd |-> cmd]
NoCmd == [type |-> "panic"]

Ended(word) == [word EXCEPT !.ended = TRUE]
FileOf(word) == <<0, IF word.ended THEN word.w ELSE "the rest of the line">>

RECURSIVE Nulterminate(_)
Nulterminate(cmd) ==
    CASE cmd.type = "EXEC" ->
            [cmd EXCEPT !.argv = [i \in DOMAIN @ |-> Ended(@[i])]]
      [] cmd.type = "REDIR" ->
            [cmd EXCEPT !.cmd = Nulterminate(@), !.file = Ended(@)]
      [] cmd.type \in {"PIPE", "LIST"} ->
            [cmd EXCEPT !.left = Nulterminate(@), !.right = Nulterminate(@)]
      [] cmd.type = "BACK" -> [cmd EXCEPT !.cmd = Nulterminate(@)]

-----------------------------------------------------------------------------
(* The parser.  What is parsed comes with the rest of the line.            *)

Symbols == {"<", "|", ">", ">>", "&", ";", "(", ")"}
Word(s) == [w |-> Head(s), ended |-> FALSE]
IsWord(s) == s # <<>> /\ Head(s) \notin Symbols        \* gettoken() is 'a'
Peek(s, toks) == s # <<>> /\ Head(s) \in toks
Parsed(cmd, s) == [ok |-> TRUE, cmd |-> cmd, rest |-> s]
Panicked == [ok |-> FALSE, cmd |-> NoCmd, rest |-> <<>>]
Both(op(_, _), x, y) == [y EXCEPT !.cmd = op(x.cmd, y.cmd)]

RECURSIVE Parseredirs(_, _)
Parseredirs(cmd, s) ==
    IF ~Peek(s, {"<", ">", ">>"}) THEN Parsed(cmd, s)
    ELSE IF ~IsWord(Tail(s)) THEN Panicked
    ELSE Parseredirs(Redircmd(cmd, Word(Tail(s)), IF Head(s) = "<" THEN 0 ELSE 1),
                     Tail(Tail(s)))

\* ret with the arguments entered in the execcmd inside it.
RECURSIVE Filled(_, _)
Filled(ret, argv) ==
    IF ret.type = "EXEC" THEN Execcmd(argv)
    ELSE [ret EXCEPT !.cmd = Filled(@, argv)]

\* The loop of parseexec(), x being ret and the rest.
RECURSIVE Parseargs(_, _)
Parseargs(x, argv) ==
    CASE ~x.ok -> x
      [] x.ok /\ (x.rest = <<>> \/ Peek(x.rest, {"|", ")", "&", ";"})) ->
            Parsed(Filled(x.cmd, argv), x.rest)
      [] OTHER ->
            IF ~IsWord(x.rest) \/ Len(argv) + 1 >= MAXARGS THEN Panicked
            ELSE Parseargs(Parseredirs(x.cmd, Tail(x.rest)),
                           Append(argv, Word(x.rest)))

\* parseblock(), x being what is inside the parentheses.
Parseblock(x) ==
    IF x.ok /\ Peek(x.rest, {")"}) THEN Parseredirs(x.cmd, Tail(x.rest))
    ELSE Panicked

RECURSIVE Parseline(_), Parsepipe(_), Parsebacks(_)
Parseexec(s) ==
    IF Peek(s, {"("}) THEN Parseblock(Parseline(Tail(s)))
    ELSE Parseargs(Parseredirs(Execcmd(<<>>), s), <<>>)

Parsepipe(s) ==
    LET x == Parseexec(s)
    IN  IF Peek(x.rest, {"|"}) THEN Both(Pipecmd, x, Parsepipe(Tail(x.rest)))
        ELSE x

Parsebacks(x) ==
    IF Peek(x.rest, {"&"}) THEN Parsebacks(Parsed(Backcmd(x.cmd), Tail(x.rest)))
    ELSE x

Parseline(s) ==
    LET x == Parsebacks(Parsepipe(s))
    IN  IF Peek(x.rest, {";"}) THEN Both(Listcmd, x, Parseline(Tail(x.rest)))
        ELSE x

Parsecmd(s) ==
    LET x == Parseline(s)
    IN  IF x.ok /\ x.rest = <<>> THEN Nulterminate(x.cmd) ELSE NoCmd

-----------------------------------------------------------------------------
(* Processes.                                                              *)

ShPids == 1..NSHPROC
Main == 0
InitPid == -1
NoProc == [st |-> "none", cmd |-> NoCmd, parent |-> InitPid, p |-> <<>>,
           fd |-> [n \in 0..(NDESC - 1) |-> Closed]]

\* main() sees to it that three descriptors are open.
MainFd == [n \in 0..(NDESC - 1) |-> IF n < 3 THEN Terminal ELSE Closed]

ShInit ==
    /\ shAt = "prompt"
    /\ shProc = [q \in ShPids |-> NoProc]
    /\ toType \in ShSessions
    /\ ran = {} /\ typed = {} /\ shFails = 0

FreePid == {q \in ShPids : /\ shProc[q].st = "none"
                           /\ \A r \in 1..(q - 1) : shProc[r].st # "none"}
ShStarted(cmd, parent, f) ==
    [NoProc EXCEPT !.st = "run", !.cmd = cmd, !.parent = parent, !.fd = f]

\* The processes after exit() of p: init takes its children.
Exited(procs, p) ==
    [q \in ShPids |->
        CASE q = p -> IF procs[p].parent = InitPid THEN NoProc
                      ELSE [NoProc EXCEPT !.st = "zombie",
                                          !.parent = procs[p].parent]
          [] q # p /\ procs[q].parent = p ->
                IF procs[q].st = "zombie" THEN NoProc
                ELSE [procs[q] EXCEPT !.parent = InitPid]
          [] OTHER -> procs[q]]

Zombies(parent) ==
    {q \in ShPids : shProc[q].st = "zombie" /\ shProc[q].parent = parent}
Reaped(q) == [shProc EXCEPT ![q] = NoProc]

\* The pipes some process has an end of, and one that nobody has.
PipesOpen == {e[2][1] : e \in UNION {EndsOf(shProc[q].fd) : q \in ShPids}}
FreePipe == CHOOSE k \in 1..(Cardinality(PipesOpen) + 1) : k \notin PipesOpen

\* main(): cd is run by the shell itself, anything else by a child.
Getcmd ==
    /\ shAt = "prompt" /\ toType # <<>>
    /\ toType' = Tail(toType) /\ typed' = typed \cup {Head(toType)}
    /\ LET text == Head(toType).text IN
       IF text[1] = "cd" THEN UNCHANGED <<shAt, shProc>>
       ELSE \E q \in FreePid :
            /\ shProc' = [shProc EXCEPT ![q] =
                            ShStarted(Parsecmd(text), Main, MainFd)]
            /\ shAt' = "wait"
    /\ UNCHANGED <<ran, shFails>>

MainWait ==
    /\ shAt = "wait"
    /\ \E q \in Zombies(Main) : shProc' = Reaped(q)
    /\ shAt' = "prompt"
    /\ UNCHANGED <<ran, toType, typed, shFails>>

\* The end of the input, or fork1() fails and panic() ends the shell.
MainExit ==
    /\ shAt = "prompt"
    /\ shAt' = "gone"
    /\ UNCHANGED <<shProc, ran, toType, typed, shFails>>

Running(p, type) == shProc[p].st = "run" /\ shProc[p].cmd.type = type

\* panic(), an empty command, a program that ends.
ShExit(p) ==
    /\ \/ Running(p, "panic")
       \/ Running(p, "EXEC") /\ shProc[p].cmd.argv = <<>>
       \/ shProc[p].st = "program"
    /\ shProc' = Exited(shProc, p)
    /\ UNCHANGED <<shAt, ran, toType, typed, shFails>>

\* exec(), open(), pipe() or fork1() fails, and the process exits.
CallFails(p) ==
    /\ shFails < MaxShFails /\ shFails' = shFails + 1
    /\ \/ Running(p, "EXEC") /\ shProc[p].cmd.argv # <<>>
       \/ \E type \in {"REDIR", "LIST", "PIPE", "BACK"} : Running(p, type)
       \/ shProc[p].st = "right"
    /\ shProc' = Exited(shProc, p)
    /\ UNCHANGED <<shAt, ran, toType, typed>>

RunExec(p) ==
    /\ Running(p, "EXEC") /\ shProc[p].cmd.argv # <<>>
    /\ shProc' = [shProc EXCEPT ![p].st = "program"]
    /\ ran' = ran \cup {shProc[p].cmd.argv}
    /\ UNCHANGED <<shAt, toType, typed, shFails>>

RunRedir(p) ==
    /\ Running(p, "REDIR")
    /\ LET cmd == shProc[p].cmd IN
       shProc' = [shProc EXCEPT
                    ![p].fd = Opened(Close(@, cmd.fd), FileOf(cmd.file)),
                    ![p].cmd = cmd.cmd]
    /\ UNCHANGED <<shAt, ran, toType, typed, shFails>>

RunList(p) ==
    /\ Running(p, "LIST")
    /\ \E q \in FreePid :
        shProc' = [shProc EXCEPT
                    ![p].st = "list",
                    ![q] = ShStarted(shProc[p].cmd.left, p, shProc[p].fd)]
    /\ UNCHANGED <<shAt, ran, toType, typed, shFails>>

\* Mutant: the right part does not wait for the left one.
ListWaitNot(p) ==
    /\ shProc[p].st = "list"
    /\ shProc' = [shProc EXCEPT ![p].st = "run", ![p].cmd = @.right]
    /\ UNCHANGED <<shAt, ran, toType, typed, shFails>>

ListWait(p) ==
    /\ shProc[p].st = "list"
    /\ \E q \in Zombies(p) :
        shProc' = [Reaped(q) EXCEPT ![p].st = "run", ![p].cmd = @.right]
    /\ UNCHANGED <<shAt, ran, toType, typed, shFails>>

\* close(n); dup(p[i]); close(p[0]); close(p[1])
Connected(f, p, n, i) == Close(Close(Dup(Close(f, n), p[i]), p[1]), p[2])

\* pipe() and the left child.
RunPipe(p) ==
    /\ Running(p, "PIPE")
    /\ PipeEnds(shProc[p].fd)[2] # -1
    /\ \E q \in FreePid, ends \in {PipeEnds(shProc[p].fd)},
          f \in {Piped(shProc[p].fd, FreePipe)} :
        shProc' = [shProc EXCEPT
                    ![p].st = "right", ![p].fd = f, ![p].p = ends,
                    ![q] = ShStarted(shProc[p].cmd.left, p,
                                   Connected(f, ends, 1, 2))]
    /\ UNCHANGED <<shAt, ran, toType, typed, shFails>>

\* Mutant: the parent waits with the pipe open.
KeptByParent(f, p) == f

\* close(p[0]); close(p[1]), before the two wait().
ClosedByParent(f, p) == Close(Close(f, p[1]), p[2])

PipeRight(p) ==
    /\ shProc[p].st = "right"
    /\ \E q \in FreePid :
        LET ends == shProc[p].p
            f == shProc[p].fd
        IN  shProc' = [shProc EXCEPT
                        ![p].st = "wait2", ![p].p = <<>>,
                        ![p].fd = ClosedByParent(f, ends),
                        ![q] = ShStarted(shProc[p].cmd.right, p,
                                       Connected(f, ends, 0, 1))]
    /\ UNCHANGED <<shAt, ran, toType, typed, shFails>>

PipeWait(p) ==
    /\ shProc[p].st \in {"wait2", "wait1"}
    /\ \E q \in Zombies(p) :
        shProc' = IF shProc[p].st = "wait2"
                  THEN [Reaped(q) EXCEPT ![p].st = "wait1"]
                  ELSE Exited(Reaped(q), p)
    /\ UNCHANGED <<shAt, ran, toType, typed, shFails>>

RunBack(p) ==
    /\ Running(p, "BACK")
    /\ \E q \in FreePid :
        shProc' = Exited([shProc EXCEPT ![q] =
                            ShStarted(shProc[p].cmd.cmd, p, shProc[p].fd)], p)
    /\ UNCHANGED <<shAt, ran, toType, typed, shFails>>

ShNext ==
    \/ Getcmd \/ MainWait \/ MainExit
    \/ \E p \in ShPids :
        \/ ShExit(p) \/ CallFails(p) \/ RunExec(p) \/ RunRedir(p)
        \/ RunList(p) \/ ListWait(p)
        \/ RunPipe(p) \/ PipeRight(p) \/ PipeWait(p) \/ RunBack(p)

-----------------------------------------------------------------------------
(* What a line means for its reader.                                       *)

RECURSIVE Parts(_)
Parts(tree) ==
    {tree} \cup
    CASE tree.type \in {"PIPE", "LIST"} -> Parts(tree.left) \cup Parts(tree.right)
      [] tree.type \in {"REDIR", "BACK"} -> Parts(tree.cmd)
      [] OTHER -> {}

Programs(tree) == {t.argv : t \in {u \in Parts(tree) : u.type = "EXEC"}} \ {<<>>}
Background(tree) ==
    UNION {Programs(t) : t \in {u \in Parts(tree) : u.type = "BACK"}}

\* The programs with their standard input and output: <<{}, file>>, or the
\* end of the pipe that is named by the programs of its two sides.
RECURSIVE Meaning(_, _, _)
Meaning(tree, in, out) ==
    CASE tree.type = "EXEC" ->
            IF tree.argv = <<>> THEN {}
            ELSE {[argv |-> tree.argv, in |-> in, out |-> out]}
      [] tree.type = "REDIR" ->
            IF tree.fd = 0 THEN Meaning(tree.cmd, <<{}, FileOf(tree.file)>>, out)
            ELSE Meaning(tree.cmd, in, <<{}, FileOf(tree.file)>>)
      [] tree.type = "PIPE" ->
            Meaning(tree.left, in, <<Programs(tree), "w">>)
            \cup Meaning(tree.right, <<Programs(tree), "r">>, out)
      [] tree.type = "LIST" ->
            Meaning(tree.left, in, out) \cup Meaning(tree.right, in, out)
      [] tree.type = "BACK" -> Meaning(tree.cmd, in, out)
      [] OTHER -> {}

Trees == {line.tree : line \in typed}
Meant == UNION {Meaning(t, <<{}, Terminal>>, <<{}, Terminal>>) : t \in Trees}
At(p) == shProc[p].cmd.argv

\* The descriptor f of a program is what the line says.
Matches(f, said) == IF said[1] = {} THEN f = said[2]
                    ELSE IsEnd(f) /\ f[2] = said[2]

\* A running program has its own descriptors and no others, as the line says:
\* two programs are on one pipe exactly when they are in the line.
Connections ==
    LET programs == {p \in ShPids : shProc[p].st = "program"}
        meant(p) == {m \in Meant : m.argv = At(p)}
    IN  \A p \in programs :
        /\ \E m \in meant(p) : /\ Matches(shProc[p].fd[0], m.in)
                               /\ Matches(shProc[p].fd[1], m.out)
        /\ {n \in DOMAIN shProc[p].fd : shProc[p].fd[n] # Closed} = {0, 1, 2}
        /\ \A q \in programs : \A m \in meant(p), k \in meant(q) :
            m.out[1] # {} /\ k.in[1] # {} =>
                ((m.out[1] = k.in[1]) <=>
                    (shProc[p].fd[1][1] = shProc[q].fd[0][1]))

RECURSIVE Ancestors(_)
Ancestors(p) == IF p \in ShPids THEN {p} \cup Ancestors(shProc[p].parent) ELSE {}

\* The shells that wait for p or for a child that waits for p.
WaitingFor(p) ==
    {q \in Ancestors(p) \ {p} : shProc[q].st \in {"list", "wait2", "wait1"}}

OtherEnd(end) == <<end[1], IF end[2] = "r" THEN "w" ELSE "r">>
Keeps(p, end) == \E n \in DOMAIN shProc[p].fd : shProc[p].fd[n] = end

\* A program on a pipe waits for the other end to be closed: a reader when there
\* is no more to read, a writer when its readers are gone and the pipe is full.
\* Neither the program itself has that end, nor any shell that waits for it,
\* which would not close it before the program is over.
PipesAreClosed ==
    \A p \in ShPids : shProc[p].st = "program" =>
        \A e \in EndsOf(shProc[p].fd), q \in {p} \cup WaitingFor(p) :
            ~Keeps(q, OtherEnd(e[2]))

\* At the prompt only background commands are left, and the others have run.
ForegroundDone ==
    shAt = "prompt" =>
        /\ \A p \in ShPids : Programs(shProc[p].cmd)
                                \subseteq UNION {Background(t) : t \in Trees}
        /\ \A t \in Trees : Programs(t) \ Background(t) \subseteq ran

\* What comes after a ";" starts when what comes before it is over.
InOrder ==
    \A t \in UNION {Parts(u) : u \in Trees} :
        t.type = "LIST" /\ Programs(t.right) \cap ran # {} =>
            \A p \in ShPids : shProc[p].st = "program" =>
                At(p) \notin Programs(t.left) \ Background(t.left)

\* A line does what it says: the programs it names are started with their
\* arguments, on the terminal, files and pipes it names, in its order, and the
\* shell prompts again when those of the foreground are over.  So the parser
\* gives every operator its operands, each wait() is for the child it is meant
\* for, and no program waits for the end of a pipe that is kept open by a shell
\* that waits for the program (the closes of sh.c 105-119).  A call that fails
\* ends a part of the line early; its programs are still connected right.
LinesRun == /\ Connections /\ PipesAreClosed
            /\ shFails = 0 => ForegroundDone /\ InOrder
=============================================================================
