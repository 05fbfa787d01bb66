-------------------------------- MODULE Shell --------------------------------
(***************************************************************************)
(* The shell of assignment 3 (shell.c, parser.c, process_maker.c,          *)
(* zombie_killer.c): its loop, its table of jobs, its descriptors and the  *)
(* children it starts, waits for, stops and reaps.                         *)
(*                                                                         *)
(* A line is given parsed: a sequence of commands [bg, stages], a stage    *)
(* [redirs, what, job, sig], redirs the redirections from left to right.   *)
(* What a command does with descriptors is the shell's alone, so the       *)
(* calls between two system calls others can see are one step.  Texts,     *)
(* directories, the environment, the history and exit_code are left out.   *)
(***************************************************************************)
EXTENDS Integers, Sequences, FiniteSets, Descriptors

CONSTANTS
    Pids,           \* the system gives a pid again once it is reaped
    NoPid,          \* the 0 of an empty entry of stack[]
    MaxTop,         \* the 1000 of stack[]; a bound, the code never looks
    NOFILE,         \* descriptors of a process
    Lines,          \* the lines that may be typed
    MaxFailures,    \* bound on the calls of pipe() that fail
    MaxLines        \* bound on the lines of a session

ASSUME ShellAssumption ==
    MaxTop \in Nat \ {0, 1} /\ NOFILE \in Nat /\ NOFILE > 3 /\ NoPid \notin Pids

VARIABLES
    at,             \* where the shell is
    todo,           \* the commands left of the line, the current one first
    stages,         \* the stages left of the command, the current one first
    fd,             \* the descriptors of the shell
    backup,         \* <<backup_stdin, backup_stdout>> of getIndividualCommands()
    inOut,          \* <<in, out>> of pipeChecker(), or None without pipes
    pipes,          \* pipes[] of pipeChecker(), or None for the last stage
    prev_open,
    stack, top,
    child,          \* the children not yet reaped
    fg,             \* the child wait_n_switch() is about
    tty,            \* the process group in the foreground of the terminal
    failures, lines

parserVars == <<todo, stages, backup, inOut, pipes, prev_open>>
jobVars == <<stack, top>>
shellVars == <<at, parserVars, fd, jobVars, child, fg, tty, failures, lines>>

None == <<>>
NoChild == [st |-> "none", grp |-> FALSE, ends |-> {}, shut |-> {}]
FreshFd == [n \in 0..(NOFILE - 1) |-> IF n <= 2 THEN Terminal ELSE Closed]

\* main()
ShellInit ==
    /\ at = "reap"
    /\ todo = <<>> /\ stages = <<>>
    /\ fd = FreshFd
    /\ backup = None /\ inOut = None /\ pipes = None /\ prev_open = -1
    /\ stack = [i \in 1..MaxTop |-> NoPid] /\ top = 1
    /\ child = [p \in Pids |-> NoChild]
    /\ fg = NoPid
    /\ tty = "shell"
    /\ failures = 0 /\ lines = 0

-----------------------------------------------------------------------------
(* The ends of pipes the shell and its children hold.                      *)

InUse == {e[2][1] : e \in EndsOf(fd) \cup UNION {child[p].ends : p \in Pids}}
NewPipe == CHOOSE k \in 1..(Cardinality(InUse) + 1) : k \notin InUse

-----------------------------------------------------------------------------
(* The job table.                                                          *)

JobToPid(job) == IF job \in 1..MaxTop THEN stack[job] ELSE NoPid

\* add_child()
AddChild(p) ==
    /\ stack' = [i \in 1..MaxTop |-> IF i = top THEN p
                                     ELSE IF top = 1 THEN NoPid ELSE stack[i]]
    /\ top' = top + 1

\* Mutant: the last entry is given up whoever it belongs to.
ShrunkAlways(s) == top - 1

\* "while (top > 1 && stack[top - 1] == 0) top -= 1"
Shrunk(s) ==
    CHOOSE t \in 1..top : /\ \A i \in t..(top - 1) : s[i] = NoPid
                          /\ t = 1 \/ s[t - 1] # NoPid

\* remove_child(), for the first entry with the pid.
RemoveChild(p) ==
    \E job \in 1..(top - 1) :
        /\ stack[job] = p /\ \A i \in 1..(job - 1) : stack[i] # p
        /\ stack' = [stack EXCEPT ![job] = NoPid]
        /\ top' = Shrunk(stack')

-----------------------------------------------------------------------------
(* The loop of main().                                                     *)

\* zombie_process_check(): one turn of the loop on waitpid(-1, WNOHANG).
Reap(p) ==
    /\ at = "reap" /\ child[p].st = "zombie"
    /\ child' = [child EXCEPT ![p] = NoChild]
    /\ RemoveChild(p)
    /\ UNCHANGED <<at, parserVars, fd, fg, tty, failures, lines>>

Prompt ==
    /\ at = "reap" /\ \A p \in Pids : child[p].st # "zombie"
    /\ at' = "prompt"
    /\ UNCHANGED <<parserVars, fd, jobVars, child, fg, tty, failures, lines>>

ReadLine(line) ==
    /\ at = "prompt" /\ lines < MaxLines
    /\ lines' = lines + 1
    /\ at' = "command" /\ todo' = line
    /\ UNCHANGED <<stages, backup, inOut, pipes, prev_open, fd, jobVars, child,
                   fg, tty, failures>>

\* killbg() and _exit(), for the command quit and at the end of the input.
Quit ==
    /\ at = "prompt" \/ (at = "run" /\ Head(stages).what = "quit")
    /\ at' = "gone"
    /\ child' = [p \in Pids |-> NoChild]
    /\ UNCHANGED <<parserVars, fd, jobVars, fg, tty, failures, lines>>

-----------------------------------------------------------------------------
(* A command: getIndividualCommands() and pipeChecker().                   *)

LineDone ==
    /\ at = "command" /\ todo = <<>>
    /\ at' = "reap"
    /\ UNCHANGED <<parserVars, fd, jobVars, child, fg, tty, failures, lines>>

\* The descriptors are saved; with pipes, pipeChecker() saves them again.  A
\* command that begins or ends with a pipe has no stages and is refused.
StartCommand ==
    /\ at = "command" /\ todo # <<>>
    /\ stages' = Head(todo).stages
    /\ backup' = <<Lowest(Dup(fd, 1)), Lowest(fd)>>
    /\ \E f \in {Dup(Dup(fd, 1), 0)} :
        IF Len(stages') <= 1
        THEN /\ fd' = f /\ inOut' = None
             /\ at' = IF stages' = <<>> THEN "end" ELSE "stage"
        ELSE /\ fd' = Dup(Dup(f, 1), 0)
             /\ inOut' = <<Lowest(Dup(f, 1)), Lowest(f)>>
             /\ at' = "pipe"
    /\ pipes' = None /\ prev_open' = -1
    /\ UNCHANGED <<todo, jobVars, child, fg, tty, failures, lines>>

\* Standard input from the pipe of the stage before, if there is one.
FromPrev(f) == IF prev_open = -1 THEN f ELSE MovedTo(f, prev_open, 0)

\* One turn of the loop, up to the stage.
MakePipe ==
    /\ at = "pipe" /\ Len(stages) > 1
    /\ pipes' = PipeEnds(fd) /\ pipes'[2] # -1
    /\ fd' = MovedTo(FromPrev(Piped(fd, NewPipe)), pipes'[2], 1)
    /\ at' = "stage"
    /\ UNCHANGED <<todo, stages, backup, inOut, prev_open, jobVars, child, fg,
                   tty, failures, lines>>

\* pipe() fails: pipeChecker() returns where it is.
PipeFails ==
    /\ at = "pipe" /\ Len(stages) > 1 /\ failures < MaxFailures
    /\ failures' = failures + 1
    /\ inOut' = None
    /\ at' = "end"
    /\ UNCHANGED <<todo, stages, backup, pipes, prev_open, fd, jobVars, child,
                   fg, tty, lines>>

\* After the loop: the last stage has the standard output of the shell.
LastStage ==
    /\ at = "pipe" /\ Len(stages) = 1
    /\ fd' = FromPrev(MovedTo(fd, inOut[2], 1))
    /\ pipes' = None
    /\ at' = "stage"
    /\ UNCHANGED <<todo, stages, backup, inOut, prev_open, jobVars, child, fg,
                   tty, failures, lines>>

\* What one redirection does when the file can be opened.
Redirected(f, r) ==
    LET n == Lowest(f)
        to == IF r = "<" THEN 0 ELSE 1
    IN  IF n = -1 THEN f
        ELSE Close(Dup(Close(Opened(f, AFile), to), n), n)

\* redirectionHandler(): the redirections whose files can be opened are made.
\* A blank stage, or one that ends in a redirection sign, is not run.
Redirect ==
    /\ at = "stage"
    /\ LET redirs == Head(stages).redirs IN
       \E opens \in SUBSET DOMAIN redirs :
            LET after[i \in 0..Len(redirs)] ==
                    IF i = 0 THEN fd
                    ELSE IF i \in opens THEN Redirected(after[i - 1], redirs[i])
                    ELSE after[i - 1]
            IN  fd' = after[Len(redirs)]
    /\ at' = IF Head(stages).what \in {"blank", "unfinished"} THEN "after"
             ELSE "run"
    /\ UNCHANGED <<parserVars, jobVars, child, fg, tty, failures, lines>>

NextStage ==
    /\ at = "after" /\ pipes # None
    /\ prev_open' = pipes[1]
    /\ stages' = Tail(stages)
    /\ at' = "pipe"
    /\ UNCHANGED <<todo, backup, inOut, pipes, fd, jobVars, child, fg, tty,
                   failures, lines>>

\* pipeChecker() after the last stage.
PipelineEnd ==
    /\ at = "after" /\ pipes = None
    /\ fd' = IF inOut = None THEN fd ELSE MovedTo(fd, inOut[1], 0)
    /\ at' = "end"
    /\ UNCHANGED <<parserVars, jobVars, child, fg, tty, failures, lines>>

\* fixInput()
FixInput == MovedTo(MovedTo(fd, backup[1], 0), backup[2], 1)

CommandEnd ==
    /\ at = "end"
    /\ fd' = FixInput
    /\ todo' = Tail(todo)
    /\ stages' = <<>> /\ backup' = None /\ inOut' = None
    /\ pipes' = None /\ prev_open' = -1
    /\ at' = "command"
    /\ UNCHANGED <<jobVars, child, fg, tty, failures, lines>>

-----------------------------------------------------------------------------
(* run_command().                                                          *)

Runs(what) == at = "run" /\ Head(stages).what = what

\* The commands that touch neither jobs nor descriptors.
Builtin ==
    /\ Runs("builtin")
    /\ at' = "after"
    /\ UNCHANGED <<parserVars, fd, jobVars, child, fg, tty, failures, lines>>

\* make_process(), in the shell.  (top < MaxTop is the bound.)
MakeProcess(p) ==
    /\ Runs("program") /\ child[p].st = "none" /\ top < MaxTop
    /\ child' = [child EXCEPT ![p] =
                    [st |-> "running", grp |-> FALSE, ends |-> EndsOf(fd),
                     shut |-> IF pipes = None THEN {} ELSE {pipes[1], pipes[2]}]]
    /\ AddChild(p)
    /\ fd' = IF pipes = None THEN fd ELSE Close(Close(fd, pipes[2]), prev_open)
    /\ fg' = IF Head(todo).bg THEN fg ELSE p
    /\ at' = IF Head(todo).bg THEN "after" ELSE "switch"
    /\ UNCHANGED <<parserVars, tty, failures, lines>>

ForkFails ==
    /\ Runs("program")
    /\ at' = "after"
    /\ UNCHANGED <<parserVars, fd, jobVars, child, fg, tty, failures, lines>>

Continued(st) == IF st = "stopped" THEN "running" ELSE st

\* wait_n_switch() before the wait.  The terminal can be given only to a
\* group that exists, by a descriptor that is the terminal.
Switch ==
    /\ at = "switch"
    /\ tty' = IF fd[0] = Terminal /\ child[fg].grp THEN fg ELSE tty
    /\ child' = [child EXCEPT ![fg].st = Continued(@)]
    /\ at' = "wait"
    /\ UNCHANGED <<parserVars, fd, jobVars, fg, failures, lines>>

\* waitpid() with WUNTRACED returns, and the terminal is taken back.
Waited ==
    /\ at = "wait" /\ child[fg].st \in {"zombie", "stopped"}
    /\ tty' = IF fd[0] = Terminal THEN "shell" ELSE tty
    /\ IF child[fg].st = "zombie"
       THEN child' = [child EXCEPT ![fg] = NoChild] /\ RemoveChild(fg)
       ELSE UNCHANGED <<child, jobVars>>
    /\ fg' = NoPid
    /\ at' = "after"
    /\ UNCHANGED <<parserVars, fd, failures, lines>>

FgHandler ==
    /\ Runs("fg")
    /\ \E p \in {JobToPid(Head(stages).job)} :
        IF p = NoPid THEN at' = "after" /\ UNCHANGED fg
        ELSE at' = "switch" /\ fg' = p
    /\ UNCHANGED <<parserVars, fd, jobVars, child, tty, failures, lines>>

\* The states a signal may leave a child in.
StatesAfter(sig, st) ==
    CASE st = "zombie" -> {st}
      [] sig = "KILL" -> {"zombie"}
      [] sig = "STOP" -> {"stopped"}
      [] sig = "CONT" -> {Continued(st)}
      [] OTHER -> IF st = "running" THEN {"zombie", st} ELSE {st}

Signalled(c, st) == [c EXCEPT !.st = st, !.ends = IF st = "zombie" THEN {} ELSE @]

\* kjob_handler(), and bg_handler(), which sends SIGCONT.
KjobHandler ==
    /\ Runs("kjob")
    /\ \E p \in {JobToPid(Head(stages).job)} :
        IF p = NoPid THEN UNCHANGED child
        ELSE \E st \in StatesAfter(Head(stages).sig, child[p].st) :
                child' = [child EXCEPT ![p] = Signalled(@, st)]
    /\ at' = "after"
    /\ UNCHANGED <<parserVars, fd, jobVars, fg, tty, failures, lines>>

OverkillHandler ==
    /\ Runs("overkill")
    /\ child' = [p \in Pids |->
                    IF \E i \in 1..(top - 1) : stack[i] = p
                    THEN Signalled(child[p], "zombie") ELSE child[p]]
    /\ at' = "after"
    /\ UNCHANGED <<parserVars, fd, jobVars, fg, tty, failures, lines>>

-----------------------------------------------------------------------------
(* The children.                                                           *)

\* Mutant: the child keeps the end the next stage reads from.
ShutInWriter(c) == {e \in c.ends : e[1] \notin c.shut \/ e[2][2] = "r"}

\* close(pipe[1]); close(pipe[0])
ShutInChild(c) == {e \in c.ends : e[1] \notin c.shut}

\* make_process() in the child, until execvp().
ChildStarts(p) ==
    /\ child[p].st = "running" /\ ~child[p].grp
    /\ child' = [child EXCEPT ![p].grp = TRUE, ![p].ends = ShutInChild(child[p]),
                              ![p].shut = {}]
    /\ UNCHANGED <<at, parserVars, fd, jobVars, fg, tty, failures, lines>>

\* It ends, or is stopped: by the terminal or by itself.
ChildEnds(p) ==
    /\ child[p].st = "running"
    /\ \E st \in {"zombie", "stopped"} :
            child' = [child EXCEPT ![p] = Signalled(@, st)]
    /\ UNCHANGED <<at, parserVars, fd, jobVars, fg, tty, failures, lines>>

ShellNext ==
    \/ Prompt \/ (\E line \in Lines : ReadLine(line)) \/ Quit
    \/ LineDone \/ StartCommand \/ MakePipe \/ PipeFails \/ LastStage
    \/ Redirect \/ NextStage \/ PipelineEnd \/ CommandEnd
    \/ Builtin \/ ForkFails \/ Switch \/ Waited
    \/ FgHandler \/ KjobHandler \/ OverkillHandler
    \/ \E p \in Pids : Reap(p) \/ MakeProcess(p) \/ ChildStarts(p) \/ ChildEnds(p)

-----------------------------------------------------------------------------
\* The job table lists exactly the children that are not reaped, each once,
\* and nothing is left above its top: a job number never leads fg, bg or kjob
\* to a pid that the system has given to somebody else, and no child is lost.
JobsExact ==
    at # "gone" =>
        /\ \A i \in top..MaxTop : stack[i] = NoPid
        /\ {stack[i] : i \in 1..MaxTop} \ {NoPid}
             = {p \in Pids : child[p].st # "none"}
        /\ \A i, j \in 1..MaxTop : stack[i] = stack[j] => i = j \/ stack[i] = NoPid

\* Between two commands the shell has its standard input and output and the
\* terminal back and no other descriptor open, whatever was redirected, piped,
\* stopped or refused.
Restored ==
    at \in {"reap", "prompt", "command"} =>
        /\ fd[0] = Terminal /\ fd[1] = Terminal /\ tty = "shell"
        /\ failures = 0 => fd = FreshFd

\* A program holds an end of a pipe only as its standard input or output, and
\* nobody else holds the same one.
Wired ==
    \A p, q \in {r \in Pids : child[r].grp} : \A e \in child[p].ends :
        /\ e[1] = IF e[2][2] = "r" THEN 0 ELSE 1
        /\ p # q => \A f \in child[q].ends : e[2] # f[2]

\* Numbers closed twice, copied and taken again by the next open() do no harm:
\* the shell has its own descriptors and the terminal back after each command,
\* and in a pipeline the reader sees the end of its input when the writer is
\* gone.  (When pipe() fails the copies of pipeChecker() stay open.)
DescriptorsRight == Restored /\ (failures = 0 => Wired)
=============================================================================
