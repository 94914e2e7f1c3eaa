--------------------------------- MODULE Sh ---------------------------------
(***************************************************************************)
(* The shell of xv6 (user/sh.c): the parser, and the processes that run a  *)
(* line.  A line is a sequence of tokens; a step is a system call.         *)
(*                                                                         *)
(* What a process will do is in todo; runcmd() never returns, so it is     *)
(* known when the process begins.  Pipes are named by the line and the     *)
(* place of their bar.  malloc() and pipe() do not fail here, and what cd  *)
(* changes is left out.                                                    *)
(***************************************************************************)
EXTENDS CommandLine

CONSTANTS
  Scripts,               \* what is typed: a sequence of sets of scripts
  Found, Filters,        \* programs there are; those that read all input
  Existing,              \* names of files there are at the beginning
  NPROC, NOFILE,         \* processes besides init; files of a process
  MAXARGS                \* words of a command, and one

InitProc == 0
Pids == 1..NPROC
NoShell == 0         \* between init's wait() and its fork()
Panic == -1          \* init could not fork, and its exit() has panicked
Fds == 0..NOFILE - 1

VARIABLES
  sh,                 \* the process that runs main(), as init knows it
  state,              \* "free", "shell", "program" or "zombie"
  parent, todo,
  fd,                 \* open files: <<kind, place, line>>
  prog,               \* place of the program that runs
  line,               \* number of the line that a process is for
  files,
  script, typed,      \* lines that will be typed; how many have been
  begun, failed       \* history: programs tried; lines in which a call failed

vars == <<sh, state, parent, todo, fd, prog, line, files, script, typed,
          begun, failed>>

-----------------------------------------------------------------------------
(* The parser.  The result is a command and the place after it.            *)

Bad == [cmd |-> [type |-> "bad"], next |-> 0]
IsBad(x) == x.cmd.type = "bad"
At(s, i) == IF i \in Places(s) THEN s[i] ELSE "end"

\* Variant: ">>" reads.
Redir_Append(c, s, i) ==
  [type |-> "REDIR", cmd |-> c, file |-> i + 1,
   fd |-> IF s[i] = ">" THEN 1 ELSE 0]

Redir(c, s, i) ==
  [type |-> "REDIR", cmd |-> c, file |-> i + 1,
   fd |-> IF s[i] = "<" THEN 0 ELSE 1]

\* parseredirs(): places of the arrows.
RECURSIVE ArrowsAt(_, _)
ArrowsAt(s, i) ==
  IF At(s, i) \in Arrows /\ i + 1 \in Words(s)
  THEN <<i>> \o ArrowsAt(s, i + 2) ELSE <<>>

RECURSIVE Wrap(_, _, _)
Wrap(c, s, arrows) ==
  IF arrows = <<>> THEN c
  ELSE Wrap(Redir(c, s, Head(arrows)), s, Tail(arrows))

\* parseexec() without the block: words up to the end of the command.
RECURSIVE ParseWords(_, _, _, _)
ParseWords(s, i, argv, arrows) ==
  LET more == arrows \o ArrowsAt(s, i)
      k == i + 2 * Len(ArrowsAt(s, i)) IN
  IF At(s, k) \in {"|", ")", "&", ";", "end"}
  THEN [cmd |-> Wrap([type |-> "EXEC", argv |-> argv], s, more), next |-> k]
  ELSE IF k \notin Words(s) \/ Len(argv) + 1 >= MAXARGS THEN Bad
  ELSE ParseWords(s, k + 1, Append(argv, k), more)

RECURSIVE ParseLine(_, _), Backs(_, _, _)

ParseBlock(s, i) ==
  LET c == ParseLine(s, i + 1)
      arrows == ArrowsAt(s, c.next + 1)
      k == c.next + 1 + 2 * Len(arrows) IN
  IF IsBad(c) \/ At(s, c.next) # ")" \/ At(s, k) \in Arrows THEN Bad
  ELSE [cmd |-> Wrap(c.cmd, s, arrows), next |-> k]

ParseExec(s, i) ==
  IF At(s, i) = "(" THEN ParseBlock(s, i) ELSE ParseWords(s, i, <<>>, <<>>)

RECURSIVE ParsePipe(_, _)
ParsePipe(s, i) ==
  LET l == ParseExec(s, i)
      r == ParsePipe(s, l.next + 1) IN
  IF IsBad(l) \/ At(s, l.next) # "|" THEN l
  ELSE IF IsBad(r) THEN Bad
  ELSE [cmd |-> [type |-> "PIPE", left |-> l.cmd, right |-> r.cmd,
                 bar |-> l.next],
        next |-> r.next]

Backs(s, i, c) ==
  IF At(s, i) = "&" THEN Backs(s, i + 1, [type |-> "BACK", cmd |-> c])
  ELSE [cmd |-> c, next |-> i]

ParseLine(s, i) ==
  LET p == ParsePipe(s, i)
      l == Backs(s, p.next, p.cmd)
      r == ParseLine(s, l.next + 1) IN
  IF IsBad(p) THEN Bad
  ELSE IF At(s, l.next) # ";" THEN l
  ELSE IF IsBad(r) THEN Bad
  ELSE [cmd |-> [type |-> "LIST", left |-> l.cmd, right |-> r.cmd],
        next |-> r.next]

parsecmd(s) ==
  LET c == ParseLine(s, 1) IN
  IF IsBad(c) \/ c.next <= Len(s) THEN Bad.cmd ELSE c.cmd

-----------------------------------------------------------------------------
(* runcmd(): the calls that a process makes.                               *)

Close(n) == [do |-> "close", fd |-> n]
Dup(n) == [do |-> "dup", fd |-> n]
Fork(code) == [do |-> "fork", child |-> code]
Wait == [do |-> "wait"]
Exit == [do |-> "exit"]

RECURSIVE runcmd(_)
runcmd(c) ==
  CASE c.type = "bad" -> <<Exit>>
    [] c.type = "EXEC" ->
         IF c.argv = <<>> THEN <<Exit>>
         ELSE <<[do |-> "exec", at |-> c.argv[1]], Exit>>
    [] c.type = "REDIR" ->
         <<Close(c.fd), [do |-> "open", at |-> c.file, create |-> c.fd = 1]>>
           \o runcmd(c.cmd)
    [] c.type = "LIST" -> <<Fork(runcmd(c.left)), Wait>> \o runcmd(c.right)
    [] c.type = "PIPE" -> <<[do |-> "pipe", cmd |-> c]>>
    [] c.type = "BACK" -> <<Fork(runcmd(c.cmd)), Exit>>

\* Variant: the shell keeps its end of the pipe for writing.
PipeCode_Kept(c, r, w) ==
  <<Fork(<<Close(1), Dup(w), Close(r), Close(w)>> \o runcmd(c.left)),
    Fork(<<Close(0), Dup(r), Close(r), Close(w)>> \o runcmd(c.right)),
    Close(r), Wait, Wait, Exit>>

\* Once pipe() has returned r and w.
PipeCode(c, r, w) ==
  <<Fork(<<Close(1), Dup(w), Close(r), Close(w)>> \o runcmd(c.left)),
    Fork(<<Close(0), Dup(r), Close(r), Close(w)>> \o runcmd(c.right)),
    Close(r), Close(w), Wait, Wait, Exit>>

main == <<[do |-> "getcmd"]>>

-----------------------------------------------------------------------------

None == <<"none", 0, 0>>
Console == <<"console", 0, 0>>
Files0 == [n \in Fds |-> IF n <= 2 THEN Console ELSE None]
Closed == [n \in Fds |-> None]
Lowest(f) == First({n \in Fds : f[n] = None})

Init ==
  /\ sh = 1 /\ state = [p \in Pids |-> IF p = 1 THEN "shell" ELSE "free"]
  /\ parent = [p \in Pids |-> InitProc]
  /\ todo = [p \in Pids |-> IF p = 1 THEN main ELSE <<>>]
  /\ fd = [p \in Pids |-> IF p = 1 THEN Files0 ELSE Closed]
  /\ prog = [p \in Pids |-> 0] /\ line = [p \in Pids |-> 0]
  /\ files = Existing /\ begun = {} /\ failed = {}
  /\ \E m \in DOMAIN Scripts : script \in Scripts[m]
  /\ typed = 0

Does(p, call) == p \in Pids /\ state[p] = "shell" /\ Head(todo[p]).do = call
Call(p) == Head(todo[p])
Goto(p, code) == todo' = [todo EXCEPT ![p] = code]
Return(p) == Goto(p, Tail(todo[p]))
Text(p) == script[line[p]]
procVars == <<sh, state, parent, prog, line, script, typed, begun>>

\* exit(): files closed, children given to init.
Exits(p) ==
  /\ state' = [state EXCEPT ![p] = "zombie"]
  /\ parent' = [q \in Pids |-> IF parent[q] = p THEN InitProc ELSE parent[q]]
  /\ fd' = [fd EXCEPT ![p] = Closed] /\ prog' = [prog EXCEPT ![p] = 0]
  /\ Goto(p, <<>>)
  /\ UNCHANGED <<sh, line, files, script, typed, begun>>

DoClose(p) ==
  /\ Does(p, "close") /\ fd' = [fd EXCEPT ![p][Call(p).fd] = None]
  /\ Return(p) /\ UNCHANGED <<procVars, files, failed>>
DoDup(p) ==
  /\ Does(p, "dup") /\ Return(p)
  /\ fd' = [fd EXCEPT ![p][Lowest(fd[p])] = fd[p][Call(p).fd]]
  /\ UNCHANGED <<procVars, files, failed>>

DoOpen(p) ==
  LET name == Text(p)[Call(p).at] IN
  /\ Does(p, "open") /\ (Call(p).create \/ name \in files)
  /\ fd' = [fd EXCEPT ![p][Lowest(fd[p])] = <<"file", Call(p).at, line[p]>>]
  /\ files' = files \cup {name}
  /\ Return(p) /\ UNCHANGED <<procVars, failed>>
OpenFails(p) ==
  /\ Does(p, "open") /\ ~Call(p).create /\ Text(p)[Call(p).at] \notin files
  /\ failed' = failed \cup {line[p]} /\ Exits(p)

DoPipe(p) ==
  LET r == Lowest(fd[p])
      w == Lowest([fd[p] EXCEPT ![r] = Console])
      c == Call(p).cmd IN
  /\ Does(p, "pipe") /\ Goto(p, PipeCode(c, r, w))
  /\ fd' = [fd EXCEPT ![p][r] = <<"read", c.bar, line[p]>>,
                      ![p][w] = <<"write", c.bar, line[p]>>]
  /\ UNCHANGED <<procVars, files, failed>>

Slots == {p \in Pids : state[p] = "free"}
DoFork(p) ==
  /\ Does(p, "fork") /\ Slots # {}
  /\ LET c == First(Slots) IN
     /\ state' = [state EXCEPT ![c] = "shell"]
     /\ parent' = [parent EXCEPT ![c] = p]
     /\ todo' = [todo EXCEPT ![c] = Call(p).child, ![p] = Tail(todo[p])]
     /\ fd' = [fd EXCEPT ![c] = fd[p]]
     /\ line' = [line EXCEPT ![c] = line[p]]
  /\ UNCHANGED <<sh, prog, files, script, typed, begun, failed>>
\* fork1() panics.
ForkFails(p) ==
  /\ Does(p, "fork") /\ Slots = {}
  /\ failed' = failed \cup {line[p]} /\ Exits(p)

Free(z) ==
  /\ state' = [state EXCEPT ![z] = "free"]
  /\ parent' = [parent EXCEPT ![z] = InitProc]
  /\ line' = [line EXCEPT ![z] = 0]
Children(p) == {q \in Pids : state[q] # "free" /\ parent[q] = p}
DoWait(p) ==
  /\ Does(p, "wait") /\ Return(p)
  /\ IF Children(p) = {} THEN UNCHANGED <<state, parent, line>>
     ELSE \E z \in Children(p) : state[z] = "zombie" /\ Free(z)
  /\ UNCHANGED <<sh, fd, prog, files, script, typed, begun, failed>>

\* A program that is not found leaves the process to its exit().
DoExec(p) ==
  LET at == Call(p).at found == Text(p)[at] \in Found IN
  /\ Does(p, "exec") /\ begun' = begun \cup {<<line[p], at>>}
  /\ state' = [state EXCEPT ![p] = IF found THEN "program" ELSE "shell"]
  /\ prog' = [prog EXCEPT ![p] = IF found THEN at ELSE 0]
  /\ Goto(p, IF found THEN <<>> ELSE Tail(todo[p]))
  /\ UNCHANGED <<sh, parent, fd, line, files, script, typed, failed>>
DoExit(p) == Does(p, "exit") /\ Exits(p) /\ UNCHANGED failed

\* A filter ends when its input does; anybody else may at any time.
HasInput(p) ==
  /\ Text(p)[prog[p]] \in Filters /\ fd[p][0][1] = "read"
  /\ \E q \in Pids : \E n \in Fds :
       fd[q][n] = <<"write", fd[p][0][2], fd[p][0][3]>>
Ending(p) ==
  /\ state[p] = "program" /\ ~HasInput(p) /\ Exits(p) /\ UNCHANGED failed

-----------------------------------------------------------------------------
(* main(), and init above it.                                              *)

\* A line that begins with cd is not run by a child.
IsCd(s) == Len(s) > 1 /\ s[1] = "cd"
GetCmd ==
  LET n == typed + 1 IN
  /\ Does(sh, "getcmd") /\ n <= Len(script)
  /\ typed' = n /\ line' = [line EXCEPT ![sh] = n]
  /\ Goto(sh, IF IsCd(script[n]) THEN main
              ELSE <<Fork(runcmd(parsecmd(script[n]))), Wait>> \o main)
  /\ UNCHANGED <<sh, state, parent, fd, prog, files, script, begun, failed>>
Eof == Does(sh, "getcmd") /\ Exits(sh) /\ UNCHANGED failed

\* init's wait() frees the zombies that nobody else waits for; it goes on to
\* its fork() when it gets the shell it has begun.
Reap(z) ==
  /\ sh \in Pids /\ state[z] = "zombie" /\ parent[z] = InitProc /\ Free(z)
  /\ sh' = IF z = sh THEN NoShell ELSE sh
  /\ UNCHANGED <<todo, fd, prog, files, script, typed, begun, failed>>
Restart ==
  /\ sh = NoShell /\ Slots # {}
  /\ LET p == First(Slots) IN
     /\ sh' = p /\ todo' = [todo EXCEPT ![p] = main]
     /\ state' = [state EXCEPT ![p] = "shell"]
     /\ fd' = [fd EXCEPT ![p] = Files0]
  /\ UNCHANGED <<parent, prog, line, files, script, typed, begun, failed>>
\* Somebody else has taken the slot meanwhile: init exits, which the kernel
\* answers with a panic; the other CPUs go on until they print.
InitFails ==
  /\ sh = NoShell /\ Slots = {} /\ sh' = Panic
  /\ UNCHANGED <<state, parent, todo, fd, prog, line, files, script, typed,
                 begun, failed>>

Steps(p) ==
  \/ DoClose(p) \/ DoDup(p) \/ DoOpen(p) \/ OpenFails(p)
  \/ DoPipe(p) \/ DoFork(p) \/ ForkFails(p) \/ DoWait(p)
  \/ DoExec(p) \/ DoExit(p) \/ Ending(p) \/ Reap(p)

Progress == Restart \/ InitFails \/ \E p \in Pids : Steps(p)
Next == GetCmd \/ Eof \/ Progress

\* Somebody goes on while anybody can; programs end.
Spec == Init /\ [][Next]_vars /\ WF_vars(Progress)

-----------------------------------------------------------------------------

\* What each line that may be typed means, by CommandLine.
Typed == UNION {UNION {{t[n] : n \in DOMAIN t} : t \in Scripts[m]} :
                m \in DOMAIN Scripts}
Meaning ==
  [s \in Typed |->
     LET runs == Grammatical(s, MAXARGS) /\ ~IsCd(s)
         P == IF runs THEN Programs(s) ELSE {} IN
     [runs |-> runs, programs |-> P,
      before |-> {x \in P \X (1..Len(s) + 1) : Before(s, x[1], x[2])},
      in |-> [k \in P |-> In(s, k)], out |-> [k \in P |-> Out(s, k)]]]
Means(n) == Meaning[script[n]]
Running(n, k) ==
  \E p \in Pids : state[p] = "program" /\ line[p] = n /\ prog[p] = k

(* When a program begins, or the prompt comes back, every program that the *)
(* line puts before it, except in the background, has begun and is over;   *)
(* nothing of a line that is not grammatical is begun.  (Not when a file   *)
(* of the line cannot be opened, or a fork fails: then the others go on.)  *)
(* (parsecmd(), the forks and the waits of runcmd() and main())            *)
Reached ==
  begun \cup IF Does(sh, "getcmd")
             THEN {<<n, Len(script[n]) + 1>> : n \in 1..typed} ELSE {}
InOrder ==
  /\ \A x \in Reached : Means(x[1]).runs /\ x[1] \notin failed =>
       \A j \in Means(x[1]).programs :
         <<j, x[2]>> \in Means(x[1]).before =>
           <<x[1], j>> \in begun /\ ~Running(x[1], j)
  /\ \A x \in begun : x[2] \in Means(x[1]).programs

(* A program that runs has three open files: it reads and writes where the *)
(* line says, and has no end of any pipe besides, which would keep its     *)
(* neighbour waiting.                                                      *)
(* (the close() and dup() of runcmd(), parseredirs())                      *)
Wired(w, n, end) ==
  CASE w[1] = "console" -> Console
    [] w[1] = "file" -> <<"file", w[2], n>>
    [] w[1] = "pipe" -> <<end, w[2], n>>
ProgramsWired ==
  \A p \in {q \in Pids : state[q] = "program"} :
    LET in == Wired(Means(line[p]).in[prog[p]], line[p], "read")
        out == Wired(Means(line[p]).out[prog[p]], line[p], "write") IN
    fd[p] = [Closed EXCEPT ![0] = in, ![1] = out, ![2] = Console]

(* The prompt always comes back, from a new shell if need be; or init has  *)
(* panicked, which takes something that is left in the background: by an   *)
(* &, or by a call that failed on the way.                                 *)
(* (main(), the ends of pipes that runcmd() closes, and main() of init.c)  *)
Prompted == Does(sh, "getcmd")
Crowded ==
  \/ failed # {}
  \/ \E n \in 1..typed : \E m \in Places(script[n]) : script[n][m] = "&"
PanicJustified == sh = Panic /\ Crowded
PromptReturns == []<>(Prompted \/ PanicJustified)

=============================================================================
