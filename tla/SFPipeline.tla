----------------------------- MODULE SFPipeline -----------------------------
(***************************************************************************)
(* The descriptors of a pipeline in ShellForge (src/executor.c): the pipes *)
(* execute_pipeline makes, what each child does with the ends it inherits, *)
(* the redirections that override them, and what the shell closes.         *)
(*                                                                         *)
(* The commands themselves are outside the repository.  A stage may read   *)
(* its standard input to the end, write a few blocks, and quit at any      *)
(* time; a write to a pipe nobody can read kills it.  Process groups and   *)
(* signals are the subject of SFJobs: here waitpid returns the child.      *)
(***************************************************************************)
EXTENDS Naturals, FiniteSets

CONSTANTS MaxStages,  \* bound: commands in a pipeline
          Capacity,   \* blocks a pipe holds
          MaxBlocks   \* bound: blocks a stage writes

ASSUME PipelineAssumption ==
  MaxStages \in Nat \ {0} /\ Capacity \in Nat \ {0} /\ MaxBlocks \in Nat

VARIABLES
  n,       \* pipeline->command_count
  redir,   \* what each command redirects: see Redirections
  bg,      \* the background flag of the last command
  i,       \* the loop variable
  spc,     \* where the shell is in execute_pipeline
  pfd,     \* pipe ends open in the shell: pipefd[] and previous_read
  failed,  \* pipe or fork has failed
  life,    \* each stage: not forked, on its way to execvp, running, dead
  cin,     \* its standard input
  cout,    \* its standard output
  extra,   \* pipe ends it has open besides
  buf,     \* blocks in each pipe
  left,    \* blocks it will still write
  eof      \* it has seen the end of its input

command == <<n, redir, bg>>
shell == <<i, spc, pfd, failed>>
fds == <<cin, cout, extra>>
data == <<buf, left, eof>>
vars == <<command, shell, life, fds, data>>

Stages == 1..MaxStages
R(j) == [pipe |-> j, end |-> "r"]
W(j) == [pipe |-> j, end |-> "w"]
Ends == {R(j) : j \in Stages} \union {W(j) : j \in Stages}

\* A standard stream that is not a pipe: the terminal, /dev/null, a file.
Other == [pipe |-> 0, end |-> "other"]

\* No redirection, of the input, of the output, of both, or one or two of which
\* a file cannot be opened.
Redirections == {"none", "in", "out", "both", "bad"}

Live(k) == life[k] \in {"plumb", "redirect", "run"}
Holds(k) == IF Live(k) THEN extra[k] \union {cin[k], cout[k]} ELSE {}

\* The kernel's view of an end: it is open somewhere.
IsOpen(e) == e \in pfd \/ \E k \in Stages : e \in Holds(k)

-----------------------------------------------------------------------------
(* The shell.                                                              *)

HasNext(k) == k < n

Pipe ==
  /\ spc = "pipe"
  /\ pfd' = IF HasNext(i) THEN pfd \union {R(i), W(i)} ELSE pfd
  /\ spc' = "fork"
  /\ UNCHANGED <<command, i, failed, life, fds, data>>

\* pipe or fork fails: the function returns with what is open left open.
Fails ==
  /\ (spc = "pipe" /\ HasNext(i)) \/ spc = "fork"
  /\ failed' = TRUE
  /\ spc' = "prompt"
  /\ UNCHANGED <<command, i, pfd, life, fds, data>>

\* The child inherits every descriptor of the shell.
Fork ==
  /\ spc = "fork"
  /\ life' = [life EXCEPT ![i] = "plumb"]
  /\ extra' = [extra EXCEPT ![i] = pfd]
  /\ spc' = "close"
  /\ UNCHANGED <<command, i, pfd, failed, cin, cout, data>>

\* The next turn of the loop, or the end of it.
Advance ==
  IF HasNext(i) THEN i' = i + 1 /\ spc' = "pipe"
  ELSE i' = 1 /\ spc' = IF bg THEN "prompt" ELSE "wait"

\* Variant: close(pipefd[1]) is missing.
CloseKeepsWrite ==
  /\ spc = "close"
  /\ pfd' = pfd \ {R(i - 1)}
  /\ Advance
  /\ UNCHANGED <<command, failed, life, fds, data>>

\* Variant: both ends of the new pipe are closed.
CloseBoth ==
  /\ spc = "close"
  /\ pfd' = pfd \ {R(i - 1), W(i), R(i)}
  /\ Advance
  /\ UNCHANGED <<command, failed, life, fds, data>>

\* close(previous_read), close(pipefd[1]); pipefd[0] becomes previous_read.
Close ==
  /\ spc = "close"
  /\ pfd' = pfd \ {R(i - 1), W(i)}
  /\ Advance
  /\ UNCHANGED <<command, failed, life, fds, data>>

\* waitpid(pids[i]) of the foreground loop.
Wait ==
  /\ spc = "wait"
  /\ life[i] = "dead"
  /\ IF HasNext(i) THEN i' = i + 1 /\ UNCHANGED spc ELSE i' = i /\ spc' = "prompt"
  /\ UNCHANGED <<command, pfd, failed, life, fds, data>>

-----------------------------------------------------------------------------
(* The child between fork and execvp.                                      *)

Dies(k) == life' = [life EXCEPT ![k] = "dead"]

\* The ends dup2 copies for stage k: previous_read and pipefd[1].
Wanted(k) == (IF k > 1 THEN {R(k - 1)} ELSE {}) \union (IF HasNext(k) THEN {W(k)} ELSE {})

\* Variant: the child does not close pipefd[0].
PlumbKeepsRead(k) ==
  /\ life[k] = "plumb"
  /\ IF Wanted(k) \subseteq extra[k]
     THEN /\ cin' = [cin EXCEPT ![k] = IF k > 1 THEN R(k - 1) ELSE Other]
          /\ cout' = [cout EXCEPT ![k] = IF HasNext(k) THEN W(k) ELSE Other]
          /\ extra' = [extra EXCEPT ![k] = @ \ {R(k - 1), W(k)}]
          /\ life' = [life EXCEPT ![k] = "redirect"]
     ELSE Dies(k) /\ UNCHANGED fds
  /\ UNCHANGED <<command, shell, data>>

\* Variant: the standard output is not replaced.
PlumbNoDup(k) ==
  /\ life[k] = "plumb"
  /\ cin' = [cin EXCEPT ![k] = IF k > 1 THEN R(k - 1) ELSE Other]
  /\ extra' = [extra EXCEPT ![k] = @ \ {R(k - 1), R(k), W(k)}]
  /\ life' = [life EXCEPT ![k] = "redirect"]
  /\ UNCHANGED <<command, shell, cout, data>>

\* dup2 onto the standard streams, then close of the originals; dup2 of a
\* descriptor that is not open fails and the child exits.
Plumb(k) ==
  /\ life[k] = "plumb"
  /\ IF Wanted(k) \subseteq extra[k]
     THEN /\ cin' = [cin EXCEPT ![k] = IF k > 1 THEN R(k - 1) ELSE Other]
          /\ cout' = [cout EXCEPT ![k] = IF HasNext(k) THEN W(k) ELSE Other]
          /\ extra' = [extra EXCEPT ![k] = @ \ {R(k - 1), R(k), W(k)}]
          /\ life' = [life EXCEPT ![k] = "redirect"]
     ELSE Dies(k) /\ UNCHANGED fds
  /\ UNCHANGED <<command, shell, data>>

\* redirect_input: the first command of a background pipeline reads /dev/null,
\* which is not a pipe either.
redirect_input(k) ==
  cin' = [cin EXCEPT ![k] = IF redir[k] \in {"in", "both"} THEN Other ELSE @]
redirect_output(k) ==
  cout' = [cout EXCEPT ![k] = IF redir[k] \in {"out", "both"} THEN Other ELSE @]

\* The redirections, then execvp.  A file that cannot be opened, or a command
\* that cannot be executed, ends the child.
Redirect(k) ==
  /\ life[k] = "redirect"
  /\ IF redir[k] = "bad" THEN Dies(k) /\ UNCHANGED <<cin, cout>>
     ELSE /\ redirect_input(k)
          /\ redirect_output(k)
          /\ life' = [life EXCEPT ![k] = "run"]
  /\ UNCHANGED <<command, shell, extra, data>>

-----------------------------------------------------------------------------
(* The commands and the pipes.                                             *)

Reads(k) ==
  /\ life[k] = "run" /\ cin[k] # Other /\ buf[cin[k].pipe] > 0
  /\ buf' = [buf EXCEPT ![cin[k].pipe] = @ - 1]
  /\ UNCHANGED <<command, shell, life, fds, left, eof>>

\* read returns 0: the pipe is empty and no write end of it is open.
SeesEof(k) ==
  /\ life[k] = "run" /\ ~eof[k]
  /\ cin[k] # Other => buf[cin[k].pipe] = 0 /\ ~IsOpen(W(cin[k].pipe))
  /\ eof' = [eof EXCEPT ![k] = TRUE]
  /\ UNCHANGED <<command, shell, life, fds, buf, left>>

\* write: to a file, to a pipe with room, or to one without readers (SIGPIPE).
Writes(k) ==
  LET j == cout[k].pipe
  IN /\ life[k] = "run" /\ left[k] > 0
     /\ left' = [left EXCEPT ![k] = @ - 1]
     /\ \/ cout[k] = Other /\ UNCHANGED <<buf, life>>
        \/ /\ cout[k] # Other /\ IsOpen(R(j)) /\ buf[j] < Capacity
           /\ buf' = [buf EXCEPT ![j] = @ + 1]
           /\ UNCHANGED life
        \/ cout[k] # Other /\ ~IsOpen(R(j)) /\ Dies(k) /\ UNCHANGED buf
     /\ UNCHANGED <<command, shell, fds, eof>>

\* The command is done once its input has ended and its output is written.
Finishes(k) ==
  /\ life[k] = "run" /\ eof[k] /\ left[k] = 0
  /\ Dies(k)
  /\ UNCHANGED <<command, shell, fds, data>>

\* A command that does not read its input to the end.
Quits(k) ==
  /\ life[k] = "run"
  /\ Dies(k)
  /\ UNCHANGED <<command, shell, fds, data>>

-----------------------------------------------------------------------------
Init ==
  /\ n \in Stages
  /\ redir \in [Stages -> Redirections]
  /\ \A k \in Stages : k > n => redir[k] = "none"
  /\ bg \in BOOLEAN
  /\ i = 1
  /\ spc = "pipe"
  /\ pfd = {}
  /\ failed = FALSE
  /\ life = [k \in Stages |-> "none"]
  /\ cin = [k \in Stages |-> Other]
  /\ cout = [k \in Stages |-> Other]
  /\ extra = [k \in Stages |-> {}]
  /\ buf = [k \in Stages |-> 0]
  /\ left = [k \in Stages |-> MaxBlocks]
  /\ eof = [k \in Stages |-> FALSE]

ShellStep == Pipe \/ Fork \/ Close \/ Wait
Child(k) == Plumb(k) \/ Redirect(k)
Command(k) == Reads(k) \/ SeesEof(k) \/ Writes(k) \/ Finishes(k)

Next ==
  \/ ShellStep
  \/ Fails
  \/ \E k \in Stages : Child(k) \/ Command(k) \/ Quits(k)

Spec == Init /\ [][Next]_vars

\* The shell and the children get the processor.  A command reads on while
\* there is input, and ends when it is done; it need not quit early.
FairSpec ==
  /\ Spec
  /\ WF_vars(ShellStep)
  /\ \A k \in Stages : WF_vars(Child(k)) /\ WF_vars(Command(k))

-----------------------------------------------------------------------------
\* Every variable has its type.
TypeOK ==
  /\ n \in Stages /\ bg \in BOOLEAN /\ redir \in [Stages -> Redirections]
  /\ i \in 1..n
  /\ spc \in {"pipe", "fork", "close", "wait", "prompt"}
  /\ pfd \subseteq Ends /\ failed \in BOOLEAN
  /\ life \in [Stages -> {"none", "plumb", "redirect", "run", "dead"}]
  /\ cin \in [Stages -> Ends \union {Other}]
  /\ cout \in [Stages -> Ends \union {Other}]
  /\ extra \in [Stages -> SUBSET Ends]
  /\ buf \in [Stages -> 0..Capacity]
  /\ left \in [Stages -> 0..MaxBlocks]
  /\ eof \in [Stages -> BOOLEAN]

\* A command is started with no end of a pipe but its standard streams, and
\* whatever the order in which the children run, nobody but stage j and the
\* shell ever has the write end of pipe j.
EndsAreWhereTheyBelong ==
  /\ \A k \in Stages : life[k] = "run" => extra[k] = {}
  /\ \A j, k \in Stages : W(j) \in Holds(k) => k = j

\* A stage sees the end of its input only when the stage before it is dead or
\* writes elsewhere, never because the shell closed an end too early.
NoPrematureEof ==
  \A k \in Stages \ {1} :
    life[k] = "run" /\ cin[k] = R(k - 1) /\ ~IsOpen(W(k - 1)) =>
      life[k - 1] = "dead" \/ redir[k - 1] \in {"out", "both"}

\* A stage is killed for writing only when the stage after it is dead or reads
\* elsewhere; in particular not while that one has yet to be forked.
NoPrematureSigpipe ==
  \A k \in Stages :
    life[k] = "run" /\ cout[k] = W(k) /\ ~IsOpen(R(k)) =>
      life[k + 1] = "dead" \/ redir[k + 1] \in {"in", "both"}

\* The shell comes back from a pipeline it could set up with no pipe end open.
ShellClosesAll == spc = "prompt" /\ ~failed => pfd = {}

\* Every pipeline that could be set up comes to its end, the prompt comes
\* back and no process is left: an end nobody closed would keep a reader from
\* its end of file, or a writer from SIGPIPE.
PipelineEnds ==
  <>(failed \/ (spc = "prompt" /\ \A k \in 1..n : life[k] = "dead"))
=============================================================================
