------------------------------- MODULE SFJobs -------------------------------
(***************************************************************************)
(* Job control of ShellForge (src/main.c, src/executor.c, src/jobs.c): the *)
(* shell process, its SIGCHLD handler, the children it forks and the job   *)
(* table they share.                                                       *)
(*                                                                         *)
(* The sources are compiled with -std=c11 and _POSIX_C_SOURCE, under which *)
(* glibc's signal() has System V semantics: the disposition goes back to   *)
(* SIG_DFL when the handler is entered, and system calls it interrupts are *)
(* not restarted.  A SIGCHLD whose disposition is SIG_DFL is discarded.    *)
(*                                                                         *)
(* The handler runs to its end in one step: it only makes system calls     *)
(* that do not block, and what it would miss by a child dying under it is  *)
(* what it misses when that child dies just after it.  It may run between  *)
(* any two steps of the shell.  A handler that runs inside job_add is      *)
(* equivalent to one that runs before it: the slot's pgid is not yet       *)
(* visible, or the state it stores is overwritten with JOB_RUNNING.        *)
(***************************************************************************)
EXTENDS Naturals, Sequences, FiniteSets, Functions

CONSTANTS MAX_JOBS,     \* slots of the job table (64 in jobs.h)
          MaxPid,       \* bound: processes the shell forks in a behaviour
          MaxStages     \* bound: commands in a pipeline

ASSUME JobsAssumption == MAX_JOBS \in Nat \ {0}
ASSUME JobBoundsAssumption == MaxPid \in Nat \ {0} /\ MaxStages \in Nat \ {0}

VARIABLES
  proc,         \* life of each process: see ProcStates
  grp,          \* its process group; 0 is the shell's own
  job,          \* job_table
  next_job_id,
  handler,      \* sigchld_handler is installed (else SIG_DFL)
  sig,          \* a SIGCHLD is pending
  pc,           \* where the shell is
  cmd,          \* the command being executed: stages and background flag
  pids,         \* pids[] of execute_pipeline (the one pid of execute_command)
  w,            \* index of the child being waited for
  fg,           \* fg's job id and its pointer into job_table
  leader,       \* the group each process is to join: pgid at its fork, or 0
  awaited       \* history: processes the shell set out to wait for

kernel == <<proc, grp, handler, sig>>
table  == <<job, next_job_id>>
shell  == <<pc, cmd, pids, w, fg>>
ghost  == <<leader, awaited>>
vars   == <<kernel, table, shell, ghost>>

Pids == 1..MaxPid
JobSlots == 1..MAX_JOBS

\* "new" has been forked and has not yet reached execvp; "gone" is reaped.
ProcStates == {"none", "new", "run", "stop", "zomb", "gone"}
JobStates == {"Running", "Stopped", "Done"}
FreeJob == [id |-> 0, pgid |-> 0, state |-> "Done"]
NoCmd == [n |-> 0, bg |-> FALSE]
NoFg == [jid |-> 0, slot |-> 1]

First(S) == CHOOSE x \in S : \A y \in S : x <= y

-----------------------------------------------------------------------------
(* The kernel's side: process groups, signals, reaping.                    *)

\* setpgid(p, g): the group must be p itself or have a member, which an
\* unreaped zombie still is.  The shell's own group always exists.
GroupExists(p, g) ==
  g \in {0, p} \/ \E q \in Pids : proc[q] \notin {"none", "gone"} /\ grp[q] = g

\* SIGCHLD is left pending for the handler, or discarded.
RaiseSigchld == sig' = handler

\* kill(-g, SIGCONT): stopped members run again, and the parent is told.
ContinueGroup(g) ==
  LET stopped == {q \in Pids : proc[q] = "stop" /\ grp[q] = g}
  IN /\ proc' = [q \in Pids |-> IF q \in stopped THEN "run" ELSE proc[q]]
     /\ IF stopped # {} THEN RaiseSigchld ELSE UNCHANGED sig
     /\ UNCHANGED <<grp, handler>>

\* A process that runs to its end, execvp or a redirection having failed
\* included.
ChildExits(p) ==
  /\ proc[p] = "run"
  /\ proc' = [proc EXCEPT ![p] = "zomb"]
  /\ RaiseSigchld
  /\ UNCHANGED <<grp, handler, table, shell, ghost>>

\* SIGSTOP, SIGTSTP, or SIGTTIN on reading the terminal from another group.
ChildStops(p) ==
  /\ proc[p] = "run"
  /\ proc' = [proc EXCEPT ![p] = "stop"]
  /\ RaiseSigchld
  /\ UNCHANGED <<grp, handler, table, shell, ghost>>

-----------------------------------------------------------------------------
(* jobs.c                                                                  *)

job_find(jid) == {k \in JobSlots : job[k].id = jid}
job_find_by_pgid(g) == {k \in JobSlots : job[k].id # 0 /\ job[k].pgid = g}

\* job_done for every pid of S; WIFSTOPPED cannot hold, because the handler's
\* waitpid does not ask for WUNTRACED.
MarkDone(S) ==
  LET done == {First(job_find_by_pgid(p)) : p \in {q \in S : job_find_by_pgid(q) # {}}}
  IN [k \in JobSlots |-> IF k \in done THEN [job[k] EXCEPT !.state = "Done"] ELSE job[k]]

JobAdd(g) ==
  LET free == job_find(0)
  IN /\ free # {}
     /\ job' = [job EXCEPT ![First(free)] =
                  [id |-> next_job_id, pgid |-> g, state |-> "Running"]]
     /\ next_job_id' = next_job_id + 1

\* strdup fails: the slot is given back with its pgid and state left in it.
JobAddNoMemory(g) ==
  LET free == job_find(0)
  IN /\ free # {}
     /\ job' = [job EXCEPT ![First(free)] = [id |-> 0, pgid |-> g, state |-> "Running"]]
     /\ next_job_id' = next_job_id + 1

\* The table is full, or there is no memory for the command string.
JobNotAdded == UNCHANGED table

job_continue(g) ==
  IF job_find_by_pgid(g) = {} THEN UNCHANGED <<kernel, job>>
  ELSE /\ job' = [job EXCEPT ![First(job_find_by_pgid(g))].state = "Running"]
       /\ ContinueGroup(g)

JobRemoved(jid) == [job EXCEPT ![First(job_find(jid))] = FreeJob]

-----------------------------------------------------------------------------
(* main.c: the SIGCHLD handler.                                            *)

Zombies == {p \in Pids : proc[p] = "zomb"}

\* Variant: every child that changed state is taken for an exited one.
sigchld_handler_stop_is_exit ==
  LET S == Zombies \union {p \in Pids : proc[p] = "stop"}
  IN /\ sig
     /\ proc' = [p \in Pids |-> IF p \in Zombies THEN "gone" ELSE proc[p]]
     /\ job' = MarkDone(S)
     /\ handler' = FALSE
     /\ sig' = FALSE
     /\ UNCHANGED <<grp, next_job_id>>

\* Variant: the handler stays installed (sigaction without SA_RESETHAND).
sigchld_handler_persistent ==
  /\ sig
  /\ proc' = [p \in Pids |-> IF p \in Zombies THEN "gone" ELSE proc[p]]
  /\ job' = MarkDone(Zombies)
  /\ sig' = FALSE
  /\ UNCHANGED <<grp, handler, next_job_id>>

\* Delivery resets the disposition; the loop reaps every zombie, the
\* foreground ones included.
sigchld_handler ==
  /\ sig
  /\ proc' = [p \in Pids |-> IF p \in Zombies THEN "gone" ELSE proc[p]]
  /\ job' = MarkDone(Zombies)
  /\ handler' = FALSE
  /\ sig' = FALSE
  /\ UNCHANGED <<grp, next_job_id>>

\* The handler runs while the shell is in user code or in readline.
Deliver ==
  /\ pc # "exited"
  /\ sigchld_handler
  /\ UNCHANGED <<shell, ghost>>

-----------------------------------------------------------------------------
(* executor.c                                                              *)

\* The command is over: its local variables go out of scope.
ToPrompt ==
  pc' = "prompt" /\ cmd' = NoCmd /\ pids' = <<>> /\ w' = 1 /\ fg' = NoFg

InOwnGroup == cmd.bg \/ cmd.n > 1

\* execute_pipeline or execute_command is entered with a parsed command.
Start(n, bg) ==
  /\ pc = "prompt"
  /\ cmd' = [n |-> n, bg |-> bg]
  /\ pids' = <<>>
  /\ pc' = "fork"
  /\ UNCHANGED <<kernel, table, w, fg, ghost>>

\* fork() in the parent, and the choice of the first pid as pgid.
Fork ==
  /\ pc = "fork"
  /\ \E p \in Pids :
       /\ proc[p] = "none" /\ \A q \in 1..(p - 1) : proc[q] # "none"
       /\ proc' = [proc EXCEPT ![p] = "new"]
       /\ pids' = Append(pids, p)
       /\ leader' = [leader EXCEPT ![p] = IF ~InOwnGroup THEN 0
                                           ELSE IF pids = <<>> THEN p ELSE Head(pids)]
  /\ pc' = IF InOwnGroup THEN "setpgid" ELSE "wait"
  /\ w' = 1
  /\ awaited' = awaited \union (IF InOwnGroup THEN {} ELSE Range(pids'))
  /\ UNCHANGED <<grp, handler, sig, table, cmd, fg>>

\* pipe() or fork() fails: the function returns at once, and the stages
\* already forked are neither waited for nor entered in the table.
ForkFails ==
  /\ pc = "fork"
  /\ ToPrompt
  /\ UNCHANGED <<kernel, table, ghost>>

\* Variant: a child whose setpgid fails goes on.
ChildSetpgidGoesOn(p) ==
  /\ proc[p] = "new"
  /\ proc' = [proc EXCEPT ![p] = "run"]
  /\ grp' = [grp EXCEPT ![p] = IF GroupExists(p, leader[p]) THEN leader[p] ELSE @]
  /\ UNCHANGED <<handler, sig, table, shell, ghost>>

\* The child up to execvp.  A command that is to join a group exits with 1
\* when its setpgid fails.
ChildSetpgid(p) ==
  LET joins == GroupExists(p, leader[p])
  IN /\ proc[p] = "new"
     /\ proc' = [proc EXCEPT ![p] = IF joins THEN "run" ELSE "zomb"]
     /\ grp' = [grp EXCEPT ![p] = IF joins THEN leader[p] ELSE @]
     /\ IF joins THEN UNCHANGED sig ELSE RaiseSigchld
     /\ UNCHANGED <<handler, table, shell, ghost>>

\* After the last stage: the job table, or the wait loop.
Forked ==
  IF Len(pids) < cmd.n THEN pc' = "fork" /\ UNCHANGED awaited
  ELSE IF cmd.bg THEN pc' = "add" /\ UNCHANGED awaited
  ELSE pc' = "wait" /\ awaited' = awaited \union Range(pids)

\* Variant: only the child sets its group.
ParentSetpgidNone ==
  /\ pc = "setpgid"
  /\ Forked
  /\ UNCHANGED <<kernel, table, cmd, pids, w, fg, leader>>

\* The parent's setpgid(pids[i], pgid).  It has an effect on a child that has
\* not reached its own setpgid; later it fails with EACCES or repeats it.
ParentSetpgid ==
  LET p == pids[Len(pids)]
  IN /\ pc = "setpgid"
     /\ grp' = [grp EXCEPT ![p] =
                  IF proc[p] = "new" /\ GroupExists(p, leader[p]) THEN leader[p] ELSE @]
     /\ Forked
     /\ UNCHANGED <<proc, handler, sig, table, cmd, pids, w, fg, leader>>

\* A background command is entered in the table under its leader's pid.
AddJob ==
  /\ pc = "add"
  /\ JobAdd(pids[1]) \/ JobAddNoMemory(pids[1]) \/ JobNotAdded
  /\ ToPrompt
  /\ UNCHANGED <<kernel, ghost>>

\* The end of one waitpid: the next child, or the prompt.
NextWait ==
  IF w < Len(pids) THEN w' = w + 1 /\ UNCHANGED <<pc, cmd, pids, fg>> ELSE ToPrompt

WaitReaps ==
  /\ pc = "wait"
  /\ proc[pids[w]] = "zomb"
  /\ proc' = [proc EXCEPT ![pids[w]] = "gone"]
  /\ NextWait
  /\ UNCHANGED <<grp, handler, sig, table, ghost>>

\* Variant: waitpid is called again after any error.
WaitEchildRetries ==
  /\ pc = "wait"
  /\ proc[pids[w]] = "gone"
  /\ UNCHANGED vars

\* ECHILD: the handler has reaped the child.
WaitEchild ==
  /\ pc = "wait"
  /\ proc[pids[w]] = "gone"
  /\ NextWait
  /\ UNCHANGED <<kernel, table, ghost>>

\* EINTR: the handler runs while waitpid blocks; the call is not repeated.
WaitEintr ==
  /\ pc = "wait"
  /\ proc[pids[w]] \notin {"zomb", "gone"}
  /\ sigchld_handler
  /\ NextWait
  /\ UNCHANGED ghost

-----------------------------------------------------------------------------
(* main.c: the builtins bg, fg and exit.  A jid of 0 is what atoi makes of *)
(* an argument that is not a number; job_find(0) is a free slot.           *)

JobIds == 0..MaxPid

bg(jid) ==
  /\ pc = "prompt"
  /\ job_find(jid) # {}
  /\ job_continue(job[First(job_find(jid))].pgid)
  /\ UNCHANGED <<next_job_id, shell, ghost>>

\* fg finds the job, and resumes its group if the table says it is stopped.
fgStart(jid) ==
  /\ pc = "prompt"
  /\ job_find(jid) # {}
  /\ LET k == First(job_find(jid))
     IN /\ fg' = [jid |-> jid, slot |-> k]
        /\ IF job[k].state = "Stopped"
           THEN job' = [job EXCEPT ![k].state = "Running"] /\ ContinueGroup(job[k].pgid)
           ELSE UNCHANGED <<kernel, job>>
  /\ pc' = "test"
  /\ UNCHANGED <<next_job_id, cmd, pids, w, ghost>>

\* The test of while (job->state == JOB_RUNNING), and what follows the loop.
fgTest ==
  /\ pc = "test"
  /\ IF job[fg.slot].state = "Running"
     THEN pc' = "pause" /\ UNCHANGED <<job, cmd, pids, w, fg>>
     ELSE /\ ToPrompt
          /\ job' = IF job[fg.slot].state = "Done" /\ job_find(fg.jid) # {}
                    THEN JobRemoved(fg.jid) ELSE job
  /\ UNCHANGED <<kernel, next_job_id, ghost>>

\* pause() returns when the handler has run in it.
fgWake ==
  /\ pc = "pause"
  /\ sigchld_handler
  /\ pc' = "test"
  /\ UNCHANGED <<cmd, pids, w, fg, ghost>>

\* The builtin exit, or the end of the input.
Exit ==
  /\ pc = "prompt"
  /\ pc' = "exited"
  /\ UNCHANGED <<kernel, table, cmd, pids, w, fg, ghost>>

-----------------------------------------------------------------------------
Init ==
  /\ proc = [p \in Pids |-> "none"]
  /\ grp = [p \in Pids |-> 0]
  /\ job = [k \in JobSlots |-> FreeJob]
  /\ next_job_id = 1
  /\ handler = TRUE
  /\ sig = FALSE
  /\ pc = "prompt"
  /\ cmd = NoCmd
  /\ pids = <<>>
  /\ w = 1
  /\ fg = NoFg
  /\ leader = [p \in Pids |-> 0]
  /\ awaited = {}

\* What the shell does next by itself.
ShellStep ==
  Fork \/ ForkFails \/ ParentSetpgid \/ AddJob \/ WaitReaps \/ WaitEchild \/ fgTest
SignalStep == Deliver \/ WaitEintr \/ fgWake
UserStep ==
  \/ \E n \in 1..MaxStages, b \in BOOLEAN : Start(n, b)
  \/ \E jid \in JobIds : bg(jid) \/ fgStart(jid)
  \/ Exit
ChildStep(p) == ChildSetpgid(p) \/ ChildExits(p) \/ ChildStops(p)

Next == ShellStep \/ SignalStep \/ UserStep \/ \E p \in Pids : ChildStep(p)

Spec == Init /\ [][Next]_vars

\* The shell and every child get the processor, a pending signal is delivered,
\* and a command that runs comes to its end.  Nobody has to type a command.
FairSpec ==
  /\ Spec
  /\ WF_vars(ShellStep) /\ WF_vars(SignalStep)
  /\ \A p \in Pids : WF_vars(ChildSetpgid(p)) /\ WF_vars(ChildExits(p))

-----------------------------------------------------------------------------
(* Properties                                                              *)

\* Every variable has its type; pids[] has room for what is stored in it, and
\* the wait loop reads no element that was not.
TypeOK ==
  /\ proc \in [Pids -> ProcStates]
  /\ grp \in [Pids -> Nat]
  /\ job \in [JobSlots -> [id : Nat, pgid : Nat, state : JobStates]]
  /\ next_job_id \in Nat \ {0}
  /\ handler \in BOOLEAN /\ sig \in BOOLEAN
  /\ pc \in {"prompt", "fork", "setpgid", "add", "wait", "test", "pause", "exited"}
  /\ cmd \in [n : 0..MaxStages, bg : BOOLEAN]
  /\ pids \in Seq(Pids) /\ Len(pids) <= cmd.n
  /\ w \in Nat \ {0} /\ (pc = "wait" => w <= Len(pids))
  /\ fg \in [jid : JobIds, slot : JobSlots]
  /\ leader \in [Pids -> Nat]
  /\ awaited \subseteq Pids

\* Whenever the table says Done of a job, its leader has exited and has been
\* reaped: neither stopping it nor the order in which the handler, fork and
\* job_add run can make fg drop a job that is still there.
DoneIsReaped ==
  \A k \in JobSlots : job[k].id # 0 /\ job[k].state = "Done" => proc[job[k].pgid] = "gone"

\* A job id names one process group for ever: a listed job keeps its pgid,
\* and a slot that is filled again gets an id never given before.
JobIdsAreStable ==
  [][\A k \in JobSlots : job'[k].id # 0 =>
       \/ job'[k].id = job[k].id /\ job'[k].pgid = job[k].pgid
       \/ job'[k].id >= next_job_id]_vars

\* Once a background job is listed every process of it is in the job's group,
\* so that bg's kill(-pgid) reaches it, although the child may not have run
\* yet; the exception is a pipeline whose leader was reaped under it.
ListedJobIsOneGroup ==
  \A k \in JobSlots, p \in Pids :
    job[k].id # 0 /\ leader[p] = job[k].pgid /\ proc[p] \in {"new", "run", "stop"} =>
      grp[p] = job[k].pgid \/ proc[job[k].pgid] = "gone"

\* A stage that is in another group than the rest of its pipeline, although
\* shell and child both call setpgid, has exited without running its command,
\* and only because the leader had exited and been reaped before either call.
StraysNeverRun ==
  \A p \in Pids :
    proc[p] \notin {"none", "new"} /\ grp[p] # leader[p] =>
      proc[p] \in {"zomb", "gone"} /\ proc[leader[p]] = "gone"

\* Because the handler runs once in a session, at most one process that the
\* shell set out to wait for is still there at the prompt.
OneAbandonedAtMost ==
  pc = "prompt" => Cardinality({p \in awaited : proc[p] # "gone"}) <= 1

\* The shell's wait for a foreground command ends, whoever reaped its
\* children, unless one of them is stopped: nothing reports that to it.
ForegroundReturns ==
  pc = "wait" ~> (pc # "wait" \/ \E p \in awaited : proc[p] = "stop")

-----------------------------------------------------------------------------
(* What the documents and comments say                                     *)

\* "SIGCHLD handler to reap background jobs" (docs/VIVA_GUIDE.md:33): a child
\* that has exited is reaped while the shell lives.
ChildrenAreReaped ==
  \A p \in Pids : proc[p] = "zomb" ~> (proc[p] = "gone" \/ pc = "exited")

\* "wait for child to finish (foreground)" (docs/FINAL_REVIEW_EVIDENCE.md:117):
\* at the prompt every process that was waited for is gone.
ForegroundHasFinished ==
  pc = "prompt" => \A p \in awaited : proc[p] = "gone"

\* "add one job representing the entire pipeline" (executor.c:370-373): the
\* job is Done only when no process of the pipeline is left running.
DoneMeansWholePipeline ==
  \A k \in JobSlots, p \in Pids :
    job[k].id # 0 /\ job[k].state = "Done" /\ leader[p] = job[k].pgid
      => proc[p] \in {"zomb", "gone"}
=============================================================================
