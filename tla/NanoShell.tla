----------------------------- MODULE NanoShell ------------------------------
(***************************************************************************)
(* The user shell of NanoBoot (NanoBoot/user/sh.c) running on the kernel   *)
(* of NanoProc: the only program the build contains.  NanoProc allows any  *)
(* user program; here each process follows the shell's text, and every     *)
(* system call it makes is the whole trap of NanoProc.                     *)
(*                                                                         *)
(* Between calls the text only branches on a0, counts, and writes its own  *)
(* memory.  The writes to the console (print) return at once and touch     *)
(* nothing but a0; one per command stands for all of them.  What isotest   *)
(* writes to iso_var is left out: NanoVM keeps the memories apart.         *)
(***************************************************************************)
EXTENDS NanoProc

CONSTANT Rounds  \* turns of the loops of schedtest (3 in the code)

ASSUME RoundsAssumption == Rounds \in Nat \ {0}

(* The cap of sys_sleep is no shorter than the sleeps of the tests.        *)
ASSUME NapsAssumption == MaxSleep >= 2

VARIABLES
  pc,       \* where the process of slot s is in sh.c
  cmd,      \* the command it executes
  kid,      \* the local pid: what sys_fork returned to it
  naps      \* calls of sys_sleep left in its loop

user == <<pc, cmd, kid, naps>>
allvars == <<vars, user>>

ForkCommands == {"forktest", "schedtest", "isotest"}

At(label) == mode = "user" /\ pc[current_proc] = label
Goto(label) == pc' = [pc EXCEPT ![current_proc] = label]

-----------------------------------------------------------------------------
(* main: the loop that reads a line character by character.                *)
ReadChar ==
  /\ At("prompt")
  /\ SysRead
  /\ UNCHANGED user

(* A character arrives.  Either the line goes on, or it ends: it is empty  *)
(* or tokenize, parse_command and execute_command pick what is to be done. *)
(* MaxPid bounds the commands that fork.                                   *)
CharArrives ==
  /\ ReadDone
  /\ \/ UNCHANGED <<pc, cmd>>
     \/ \E label \in {"quick", "sleep", "exit"} :
          Goto(label) /\ UNCHANGED cmd
     \/ \E c \in ForkCommands :
          /\ next_pid <= MaxPid
          /\ Goto("fork")
          /\ cmd' = [cmd EXCEPT ![current_proc] = c]
  /\ UNCHANGED <<kid, naps>>

(* help, getpid, ps, echo, ls, cat, every error message, `sleep 0'.        *)
QuickCommand ==
  /\ At("quick")
  /\ SysQuick
  /\ Goto("prompt")
  /\ UNCHANGED <<cmd, kid, naps>>

SleepCommand ==
  /\ At("sleep")
  /\ \E n \in 1 .. MaxSleep : SysSleep(n)
  /\ Goto("prompt")
  /\ UNCHANGED <<cmd, kid, naps>>

(* sys_exit of the exit command, and of the children of the tests.         *)
Exit ==
  /\ At("exit")
  /\ SysExit
  /\ Goto("none")
  /\ UNCHANGED <<cmd, kid, naps>>

-----------------------------------------------------------------------------
(* sys_fork in forktest, schedtest and run_isotest.  The child starts      *)
(* where the parent returns, in a copy of the parent's memory.             *)
ForkCall ==
  LET c == Least(FreeSlots)
      p == current_proc
  IN  /\ At("fork")
      /\ SysFork
      /\ IF a0'[p] = -1
         THEN Goto("forked") /\ UNCHANGED <<cmd, kid, naps>>
         ELSE /\ pc' = [pc EXCEPT ![p] = "forked", ![c] = "forked"]
              /\ cmd' = [cmd EXCEPT ![c] = cmd[p]]
              /\ kid' = [kid EXCEPT ![c] = kid[p]]
              /\ naps' = [naps EXCEPT ![c] = naps[p]]

(* `if (pid < 0)' and `if (pid == 0)' after the fork.                      *)
Branch ==
  LET p == current_proc
  IN  /\ At("forked")
      /\ kid' = [kid EXCEPT ![p] = a0[p]]
      /\ Goto(CASE a0[p] = -1 -> "quick" [] a0[p] = 0 -> "child"
                [] OTHER -> "parent")
      /\ naps' = [naps EXCEPT ![p] = CASE cmd[p] = "schedtest" -> Rounds
                                       [] cmd[p] = "forktest" /\ a0[p] = 0 -> 1
                                       [] OTHER -> 0]
      /\ UNCHANGED <<cmd, vars>>

(* The loops of sys_sleep(1), and sys_sleep(2) in the child of forktest.   *)
Nap ==
  LET p == current_proc
  IN  /\ At("child") \/ At("parent")
      /\ naps[p] > 0
      /\ SysSleep(IF cmd[p] = "forktest" THEN 2 ELSE 1)
      /\ naps' = [naps EXCEPT ![p] = @ - 1]
      /\ UNCHANGED <<pc, cmd, kid>>

(* The child is done: sys_exit.                                            *)
ChildExit ==
  /\ At("child")
  /\ naps[current_proc] = 0
  /\ SysExit
  /\ Goto("none")
  /\ UNCHANGED <<cmd, kid, naps>>

(* Variant: schedtest and its kin return to the prompt without sys_wait.   *)
JoinNoWait ==
  /\ At("parent")
  /\ naps[current_proc] = 0
  /\ SysQuick
  /\ Goto("prompt")
  /\ UNCHANGED <<cmd, kid, naps>>

(* The parent is done: sys_wait.                                           *)
Join ==
  /\ At("parent")
  /\ naps[current_proc] = 0
  /\ SysWait
  /\ Goto("joined")
  /\ UNCHANGED <<cmd, kid, naps>>

(* What the parent prints once the child is gone.                          *)
Report ==
  /\ At("joined")
  /\ SysQuick
  /\ Goto("prompt")
  /\ UNCHANGED <<cmd, kid, naps>>

-----------------------------------------------------------------------------
(* A preempted process keeps what it holds: a0 stands for the result of    *)
(* its last call, wherever the compiled code has put it.                   *)
Tick == UNCHANGED <<a0, pending, user>> /\ TimerTrap
Poll == UNCHANGED user /\ PollTick

UserStep ==
  \/ ReadChar \/ QuickCommand \/ SleepCommand \/ Exit
  \/ ForkCall \/ Branch \/ Nap \/ ChildExit \/ Join \/ Report

ShellInit ==
  /\ Init
  /\ pc = [s \in Slots |-> IF s = 0 THEN "prompt" ELSE "none"]
  /\ cmd = [s \in Slots |-> "forktest"]
  /\ kid = [s \in Slots |-> 0]
  /\ naps = [s \in Slots |-> 0]

ShellNext == UserStep \/ CharArrives \/ Tick \/ Poll

ShellSpec == ShellInit /\ [][ShellNext]_allvars

(* Every slice of the CPU brings a process closer to its next call, so one *)
(* that is dispatched again and again makes it; the timer and the polling  *)
(* loop go on; the user types on.                                          *)
ShellFairness ==
  /\ \A s \in Slots : SF_allvars(current_proc = s /\ UserStep)
  /\ SF_allvars(Tick)
  /\ WF_allvars(Poll)
  /\ WF_allvars(CharArrives)

FairShellSpec == ShellSpec /\ ShellFairness

-----------------------------------------------------------------------------
Resumed(s) == state[s] \in {"RUNNABLE", "RUNNING"}

(* forktest prints the pid it forked as the pid wait() returned: whatever  *)
(* the two processes' sleeps, exits and ticks, the wait() of a command     *)
(* returns its own child.                                                  *)
WaitReturnsKid ==
  \A s \in Slots : pc[s] = "joined" /\ Resumed(s) => a0[s] = kid[s] /\ kid[s] > 0

(* The shell leaves nothing behind: whenever it is at the prompt every     *)
(* other slot is UNUSED and its page-table pages are back in the pool.     *)
PromptIsClean ==
  \A s \in Slots : pc[s] = "prompt" /\ state[s] # "UNUSED" =>
    /\ \A t \in Slots \ {s} : state[t] = "UNUSED"
    /\ tables \ {KERNEL} = {s}

(* The shipped shell gets from this kernel what arbitrary programs may not *)
(* (ReapedByForker in NanoProc): when a process other than the first       *)
(* leaves the table, exactly one process is handed its pid by wait(), and  *)
(* that is the one that forked it, alive until then.                       *)
CollectedByForker ==
  [][\A c \in Slots :
       state[c] # "UNUSED" /\ state'[c] = "UNUSED" /\ ppid[c] # 0 =>
         \E f \in Slots :
           /\ pid[f] = ppid[c] /\ state[f] \notin {"UNUSED", "ZOMBIE"}
           /\ {s \in Slots : Resumed(s)' /\ pending'[s] = "wait"
                               /\ a0'[s] = pid[c]} = {f}]_allvars

(* Every command but exit gives the prompt back.                           *)
CommandsFinish ==
  \A s \in Slots : pc[s] \in {"quick", "sleep", "fork", "parent", "joined"}
                     ~> pc[s] = "prompt"
=============================================================================
