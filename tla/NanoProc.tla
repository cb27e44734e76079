------------------------------ MODULE NanoProc ------------------------------
(***************************************************************************)
(* The process table, scheduler, traps and timer of the NanoBoot kernel    *)
(* (NanoBoot/kernel/proc.c, trap.c, timer.c, syscall.c, and the ownership  *)
(* of page tables in vm.c).                                                *)
(*                                                                         *)
(* The kernel runs on one hart and takes every trap with supervisor        *)
(* interrupts off, so a trap is one step: from the trap entry to the       *)
(* return to user mode.  Two places in a trap wait without a bound, and    *)
(* end a step: the polling loop of trap_handler while no process is        *)
(* runnable (mode "poll") and the UART busy-wait of sys_read (mode         *)
(* "read").  In mode "user" current_proc executes user code with           *)
(* interrupts on.                                                          *)
(*                                                                         *)
(* User programs are arbitrary here: the current process may make any      *)
(* system call, fault, or be preempted.                                    *)
(***************************************************************************)
EXTENDS Integers, FiniteSets

CONSTANTS
  NPROC,      \* slots of proc_table
  PoolPages,  \* PT_POOL_PAGES: page-table pages in the pool
  UserPages,  \* pool pages one user address space takes
  KernPages,  \* pool pages the kernel's own page table takes
  MaxPid,     \* bound: no fork once next_pid has passed MaxPid
  MaxTicks,   \* bound: no deadline past it, and ticks restarts after it
  MaxSleep,   \* longest sleep sys_sleep lets through (1000000 in the code)
  NULL,       \* the null pointer
  KERNEL,     \* kernel_pt, as a value of satp
  AnyVal      \* a register value the properties do not tell apart

Slots == 0 .. NPROC-1

ASSUME NProcAssumption == NPROC \in Nat \ {0}
ASSUME PagesAssumption ==
  /\ PoolPages \in Nat /\ UserPages \in Nat \ {0} /\ KernPages \in Nat \ {0}
  /\ PoolPages >= UserPages
ASSUME BoundsAssumption ==
  MaxPid \in Nat /\ MaxTicks \in Nat /\ MaxSleep \in Nat
ASSUME SentinelAssumption ==
  NULL \notin Slots /\ KERNEL \notin Slots /\ AnyVal \notin Int

VARIABLES
  state, pid, parent, wake_tick,  \* the fields of proc_table[s]
  a0,            \* trapframes[s].regs[10]
  current_proc,
  last_slot,
  next_pid,
  ticks,
  mode,          \* where the hart is: "user", "poll" or "read"
  satp,          \* the page table installed: a slot's, or KERNEL
  tables,        \* the page tables that exist: s for a pagetable of
                 \* proc_table[s] that is not NULL, KERNEL for kernel_pt
  pool,          \* free pages of pt_pool
  ppid,          \* history: pid of the process that forked the one in slot s
  pending        \* history: the blocking call whose result a0[s] holds

sched == <<state, current_proc, last_slot, mode, satp>>
ident == <<pid, parent, ppid>>
memory == <<tables, pool>>
vars == <<sched, ident, memory, wake_tick, a0, next_pid, ticks, pending>>

States == {"UNUSED", "RUNNABLE", "RUNNING", "SLEEPING", "ZOMBIE"}

Least(S) == CHOOSE x \in S : \A y \in S : x <= y

-----------------------------------------------------------------------------
(* proc_schedule: the slots are scanned cyclically from the one after      *)
(* start; the first RUNNABLE one is dispatched.                            *)

RunnableDistances(st, start) ==
  {n \in 1 .. NPROC : st[(start + n) % NPROC] = "RUNNABLE"}

(* Variant: the scan starts at slot 0 every time.                          *)
NextSlotFromZero(st, start) ==
  IF \A s \in Slots : st[s] # "RUNNABLE" THEN NULL
  ELSE Least({s \in Slots : st[s] = "RUNNABLE"})

NextSlot(st, start) ==
  IF RunnableDistances(st, start) = {} THEN NULL
  ELSE (start + Least(RunnableDistances(st, start))) % NPROC

(* proc_schedule followed by the end of trap_handler.  sp is what satp     *)
(* holds if no process is runnable: the handler then polls without         *)
(* touching it.  The test `state != P_RUNNING' after the loop never holds, *)
(* since proc_schedule has just made the process RUNNING.                  *)
Dispatch(st, start, sp) ==
  LET next == NextSlot(st, start)
  IN  /\ current_proc' = next
      /\ IF next = NULL
         THEN /\ state' = st
              /\ satp' = sp
              /\ mode' = "poll"
              /\ UNCHANGED last_slot
         ELSE /\ state' = [st EXCEPT ![next] = "RUNNING"]
              /\ satp' = next
              /\ mode' = "user"
              /\ last_slot' = next

(* A system call that comes back to the caller with ret.                   *)
Return(ret) ==
  /\ a0' = [a0 EXCEPT ![current_proc] = ret]
  /\ UNCHANGED sched

Pending(call) == pending' = [pending EXCEPT ![current_proc] = call]

-----------------------------------------------------------------------------
(* timer_tick: ++ticks, then proc_wakeup(ticks).  SysSleep sets no         *)
(* deadline past MaxTicks, so none is left once ticks is there, and the    *)
(* origin of time, which only deadlines refer to, may move: ticks goes     *)
(* back to 0.                                                              *)

NextTick == IF ticks < MaxTicks THEN ticks + 1 ELSE 0

Expired(s, now) ==
  state[s] = "SLEEPING" /\ wake_tick[s] # 0 /\ wake_tick[s] <= now

Woken(now) ==
  [s \in Slots |-> IF Expired(s, now) THEN "RUNNABLE" ELSE state[s]]

timer_tick ==
  /\ ticks' = NextTick
  /\ wake_tick' = [s \in Slots |-> IF Expired(s, NextTick) THEN 0
                                   ELSE wake_tick[s]]

(* What the interrupted code has in a0: still the result of its last call, *)
(* or something it has computed since.                                     *)
SaveUserRegs ==
  \/ UNCHANGED <<a0, pending>>
  \/ a0' = [a0 EXCEPT ![current_proc] = AnyVal] /\ Pending("none")

(* Variant: the interrupt counts the tick and resumes the same process.    *)
TimerTrapNoYield ==
  /\ mode = "user"
  /\ timer_tick
  /\ state' = Woken(NextTick)
  /\ SaveUserRegs
  /\ UNCHANGED <<current_proc, last_slot, mode, satp, ident, memory, next_pid>>

(* The timer interrupt in user mode: the current process is put back among *)
(* the RUNNABLE ones and the scan starts after it.                         *)
TimerTrap ==
  /\ mode = "user"
  /\ timer_tick
  /\ Dispatch([Woken(NextTick) EXCEPT ![current_proc] = "RUNNABLE"],
              current_proc, satp)
  /\ SaveUserRegs
  /\ UNCHANGED <<ident, memory, next_pid>>

(* Variant: the loop only calls proc_schedule.                             *)
PollNoTick ==
  /\ mode = "poll"
  /\ Dispatch(state, last_slot, satp)
  /\ UNCHANGED <<ident, memory, wake_tick, a0, next_pid, ticks, pending>>

(* One round of `while (!current_proc)' in trap_handler.                   *)
PollTick ==
  /\ mode = "poll"
  /\ timer_tick
  /\ Dispatch(Woken(NextTick), last_slot, satp)
  /\ UNCHANGED <<ident, memory, a0, next_pid, pending>>

-----------------------------------------------------------------------------
(* SYS_FORK: proc_fork takes the first UNUSED slot.                        *)

FreeSlots == {s \in Slots : state[s] = "UNUSED"}

ForkNoSlot ==
  /\ mode = "user"
  /\ FreeSlots = {}
  /\ Return(-1)
  /\ Pending("none")
  /\ UNCHANGED <<ident, memory, wake_tick, next_pid, ticks>>

(* Variant: next_pid is not advanced.                                      *)
FillSlotSamePid(c) ==
  /\ pid' = [pid EXCEPT ![c] = next_pid]
  /\ parent' = [parent EXCEPT ![c] = current_proc]
  /\ ppid' = [ppid EXCEPT ![c] = pid[current_proc]]
  /\ wake_tick' = [wake_tick EXCEPT ![c] = 0]
  /\ UNCHANGED next_pid

(* Variant: the child's parent is not set.                                 *)
FillSlotNoParent(c) ==
  /\ pid' = [pid EXCEPT ![c] = next_pid]
  /\ ppid' = [ppid EXCEPT ![c] = pid[current_proc]]
  /\ wake_tick' = [wake_tick EXCEPT ![c] = 0]
  /\ next_pid' = next_pid + 1
  /\ UNCHANGED parent

(* The part of proc_fork before vm_clone_user.                             *)
FillSlot(c) ==
  /\ pid' = [pid EXCEPT ![c] = next_pid]
  /\ parent' = [parent EXCEPT ![c] = current_proc]
  /\ ppid' = [ppid EXCEPT ![c] = pid[current_proc]]
  /\ wake_tick' = [wake_tick EXCEPT ![c] = 0]
  /\ next_pid' = next_pid + 1

(* Variant: the slot stays RUNNABLE when vm_clone_user fails.              *)
ForkNoMemoryKeepsSlot ==
  /\ mode = "user"
  /\ next_pid <= MaxPid
  /\ FreeSlots # {}
  /\ pool < UserPages
  /\ FillSlot(Least(FreeSlots))
  /\ state' = [state EXCEPT ![Least(FreeSlots)] = "RUNNABLE"]
  /\ a0' = [a0 EXCEPT ![current_proc] = -1]
  /\ Pending("none")
  /\ UNCHANGED <<current_proc, last_slot, mode, satp, memory, ticks>>

(* vm_clone_user gives back the pages it took when the pool runs out.      *)
ForkNoMemory ==
  /\ mode = "user"
  /\ next_pid <= MaxPid
  /\ FreeSlots # {}
  /\ pool < UserPages
  /\ FillSlot(Least(FreeSlots))
  /\ Return(-1)
  /\ Pending("none")
  /\ UNCHANGED <<memory, ticks>>

Fork ==
  LET c == Least(FreeSlots)
  IN  /\ mode = "user"
      /\ next_pid <= MaxPid
      /\ FreeSlots # {}
      /\ pool >= UserPages
      /\ FillSlot(c)
      /\ tables' = tables \cup {c}
      /\ pool' = pool - UserPages
      /\ state' = [state EXCEPT ![c] = "RUNNABLE"]
      /\ a0' = [a0 EXCEPT ![c] = 0, ![current_proc] = next_pid]
      /\ pending' = [pending EXCEPT ![c] = "none", ![current_proc] = "none"]
      /\ UNCHANGED <<current_proc, last_slot, mode, satp, ticks>>

SysFork == ForkNoSlot \/ ForkNoMemory \/ Fork

-----------------------------------------------------------------------------
(* proc_exit.  A process is waited for by its parent when the parent       *)
(* sleeps with wake_tick 0.                                                *)

Waiting(s) == state[s] = "SLEEPING" /\ wake_tick[s] = 0

(* kernel_pagetable() builds the kernel's page table at its first use.     *)
(* When the pool runs out meanwhile only the root goes back to the pool.   *)
KernelPtBuilt == KERNEL \in tables \/ pool >= KernPages

PoolWithKernelPt ==
  CASE KERNEL \in tables -> pool
    [] KERNEL \notin tables /\ KernelPtBuilt -> pool - KernPages
    [] ~KernelPtBuilt -> IF pool = 0 THEN 0 ELSE 1

(* Variant: proc_exit frees its page table while satp still holds it.      *)
OwnSatp == satp

(* vm_switch(kernel_pagetable()), which is a no-op without one, then       *)
(* vm_destroy of the page table of p.                                      *)
KernelSatp == IF KernelPtBuilt THEN KERNEL ELSE satp

DestroyOwnPagetable(p) ==
  /\ tables' = (tables \ {p}) \cup (IF KernelPtBuilt THEN {KERNEL} ELSE {})
  /\ pool' = PoolWithKernelPt + UserPages

(* Variant: the pid is not stored in the parent's frame.                   *)
ExitToWaiterNoStore(ret) ==
  LET p == current_proc
  IN  /\ parent[p] # NULL
      /\ Waiting(parent[p])
      /\ a0' = [a0 EXCEPT ![p] = ret]
      /\ DestroyOwnPagetable(p)
      /\ pid' = [pid EXCEPT ![p] = 0]
      /\ parent' = [parent EXCEPT ![p] = NULL]
      /\ Dispatch([state EXCEPT ![parent[p]] = "RUNNABLE", ![p] = "UNUSED"],
                  p, KernelSatp)

(* The parent is blocked in wait(): the exit completes it.                 *)
ExitToWaiter(ret) ==
  LET p == current_proc
  IN  /\ parent[p] # NULL
      /\ Waiting(parent[p])
      /\ a0' = [a0 EXCEPT ![parent[p]] = pid[p], ![p] = ret]
      /\ DestroyOwnPagetable(p)
      /\ pid' = [pid EXCEPT ![p] = 0]
      /\ parent' = [parent EXCEPT ![p] = NULL]
      /\ Dispatch([state EXCEPT ![parent[p]] = "RUNNABLE", ![p] = "UNUSED"],
                  p, KernelSatp)

ExitNoParent(ret) ==
  LET p == current_proc
  IN  /\ parent[p] = NULL
      /\ a0' = [a0 EXCEPT ![p] = ret]
      /\ DestroyOwnPagetable(p)
      /\ pid' = [pid EXCEPT ![p] = 0]
      /\ UNCHANGED parent
      /\ Dispatch([state EXCEPT ![p] = "UNUSED"], p, KernelSatp)

ExitToZombie(ret) ==
  LET p == current_proc
  IN  /\ parent[p] # NULL
      /\ ~Waiting(parent[p])
      /\ a0' = [a0 EXCEPT ![p] = ret]
      /\ Dispatch([state EXCEPT ![p] = "ZOMBIE"], p, satp)
      /\ UNCHANGED <<pid, parent, memory>>

proc_exit(ret) ==
  /\ mode = "user"
  /\ ExitToWaiter(ret) \/ ExitNoParent(ret) \/ ExitToZombie(ret)
  /\ Pending("none")
  /\ UNCHANGED <<ppid, wake_tick, next_pid, ticks>>

(* SYS_EXIT; syscall_dispatch still stores 0 in the caller's frame.        *)
SysExit == proc_exit(0)

(* Any other trap from user mode: proc_exit(-1).                           *)
FaultTrap == proc_exit(AnyVal)

-----------------------------------------------------------------------------
(* SYS_WAIT: proc_wait, then the store of its result by syscall_dispatch.  *)

Children(p) == {c \in Slots : state[c] # "UNUSED" /\ parent[c] = p}
ZombieChildren(p) == {c \in Children(p) : state[c] = "ZOMBIE"}

WaitReap ==
  LET c == Least(ZombieChildren(current_proc))
  IN  /\ mode = "user"
      /\ ZombieChildren(current_proc) # {}
      /\ state' = [state EXCEPT ![c] = "UNUSED"]
      /\ pid' = [pid EXCEPT ![c] = 0]
      /\ parent' = [parent EXCEPT ![c] = NULL]
      /\ tables' = tables \ {c}
      /\ pool' = pool + UserPages
      /\ a0' = [a0 EXCEPT ![current_proc] = pid[c]]
      /\ Pending("wait")
      /\ UNCHANGED <<current_proc, last_slot, mode, satp,
                     ppid, wake_tick, next_pid, ticks>>

WaitNoChild ==
  /\ mode = "user"
  /\ Children(current_proc) = {}
  /\ Return(-1)
  /\ Pending("wait")
  /\ UNCHANGED <<ident, memory, wake_tick, next_pid, ticks>>

(* Variant: wait() blocks without looking for a ZOMBIE first.              *)
WaitBlockNoScan ==
  /\ mode = "user"
  /\ Children(current_proc) # {}
  /\ Dispatch([state EXCEPT ![current_proc] = "SLEEPING"], current_proc, satp)
  /\ a0' = [a0 EXCEPT ![current_proc] = 0]
  /\ Pending("wait")
  /\ UNCHANGED <<ident, memory, wake_tick, next_pid, ticks>>

WaitBlock ==
  /\ mode = "user"
  /\ Children(current_proc) # {}
  /\ ZombieChildren(current_proc) = {}
  /\ Dispatch([state EXCEPT ![current_proc] = "SLEEPING"], current_proc, satp)
  /\ a0' = [a0 EXCEPT ![current_proc] = 0]
  /\ Pending("wait")
  /\ UNCHANGED <<ident, memory, wake_tick, next_pid, ticks>>

SysWait == WaitReap \/ WaitNoChild \/ WaitBlock

-----------------------------------------------------------------------------
(* SYS_SLEEP with n > 0, n already cut to the cap of sys_sleep.            *)
SysSleep(n) ==
  /\ mode = "user"
  /\ ticks + n <= MaxTicks
  /\ wake_tick' = [wake_tick EXCEPT ![current_proc] = ticks + n]
  /\ Dispatch([state EXCEPT ![current_proc] = "SLEEPING"], current_proc, satp)
  /\ a0' = [a0 EXCEPT ![current_proc] = 0]
  /\ Pending("sleep")
  /\ UNCHANGED <<ident, memory, next_pid, ticks>>

(* The calls that return at once and leave the process table alone: write, *)
(* getpid, ps, ls, cat, sleep(0), a read of a bad length, unknown numbers. *)
SysQuick ==
  /\ mode = "user"
  /\ Return(AnyVal)
  /\ Pending("none")
  /\ UNCHANGED <<ident, memory, wake_tick, next_pid, ticks>>

(* SYS_READ waits in uart_getc with interrupts off: no tick is taken until *)
(* the input arrives.                                                      *)
SysRead ==
  /\ mode = "user"
  /\ mode' = "read"
  /\ UNCHANGED <<state, current_proc, last_slot, satp, ident, memory,
                 wake_tick, a0, next_pid, ticks, pending>>

ReadDone ==
  /\ mode = "read"
  /\ mode' = "user"
  /\ a0' = [a0 EXCEPT ![current_proc] = AnyVal]
  /\ Pending("none")
  /\ UNCHANGED <<state, current_proc, last_slot, satp, ident, memory,
                 wake_tick, next_pid, ticks>>

-----------------------------------------------------------------------------
(* main(): vm_init, proc_init, timer_init, proc_create_init,               *)
(* proc_schedule, enter_user.  PID_FIRST is 1.                             *)
Init ==
  /\ state = [s \in Slots |-> IF s = 0 THEN "RUNNING" ELSE "UNUSED"]
  /\ pid = [s \in Slots |-> IF s = 0 THEN 1 ELSE 0]
  /\ parent = [s \in Slots |-> NULL]
  /\ wake_tick = [s \in Slots |-> 0]
  /\ a0 = [s \in Slots |-> 0]
  /\ current_proc = 0
  /\ last_slot = 0
  /\ next_pid = 2
  /\ ticks = 0
  /\ mode = "user"
  /\ satp = 0
  /\ tables = {0}
  /\ pool = PoolPages - UserPages
  /\ ppid = [s \in Slots |-> 0]
  /\ pending = [s \in Slots |-> "none"]

Next ==
  \/ TimerTrap
  \/ PollTick
  \/ SysFork
  \/ SysExit
  \/ FaultTrap
  \/ SysWait
  \/ \E n \in 1 .. MaxSleep : SysSleep(n)
  \/ SysQuick
  \/ SysRead
  \/ ReadDone

Spec == Init /\ [][Next]_vars

-----------------------------------------------------------------------------
(* The fields of proc.c, trap.c and vm.c hold values of their C types.     *)
TypeOK ==
  /\ state \in [Slots -> States]
  /\ pid \in [Slots -> Nat]
  /\ parent \in [Slots -> Slots \cup {NULL}]
  /\ wake_tick \in [Slots -> Nat]
  /\ a0 \in [Slots -> Int \cup {AnyVal}]
  /\ current_proc \in Slots \cup {NULL}
  /\ last_slot \in Slots
  /\ next_pid \in Nat
  /\ ticks \in Nat
  /\ mode \in {"user", "poll", "read"}
  /\ satp \in Slots \cup {KERNEL}
  /\ tables \subseteq Slots \cup {KERNEL}
  /\ pool \in Nat
  /\ ppid \in [Slots -> Nat]
  /\ pending \in [Slots -> {"none", "wait", "sleep"}]

(* The process the kernel calls current is the only RUNNING one, the scan  *)
(* of proc_schedule always starts from the slot dispatched last, and user  *)
(* code only ever runs on the page table of its own process.               *)
CurrentRuns ==
  /\ \A s \in Slots : state[s] = "RUNNING" <=> current_proc = s
  /\ mode = "poll" <=> current_proc = NULL
  /\ current_proc # NULL => last_slot = current_proc /\ satp = current_proc

(* No lost wakeup between proc_wait and proc_exit: a process blocked in    *)
(* wait() still has a child that will call proc_exit, and none of its      *)
(* children is a ZOMBIE it has missed.                                     *)
NoLostWakeup ==
  \A p \in Slots : Waiting(p) =>
    Children(p) # {} /\ ZombieChildren(p) = {}

(* proc_exit tells a wait() from a sleep() by wake_tick = 0 alone: every   *)
(* sleeper with a deadline is in sleep() and the deadline is still ahead,  *)
(* every one without is in wait(), and nobody else keeps a deadline.       *)
SleepersTellApart ==
  \A s \in Slots :
    /\ state[s] = "SLEEPING" /\ wake_tick[s] = 0 => pending[s] = "wait"
    /\ state[s] = "SLEEPING" /\ wake_tick[s] # 0 =>
         pending[s] = "sleep" /\ wake_tick[s] > ticks
    /\ state[s] # "SLEEPING" => wake_tick[s] = 0

(* What a process finds in a0 when it resumes: from wait() a pid or -1 and *)
(* never the 0 that sys_wait returned when it blocked, whichever of the    *)
(* stores of syscall_dispatch and proc_exit came last; from sleep() 0,     *)
(* whatever its children did meanwhile.                                    *)
ResumeValue ==
  \A s \in Slots :
    /\ pending[s] = "wait" /\ state[s] \in {"RUNNABLE", "RUNNING"} =>
         a0[s] = -1 \/ a0[s] \in 1 .. next_pid - 1
    /\ pending[s] = "sleep" /\ state[s] # "UNUSED" => a0[s] = 0

(* Pids of live slots are distinct, positive, below next_pid, and a        *)
(* process is never its own parent.                                        *)
UniquePids ==
  \A s \in Slots : state[s] # "UNUSED" =>
    /\ pid[s] \in 1 .. next_pid - 1
    /\ parent[s] # s
    /\ \A t \in Slots \ {s} : state[t] # "UNUSED" => pid[s] # pid[t]

(* Slots and page tables come and go together, and no page of the pool is  *)
(* lost or freed twice, whatever fork, exit and wait do.                   *)
PoolBalanced ==
  /\ \A s \in Slots : s \in tables <=> state[s] # "UNUSED"
  /\ pool + UserPages * Cardinality(tables \ {KERNEL})
          + (IF KERNEL \in tables THEN KernPages ELSE 0) = PoolPages

(* The page table in satp is never one that vm_destroy has given back,     *)
(* also while the kernel polls with no current process.                    *)
SatpLive == satp \in tables

(* The pool covers every slot and the kernel (1024 pages against 8 address *)
(* spaces in the build): kernel_pagetable() never fails.                   *)
AmplePool == PoolPages >= NPROC * UserPages + KernPages

-----------------------------------------------------------------------------
(* Slots the round-robin scan passes before it reaches s, plus one.        *)
Distance(from, s) == IF s > from THEN s - from ELSE s - from + NPROC

(* Every dispatch brings a process that stays RUNNABLE strictly closer to  *)
(* its turn: at most NPROC - 1 others are dispatched before it, whatever   *)
(* they do and whoever wakes up meanwhile.                                 *)
BoundedBypass ==
  [][\A s \in Slots :
       state[s] = "RUNNABLE" /\ state'[s] = "RUNNABLE"
       /\ last_slot' # last_slot =>
         Distance(last_slot', s) < Distance(last_slot, s)]_vars

-----------------------------------------------------------------------------
(* Timer interrupts keep arriving: whenever user code runs again and again *)
(* one is eventually taken, and the polling loop keeps ticking by itself.  *)
KernelFairness == SF_vars(TimerTrap) /\ WF_vars(PollTick)

(* The user at the console eventually types what a read waits for.         *)
InputFairness == WF_vars(ReadDone)

FairSpec == Spec /\ KernelFairness /\ InputFairness

(* A RUNNABLE process is eventually dispatched.                            *)
NoStarvation ==
  \A s \in Slots : state[s] = "RUNNABLE" ~> state[s] = "RUNNING"

(* A process in sleep() is eventually woken.  The comment in sys_sleep     *)
(* (syscall.c:68-72), which calls the resume by the timer interrupt        *)
(* "currently failing" and announces a busy wait instead, is out of date:  *)
(* the code below it blocks, and the timer does resume it.                 *)
SleepersWake ==
  \A s \in Slots : (state[s] = "SLEEPING" /\ wake_tick[s] # 0)
                     ~> state[s] \in {"RUNNABLE", "RUNNING"}

-----------------------------------------------------------------------------
(* The page tables and the pool, as vm.c keeps them for proc.c.            *)
Memory == INSTANCE PagePool

(* fork, exit and wait use vm.c as PagePool describes it.                  *)
ImplementsPagePool == Memory!Spec

Process(s) == <<pid[s], ppid[s]>>

Processes == INSTANCE ProcLifecycle WITH
  live <- {Process(s) : s \in {t \in Slots : state[t] \notin {"UNUSED", "ZOMBIE"}}},
  zombie <- {Process(s) : s \in {t \in Slots : state[t] = "ZOMBIE"}},
  next <- next_pid

(* Seen through its pids alone, whatever slot, trap, tick or failed fork   *)
(* is behind a step, one process at most is forked, exits or is reaped,    *)
(* none comes back, and no pid is used again: next_pid only grows.  The    *)
(* guide says otherwise, that wait() "frees the PID for reuse"             *)
(* (NanoBoot_VIVA_AND_DEMO_GUIDE.md:150); proc.c frees the slot alone.     *)
ImplementsLifecycle == Processes!Spec

-----------------------------------------------------------------------------
(* The guide on wait(): it "searches for child processes ... and returns   *)
(* the child PID".  A process that wait() or a blocked wait() takes away   *)
(* was forked by the process that gets its pid.                            *)
ReapedByForker ==
  [][\A c \in Slots :
       state[c] # "UNUSED" /\ state'[c] = "UNUSED" /\ parent[c] # NULL =>
         pid[parent[c]] = ppid[c]]_vars
=============================================================================
