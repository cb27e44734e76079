--------------------------- MODULE NanoProcProofs ---------------------------
(***************************************************************************)
(* Proofs about NanoProc and NanoShell, for every number of slots, every   *)
(* pool and every bound: the invariants of the process table, the two      *)
(* abstract specifications that it implements, and what the shipped shell  *)
(* makes of it.                                                            *)
(***************************************************************************)
EXTENDS NanoShell, WellFoundedInduction, FiniteSetTheorems, TLAPS

(* SMT takes a step first, except where a step names Zenon first.  A step  *)
(* that runs out of time is tried a second time.                           *)
USE SMT, Zenon, Z3, ZenonT(20)

(* A non-empty set of naturals has a least element, and Least returns it.  *)
LEMMA LeastIsLeast ==
  ASSUME NEW S \in SUBSET Nat, S # {}
  PROVE  Least(S) \in S /\ \A y \in S : Least(S) <= y
<1>1. \E x \in S : \A y \in S : ~ (<<y, x>> \in OpToRel(<, Nat))
  BY NatLessThanWellFounded, WFMin, Zenon, SMT
<1>2. \A x, y \in Nat : <<y, x>> \in OpToRel(<, Nat) <=> y < x
  BY DEF OpToRel
<1>3. PICK x \in S : \A y \in S : ~ (<<y, x>> \in OpToRel(<, Nat))
  BY <1>1, Zenon, SMT
<1>4. \A y \in S : ~ (y < x)
  BY <1>2, <1>3, Zenon, SMT
<1>5. \A y \in S : x <= y
  BY <1>4
<1> QED
  BY <1>5, Zenon, SMT DEF Least

(* The scan of proc_schedule stays inside the table.                       *)
LEMMA ScanInTable ==
  ASSUME NEW start \in Slots, NEW n \in 1 .. NPROC
  PROVE  /\ (start + n) % NPROC \in Slots
         /\ (start + n) % NPROC = IF start + n < NPROC THEN start + n
                                  ELSE start + n - NPROC
<1>1. CASE start + n < NPROC
  <2>1. (start + n) % NPROC = start + n
    BY <1>1, NProcAssumption DEF Slots
  <2> QED BY <1>1, <2>1, NProcAssumption DEF Slots
<1>2. CASE ~(start + n < NPROC)
  <2>1. (start + n) % NPROC = start + n - NPROC
    BY <1>2, NProcAssumption DEF Slots
  <2> QED BY <1>2, <2>1, NProcAssumption DEF Slots
<1> QED BY <1>1, <1>2

(* proc_schedule returns a RUNNABLE slot, or NULL.                         *)
LEMMA NextSlotRunnable ==
  ASSUME NEW st \in [Slots -> States], NEW start \in Slots,
         NextSlot(st, start) # NULL
  PROVE  /\ NextSlot(st, start) \in Slots
         /\ st[NextSlot(st, start)] = "RUNNABLE"
<1> DEFINE R == RunnableDistances(st, start)
<1>1. R # {} /\ R \in SUBSET Nat
  BY NProcAssumption DEF NextSlot, RunnableDistances
<1>2. Least(R) \in R
  BY <1>1, LeastIsLeast
<1>3. Least(R) \in 1 .. NPROC /\ st[(start + Least(R)) % NPROC] = "RUNNABLE"
  BY <1>2 DEF RunnableDistances
<1>4. NextSlot(st, start) = (start + Least(R)) % NPROC
  BY <1>1 DEF NextSlot
<1> QED
  BY <1>3, <1>4, ScanInTable

(* What proc_schedule and the end of the trap do to the scheduler's state. *)
LEMMA DispatchEffect ==
  ASSUME NEW st \in [Slots -> States], NEW start \in Slots,
         NEW sp \in Slots \cup {KERNEL},
         \A s \in Slots : st[s] # "RUNNING",
         last_slot \in Slots,
         Dispatch(st, start, sp)
  PROVE  /\ state' \in [Slots -> States]
         /\ current_proc' \in Slots \cup {NULL}
         /\ last_slot' \in Slots
         /\ mode' \in {"user", "poll", "read"}
         /\ satp' \in Slots \cup {KERNEL}
         /\ \A s \in Slots : state'[s] = "RUNNING" <=> current_proc' = s
         /\ mode' = "poll" <=> current_proc' = NULL
         /\ current_proc' # NULL =>
              last_slot' = current_proc' /\ satp' = current_proc'
         /\ current_proc' = NULL => satp' = sp
         /\ \A s \in Slots : \/ state'[s] = st[s]
                             \/ st[s] = "RUNNABLE" /\ state'[s] = "RUNNING"
<1> DEFINE next == NextSlot(st, start)
<1>1. CASE next = NULL
  BY <1>1, SentinelAssumption DEF Dispatch
<1>2. CASE next # NULL
  <2>1. next \in Slots /\ st[next] = "RUNNABLE"
    BY <1>2, NextSlotRunnable
  <2>2. /\ current_proc' = next /\ last_slot' = next /\ satp' = next
        /\ mode' = "user"
        /\ state' = [st EXCEPT ![next] = "RUNNING"]
    BY <1>2 DEF Dispatch
  <2> HIDE DEF next
  <2> QED
    BY <2>1, <2>2, SentinelAssumption DEF States
<1> QED
  BY <1>1, <1>2

(* The slot proc_fork takes.                                               *)
LEMMA FirstFreeSlot ==
  ASSUME FreeSlots # {}
  PROVE  Least(FreeSlots) \in Slots /\ state[Least(FreeSlots)] = "UNUSED"
<1>1. FreeSlots \in SUBSET Nat
  BY NProcAssumption DEF FreeSlots, Slots
<1>2. Least(FreeSlots) \in FreeSlots
  BY <1>1, LeastIsLeast
<1> QED
  BY <1>2 DEF FreeSlots

(* The child proc_wait reaps.                                              *)
LEMMA FirstZombie ==
  ASSUME NEW p, ZombieChildren(p) # {}
  PROVE  /\ Least(ZombieChildren(p)) \in Slots
         /\ state[Least(ZombieChildren(p))] = "ZOMBIE"
         /\ parent[Least(ZombieChildren(p))] = p
<1>1. ZombieChildren(p) \in SUBSET Nat
  BY NProcAssumption DEF ZombieChildren, Children, Slots
<1>2. Least(ZombieChildren(p)) \in ZombieChildren(p)
  BY <1>1, LeastIsLeast
<1> QED
  BY <1>2 DEF ZombieChildren, Children

-----------------------------------------------------------------------------
(* The process-table invariant: inductive as a whole, not part by part.    *)
(* NoLostWakeup needs UniquePids (no process is its own parent) and        *)
(* CurrentRuns (only the current process exits); ResumeValue needs         *)
(* SleepersTellApart (an exit never stores into the frame of a process in  *)
(* sleep()).                                                               *)
TableInv ==
  /\ TypeOK
  /\ CurrentRuns
  /\ NoLostWakeup
  /\ SleepersTellApart
  /\ ResumeValue
  /\ UniquePids
  /\ next_pid >= 2

(* The state main() hands to the first process satisfies the invariant.    *)
LEMMA InitTable == Init => TableInv
<1> SUFFICES ASSUME Init PROVE TableInv
  OBVIOUS
<1> USE DEF Init
<1>1. 0 \in Slots
  BY NProcAssumption DEF Slots
<1>2. TypeOK
  BY <1>1, PagesAssumption DEF TypeOK, States
<1>3. CurrentRuns
  BY <1>1, SentinelAssumption DEF CurrentRuns
<1>4. NoLostWakeup /\ SleepersTellApart /\ ResumeValue
  BY DEF NoLostWakeup, SleepersTellApart, ResumeValue, Waiting
<1>5. UniquePids
  BY <1>1, SentinelAssumption DEF UniquePids
<1> QED
  BY <1>2, <1>3, <1>4, <1>5 DEF TableInv

(* In user mode there is a current process, and it is RUNNING.             *)
LEMMA UserModeHasCurrent ==
  ASSUME TableInv, mode # "poll"
  PROVE  current_proc \in Slots /\ state[current_proc] = "RUNNING"
BY DEF TableInv, TypeOK, CurrentRuns

(* The timer interrupt of user mode: wake-ups, then a dispatch.            *)
LEMMA TimerTrapTable == TableInv /\ TimerTrap => TableInv'
<1> SUFFICES ASSUME TableInv, TimerTrap PROVE TableInv'
  OBVIOUS
<1> DEFINE st == [Woken(NextTick) EXCEPT ![current_proc] = "RUNNABLE"]
<1>1. current_proc \in Slots /\ state[current_proc] = "RUNNING"
  BY UserModeHasCurrent DEF TimerTrap
<1>2. st \in [Slots -> States] /\ \A s \in Slots : st[s] # "RUNNING"
  BY <1>1 DEF TableInv, TypeOK, CurrentRuns, Woken, States
<1>3. /\ last_slot \in Slots /\ satp \in Slots \cup {KERNEL}
      /\ Dispatch(st, current_proc, satp)
  BY DEF TableInv, TypeOK, TimerTrap
<1>4. \A s \in Slots :
        st[s] = IF s = current_proc \/ Expired(s, NextTick) THEN "RUNNABLE"
                ELSE state[s]
  BY <1>1 DEF Woken
<1> HIDE DEF st
<1>5. /\ state' \in [Slots -> States]
      /\ current_proc' \in Slots \cup {NULL}
      /\ last_slot' \in Slots
      /\ mode' \in {"user", "poll", "read"}
      /\ satp' \in Slots \cup {KERNEL}
      /\ CurrentRuns'
      /\ \A s \in Slots : \/ state'[s] = st[s]
                          \/ st[s] = "RUNNABLE" /\ state'[s] = "RUNNING"
  BY <1>1, <1>2, <1>3, DispatchEffect DEF CurrentRuns
<1>6. /\ UNCHANGED <<pid, parent, ppid, tables, pool, next_pid>>
      /\ \/ UNCHANGED <<a0, pending>>
         \/ /\ a0' = [a0 EXCEPT ![current_proc] = AnyVal]
            /\ pending' = [pending EXCEPT ![current_proc] = "none"]
      /\ ticks' = NextTick
      /\ wake_tick' = [s \in Slots |-> IF Expired(s, NextTick) THEN 0
                                       ELSE wake_tick[s]]
  BY DEF TimerTrap, SaveUserRegs, Pending, timer_tick, ident, memory
<1>7. NextTick \in Nat
  BY BoundsAssumption DEF NextTick, TableInv, TypeOK
<1>8. TypeOK' /\ next_pid' >= 2
  BY <1>1, <1>5, <1>6, <1>7 DEF TableInv, TypeOK
<1>9. NoLostWakeup'
  <2> SUFFICES ASSUME NEW p \in Slots, Waiting(p)'
               PROVE  Children(p)' # {} /\ ZombieChildren(p)' = {}
    BY DEF NoLostWakeup
  <2>1. Waiting(p) /\ p # current_proc
    BY <1>1, <1>4, <1>5, <1>6 DEF Waiting, Expired
  <2>2. Children(p) # {} /\ ZombieChildren(p) = {}
    BY <2>1 DEF TableInv, NoLostWakeup
  <2>3. \A c \in Slots :
          /\ state'[c] = "UNUSED" <=> state[c] = "UNUSED"
          /\ state'[c] = "ZOMBIE" <=> state[c] = "ZOMBIE"
    BY <1>1, <1>4, <1>5 DEF Expired
  <2> QED
    BY <1>6, <2>2, <2>3 DEF Children, ZombieChildren
<1>10. SleepersTellApart'
  BY <1>1, <1>4, <1>5, <1>6, <1>7, BoundsAssumption
  DEF SleepersTellApart, TableInv, TypeOK, Expired, NextTick
<1>11. ResumeValue'
  BY <1>1, <1>4, <1>5, <1>6
  DEF ResumeValue, TableInv, TypeOK, Expired, SleepersTellApart
<1>12. UniquePids'
  BY <1>1, <1>4, <1>5, <1>6 DEF UniquePids, TableInv, TypeOK, Expired
<1> QED
  BY <1>5, <1>8, <1>9, <1>10, <1>11, <1>12 DEF TableInv

(* A round of the polling loop of trap_handler.                            *)
LEMMA PollTickTable == TableInv /\ PollTick => TableInv'
<1> SUFFICES ASSUME TableInv, PollTick PROVE TableInv'
  OBVIOUS
<1> DEFINE st == Woken(NextTick)
<1>1. last_slot \in Slots /\ satp \in Slots \cup {KERNEL}
  BY DEF TableInv, TypeOK
<1>2. st \in [Slots -> States] /\ \A s \in Slots : st[s] # "RUNNING"
  BY SentinelAssumption
  DEF TableInv, TypeOK, CurrentRuns, Woken, States, PollTick
<1>3. Dispatch(st, last_slot, satp)
  BY DEF PollTick
<1>4. \A s \in Slots :
        st[s] = IF Expired(s, NextTick) THEN "RUNNABLE" ELSE state[s]
  BY DEF Woken
<1> HIDE DEF st
<1>5. /\ state' \in [Slots -> States]
      /\ current_proc' \in Slots \cup {NULL}
      /\ last_slot' \in Slots
      /\ mode' \in {"user", "poll", "read"}
      /\ satp' \in Slots \cup {KERNEL}
      /\ CurrentRuns'
      /\ \A s \in Slots : \/ state'[s] = st[s]
                          \/ st[s] = "RUNNABLE" /\ state'[s] = "RUNNING"
  BY <1>1, <1>2, <1>3, DispatchEffect DEF CurrentRuns
<1>6. /\ UNCHANGED <<pid, parent, ppid, tables, pool, next_pid, a0, pending>>
      /\ ticks' = NextTick
      /\ wake_tick' = [s \in Slots |-> IF Expired(s, NextTick) THEN 0
                                       ELSE wake_tick[s]]
  BY DEF PollTick, timer_tick, ident, memory
<1>7. NextTick \in Nat
  BY BoundsAssumption DEF NextTick, TableInv, TypeOK
<1>8. TypeOK' /\ next_pid' >= 2
  BY <1>5, <1>6, <1>7 DEF TableInv, TypeOK
<1>9. NoLostWakeup'
  <2> SUFFICES ASSUME NEW p \in Slots, Waiting(p)'
               PROVE  Children(p)' # {} /\ ZombieChildren(p)' = {}
    BY DEF NoLostWakeup
  <2>1. Waiting(p)
    BY <1>4, <1>5, <1>6 DEF Waiting, Expired
  <2>2. Children(p) # {} /\ ZombieChildren(p) = {}
    BY <2>1 DEF TableInv, NoLostWakeup
  <2>3. \A c \in Slots :
          /\ state'[c] = "UNUSED" <=> state[c] = "UNUSED"
          /\ state'[c] = "ZOMBIE" <=> state[c] = "ZOMBIE"
    BY <1>4, <1>5 DEF Expired
  <2> QED
    BY <1>6, <2>2, <2>3 DEF Children, ZombieChildren
<1>10. SleepersTellApart'
  BY <1>4, <1>5, <1>6, <1>7, BoundsAssumption
  DEF SleepersTellApart, TableInv, TypeOK, Expired, NextTick
<1>11. ResumeValue'
  BY <1>4, <1>5, <1>6
  DEF ResumeValue, TableInv, TypeOK, Expired, SleepersTellApart
<1>12. UniquePids'
  BY <1>4, <1>5, <1>6 DEF UniquePids, TableInv, TypeOK, Expired
<1> QED
  BY <1>5, <1>8, <1>9, <1>10, <1>11, <1>12 DEF TableInv

(* A proc_fork that succeeds: the new slot gets a fresh pid.               *)
LEMMA ForkTable == TableInv /\ Fork => TableInv'
<1> SUFFICES ASSUME TableInv, Fork PROVE TableInv'
  OBVIOUS
<1> DEFINE c == Least(FreeSlots)
           q == current_proc
<1>1. q \in Slots /\ state[q] = "RUNNING"
  BY UserModeHasCurrent DEF Fork
<1>2. c \in Slots /\ state[c] = "UNUSED" /\ c # q
  BY <1>1, FirstFreeSlot DEF Fork
<1>3. /\ UNCHANGED <<current_proc, last_slot, mode, satp, ticks>>
      /\ pid' = [pid EXCEPT ![c] = next_pid]
      /\ parent' = [parent EXCEPT ![c] = q]
      /\ ppid' = [ppid EXCEPT ![c] = pid[q]]
      /\ wake_tick' = [wake_tick EXCEPT ![c] = 0]
      /\ next_pid' = next_pid + 1
      /\ tables' = tables \cup {c}
      /\ pool >= UserPages /\ pool' = pool - UserPages
      /\ state' = [state EXCEPT ![c] = "RUNNABLE"]
      /\ a0' = [a0 EXCEPT ![c] = 0, ![q] = next_pid]
      /\ pending' = [pending EXCEPT ![c] = "none", ![q] = "none"]
  BY DEF Fork, FillSlot
<1> HIDE DEF c
<1>4. TypeOK' /\ next_pid' >= 2
  BY <1>1, <1>2, <1>3, PagesAssumption DEF TableInv, TypeOK, States
<1>5. CurrentRuns'
  BY <1>1, <1>2, <1>3 DEF TableInv, TypeOK, CurrentRuns
<1>6. NoLostWakeup'
  <2> SUFFICES ASSUME NEW p \in Slots, Waiting(p)'
               PROVE  Children(p)' # {} /\ ZombieChildren(p)' = {}
    BY DEF NoLostWakeup
  <2>1. Waiting(p)
    BY <1>2, <1>3 DEF Waiting, TableInv, TypeOK
  <2>2. Children(p) # {} /\ ZombieChildren(p) = {}
    BY <2>1 DEF TableInv, NoLostWakeup
  <2> QED
    BY <1>1, <1>2, <1>3, <2>1, <2>2
    DEF Children, ZombieChildren, Waiting, TableInv, TypeOK
<1>7. SleepersTellApart'
  BY <1>1, <1>2, <1>3 DEF SleepersTellApart, TableInv, TypeOK
<1>8. ResumeValue'
  BY <1>1, <1>2, <1>3 DEF ResumeValue, TableInv, TypeOK
<1>9. UniquePids'
  BY <1>1, <1>2, <1>3 DEF UniquePids, TableInv, TypeOK
<1> QED
  BY <1>4, <1>5, <1>6, <1>7, <1>8, <1>9 DEF TableInv

(* A proc_fork whose vm_clone_user fails leaves the slot UNUSED.           *)
LEMMA ForkNoMemoryTable == TableInv /\ ForkNoMemory => TableInv'
<1> SUFFICES ASSUME TableInv, ForkNoMemory PROVE TableInv'
  OBVIOUS
<1> DEFINE c == Least(FreeSlots)
           q == current_proc
<1>1. q \in Slots /\ state[q] = "RUNNING"
  BY UserModeHasCurrent DEF ForkNoMemory
<1>2. c \in Slots /\ state[c] = "UNUSED" /\ c # q
  BY <1>1, FirstFreeSlot DEF ForkNoMemory
<1>3. /\ UNCHANGED <<state, current_proc, last_slot, mode, satp, ticks,
                     tables, pool>>
      /\ pid' = [pid EXCEPT ![c] = next_pid]
      /\ parent' = [parent EXCEPT ![c] = q]
      /\ ppid' = [ppid EXCEPT ![c] = pid[q]]
      /\ wake_tick' = [wake_tick EXCEPT ![c] = 0]
      /\ next_pid' = next_pid + 1
      /\ a0' = [a0 EXCEPT ![q] = -1]
      /\ pending' = [pending EXCEPT ![q] = "none"]
  BY DEF ForkNoMemory, FillSlot, Return, Pending, sched, memory
<1> HIDE DEF c
<1>4. TypeOK' /\ next_pid' >= 2
  BY <1>1, <1>2, <1>3 DEF TableInv, TypeOK
<1>5. CurrentRuns'
  BY <1>3 DEF TableInv, CurrentRuns
<1>6. NoLostWakeup'
  <2> SUFFICES ASSUME NEW p \in Slots, Waiting(p)'
               PROVE  Children(p)' # {} /\ ZombieChildren(p)' = {}
    BY DEF NoLostWakeup
  <2>1. Waiting(p)
    BY <1>2, <1>3 DEF Waiting, TableInv, TypeOK
  <2>2. Children(p) # {} /\ ZombieChildren(p) = {}
    BY <2>1 DEF TableInv, NoLostWakeup
  <2> QED
    BY <1>2, <1>3, <2>2 DEF Children, ZombieChildren, TableInv, TypeOK
<1>7. SleepersTellApart'
  BY <1>1, <1>2, <1>3 DEF SleepersTellApart, TableInv, TypeOK
<1>8. ResumeValue'
  BY <1>1, <1>2, <1>3 DEF ResumeValue, TableInv, TypeOK
<1>9. UniquePids'
  BY <1>1, <1>2, <1>3 DEF UniquePids, TableInv, TypeOK
<1> QED
  BY <1>4, <1>5, <1>6, <1>7, <1>8, <1>9 DEF TableInv

(* What building the kernel page table leaves in the pool.                 *)
LEMMA PoolAfterKernelPt ==
  ASSUME TypeOK
  PROVE  PoolWithKernelPt \in Nat /\ KernelSatp \in Slots \cup {KERNEL}
BY PagesAssumption DEF PoolWithKernelPt, KernelPtBuilt, KernelSatp, TypeOK

(* The proc_exit that completes the parent's wait().                       *)
LEMMA ExitToWaiterTable ==
  ASSUME NEW ret \in {0, AnyVal}
  PROVE  TableInv /\ proc_exit(ret) /\ ExitToWaiter(ret) => TableInv'
<1> SUFFICES ASSUME TableInv, proc_exit(ret), ExitToWaiter(ret)
             PROVE  TableInv'
  OBVIOUS
<1> DEFINE p == current_proc
           w == parent[current_proc]
           st == [state EXCEPT ![w] = "RUNNABLE", ![p] = "UNUSED"]
<1>1. /\ p \in Slots /\ state[p] = "RUNNING"
      /\ w \in Slots /\ state[w] = "SLEEPING" /\ wake_tick[w] = 0
      /\ pending[w] = "wait"
      /\ last_slot \in Slots /\ KernelSatp \in Slots \cup {KERNEL}
      /\ PoolWithKernelPt \in Nat
  <2>1. p \in Slots /\ state[p] = "RUNNING"
    BY UserModeHasCurrent DEF proc_exit
  <2>2. w \in Slots /\ state[w] = "SLEEPING" /\ wake_tick[w] = 0
    BY <2>1 DEF ExitToWaiter, Waiting, TableInv, TypeOK
  <2> QED
    BY <2>1, <2>2, PoolAfterKernelPt DEF TableInv, TypeOK, SleepersTellApart
<1>2. st \in [Slots -> States] /\ \A s \in Slots : st[s] # "RUNNING"
  BY <1>1 DEF TableInv, TypeOK, CurrentRuns, States
<1>3. Dispatch(st, p, KernelSatp)
  BY DEF ExitToWaiter
<1>4. \A s \in Slots :
        st[s] = IF s = p THEN "UNUSED"
                ELSE IF s = w THEN "RUNNABLE" ELSE state[s]
  BY <1>1 DEF TableInv, TypeOK
<1> HIDE DEF st
<1>5. /\ state' \in [Slots -> States]
      /\ current_proc' \in Slots \cup {NULL}
      /\ last_slot' \in Slots
      /\ mode' \in {"user", "poll", "read"}
      /\ satp' \in Slots \cup {KERNEL}
      /\ CurrentRuns'
      /\ \A s \in Slots : \/ state'[s] = st[s]
                          \/ st[s] = "RUNNABLE" /\ state'[s] = "RUNNING"
  BY <1>1, <1>2, <1>3, DispatchEffect DEF CurrentRuns
<1>6. /\ UNCHANGED <<ppid, wake_tick, next_pid, ticks>>
      /\ a0' = [a0 EXCEPT ![w] = pid[p], ![p] = ret]
      /\ pending' = [pending EXCEPT ![p] = "none"]
      /\ pid' = [pid EXCEPT ![p] = 0]
      /\ parent' = [parent EXCEPT ![p] = NULL]
      /\ pool' = PoolWithKernelPt + UserPages
      /\ tables' \subseteq tables \cup {KERNEL}
  BY DEF proc_exit, ExitToWaiter, DestroyOwnPagetable, Pending
<1>7. TypeOK' /\ next_pid' >= 2
  BY <1>1, <1>5, <1>6, PagesAssumption DEF TableInv, TypeOK
<1>8. NoLostWakeup'
  <2> SUFFICES ASSUME NEW q \in Slots, Waiting(q)'
               PROVE  Children(q)' # {} /\ ZombieChildren(q)' = {}
    BY DEF NoLostWakeup
  <2>1. Waiting(q) /\ q # w /\ q # p
    BY <1>1, <1>4, <1>5, <1>6 DEF Waiting
  <2>2. Children(q) # {} /\ ZombieChildren(q) = {}
    BY <2>1 DEF TableInv, NoLostWakeup
  <2>3. p \notin Children(q)
    BY <2>1 DEF Children
  <2>4. \A s \in Slots \ {p} :
          /\ state'[s] = "UNUSED" <=> state[s] = "UNUSED"
          /\ state'[s] = "ZOMBIE" <=> state[s] = "ZOMBIE"
          /\ parent'[s] = parent[s]
    BY <1>1, <1>4, <1>5, <1>6 DEF TableInv, TypeOK
  <2>5. state'[p] = "UNUSED"
    BY <1>1, <1>4, <1>5
  <2> QED
    BY <2>2, <2>3, <2>4, <2>5 DEF Children, ZombieChildren
<1>9. SleepersTellApart'
  BY <1>1, <1>4, <1>5, <1>6 DEF SleepersTellApart, TableInv, TypeOK
<1>10. ResumeValue'
  BY <1>1, <1>4, <1>5, <1>6
  DEF ResumeValue, UniquePids, TableInv, TypeOK
<1>11. UniquePids'
  BY <1>1, <1>4, <1>5, <1>6 DEF UniquePids, TableInv, TypeOK
<1> QED
  BY <1>5, <1>7, <1>8, <1>9, <1>10, <1>11 DEF TableInv

(* The proc_exit of a process without a parent.                            *)
LEMMA ExitNoParentTable ==
  ASSUME NEW ret \in {0, AnyVal}
  PROVE  TableInv /\ proc_exit(ret) /\ ExitNoParent(ret) => TableInv'
<1> SUFFICES ASSUME TableInv, proc_exit(ret), ExitNoParent(ret)
             PROVE  TableInv'
  OBVIOUS
<1> DEFINE p == current_proc
           st == [state EXCEPT ![p] = "UNUSED"]
<1>1. /\ p \in Slots /\ state[p] = "RUNNING" /\ parent[p] = NULL
      /\ last_slot \in Slots /\ KernelSatp \in Slots \cup {KERNEL}
      /\ PoolWithKernelPt \in Nat
  BY UserModeHasCurrent, PoolAfterKernelPt
  DEF proc_exit, ExitNoParent, TableInv, TypeOK
<1>2. st \in [Slots -> States] /\ \A s \in Slots : st[s] # "RUNNING"
  BY <1>1 DEF TableInv, TypeOK, CurrentRuns, States
<1>3. Dispatch(st, p, KernelSatp)
  BY DEF ExitNoParent
<1>4. \A s \in Slots : st[s] = IF s = p THEN "UNUSED" ELSE state[s]
  BY <1>1 DEF TableInv, TypeOK
<1> HIDE DEF st
<1>5. /\ state' \in [Slots -> States]
      /\ current_proc' \in Slots \cup {NULL}
      /\ last_slot' \in Slots
      /\ mode' \in {"user", "poll", "read"}
      /\ satp' \in Slots \cup {KERNEL}
      /\ CurrentRuns'
      /\ \A s \in Slots : \/ state'[s] = st[s]
                          \/ st[s] = "RUNNABLE" /\ state'[s] = "RUNNING"
  BY <1>1, <1>2, <1>3, DispatchEffect DEF CurrentRuns
<1>6. /\ UNCHANGED <<parent, ppid, wake_tick, next_pid, ticks>>
      /\ a0' = [a0 EXCEPT ![p] = ret]
      /\ pending' = [pending EXCEPT ![p] = "none"]
      /\ pid' = [pid EXCEPT ![p] = 0]
      /\ pool' = PoolWithKernelPt + UserPages
      /\ tables' \subseteq tables \cup {KERNEL}
  BY DEF proc_exit, ExitNoParent, DestroyOwnPagetable, Pending
<1>7. TypeOK' /\ next_pid' >= 2
  BY <1>1, <1>5, <1>6, PagesAssumption DEF TableInv, TypeOK
<1>8. NoLostWakeup'
  <2> SUFFICES ASSUME NEW q \in Slots, Waiting(q)'
               PROVE  Children(q)' # {} /\ ZombieChildren(q)' = {}
    BY DEF NoLostWakeup
  <2>1. Waiting(q) /\ q # p
    BY <1>1, <1>4, <1>5, <1>6 DEF Waiting
  <2>2. Children(q) # {} /\ ZombieChildren(q) = {}
    BY <2>1 DEF TableInv, NoLostWakeup
  <2>3. p \notin Children(q)
    BY <1>1, SentinelAssumption DEF Children
  <2>4. \A s \in Slots \ {p} :
          /\ state'[s] = "UNUSED" <=> state[s] = "UNUSED"
          /\ state'[s] = "ZOMBIE" <=> state[s] = "ZOMBIE"
    BY <1>1, <1>4, <1>5
  <2>5. state'[p] = "UNUSED"
    BY <1>1, <1>4, <1>5
  <2> QED
    BY <1>6, <2>2, <2>3, <2>4, <2>5 DEF Children, ZombieChildren
<1>9. SleepersTellApart'
  BY <1>1, <1>4, <1>5, <1>6 DEF SleepersTellApart, TableInv, TypeOK
<1>10. ResumeValue'
  BY <1>1, <1>4, <1>5, <1>6 DEF ResumeValue, TableInv, TypeOK
<1>11. UniquePids'
  BY <1>1, <1>4, <1>5, <1>6 DEF UniquePids, TableInv, TypeOK
<1> QED
  BY <1>5, <1>7, <1>8, <1>9, <1>10, <1>11 DEF TableInv

(* The proc_exit that leaves a ZOMBIE: the parent is not in wait().        *)
LEMMA ExitToZombieTable ==
  ASSUME NEW ret \in {0, AnyVal}
  PROVE  TableInv /\ proc_exit(ret) /\ ExitToZombie(ret) => TableInv'
<1> SUFFICES ASSUME TableInv, proc_exit(ret), ExitToZombie(ret)
             PROVE  TableInv'
  OBVIOUS
<1> DEFINE p == current_proc
           st == [state EXCEPT ![p] = "ZOMBIE"]
<1>1. /\ p \in Slots /\ state[p] = "RUNNING"
      /\ ~Waiting(parent[p])
      /\ last_slot \in Slots /\ satp \in Slots \cup {KERNEL}
  BY UserModeHasCurrent DEF proc_exit, ExitToZombie, TableInv, TypeOK
<1>2. st \in [Slots -> States] /\ \A s \in Slots : st[s] # "RUNNING"
  BY <1>1 DEF TableInv, TypeOK, CurrentRuns, States
<1>3. Dispatch(st, p, satp)
  BY DEF ExitToZombie
<1>4. \A s \in Slots : st[s] = IF s = p THEN "ZOMBIE" ELSE state[s]
  BY <1>1 DEF TableInv, TypeOK
<1> HIDE DEF st
<1>5. /\ state' \in [Slots -> States]
      /\ current_proc' \in Slots \cup {NULL}
      /\ last_slot' \in Slots
      /\ mode' \in {"user", "poll", "read"}
      /\ satp' \in Slots \cup {KERNEL}
      /\ CurrentRuns'
      /\ \A s \in Slots : \/ state'[s] = st[s]
                          \/ st[s] = "RUNNABLE" /\ state'[s] = "RUNNING"
  BY <1>1, <1>2, <1>3, DispatchEffect DEF CurrentRuns
<1>6. /\ UNCHANGED <<pid, parent, ppid, wake_tick, next_pid, ticks, tables,
                     pool>>
      /\ a0' = [a0 EXCEPT ![p] = ret]
      /\ pending' = [pending EXCEPT ![p] = "none"]
  BY DEF proc_exit, ExitToZombie, Pending, memory
<1>7. TypeOK' /\ next_pid' >= 2
  BY <1>1, <1>5, <1>6 DEF TableInv, TypeOK
<1>8. NoLostWakeup'
  <2> SUFFICES ASSUME NEW q \in Slots, Waiting(q)'
               PROVE  Children(q)' # {} /\ ZombieChildren(q)' = {}
    BY DEF NoLostWakeup
  <2>1. Waiting(q) /\ q # p
    BY <1>1, <1>4, <1>5, <1>6 DEF Waiting
  <2>2. Children(q) # {} /\ ZombieChildren(q) = {}
    BY <2>1 DEF TableInv, NoLostWakeup
  <2>3. parent[p] # q
    BY <1>1, <2>1
  <2>4. \A s \in Slots \ {p} :
          /\ state'[s] = "UNUSED" <=> state[s] = "UNUSED"
          /\ state'[s] = "ZOMBIE" <=> state[s] = "ZOMBIE"
    BY <1>1, <1>4, <1>5
  <2> QED
    BY <1>6, <2>2, <2>3, <2>4 DEF Children, ZombieChildren
<1>9. SleepersTellApart'
  BY <1>1, <1>4, <1>5, <1>6 DEF SleepersTellApart, TableInv, TypeOK
<1>10. ResumeValue'
  BY <1>1, <1>4, <1>5, <1>6 DEF ResumeValue, TableInv, TypeOK
<1>11. UniquePids'
  BY <1>1, <1>4, <1>5, <1>6 DEF UniquePids, TableInv, TypeOK
<1> QED
  BY <1>5, <1>7, <1>8, <1>9, <1>10, <1>11 DEF TableInv

(* The proc_wait that finds a ZOMBIE.                                      *)
LEMMA WaitReapTable == TableInv /\ WaitReap => TableInv'
<1> SUFFICES ASSUME TableInv, WaitReap PROVE TableInv'
  OBVIOUS
<1> DEFINE q == current_proc
           c == Least(ZombieChildren(current_proc))
<1>1. q \in Slots /\ state[q] = "RUNNING"
  BY UserModeHasCurrent DEF WaitReap
<1>2. c \in Slots /\ state[c] = "ZOMBIE" /\ parent[c] = q
  BY FirstZombie DEF WaitReap
<1>3. /\ UNCHANGED <<current_proc, last_slot, mode, satp, ppid, wake_tick,
                     next_pid, ticks>>
      /\ state' = [state EXCEPT ![c] = "UNUSED"]
      /\ pid' = [pid EXCEPT ![c] = 0]
      /\ parent' = [parent EXCEPT ![c] = NULL]
      /\ tables' = tables \ {c}
      /\ pool' = pool + UserPages
      /\ a0' = [a0 EXCEPT ![q] = pid[c]]
      /\ pending' = [pending EXCEPT ![q] = "wait"]
  BY DEF WaitReap, Pending
<1> HIDE DEF c
<1>4. TypeOK' /\ next_pid' >= 2
  BY <1>1, <1>2, <1>3, PagesAssumption DEF TableInv, TypeOK, States
<1>5. CurrentRuns'
  BY <1>1, <1>2, <1>3 DEF TableInv, TypeOK, CurrentRuns
<1>6. NoLostWakeup'
  <2> SUFFICES ASSUME NEW p \in Slots, Waiting(p)'
               PROVE  Children(p)' # {} /\ ZombieChildren(p)' = {}
    BY DEF NoLostWakeup
  <2>1. Waiting(p) /\ p # q
    BY <1>1, <1>2, <1>3 DEF Waiting, TableInv, TypeOK
  <2>2. Children(p) # {} /\ ZombieChildren(p) = {}
    BY <2>1 DEF TableInv, NoLostWakeup
  <2> QED
    BY <1>1, <1>2, <1>3, <2>1, <2>2
    DEF Children, ZombieChildren, TableInv, TypeOK
<1>7. SleepersTellApart'
  BY <1>1, <1>2, <1>3 DEF SleepersTellApart, TableInv, TypeOK
<1>8. ResumeValue'
  BY <1>1, <1>2, <1>3 DEF ResumeValue, UniquePids, TableInv, TypeOK
<1>9. UniquePids'
  BY <1>1, <1>2, <1>3 DEF UniquePids, TableInv, TypeOK
<1> QED
  BY <1>4, <1>5, <1>6, <1>7, <1>8, <1>9 DEF TableInv

(* The proc_wait that blocks: it has just seen that no child is a ZOMBIE.  *)
LEMMA WaitBlockTable == TableInv /\ WaitBlock => TableInv'
<1> SUFFICES ASSUME TableInv, WaitBlock PROVE TableInv'
  OBVIOUS
<1> DEFINE p == current_proc
           st == [state EXCEPT ![p] = "SLEEPING"]
<1>1. /\ p \in Slots /\ state[p] = "RUNNING"
      /\ Children(p) # {} /\ ZombieChildren(p) = {}
      /\ last_slot \in Slots /\ satp \in Slots \cup {KERNEL}
  BY UserModeHasCurrent DEF WaitBlock, TableInv, TypeOK
<1>2. st \in [Slots -> States] /\ \A s \in Slots : st[s] # "RUNNING"
  BY <1>1 DEF TableInv, TypeOK, CurrentRuns, States
<1>3. Dispatch(st, p, satp)
  BY DEF WaitBlock
<1>4. \A s \in Slots : st[s] = IF s = p THEN "SLEEPING" ELSE state[s]
  BY <1>1 DEF TableInv, TypeOK
<1> HIDE DEF st
<1>5. /\ state' \in [Slots -> States]
      /\ current_proc' \in Slots \cup {NULL}
      /\ last_slot' \in Slots
      /\ mode' \in {"user", "poll", "read"}
      /\ satp' \in Slots \cup {KERNEL}
      /\ CurrentRuns'
      /\ \A s \in Slots : \/ state'[s] = st[s]
                          \/ st[s] = "RUNNABLE" /\ state'[s] = "RUNNING"
  BY <1>1, <1>2, <1>3, DispatchEffect DEF CurrentRuns
<1>6. /\ UNCHANGED <<pid, parent, ppid, wake_tick, next_pid, ticks, tables,
                     pool>>
      /\ a0' = [a0 EXCEPT ![p] = 0]
      /\ pending' = [pending EXCEPT ![p] = "wait"]
  BY DEF WaitBlock, Pending, ident, memory
<1>7. TypeOK' /\ next_pid' >= 2
  <2>1. TypeOK /\ next_pid >= 2
    BY <1>1, Zenon, SMT DEF TableInv
  <2>2. 0 \in Int \cup {AnyVal} /\ "wait" \in {"none", "wait", "sleep"}
    OBVIOUS
  <2>3. /\ a0' \in [Slots -> Int \cup {AnyVal}]
        /\ pending' \in [Slots -> {"none", "wait", "sleep"}]
    BY <1>6, <2>1, <2>2, Zenon, SMT DEF TypeOK
  <2> QED
    BY <1>5, <1>6, <2>1, <2>3, Zenon, SMT DEF TypeOK
<1>8. NoLostWakeup'
  <2> SUFFICES ASSUME NEW q \in Slots, Waiting(q)'
               PROVE  Children(q)' # {} /\ ZombieChildren(q)' = {}
    BY DEF NoLostWakeup
  <2>1. Waiting(q) \/ q = p
    BY <1>1, <1>4, <1>5, <1>6 DEF Waiting
  <2>2. Children(q) # {} /\ ZombieChildren(q) = {}
    BY <1>1, <2>1 DEF TableInv, NoLostWakeup
  <2>3. \A s \in Slots :
          /\ state'[s] = "UNUSED" <=> state[s] = "UNUSED"
          /\ state'[s] = "ZOMBIE" <=> state[s] = "ZOMBIE"
    BY <1>1, <1>4, <1>5
  <2> QED
    BY <1>6, <2>2, <2>3 DEF Children, ZombieChildren
<1>9. SleepersTellApart'
  BY <1>1, <1>4, <1>5, <1>6 DEF SleepersTellApart, TableInv, TypeOK
<1>10. ResumeValue'
  BY <1>1, <1>4, <1>5, <1>6 DEF ResumeValue, TableInv, TypeOK
<1>11. UniquePids'
  BY <1>1, <1>4, <1>5, <1>6 DEF UniquePids, TableInv, TypeOK
<1> QED
  BY <1>5, <1>7, <1>8, <1>9, <1>10, <1>11 DEF TableInv

(* proc_sleep: the deadline is ahead of ticks.                             *)
LEMMA SysSleepTable ==
  ASSUME NEW n \in 1 .. MaxSleep
  PROVE  TableInv /\ SysSleep(n) => TableInv'
<1> SUFFICES ASSUME TableInv, SysSleep(n) PROVE TableInv'
  OBVIOUS
<1> DEFINE p == current_proc
           st == [state EXCEPT ![p] = "SLEEPING"]
<1>1. /\ p \in Slots /\ state[p] = "RUNNING"
      /\ last_slot \in Slots /\ satp \in Slots \cup {KERNEL}
      /\ ticks \in Nat /\ n \in Nat /\ n > 0
  BY UserModeHasCurrent, BoundsAssumption DEF SysSleep, TableInv, TypeOK
<1>2. st \in [Slots -> States] /\ \A s \in Slots : st[s] # "RUNNING"
  BY <1>1 DEF TableInv, TypeOK, CurrentRuns, States
<1>3. Dispatch(st, p, satp)
  BY DEF SysSleep
<1>4. \A s \in Slots : st[s] = IF s = p THEN "SLEEPING" ELSE state[s]
  BY <1>1 DEF TableInv, TypeOK
<1> HIDE DEF st
<1>5. /\ state' \in [Slots -> States]
      /\ current_proc' \in Slots \cup {NULL}
      /\ last_slot' \in Slots
      /\ mode' \in {"user", "poll", "read"}
      /\ satp' \in Slots \cup {KERNEL}
      /\ CurrentRuns'
      /\ \A s \in Slots : \/ state'[s] = st[s]
                          \/ st[s] = "RUNNABLE" /\ state'[s] = "RUNNING"
  BY <1>1, <1>2, <1>3, DispatchEffect DEF CurrentRuns
<1>6. /\ UNCHANGED <<pid, parent, ppid, next_pid, ticks, tables, pool>>
      /\ wake_tick' = [wake_tick EXCEPT ![p] = ticks + n]
      /\ a0' = [a0 EXCEPT ![p] = 0]
      /\ pending' = [pending EXCEPT ![p] = "sleep"]
  BY DEF SysSleep, Pending, ident, memory
<1>7. TypeOK' /\ next_pid' >= 2
  <2>1. TypeOK /\ next_pid >= 2
    BY <1>1, Zenon, SMT DEF TableInv
  <2>2. /\ 0 \in Int \cup {AnyVal} /\ ticks + n \in Nat
        /\ "sleep" \in {"none", "wait", "sleep"}
    BY <2>1 DEF TypeOK
  <2>3. /\ a0' \in [Slots -> Int \cup {AnyVal}]
        /\ wake_tick' \in [Slots -> Nat]
        /\ pending' \in [Slots -> {"none", "wait", "sleep"}]
    BY <1>6, <2>1, <2>2, Zenon, SMT DEF TypeOK
  <2> QED
    BY <1>5, <1>6, <2>1, <2>3, Zenon, SMT DEF TypeOK
<1>8. NoLostWakeup'
  <2> SUFFICES ASSUME NEW q \in Slots, Waiting(q)'
               PROVE  Children(q)' # {} /\ ZombieChildren(q)' = {}
    BY DEF NoLostWakeup
  <2>1. Waiting(q) /\ q # p
    BY <1>1, <1>4, <1>5, <1>6 DEF Waiting, TableInv, TypeOK
  <2>2. Children(q) # {} /\ ZombieChildren(q) = {}
    BY <1>1, <2>1 DEF TableInv, NoLostWakeup
  <2>3. \A s \in Slots :
          /\ state'[s] = "UNUSED" <=> state[s] = "UNUSED"
          /\ state'[s] = "ZOMBIE" <=> state[s] = "ZOMBIE"
    BY <1>1, <1>4, <1>5
  <2> QED
    BY <1>6, <2>2, <2>3 DEF Children, ZombieChildren
<1>9. SleepersTellApart'
  BY <1>1, <1>4, <1>5, <1>6 DEF SleepersTellApart, TableInv, TypeOK
<1>10. ResumeValue'
  BY <1>1, <1>4, <1>5, <1>6 DEF ResumeValue, TableInv, TypeOK
<1>11. UniquePids'
  BY <1>1, <1>4, <1>5, <1>6 DEF UniquePids, TableInv, TypeOK
<1> QED
  BY <1>5, <1>7, <1>8, <1>9, <1>10, <1>11 DEF TableInv

(* The traps that come back to their caller at once.                       *)
LEMMA QuickTable ==
  TableInv /\ (ForkNoSlot \/ WaitNoChild \/ SysQuick \/ SysRead \/ ReadDone)
    => TableInv'
<1> SUFFICES ASSUME TableInv,
                    ForkNoSlot \/ WaitNoChild \/ SysQuick \/ SysRead \/ ReadDone
             PROVE  TableInv'
  OBVIOUS
<1> DEFINE q == current_proc
<1>1. q \in Slots /\ state[q] = "RUNNING"
  BY UserModeHasCurrent DEF ForkNoSlot, WaitNoChild, SysQuick, SysRead, ReadDone
<1>2. /\ UNCHANGED <<state, pid, parent, ppid, wake_tick, current_proc,
                     last_slot, satp, next_pid, ticks, tables, pool>>
      /\ mode' \in {"user", "read"} /\ mode \in {"user", "read"}
      /\ \/ UNCHANGED <<a0, pending>>
         \/ /\ \E v \in {-1, AnyVal} : a0' = [a0 EXCEPT ![q] = v]
            /\ pending' = [pending EXCEPT ![q] = "none"]
         \/ /\ a0' = [a0 EXCEPT ![q] = -1]
            /\ pending' = [pending EXCEPT ![q] = "wait"]
  BY DEF ForkNoSlot, WaitNoChild, SysQuick, SysRead, ReadDone, Return, Pending,
         sched, ident, memory
<1>3. TypeOK' /\ next_pid' >= 2
  <2>1. TypeOK /\ next_pid >= 2
    BY <1>1, Zenon, SMT DEF TableInv
  <2>2. /\ a0' \in [Slots -> Int \cup {AnyVal}]
        /\ pending' \in [Slots -> {"none", "wait", "sleep"}]
    BY <1>1, <1>2, <2>1 DEF TypeOK
  <2> QED
    BY <1>2, <2>1, <2>2 DEF TypeOK
<1>4. CurrentRuns' /\ NoLostWakeup' /\ UniquePids'
  BY <1>2
  DEF TableInv, CurrentRuns, NoLostWakeup, UniquePids, Waiting, Children,
      ZombieChildren
<1>5. SleepersTellApart'
  BY <1>1, <1>2, Zenon, SMT DEF SleepersTellApart, TableInv, TypeOK
<1>6. ResumeValue'
  BY <1>1, <1>2 DEF ResumeValue, TableInv, TypeOK
<1> QED
  BY <1>3, <1>4, <1>5, <1>6 DEF TableInv

(* Every trap preserves the process-table invariant.                       *)
LEMMA NextTable == TableInv /\ [Next]_vars => TableInv'
<1> SUFFICES ASSUME TableInv, [Next]_vars PROVE TableInv'
  OBVIOUS
<1>1. CASE TimerTrap  BY <1>1, TimerTrapTable
<1>2. CASE PollTick  BY <1>2, PollTickTable
<1>3. CASE SysFork
  BY <1>3, QuickTable, ForkNoMemoryTable, ForkTable DEF SysFork
<1>4. ASSUME NEW ret \in {0, AnyVal}, proc_exit(ret) PROVE TableInv'
  BY <1>4, ExitToWaiterTable, ExitNoParentTable, ExitToZombieTable
  DEF proc_exit
<1>5. CASE SysWait
  BY <1>5, QuickTable, WaitReapTable, WaitBlockTable DEF SysWait
<1>6. ASSUME NEW n \in 1 .. MaxSleep, SysSleep(n) PROVE TableInv'
  BY <1>6, SysSleepTable
<1>7. CASE SysQuick \/ SysRead \/ ReadDone  BY <1>7, QuickTable, Zenon, SMT
<1>8. CASE UNCHANGED vars
  BY <1>8
  DEF vars, sched, ident, memory, TableInv, TypeOK, CurrentRuns, NoLostWakeup,
      SleepersTellApart, ResumeValue, UniquePids, Waiting, Children,
      ZombieChildren
<1> QED
  BY <1>1, <1>2, <1>3, <1>4, <1>5, <1>6, <1>7, <1>8
  DEF Next, SysExit, FaultTrap

(* The process-table invariant holds in every reachable state.             *)
THEOREM TableInvariant == Spec => []TableInv
BY InitTable, NextTable, PTL DEF Spec

(* No exit of a child is ever missed by a parent in wait(): proc_wait and  *)
(* proc_exit leave no window for a lost wakeup.                            *)
THEOREM NoWakeupIsLost == Spec => []NoLostWakeup
<1>1. TableInv => NoLostWakeup
  BY DEF TableInv
<1> QED
  BY <1>1, TableInvariant, PTL

(* The variables hold values of their C types.                             *)
THEOREM TypeCorrect == Spec => []TypeOK
<1>1. TableInv => TypeOK
  BY DEF TableInv
<1> QED
  BY <1>1, TableInvariant, PTL

(* Exactly the current process is RUNNING, on its own page table.          *)
THEOREM OnlyCurrentRuns == Spec => []CurrentRuns
<1>1. TableInv => CurrentRuns
  BY DEF TableInv
<1> QED
  BY <1>1, TableInvariant, PTL

(* A wait() never resumes with the 0 it blocked with, and a sleep() always *)
(* resumes with 0.                                                         *)
THEOREM ResumeValueCorrect == Spec => []ResumeValue
<1>1. TableInv => ResumeValue
  BY DEF TableInv
<1> QED
  BY <1>1, TableInvariant, PTL

(* Live pids are distinct.                                                 *)
THEOREM PidsAreUnique == Spec => []UniquePids
<1>1. TableInv => UniquePids
  BY DEF TableInv
<1> QED
  BY <1>1, TableInvariant, PTL

(* A sleeper without a deadline is in wait(), one with a deadline in       *)
(* sleep(), and no deadline is overdue.                                    *)
THEOREM SleepersAreToldApart == Spec => []SleepersTellApart
<1>1. TableInv => SleepersTellApart
  BY DEF TableInv
<1> QED
  BY <1>1, TableInvariant, PTL

-----------------------------------------------------------------------------
(* One dispatch moves the scan closer to every slot it leaves RUNNABLE.    *)
LEMMA DispatchBypass ==
  ASSUME NEW st \in [Slots -> States], NEW start \in Slots, NEW sp,
         Dispatch(st, start, sp),
         NEW s \in Slots, st[s] = "RUNNABLE", state'[s] = "RUNNABLE"
  PROVE  Distance(last_slot', s) < Distance(start, s)
<1> DEFINE R == RunnableDistances(st, start)
           n == Distance(start, s)
           m == Least(R)
           next == NextSlot(st, start)
<1>1. n \in 1 .. NPROC /\ s = IF start + n < NPROC THEN start + n
                              ELSE start + n - NPROC
  BY NProcAssumption DEF Distance, Slots
<1>2. (start + n) % NPROC = s
  BY <1>1, ScanInTable
<1>3. n \in R
  BY <1>1, <1>2 DEF RunnableDistances
<1>4. R \in SUBSET Nat /\ R # {}
  BY <1>3 DEF RunnableDistances
<1>5. m \in 1 .. NPROC /\ m <= n /\ st[(start + m) % NPROC] = "RUNNABLE"
  <2>1. m \in R /\ m <= n
    BY <1>3, <1>4, LeastIsLeast
  <2> QED
    BY <2>1, Zenon, SMT DEF RunnableDistances
<1>6. next = (start + m) % NPROC
  BY <1>4 DEF NextSlot
<1>7. next \in Slots /\ next = IF start + m < NPROC THEN start + m
                               ELSE start + m - NPROC
  BY <1>5, <1>6, ScanInTable
<1>8. last_slot' = next /\ state' = [st EXCEPT ![next] = "RUNNING"]
  BY <1>7, SentinelAssumption DEF Dispatch
<1>9. next # s
  BY <1>7, <1>8
<1> HIDE DEF next, m
<1> QED
  BY <1>1, <1>5, <1>7, <1>8, <1>9, NProcAssumption DEF Distance, Slots

(* Every trap brings the processes it leaves RUNNABLE closer to their      *)
(* turn.                                                                   *)
LEMMA StepBypass ==
  ASSUME TableInv, Next, NEW s \in Slots,
         state[s] = "RUNNABLE", state'[s] = "RUNNABLE", last_slot' # last_slot
  PROVE  Distance(last_slot', s) < Distance(last_slot, s)
<1>1. ASSUME mode # "poll"
      PROVE  /\ current_proc \in Slots /\ current_proc = last_slot
             /\ s # current_proc
  BY <1>1, UserModeHasCurrent, SentinelAssumption
  DEF TableInv, CurrentRuns
<1>2. state \in [Slots -> States] /\ last_slot \in Slots
  BY DEF TableInv, TypeOK
<1>3. CASE TimerTrap
  <2> DEFINE st == [Woken(NextTick) EXCEPT ![current_proc] = "RUNNABLE"]
  <2>1. st \in [Slots -> States] /\ st[s] = "RUNNABLE"
    BY <1>1, <1>2, <1>3, Zenon, SMT DEF TimerTrap, Woken, Expired, States
  <2>2. Dispatch(st, last_slot, satp)
    BY <1>1, <1>3 DEF TimerTrap
  <2> HIDE DEF st
  <2> QED
    BY <1>2, <2>1, <2>2, DispatchBypass
<1>4. CASE PollTick
  <2>1. Woken(NextTick) \in [Slots -> States] /\ Woken(NextTick)[s] = "RUNNABLE"
    BY <1>2, Zenon, SMT DEF Woken, Expired, States
  <2>2. Dispatch(Woken(NextTick), last_slot, satp)
    BY <1>4 DEF PollTick
  <2> QED
    BY <1>2, <2>1, <2>2, DispatchBypass
<1>5. ASSUME NEW ret \in {0, AnyVal}, proc_exit(ret)
      PROVE  Distance(last_slot', s) < Distance(last_slot, s)
  <2>1. current_proc \in Slots /\ current_proc = last_slot /\ s # current_proc
    BY <1>1, <1>5 DEF proc_exit
  <2>2. CASE ExitToWaiter(ret)
    <3> DEFINE st == [state EXCEPT ![parent[current_proc]] = "RUNNABLE",
                                   ![current_proc] = "UNUSED"]
    <3>1. st \in [Slots -> States] /\ st[s] = "RUNNABLE"
      BY <1>2, <2>1, Zenon, SMT DEF States
    <3>2. Dispatch(st, last_slot, KernelSatp)
      BY <2>1, <2>2 DEF ExitToWaiter
    <3> HIDE DEF st
    <3> QED
      BY <1>2, <3>1, <3>2, DispatchBypass
  <2>3. CASE ExitNoParent(ret)
    <3>1. [state EXCEPT ![current_proc] = "UNUSED"] \in [Slots -> States]
          /\ [state EXCEPT ![current_proc] = "UNUSED"][s] = "RUNNABLE"
      BY <1>2, <2>1 DEF States
    <3>2. Dispatch([state EXCEPT ![current_proc] = "UNUSED"], last_slot,
                   KernelSatp)
      BY <2>1, <2>3 DEF ExitNoParent
    <3> QED
      BY <1>2, <3>1, <3>2, DispatchBypass, Zenon, SMT
  <2>4. CASE ExitToZombie(ret)
    <3>1. [state EXCEPT ![current_proc] = "ZOMBIE"] \in [Slots -> States]
          /\ [state EXCEPT ![current_proc] = "ZOMBIE"][s] = "RUNNABLE"
      BY <1>2, <2>1 DEF States
    <3>2. Dispatch([state EXCEPT ![current_proc] = "ZOMBIE"], last_slot, satp)
      BY <2>1, <2>4 DEF ExitToZombie
    <3> QED
      BY <1>2, <3>1, <3>2, DispatchBypass, Zenon, SMT
  <2> QED
    BY <1>5, <2>2, <2>3, <2>4 DEF proc_exit
<1>6. ASSUME WaitBlock \/ \E n \in 1 .. MaxSleep : SysSleep(n)
      PROVE  Distance(last_slot', s) < Distance(last_slot, s)
  <2>1. current_proc \in Slots /\ current_proc = last_slot /\ s # current_proc
    BY <1>1, <1>6, Zenon, SMT DEF WaitBlock, SysSleep
  <2>2. [state EXCEPT ![current_proc] = "SLEEPING"] \in [Slots -> States]
        /\ [state EXCEPT ![current_proc] = "SLEEPING"][s] = "RUNNABLE"
    BY <1>2, <2>1 DEF States
  <2>3. Dispatch([state EXCEPT ![current_proc] = "SLEEPING"], last_slot, satp)
    BY <1>6, <2>1, Zenon, SMT DEF WaitBlock, SysSleep
  <2> QED
    BY <1>2, <2>2, <2>3, DispatchBypass, Zenon, SMT
<1>7. CASE SysFork \/ WaitReap \/ WaitNoChild \/ SysQuick \/ SysRead \/ ReadDone
  BY <1>7, Zenon, SMT
  DEF SysFork, ForkNoSlot, ForkNoMemory, Fork, WaitReap, WaitNoChild, SysQuick,
      SysRead, ReadDone, Return, sched
<1> QED
  BY <1>3, <1>4, <1>5, <1>6, <1>7 DEF Next, SysExit, FaultTrap, SysWait

(* Round robin: every dispatch brings each process that stays RUNNABLE     *)
(* strictly closer to its turn, for any table size.                        *)
THEOREM RoundRobin == Spec => BoundedBypass
<1>1. TableInv /\ [Next]_vars =>
        [\A s \in Slots :
           state[s] = "RUNNABLE" /\ state'[s] = "RUNNABLE"
           /\ last_slot' # last_slot =>
             Distance(last_slot', s) < Distance(last_slot, s)]_vars
  BY StepBypass
<1> QED
  BY <1>1, TableInvariant, PTL DEF Spec, BoundedBypass

-----------------------------------------------------------------------------
(* Page tables.  UserTables are the address spaces of processes.           *)
UserTables == tables \ {KERNEL}

(* At most NPROC address spaces exist, and their pages fit in the pool     *)
(* beside the kernel's.                                                    *)
LEMMA UserTablesBound ==
  ASSUME TypeOK
  PROVE  /\ IsFiniteSet(UserTables) /\ Cardinality(UserTables) \in Nat
         /\ Cardinality(UserTables) <= NPROC
         /\ UserPages * Cardinality(UserTables) \in Nat
         /\ UserPages * Cardinality(UserTables) <= NPROC * UserPages
<1>1. IsFiniteSet(Slots) /\ Cardinality(Slots) = NPROC
  BY NProcAssumption, FS_Interval DEF Slots
<1>2. UserTables \in SUBSET Slots
  BY DEF UserTables, TypeOK
<1>3. /\ IsFiniteSet(UserTables) /\ Cardinality(UserTables) \in Nat
      /\ Cardinality(UserTables) <= NPROC
  BY <1>1, <1>2, FS_Subset, FS_CardinalityType
<1>4. \A a, b, c \in Nat : b <= c => a * b \in Nat /\ a * b <= c * a
  OBVIOUS
<1> QED
  BY <1>3, <1>4, NProcAssumption, PagesAssumption

(* Under AmplePool kernel_pagetable() always succeeds.                     *)
LEMMA KernelPtNeverFails ==
  ASSUME AmplePool, TypeOK, PoolBalanced
  PROVE  KernelPtBuilt
<1>1. /\ pool \in Nat
      /\ UserPages * Cardinality(UserTables) \in Nat
      /\ UserPages * Cardinality(UserTables) <= NPROC * UserPages
      /\ NPROC * UserPages \in Nat
  BY UserTablesBound, NProcAssumption, PagesAssumption DEF TypeOK
<1>2. pool + UserPages * Cardinality(UserTables)
           + (IF KERNEL \in tables THEN KernPages ELSE 0) = PoolPages
  BY DEF PoolBalanced, UserTables
<1>3. SUFFICES ASSUME KERNEL \notin tables PROVE pool >= KernPages
  BY DEF KernelPtBuilt
<1> QED
  BY <1>1, <1>2, <1>3, PagesAssumption DEF AmplePool

(* Pages of the user address spaces after one comes or goes.               *)
LEMMA UserPagesStep ==
  ASSUME TypeOK, NEW c \in Slots
  PROVE  /\ c \notin tables =>
              UserPages * Cardinality(UserTables \cup {c})
                = UserPages * Cardinality(UserTables) + UserPages
         /\ c \in tables =>
              UserPages * Cardinality(UserTables \ {c})
                = UserPages * Cardinality(UserTables) - UserPages
<1>1. IsFiniteSet(UserTables) /\ Cardinality(UserTables) \in Nat
  BY UserTablesBound
<1>2. c \in tables <=> c \in UserTables
  BY SentinelAssumption DEF UserTables
<1>3. /\ c \notin tables =>
           Cardinality(UserTables \cup {c}) = Cardinality(UserTables) + 1
      /\ c \in tables =>
           Cardinality(UserTables \ {c}) = Cardinality(UserTables) - 1
  BY <1>1, <1>2, FS_AddElement, FS_RemoveElement, Zenon, SMT
<1>4. \A a, b \in Int : a * (b + 1) = a * b + a /\ a * (b - 1) = a * b - a
  OBVIOUS
<1> QED
  BY <1>1, <1>3, <1>4, PagesAssumption

MemInv == PoolBalanced /\ SatpLive

(* The first address space is the only one that has left the pool.         *)
LEMMA InitMem == Init => MemInv
<1> SUFFICES ASSUME Init PROVE MemInv
  OBVIOUS
<1>1. 0 \in Slots /\ KERNEL # 0
  BY NProcAssumption, SentinelAssumption DEF Slots
<1>2. tables \ {KERNEL} = {0} /\ KERNEL \notin tables
  BY <1>1 DEF Init
<1>3. Cardinality(tables \ {KERNEL}) = 1
  BY <1>2, FS_Singleton
<1> QED
  BY <1>1, <1>2, <1>3, PagesAssumption DEF Init, MemInv, PoolBalanced, SatpLive

(* The steps that create and destroy no page table.                        *)
LEMMA KeepMem ==
  ASSUME TableInv, TableInv', MemInv, UNCHANGED <<tables, pool>>,
         \A s \in Slots : state'[s] = "UNUSED" <=> state[s] = "UNUSED",
         current_proc' = NULL => satp' = satp
  PROVE  MemInv'
<1>1. PoolBalanced'
  BY Zenon, SMT DEF MemInv, PoolBalanced
<1>2. CASE current_proc' = NULL
  BY <1>1, <1>2 DEF MemInv, SatpLive
<1>3. CASE current_proc' # NULL
  <2>1. satp' \in Slots /\ state'[satp'] = "RUNNING"
    BY <1>3 DEF TableInv, TypeOK, CurrentRuns
  <2> QED
    BY <1>1, <2>1 DEF MemInv, PoolBalanced, SatpLive
<1> QED
  BY <1>2, <1>3

(* vm_clone_user takes the pages of one address space.                     *)
LEMMA ForkMem == TableInv /\ MemInv /\ Fork => MemInv'
<1> SUFFICES ASSUME TableInv, MemInv, Fork PROVE MemInv'
  OBVIOUS
<1> DEFINE c == Least(FreeSlots)
<1>1. c \in Slots /\ state[c] = "UNUSED"
  BY FirstFreeSlot DEF Fork
<1>2. /\ satp' = satp /\ tables' = tables \cup {c}
      /\ pool' = pool - UserPages
      /\ state' = [state EXCEPT ![c] = "RUNNABLE"]
  BY DEF Fork
<1> HIDE DEF c
<1>3. c \notin tables /\ KERNEL # c
  BY <1>1, SentinelAssumption DEF MemInv, PoolBalanced
<1>4. /\ tables' \ {KERNEL} = UserTables \cup {c}
      /\ KERNEL \in tables' <=> KERNEL \in tables
  BY <1>2, <1>3 DEF UserTables
<1>5. UserPages * Cardinality(tables' \ {KERNEL})
        = UserPages * Cardinality(UserTables) + UserPages
  BY <1>1, <1>3, <1>4, UserPagesStep, Zenon, SMT DEF TableInv
<1>6. UserPages * Cardinality(UserTables) \in Nat /\ pool \in Nat
  BY UserTablesBound DEF TableInv, TypeOK
<1>7. pool' + UserPages * Cardinality(tables' \ {KERNEL})
            + (IF KERNEL \in tables' THEN KernPages ELSE 0) = PoolPages
  <2>1. pool + UserPages * Cardinality(UserTables)
             + (IF KERNEL \in tables THEN KernPages ELSE 0) = PoolPages
    BY DEF MemInv, PoolBalanced, UserTables
  <2> QED
    BY <1>2, <1>4, <1>5, <1>6, <2>1, PagesAssumption
<1>8. \A s \in Slots : s \in tables' <=> state'[s] # "UNUSED"
  BY <1>1, <1>2 DEF TableInv, TypeOK, MemInv, PoolBalanced
<1> QED
  BY <1>2, <1>7, <1>8 DEF MemInv, PoolBalanced, SatpLive

(* vm_destroy in proc_wait gives back the pages of the ZOMBIE.             *)
LEMMA WaitReapMem == TableInv /\ MemInv /\ WaitReap => MemInv'
<1> SUFFICES ASSUME TableInv, MemInv, WaitReap PROVE MemInv'
  OBVIOUS
<1> DEFINE c == Least(ZombieChildren(current_proc))
<1>1. c \in Slots /\ state[c] = "ZOMBIE"
  BY FirstZombie DEF WaitReap
<1>2. /\ satp' = satp /\ tables' = tables \ {c}
      /\ pool' = pool + UserPages
      /\ state' = [state EXCEPT ![c] = "UNUSED"]
  BY DEF WaitReap
<1> HIDE DEF c
<1>3. c \in tables /\ KERNEL # c /\ satp # c
  <2>1. current_proc \in Slots /\ state[current_proc] = "RUNNING"
    BY UserModeHasCurrent DEF WaitReap
  <2>2. satp = current_proc
    BY <2>1, SentinelAssumption DEF TableInv, CurrentRuns
  <2> QED
    BY <1>1, <2>1, <2>2, SentinelAssumption DEF MemInv, PoolBalanced
<1>4. /\ tables' \ {KERNEL} = UserTables \ {c}
      /\ KERNEL \in tables' <=> KERNEL \in tables
  BY <1>2, <1>3 DEF UserTables
<1>5. UserPages * Cardinality(tables' \ {KERNEL})
        = UserPages * Cardinality(UserTables) - UserPages
  BY <1>1, <1>3, <1>4, UserPagesStep, Zenon, SMT DEF TableInv
<1>6. UserPages * Cardinality(UserTables) \in Nat /\ pool \in Nat
  BY UserTablesBound DEF TableInv, TypeOK
<1>7. pool' + UserPages * Cardinality(tables' \ {KERNEL})
            + (IF KERNEL \in tables' THEN KernPages ELSE 0) = PoolPages
  <2>1. pool + UserPages * Cardinality(UserTables)
             + (IF KERNEL \in tables THEN KernPages ELSE 0) = PoolPages
    BY DEF MemInv, PoolBalanced, UserTables
  <2> QED
    BY <1>2, <1>4, <1>5, <1>6, <2>1, PagesAssumption
<1>8. \A s \in Slots : s \in tables' <=> state'[s] # "UNUSED"
  BY <1>1, <1>2, Zenon, SMT DEF TableInv, TypeOK, MemInv, PoolBalanced
<1> QED
  BY <1>2, <1>3, <1>7, <1>8 DEF MemInv, PoolBalanced, SatpLive

(* An exit that frees its own page table switches to the kernel's first.   *)
LEMMA ExitFreesMem ==
  ASSUME AmplePool, TableInv, TableInv', MemInv,
         NEW p \in Slots, state[p] # "UNUSED", state'[p] = "UNUSED",
         \A s \in Slots \ {p} : state'[s] = "UNUSED" <=> state[s] = "UNUSED",
         DestroyOwnPagetable(p),
         current_proc' = NULL => satp' = KernelSatp
  PROVE  MemInv'
<1>1. KernelPtBuilt
  BY KernelPtNeverFails DEF TableInv, MemInv
<1>2. /\ tables' = (tables \ {p}) \cup {KERNEL}
      /\ pool' = PoolWithKernelPt + UserPages
      /\ KernelSatp = KERNEL
  BY <1>1 DEF DestroyOwnPagetable, KernelSatp
<1>3. p \in tables /\ KERNEL # p
  BY SentinelAssumption DEF MemInv, PoolBalanced
<1>4. tables' \ {KERNEL} = UserTables \ {p} /\ KERNEL \in tables'
  BY <1>2, <1>3 DEF UserTables
<1>5. UserPages * Cardinality(tables' \ {KERNEL})
        = UserPages * Cardinality(UserTables) - UserPages
  BY <1>3, <1>4, UserPagesStep, Zenon, SMT DEF TableInv
<1>6. UserPages * Cardinality(UserTables) \in Nat /\ pool \in Nat
  BY UserTablesBound, Zenon, SMT DEF TableInv, TypeOK
<1>7. PoolWithKernelPt = IF KERNEL \in tables THEN pool ELSE pool - KernPages
  BY <1>1, Zenon, SMT DEF PoolWithKernelPt
<1>8. pool' + UserPages * Cardinality(tables' \ {KERNEL})
            + (IF KERNEL \in tables' THEN KernPages ELSE 0) = PoolPages
  <2>1. pool + UserPages * Cardinality(UserTables)
             + (IF KERNEL \in tables THEN KernPages ELSE 0) = PoolPages
    BY DEF MemInv, PoolBalanced, UserTables
  <2> QED
    BY <1>2, <1>4, <1>5, <1>6, <1>7, <2>1, PagesAssumption
<1>9. \A s \in Slots : s \in tables' <=> state'[s] # "UNUSED"
  BY <1>2, SentinelAssumption DEF MemInv, PoolBalanced
<1>10. SatpLive'
  <2>1. CASE current_proc' = NULL
    BY <1>2, <2>1 DEF SatpLive
  <2>2. CASE current_proc' # NULL
    <3>1. satp' \in Slots /\ state'[satp'] = "RUNNING"
      BY <2>2 DEF TableInv, TypeOK, CurrentRuns
    <3> QED
      BY <1>9, <3>1, Zenon, SMT DEF SatpLive
  <2> QED
    BY <2>1, <2>2
<1> QED
  BY <1>8, <1>9, <1>10, Zenon, SMT DEF MemInv, PoolBalanced

(* A dispatch frees no slot, and keeps sp when nobody is runnable.         *)
LEMMA DispatchKeepsSlots ==
  ASSUME NEW st \in [Slots -> States], NEW start \in Slots, NEW sp,
         Dispatch(st, start, sp)
  PROVE  /\ \A s \in Slots : state'[s] = "UNUSED" <=> st[s] = "UNUSED"
         /\ current_proc' = NULL => satp' = sp
<1> DEFINE next == NextSlot(st, start)
<1>1. CASE next = NULL
  BY <1>1 DEF Dispatch
<1>2. CASE next # NULL
  <2>1. next \in Slots /\ st[next] = "RUNNABLE"
    BY <1>2, NextSlotRunnable
  <2>2. state' = [st EXCEPT ![next] = "RUNNING"] /\ current_proc' = next
    BY <1>2 DEF Dispatch
  <2> HIDE DEF next
  <2> QED
    BY <1>2, <2>1, <2>2
<1> QED
  BY <1>1, <1>2

(* Every trap keeps the pool balanced and satp on a live page table.       *)
LEMMA NextMem ==
  ASSUME AmplePool
  PROVE  TableInv /\ TableInv' /\ MemInv /\ [Next]_vars => MemInv'
<1> SUFFICES ASSUME TableInv, TableInv', MemInv, [Next]_vars PROVE MemInv'
  BY Zenon, SMT
<1>1. /\ state \in [Slots -> States] /\ last_slot \in Slots
      /\ mode # "poll" =>
           current_proc \in Slots /\ state[current_proc] = "RUNNING"
  BY UserModeHasCurrent DEF TableInv, TypeOK
<1>2. CASE TimerTrap
  <2> DEFINE st == [Woken(NextTick) EXCEPT ![current_proc] = "RUNNABLE"]
  <2>1. /\ st \in [Slots -> States] /\ current_proc \in Slots
        /\ \A s \in Slots : st[s] = "UNUSED" <=> state[s] = "UNUSED"
    BY <1>1, <1>2 DEF TimerTrap, Woken, Expired, States
  <2>2. Dispatch(st, current_proc, satp) /\ UNCHANGED <<tables, pool>>
    BY <1>2 DEF TimerTrap, memory
  <2> HIDE DEF st
  <2> QED
    BY <2>1, <2>2, DispatchKeepsSlots, KeepMem, Zenon, SMT
<1>3. CASE PollTick
  <2> DEFINE st == Woken(NextTick)
  <2>1. /\ st \in [Slots -> States]
        /\ \A s \in Slots : st[s] = "UNUSED" <=> state[s] = "UNUSED"
    BY <1>1 DEF Woken, Expired, States
  <2>2. Dispatch(st, last_slot, satp) /\ UNCHANGED <<tables, pool>>
    BY <1>3 DEF PollTick, memory
  <2> HIDE DEF st
  <2> QED
    BY <1>1, <2>1, <2>2, DispatchKeepsSlots, KeepMem
<1>4. CASE ForkNoSlot \/ ForkNoMemory \/ WaitNoChild \/ SysQuick \/ SysRead
           \/ ReadDone
  <2>1. UNCHANGED <<tables, pool, state, satp>>
    BY <1>4
    DEF ForkNoSlot, ForkNoMemory, WaitNoChild, SysQuick, SysRead, ReadDone,
        Return, sched, memory
  <2> QED
    BY <2>1, KeepMem
<1>5. CASE Fork
  BY <1>5, ForkMem
<1>6. CASE WaitReap
  BY <1>6, WaitReapMem, Zenon, SMT
<1>7. CASE WaitBlock \/ \E n \in 1 .. MaxSleep : SysSleep(n)
  <2> DEFINE st == [state EXCEPT ![current_proc] = "SLEEPING"]
  <2>1. /\ st \in [Slots -> States] /\ current_proc \in Slots
        /\ \A s \in Slots : st[s] = "UNUSED" <=> state[s] = "UNUSED"
    BY <1>1, <1>7 DEF WaitBlock, SysSleep, States
  <2>2. Dispatch(st, current_proc, satp) /\ UNCHANGED <<tables, pool>>
    BY <1>7, Zenon, SMT DEF WaitBlock, SysSleep, memory
  <2> HIDE DEF st
  <2> QED
    BY <2>1, <2>2, DispatchKeepsSlots, KeepMem
<1>8. ASSUME NEW ret \in {0, AnyVal}, proc_exit(ret) PROVE MemInv'
  <2> DEFINE p == current_proc
  <2>1. p \in Slots /\ state[p] = "RUNNING"
    BY <1>1, <1>8 DEF proc_exit
  <2>2. CASE ExitToWaiter(ret)
    <3> DEFINE st == [state EXCEPT ![parent[p]] = "RUNNABLE", ![p] = "UNUSED"]
    <3>1. parent[p] \in Slots /\ state[parent[p]] = "SLEEPING"
      BY <2>1, <2>2, Zenon, SMT DEF ExitToWaiter, Waiting, TableInv, TypeOK
    <3>2. /\ st \in [Slots -> States] /\ st[p] = "UNUSED"
          /\ \A s \in Slots \ {p} : st[s] = "UNUSED" <=> state[s] = "UNUSED"
      BY <1>1, <2>1, <3>1, Zenon, SMT DEF States
    <3>3. Dispatch(st, p, KernelSatp) /\ DestroyOwnPagetable(p)
      BY <2>2 DEF ExitToWaiter
    <3> HIDE DEF st
    <3>4. /\ \A s \in Slots : state'[s] = "UNUSED" <=> st[s] = "UNUSED"
          /\ current_proc' = NULL => satp' = KernelSatp
      BY <2>1, <3>2, <3>3, DispatchKeepsSlots, Zenon, SMT
    <3> QED
      BY <2>1, <3>2, <3>3, <3>4, ExitFreesMem, Zenon, SMT
  <2>3. CASE ExitNoParent(ret)
    <3> DEFINE st == [state EXCEPT ![p] = "UNUSED"]
    <3>1. /\ st \in [Slots -> States] /\ st[p] = "UNUSED"
          /\ \A s \in Slots \ {p} : st[s] = "UNUSED" <=> state[s] = "UNUSED"
      BY <1>1, <2>1 DEF States
    <3>2. Dispatch(st, p, KernelSatp) /\ DestroyOwnPagetable(p)
      BY <2>3 DEF ExitNoParent
    <3> HIDE DEF st
    <3>3. /\ \A s \in Slots : state'[s] = "UNUSED" <=> st[s] = "UNUSED"
          /\ current_proc' = NULL => satp' = KernelSatp
      BY <2>1, <3>1, <3>2, DispatchKeepsSlots
    <3> QED
      BY <2>1, <3>1, <3>2, <3>3, ExitFreesMem
  <2>4. CASE ExitToZombie(ret)
    <3> DEFINE st == [state EXCEPT ![p] = "ZOMBIE"]
    <3>1. /\ st \in [Slots -> States]
          /\ \A s \in Slots : st[s] = "UNUSED" <=> state[s] = "UNUSED"
      BY <1>1, <2>1 DEF States
    <3>2. Dispatch(st, p, satp) /\ UNCHANGED <<tables, pool>>
      BY <2>4 DEF ExitToZombie, memory
    <3> HIDE DEF st
    <3> QED
      BY <2>1, <3>1, <3>2, DispatchKeepsSlots, KeepMem
  <2> QED
    BY <1>8, <2>2, <2>3, <2>4 DEF proc_exit
<1>9. CASE UNCHANGED vars
  BY <1>9 DEF vars, sched, memory, MemInv, PoolBalanced, SatpLive
<1> QED
  BY <1>2, <1>3, <1>4, <1>5, <1>6, <1>7, <1>8, <1>9
  DEF Next, SysFork, SysExit, FaultTrap, SysWait

(* With a pool as ample as the build's, no page of it is ever lost or      *)
(* freed twice by fork, exit and wait.                                     *)
THEOREM NoPageLost ==
  ASSUME AmplePool
  PROVE  Spec => []PoolBalanced
<1>1. TableInv /\ TableInv' /\ MemInv /\ [Next]_vars => MemInv'
  BY NextMem
<1>2. MemInv => PoolBalanced
  BY DEF MemInv
<1> QED
  BY <1>1, <1>2, InitMem, TableInvariant, PTL DEF Spec

(* With such a pool the page table in satp is never one already destroyed, *)
(* not even while proc_exit frees the exiting process or the kernel polls. *)
THEOREM SatpNeverDangles ==
  ASSUME AmplePool
  PROVE  Spec => []SatpLive
<1>1. TableInv /\ TableInv' /\ MemInv /\ [Next]_vars => MemInv'
  BY NextMem
<1>2. MemInv => SatpLive
  BY DEF MemInv
<1> QED
  BY <1>1, <1>2, InitMem, TableInvariant, PTL DEF Spec

-----------------------------------------------------------------------------
(* PagePool is what proc.c expects of vm.c, and ProcLifecycle what a       *)
(* process goes through as seen by its pid.  The pool need not be ample.   *)
LiveSlots == {t \in Slots : state[t] \notin {"UNUSED", "ZOMBIE"}}
ZombieSlots == {t \in Slots : state[t] = "ZOMBIE"}
LiveProcesses == {Process(s) : s \in LiveSlots}
ZombieProcesses == {Process(s) : s \in ZombieSlots}

(* A slot has a page table exactly while it is in use.                     *)
TablesMatch == \A s \in Slots : s \in tables <=> state[s] # "UNUSED"

-----------------------------------------------------------------------------
(* The kinds of step the table takes.  Slots keep their processes ...      *)
SlotsKept(S) ==
  \A s \in S : /\ state'[s] = "UNUSED" <=> state[s] = "UNUSED"
               /\ state'[s] = "ZOMBIE" <=> state[s] = "ZOMBIE"
               /\ state[s] # "UNUSED" => pid'[s] = pid[s] /\ ppid'[s] = ppid[s]

Keeps ==
  SlotsKept(Slots) /\ UNCHANGED memory /\ next_pid' \in {next_pid, next_pid + 1}

(* ... or one is filled ...                                                *)
Fills(c) ==
  /\ state[c] = "UNUSED" /\ state'[c] = "RUNNABLE"
  /\ current_proc \in LiveSlots
  /\ pid'[c] = next_pid /\ ppid'[c] = pid[current_proc]
  /\ next_pid' = next_pid + 1
  /\ SlotsKept(Slots \ {c})
  /\ tables' = tables \cup {c} /\ pool >= UserPages /\ pool' = pool - UserPages

(* ... or emptied by wait() ...                                            *)
Reaps(c) ==
  /\ WaitReap /\ c = Least(ZombieChildren(current_proc))
  /\ state[c] = "ZOMBIE" /\ state'[c] = "UNUSED"
  /\ SlotsKept(Slots \ {c})
  /\ UNCHANGED next_pid
  /\ tables' = tables \ {c} /\ pool' = pool + UserPages

(* ... or left by the current process, to a ZOMBIE or for good.            *)
TurnsZombie(p) ==
  /\ state[p] = "RUNNING" /\ state'[p] = "ZOMBIE"
  /\ pid'[p] = pid[p] /\ ppid'[p] = ppid[p]
  /\ SlotsKept(Slots \ {p})
  /\ UNCHANGED <<memory, next_pid>>

Leaves(p) ==
  /\ p = current_proc /\ \E ret \in {0, AnyVal} : proc_exit(ret)
  /\ state[p] = "RUNNING" /\ state'[p] = "UNUSED"
  /\ SlotsKept(Slots \ {p})
  /\ UNCHANGED next_pid
  /\ DestroyOwnPagetable(p)

TableStep ==
  \/ Keeps
  \/ \E s \in Slots : Fills(s) \/ Reaps(s) \/ TurnsZombie(s) \/ Leaves(s)

(* A dispatch changes no slot but from RUNNABLE to RUNNING.                *)
LEMMA DispatchKeepsStates ==
  ASSUME NEW st \in [Slots -> States], NEW start \in Slots, NEW sp,
         Dispatch(st, start, sp)
  PROVE  \A s \in Slots : /\ state'[s] = "UNUSED" <=> st[s] = "UNUSED"
                          /\ state'[s] = "ZOMBIE" <=> st[s] = "ZOMBIE"
<1> DEFINE next == NextSlot(st, start)
<1>1. CASE next = NULL
  BY <1>1 DEF Dispatch
<1>2. CASE next # NULL
  <2>1. next \in Slots /\ st[next] = "RUNNABLE"
    BY <1>2, NextSlotRunnable
  <2>2. state' = [st EXCEPT ![next] = "RUNNING"]
    BY <1>2 DEF Dispatch
  <2> HIDE DEF next
  <2> QED
    BY <2>1, <2>2
<1> QED
  BY <1>1, <1>2

(* Every trap is a step of one of these kinds.                             *)
LEMMA NextIsTableStep == TableInv /\ [Next]_vars => TableStep
<1> SUFFICES ASSUME TableInv, [Next]_vars PROVE TableStep
  OBVIOUS
<1>1. /\ state \in [Slots -> States] /\ last_slot \in Slots
      /\ pid \in [Slots -> Nat] /\ ppid \in [Slots -> Nat]
      /\ mode # "poll" =>
           current_proc \in Slots /\ state[current_proc] = "RUNNING"
  BY UserModeHasCurrent DEF TableInv, TypeOK
<1>2. CASE TimerTrap
  <2> DEFINE st == [Woken(NextTick) EXCEPT ![current_proc] = "RUNNABLE"]
  <2>1. /\ st \in [Slots -> States] /\ current_proc \in Slots
        /\ \A s \in Slots : /\ st[s] = "UNUSED" <=> state[s] = "UNUSED"
                            /\ st[s] = "ZOMBIE" <=> state[s] = "ZOMBIE"
    BY <1>1, <1>2 DEF TimerTrap, Woken, Expired, States
  <2>2. Dispatch(st, current_proc, satp) /\ UNCHANGED <<ident, memory, next_pid>>
    BY <1>2 DEF TimerTrap
  <2> HIDE DEF st
  <2> QED
    BY <2>1, <2>2, DispatchKeepsStates, Zenon, SMT DEF TableStep, Keeps, SlotsKept, ident
<1>3. CASE PollTick
  <2> DEFINE st == Woken(NextTick)
  <2>1. /\ st \in [Slots -> States]
        /\ \A s \in Slots : /\ st[s] = "UNUSED" <=> state[s] = "UNUSED"
                            /\ st[s] = "ZOMBIE" <=> state[s] = "ZOMBIE"
    BY <1>1 DEF Woken, Expired, States
  <2>2. Dispatch(st, last_slot, satp) /\ UNCHANGED <<ident, memory, next_pid>>
    BY <1>3 DEF PollTick
  <2> HIDE DEF st
  <2> QED
    BY <1>1, <2>1, <2>2, DispatchKeepsStates DEF TableStep, Keeps, SlotsKept, ident
<1>4. CASE ForkNoSlot \/ WaitNoChild \/ SysQuick \/ SysRead \/ ReadDone
  <2>1. UNCHANGED <<state, pid, ppid, memory, next_pid>>
    BY <1>4 DEF ForkNoSlot, WaitNoChild, SysQuick, SysRead, ReadDone, Return,
                sched, ident
  <2> QED
    BY <2>1 DEF TableStep, Keeps, SlotsKept
<1>5. CASE ForkNoMemory
  <2> DEFINE c == Least(FreeSlots)
  <2>1. c \in Slots /\ state[c] = "UNUSED"
    BY <1>5, FirstFreeSlot DEF ForkNoMemory
  <2>2. /\ UNCHANGED <<state, memory>> /\ next_pid' = next_pid + 1
        /\ pid' = [pid EXCEPT ![c] = next_pid]
        /\ ppid' = [ppid EXCEPT ![c] = pid[current_proc]]
    BY <1>5 DEF ForkNoMemory, FillSlot, Return, sched
  <2> HIDE DEF c
  <2> QED
    BY <1>1, <2>1, <2>2 DEF TableStep, Keeps, SlotsKept
<1>6. CASE Fork
  <2> DEFINE c == Least(FreeSlots)
  <2>1. c \in Slots /\ state[c] = "UNUSED"
    BY <1>6, FirstFreeSlot DEF Fork
  <2>2. /\ state' = [state EXCEPT ![c] = "RUNNABLE"] /\ next_pid' = next_pid + 1
        /\ pid' = [pid EXCEPT ![c] = next_pid]
        /\ ppid' = [ppid EXCEPT ![c] = pid[current_proc]]
        /\ tables' = tables \cup {c} /\ pool >= UserPages
        /\ pool' = pool - UserPages
    BY <1>6 DEF Fork, FillSlot
  <2> HIDE DEF c
  <2>3. current_proc \in LiveSlots
    BY <1>1, <1>6 DEF Fork, LiveSlots
  <2>4. Fills(c)
    BY <1>1, <2>1, <2>2, <2>3 DEF Fills, SlotsKept
  <2> QED
    BY <2>1, <2>4 DEF TableStep
<1>7. CASE WaitReap
  <2> DEFINE c == Least(ZombieChildren(current_proc))
  <2>1. c \in Slots /\ state[c] = "ZOMBIE"
    BY <1>7, FirstZombie DEF WaitReap
  <2>2. /\ state' = [state EXCEPT ![c] = "UNUSED"] /\ UNCHANGED <<ppid, next_pid>>
        /\ pid' = [pid EXCEPT ![c] = 0]
        /\ tables' = tables \ {c} /\ pool' = pool + UserPages
    BY <1>7 DEF WaitReap
  <2>3. c = Least(ZombieChildren(current_proc))
    OBVIOUS
  <2> HIDE DEF c
  <2>4. Reaps(c)
    BY <1>1, <1>7, <2>1, <2>2, <2>3, Zenon, SMT DEF Reaps, SlotsKept
  <2> QED
    BY <2>1, <2>4 DEF TableStep
<1>8. CASE WaitBlock \/ \E n \in 1 .. MaxSleep : SysSleep(n)
  <2> DEFINE st == [state EXCEPT ![current_proc] = "SLEEPING"]
  <2>1. /\ st \in [Slots -> States] /\ current_proc \in Slots
        /\ \A s \in Slots : /\ st[s] = "UNUSED" <=> state[s] = "UNUSED"
                            /\ st[s] = "ZOMBIE" <=> state[s] = "ZOMBIE"
    BY <1>1, <1>8 DEF WaitBlock, SysSleep, States
  <2>2. Dispatch(st, current_proc, satp) /\ UNCHANGED <<ident, memory, next_pid>>
    BY <1>8, Zenon, SMT DEF WaitBlock, SysSleep
  <2> HIDE DEF st
  <2> QED
    BY <2>1, <2>2, DispatchKeepsStates DEF TableStep, Keeps, SlotsKept, ident
<1>9. ASSUME NEW ret \in {0, AnyVal}, proc_exit(ret) PROVE TableStep
  <2> DEFINE p == current_proc
  <2>1. p \in Slots /\ state[p] = "RUNNING" /\ UNCHANGED <<ppid, next_pid>>
    BY <1>1, <1>9 DEF proc_exit
  <2>2. CASE ExitToWaiter(ret)
    <3> DEFINE st == [state EXCEPT ![parent[p]] = "RUNNABLE", ![p] = "UNUSED"]
    <3>1. parent[p] \in Slots /\ state[parent[p]] = "SLEEPING"
      BY <2>1, <2>2 DEF ExitToWaiter, Waiting, TableInv, TypeOK
    <3>2. /\ st \in [Slots -> States] /\ st[p] = "UNUSED"
          /\ \A s \in Slots \ {p} : /\ st[s] = "UNUSED" <=> state[s] = "UNUSED"
                                    /\ st[s] = "ZOMBIE" <=> state[s] = "ZOMBIE"
      BY <1>1, <2>1, <3>1, Zenon, SMT DEF States
    <3>3. /\ Dispatch(st, p, KernelSatp) /\ DestroyOwnPagetable(p)
          /\ pid' = [pid EXCEPT ![p] = 0]
      BY <2>2 DEF ExitToWaiter
    <3> HIDE DEF st
    <3>4. Leaves(p)
      BY <1>1, <1>9, <2>1, <3>2, <3>3, DispatchKeepsStates DEF Leaves, SlotsKept
    <3> QED
      BY <2>1, <3>4 DEF TableStep
  <2>3. CASE ExitNoParent(ret)
    <3> DEFINE st == [state EXCEPT ![p] = "UNUSED"]
    <3>1. /\ st \in [Slots -> States] /\ st[p] = "UNUSED"
          /\ \A s \in Slots \ {p} : /\ st[s] = "UNUSED" <=> state[s] = "UNUSED"
                                    /\ st[s] = "ZOMBIE" <=> state[s] = "ZOMBIE"
      BY <1>1, <2>1 DEF States
    <3>2. /\ Dispatch(st, p, KernelSatp) /\ DestroyOwnPagetable(p)
          /\ pid' = [pid EXCEPT ![p] = 0]
      BY <2>3 DEF ExitNoParent
    <3> HIDE DEF st
    <3>3. Leaves(p)
      BY <1>1, <1>9, <2>1, <3>1, <3>2, DispatchKeepsStates DEF Leaves, SlotsKept
    <3> QED
      BY <2>1, <3>3 DEF TableStep
  <2>4. CASE ExitToZombie(ret)
    <3> DEFINE st == [state EXCEPT ![p] = "ZOMBIE"]
    <3>1. /\ st \in [Slots -> States] /\ st[p] = "ZOMBIE"
          /\ \A s \in Slots \ {p} : /\ st[s] = "UNUSED" <=> state[s] = "UNUSED"
                                    /\ st[s] = "ZOMBIE" <=> state[s] = "ZOMBIE"
      BY <1>1, <2>1 DEF States
    <3>2. Dispatch(st, p, satp) /\ UNCHANGED <<pid, memory>>
      BY <2>4, Zenon, SMT DEF ExitToZombie
    <3> HIDE DEF st
    <3>3. TurnsZombie(p)
      BY <2>1, <3>1, <3>2, DispatchKeepsStates DEF TurnsZombie, SlotsKept
    <3> QED
      BY <2>1, <3>3 DEF TableStep
  <2> QED
    BY <1>9, <2>2, <2>3, <2>4 DEF proc_exit
<1>10. CASE UNCHANGED vars
  BY <1>10, Zenon, SMT DEF vars, sched, ident, TableStep, Keeps, SlotsKept
<1> QED
  BY <1>2, <1>3, <1>4, <1>5, <1>6, <1>7, <1>8, <1>9, <1>10
  DEF Next, SysFork, SysExit, FaultTrap, SysWait

-----------------------------------------------------------------------------
(* Slots and page tables stay in step, also when kernel_pagetable() fails. *)
LEMMA TablesStayMatched == TablesMatch /\ TableStep => TablesMatch'
<1> SUFFICES ASSUME TablesMatch, TableStep PROVE TablesMatch'
  OBVIOUS
<1>1. CASE Keeps
  BY <1>1 DEF TablesMatch, Keeps, SlotsKept, memory
<1>2. ASSUME NEW c \in Slots, Fills(c) PROVE TablesMatch'
  BY <1>2, Zenon, SMT DEF TablesMatch, Fills, SlotsKept
<1>3. ASSUME NEW c \in Slots, Reaps(c) PROVE TablesMatch'
  BY <1>3 DEF TablesMatch, Reaps, SlotsKept
<1>4. ASSUME NEW p \in Slots, TurnsZombie(p) PROVE TablesMatch'
  BY <1>4 DEF TablesMatch, TurnsZombie, SlotsKept, memory
<1>5. ASSUME NEW p \in Slots, Leaves(p) PROVE TablesMatch'
  BY <1>5, SentinelAssumption
  DEF TablesMatch, Leaves, SlotsKept, DestroyOwnPagetable
<1> QED
  BY <1>1, <1>2, <1>3, <1>4, <1>5 DEF TableStep

(* Each kind of step is a step of PagePool, or none.                       *)
LEMMA StepUsesPool ==
  TypeOK /\ TablesMatch /\ TableStep => [Memory!Next]_<<tables, pool>>
<1> SUFFICES ASSUME TypeOK, TablesMatch, TableStep
             PROVE  Memory!Next \/ UNCHANGED <<tables, pool>>
  OBVIOUS
<1>1. CASE Keeps
  BY <1>1 DEF Keeps, memory
<1>2. ASSUME NEW c \in Slots, Fills(c) PROVE Memory!Next
  <2>1. Memory!Clone(c)
    BY <1>2 DEF TablesMatch, Fills, Memory!Clone
  <2> QED
    BY <2>1 DEF Memory!Next
<1>3. ASSUME NEW c \in Slots, Reaps(c) PROVE Memory!Next
  <2>1. Memory!Destroy(c)
    BY <1>3 DEF TablesMatch, Reaps, Memory!Destroy
  <2> QED
    BY <2>1 DEF Memory!Next
<1>4. CASE \E p \in Slots : TurnsZombie(p)
  BY <1>4 DEF TurnsZombie, memory
<1>5. ASSUME NEW p \in Slots, Leaves(p) PROVE Memory!Next
  <2>1. p \in tables /\ p # KERNEL
    BY <1>5, SentinelAssumption DEF TablesMatch, Leaves
  <2>2. DestroyOwnPagetable(p)
    BY <1>5 DEF Leaves
  <2>3. pool \in Nat /\ KernPages \in Nat /\ UserPages \in Nat
    BY PagesAssumption DEF TypeOK
  <2>4. CASE KERNEL \in tables
    <3>1. Memory!Destroy(p)
      BY <2>1, <2>2, <2>4
      DEF DestroyOwnPagetable, KernelPtBuilt, PoolWithKernelPt, Memory!Destroy
    <3> QED
      BY <3>1 DEF Memory!Next
  <2>5. CASE KERNEL \notin tables /\ pool >= KernPages
    <3>1. Memory!Leave(p)
      BY <2>1, <2>2, <2>5
      DEF DestroyOwnPagetable, KernelPtBuilt, PoolWithKernelPt, Memory!Leave
    <3> QED
      BY <3>1 DEF Memory!Next
  <2>6. CASE KERNEL \notin tables /\ ~(pool >= KernPages)
    <3>1. Memory!LeaveShort(p)
      BY <2>1, <2>2, <2>3, <2>6
      DEF DestroyOwnPagetable, KernelPtBuilt, PoolWithKernelPt,
          Memory!LeaveShort
    <3> QED
      BY <3>1 DEF Memory!Next
  <2> QED
    BY <2>4, <2>5, <2>6
<1> QED
  BY <1>1, <1>2, <1>3, <1>4, <1>5 DEF TableStep

(* fork, exit and wait use the pool of page-table pages as PagePool says,  *)
(* even when it is too small for the kernel's own table.                   *)
THEOREM UsesPagePool == Spec => ImplementsPagePool
<1>1. Init => TablesMatch /\ Memory!Init
  BY NProcAssumption DEF Init, TablesMatch, Memory!Init, Slots
<1>2. TableInv /\ TablesMatch /\ [Next]_vars => TablesMatch'
  BY NextIsTableStep, TablesStayMatched
<1>3. TableInv /\ TablesMatch /\ [Next]_vars => [Memory!Next]_<<tables, pool>>
  BY NextIsTableStep, StepUsesPool DEF TableInv
<1> QED
  BY <1>1, <1>2, <1>3, TableInvariant, PTL
  DEF Spec, ImplementsPagePool, Memory!Spec

-----------------------------------------------------------------------------
(* Live processes and zombies whose slots are kept are still there.        *)
LEMMA KeptProcesses ==
  ASSUME NEW c, SlotsKept(Slots \ {c})
  PROVE  /\ {Process(s) : s \in LiveSlots \ {c}}
              = {Process(s) : s \in LiveSlots \ {c}}'
         /\ {Process(s) : s \in ZombieSlots \ {c}}
              = {Process(s) : s \in ZombieSlots \ {c}}'
<1>1. /\ LiveSlots \ {c} = LiveSlots' \ {c}
      /\ ZombieSlots \ {c} = ZombieSlots' \ {c}
  BY DEF SlotsKept, LiveSlots, ZombieSlots
<1>2. /\ \A s \in LiveSlots \ {c} : Process(s) = Process(s)'
      /\ \A s \in ZombieSlots \ {c} : Process(s) = Process(s)'
  BY DEF SlotsKept, LiveSlots, ZombieSlots, Process
<1> QED
  BY <1>1, <1>2

(* Whether a slot holds a live process or a zombie is told by its state.   *)
LEMMA SlotKinds ==
  ASSUME NEW c \in Slots
  PROVE  /\ c \in LiveSlots <=> state[c] # "UNUSED" /\ state[c] # "ZOMBIE"
         /\ c \in ZombieSlots <=> state[c] = "ZOMBIE"
         /\ c \in LiveSlots' <=> state'[c] # "UNUSED" /\ state'[c] # "ZOMBIE"
         /\ c \in ZombieSlots' <=> state'[c] = "ZOMBIE"
<1>1. c \in LiveSlots <=> state[c] # "UNUSED" /\ state[c] # "ZOMBIE"
  BY DEF LiveSlots
<1>2. c \in ZombieSlots <=> state[c] = "ZOMBIE"
  BY DEF ZombieSlots
<1>3. c \in LiveSlots' <=> state'[c] # "UNUSED" /\ state'[c] # "ZOMBIE"
  BY DEF LiveSlots
<1>4. c \in ZombieSlots' <=> state'[c] = "ZOMBIE"
  BY DEF ZombieSlots
<1> QED
  BY <1>1, <1>2, <1>3, <1>4

(* A pid tells the processes in two slots apart.                           *)
LEMMA ProcessesDiffer ==
  ASSUME TableInv, NEW c \in Slots, state[c] # "UNUSED"
  PROVE  /\ LiveProcesses \ {Process(c)} = {Process(s) : s \in LiveSlots \ {c}}
         /\ ZombieProcesses \ {Process(c)} = {Process(s) : s \in ZombieSlots \ {c}}
<1>1. \A s \in Slots \ {c} : state[s] # "UNUSED" => Process(s) # Process(c)
  BY DEF TableInv, UniquePids, Process
<1>2. LiveSlots \subseteq Slots /\ ZombieSlots \subseteq Slots
  BY DEF LiveSlots, ZombieSlots
<1>3. /\ \A s \in LiveSlots : state[s] # "UNUSED"
      /\ \A s \in ZombieSlots : state[s] # "UNUSED"
  BY Zenon, SMT DEF LiveSlots, ZombieSlots
<1> QED
  BY <1>1, <1>2, <1>3 DEF LiveProcesses, ZombieProcesses

(* What each kind of step does to the processes, by their pids.            *)
LEMMA StepOfProcesses ==
  ASSUME TableInv, TableStep
  PROVE  \/ /\ UNCHANGED <<LiveProcesses, ZombieProcesses>>
            /\ next_pid' \in {next_pid, next_pid + 1}
         \/ \E p \in LiveProcesses :
              \/ /\ LiveProcesses' = LiveProcesses \cup {<<next_pid, p[1]>>}
                 /\ next_pid' = next_pid + 1 /\ UNCHANGED ZombieProcesses
              \/ /\ LiveProcesses' = LiveProcesses \ {p}
                 /\ ZombieProcesses' = ZombieProcesses \cup {p}
                 /\ UNCHANGED next_pid
              \/ /\ LiveProcesses' = LiveProcesses \ {p}
                 /\ UNCHANGED <<ZombieProcesses, next_pid>>
         \/ \E z \in ZombieProcesses :
              /\ ZombieProcesses' = ZombieProcesses \ {z}
              /\ UNCHANGED <<LiveProcesses, next_pid>>
<1> DEFINE Others(c) == {Process(s) : s \in LiveSlots \ {c}}
           OtherZombies(c) == {Process(s) : s \in ZombieSlots \ {c}}
<1>1. ASSUME NEW c, SlotsKept(Slots \ {c})
      PROVE  Others(c)' = Others(c) /\ OtherZombies(c)' = OtherZombies(c)
  BY <1>1, KeptProcesses, Zenon, SMT
<1>2. ASSUME NEW c
      PROVE  /\ LiveProcesses =
                  Others(c) \cup (IF c \in LiveSlots THEN {Process(c)} ELSE {})
             /\ ZombieProcesses =
                  OtherZombies(c)
                    \cup (IF c \in ZombieSlots THEN {Process(c)} ELSE {})
             /\ LiveProcesses' =
                  Others(c)' \cup (IF c \in LiveSlots' THEN {Process(c)'} ELSE {})
             /\ ZombieProcesses' =
                  OtherZombies(c)'
                    \cup (IF c \in ZombieSlots' THEN {Process(c)'} ELSE {})
  BY DEF LiveProcesses, ZombieProcesses
<1>3. ASSUME NEW c \in Slots, state[c] # "UNUSED"
      PROVE  /\ LiveProcesses \ {Process(c)} = Others(c)
             /\ ZombieProcesses \ {Process(c)} = OtherZombies(c)
  BY <1>3, ProcessesDiffer
<1> HIDE DEF Others, OtherZombies
<1>4. CASE Keeps
  <2>1. SlotsKept(Slots \ {NULL})
    BY <1>4 DEF Keeps, SlotsKept
  <2>2. NULL \notin LiveSlots /\ NULL \notin LiveSlots'
        /\ NULL \notin ZombieSlots /\ NULL \notin ZombieSlots'
    BY SentinelAssumption DEF LiveSlots, ZombieSlots
  <2>3. UNCHANGED <<LiveProcesses, ZombieProcesses>>
    BY <1>1, <1>2, <2>1, <2>2
  <2> QED
    BY <1>4, <2>3 DEF Keeps
<1>5. ASSUME NEW c \in Slots, Fills(c)
      PROVE  \E p \in LiveProcesses :
               /\ LiveProcesses' = LiveProcesses \cup {<<next_pid, p[1]>>}
               /\ next_pid' = next_pid + 1 /\ UNCHANGED ZombieProcesses
  <2>1. /\ c \notin LiveSlots /\ c \in LiveSlots'
        /\ c \notin ZombieSlots /\ c \notin ZombieSlots'
    <3>1. state[c] = "UNUSED" /\ state'[c] = "RUNNABLE"
      BY <1>5, Zenon, SMT DEF Fills
    <3> QED
      BY <3>1, SlotKinds
  <2>2. /\ Process(current_proc) \in LiveProcesses
        /\ Process(c)' = <<next_pid, Process(current_proc)[1]>>
    BY <1>5 DEF Fills, LiveProcesses, Process
  <2>3. SlotsKept(Slots \ {c}) /\ next_pid' = next_pid + 1
    BY <1>5 DEF Fills
  <2>4. /\ LiveProcesses' = LiveProcesses \cup {Process(c)'}
        /\ UNCHANGED ZombieProcesses
    BY <1>1, <1>2, <2>1, <2>3, Zenon, SMT
  <2> QED
    BY <2>2, <2>3, <2>4
<1>6. ASSUME NEW c \in Slots, Reaps(c)
      PROVE  \E z \in ZombieProcesses :
               /\ ZombieProcesses' = ZombieProcesses \ {z}
               /\ UNCHANGED <<LiveProcesses, next_pid>>
  <2>1. /\ c \notin LiveSlots /\ c \notin LiveSlots'
        /\ c \in ZombieSlots /\ c \notin ZombieSlots'
    <3>1. state[c] = "ZOMBIE" /\ state'[c] = "UNUSED"
      BY <1>6 DEF Reaps
    <3> QED
      BY <3>1, SlotKinds
  <2>2. SlotsKept(Slots \ {c}) /\ UNCHANGED next_pid /\ state[c] # "UNUSED"
    BY <1>6 DEF Reaps
  <2>3. Process(c) \in ZombieProcesses
    BY <2>1 DEF ZombieProcesses
  <2>4. /\ LiveProcesses = Others(c) /\ LiveProcesses' = Others(c)'
        /\ ZombieProcesses' = OtherZombies(c)'
    BY <1>2, <2>1, Zenon, SMT
  <2>5. ZombieProcesses \ {Process(c)} = OtherZombies(c)
    BY <1>3, <2>2
  <2>6. Others(c)' = Others(c) /\ OtherZombies(c)' = OtherZombies(c)
    BY <1>1, <2>2
  <2> QED
    BY <2>2, <2>3, <2>4, <2>5, <2>6
<1>7. ASSUME NEW c \in Slots, TurnsZombie(c)
      PROVE  \E p \in LiveProcesses :
               /\ LiveProcesses' = LiveProcesses \ {p}
               /\ ZombieProcesses' = ZombieProcesses \cup {p}
               /\ UNCHANGED next_pid
  <2>1. /\ c \in LiveSlots /\ c \notin LiveSlots'
        /\ c \notin ZombieSlots /\ c \in ZombieSlots'
    <3>1. state[c] = "RUNNING" /\ state'[c] = "ZOMBIE"
      BY <1>7 DEF TurnsZombie
    <3> QED
      BY <3>1, SlotKinds, Zenon, SMT
  <2>2. /\ SlotsKept(Slots \ {c}) /\ UNCHANGED next_pid /\ state[c] # "UNUSED"
        /\ Process(c)' = Process(c)
    BY <1>7 DEF TurnsZombie, Process
  <2>3. Process(c) \in LiveProcesses
    BY <2>1 DEF LiveProcesses
  <2>4. /\ LiveProcesses' = LiveProcesses \ {Process(c)}
        /\ ZombieProcesses' = ZombieProcesses \cup {Process(c)}
    BY <1>1, <1>2, <1>3, <2>1, <2>2
  <2> QED
    BY <2>2, <2>3, <2>4
<1>8. ASSUME NEW c \in Slots, Leaves(c)
      PROVE  \E p \in LiveProcesses :
               /\ LiveProcesses' = LiveProcesses \ {p}
               /\ UNCHANGED <<ZombieProcesses, next_pid>>
  <2>1. /\ c \in LiveSlots /\ c \notin LiveSlots'
        /\ c \notin ZombieSlots /\ c \notin ZombieSlots'
    <3>1. state[c] = "RUNNING" /\ state'[c] = "UNUSED"
      BY <1>8 DEF Leaves
    <3> QED
      BY <3>1, SlotKinds
  <2>2. SlotsKept(Slots \ {c}) /\ UNCHANGED next_pid /\ state[c] # "UNUSED"
    BY <1>8 DEF Leaves
  <2>3. Process(c) \in LiveProcesses
    BY <2>1 DEF LiveProcesses
  <2>4. /\ ZombieProcesses = OtherZombies(c)
        /\ ZombieProcesses' = OtherZombies(c)'
        /\ LiveProcesses' = Others(c)'
    BY <1>2, <2>1, Zenon, SMT
  <2>5. LiveProcesses \ {Process(c)} = Others(c)
    BY <1>3, <2>2
  <2>6. Others(c)' = Others(c) /\ OtherZombies(c)' = OtherZombies(c)
    BY <1>1, <2>2
  <2> QED
    <3>1. LiveProcesses' = LiveProcesses \ {Process(c)}
      BY <2>4, <2>5, <2>6
    <3>2. UNCHANGED <<ZombieProcesses, next_pid>>
      BY <2>2, <2>4, <2>6
    <3> QED
      BY <2>3, <3>1, <3>2
<1> QED
  BY <1>4, <1>5, <1>6, <1>7, <1>8 DEF TableStep

(* main() starts with the one process ProcLifecycle starts with.           *)
LEMMA FirstProcess == Init => Processes!Init
<1> SUFFICES ASSUME Init PROVE Processes!Init
  OBVIOUS
<1>1. 0 \in Slots
  BY NProcAssumption DEF Slots
<1>2. LiveSlots = {0} /\ ZombieSlots = {}
  BY <1>1 DEF Init, LiveSlots, ZombieSlots
<1>3. Process(0) = <<1, 0>>
  BY <1>1 DEF Init, Process
<1>4. LiveProcesses = {<<1, 0>>} /\ ZombieProcesses = {} /\ next_pid = 2
  BY <1>2, <1>3 DEF Init, LiveProcesses, ZombieProcesses
<1> QED
  BY <1>4 DEF Processes!Init, LiveProcesses, ZombieProcesses, LiveSlots,
              ZombieSlots

(* Seen through its pids, the table does what ProcLifecycle allows: one    *)
(* process at most is forked, exits or is reaped at a time, none comes     *)
(* back and no pid is used again.                                          *)
THEOREM FollowsLifecycle == Spec => ImplementsLifecycle
<1>1. Init => Processes!Init
  BY FirstProcess
<1>2. TableInv /\ [Next]_vars => [Processes!Next]_(Processes!vars)
  <2> SUFFICES ASSUME TableInv, [Next]_vars
               PROVE  Processes!Next \/ UNCHANGED Processes!vars
    OBVIOUS
  <2>1. TableStep
    BY NextIsTableStep
  <2> QED
    BY <2>1, StepOfProcesses, Zenon, SMT
    DEF Processes!Next, Processes!vars, Processes!Fork, Processes!ForkFails,
        Processes!ExitToZombie, Processes!ExitCollected, Processes!Reap,
        LiveProcesses, ZombieProcesses, LiveSlots, ZombieSlots
<1> QED
  BY <1>1, <1>2, TableInvariant, PTL DEF Spec, ImplementsLifecycle, Processes!Spec

-----------------------------------------------------------------------------
(* What the shipped shell makes of the kernel, for every length of its     *)
(* loops.                                                                  *)
ShellLabels ==
  {"prompt", "quick", "sleep", "exit", "fork", "forked", "parent", "joined",
   "none"}
ChildLabels == {"forked", "child", "none"}

(* The slots in use beside the shell's own, slot 0.                        *)
Kids == {s \in Slots \ {0} : state[s] # "UNUSED"}

(* What the text of sh.c keeps in its own variables.                       *)
ShellTypes ==
  /\ pc \in [Slots -> ShellLabels \cup ChildLabels]
  /\ cmd \in [Slots -> ForkCommands]
  /\ kid \in [Slots -> Int \cup {AnyVal}]
  /\ naps \in [Slots -> Nat]

(* The shell is the first process and nobody's child.  Once it has left,   *)
(* nothing is left.                                                        *)
ShellIsFirst ==
  /\ pc[0] \in ShellLabels
  /\ state[0] # "ZOMBIE"
  /\ state[0] = "UNUSED" => Kids = {}
  /\ state[0] # "UNUSED" => pid[0] = 1 /\ ppid[0] = 0 /\ parent[0] = NULL
  /\ state[0] # "UNUSED" => pc[0] # "none"

(* It has one child at most, which runs the text of a test's child.        *)
OneChild ==
  /\ \A s, t \in Kids : s = t
  /\ \A s \in Slots \ {0} :
       /\ pc[s] \in ChildLabels
       /\ state[s] # "UNUSED" => parent[s] = 0 /\ ppid[s] = 1
       /\ pc[s] = "none" <=> state[s] \in {"UNUSED", "ZOMBIE"}
       /\ pc[s] = "forked" => a0[s] = 0

(* What the shell knows of its child, by where it is in its text.          *)
ShellKnowsChild ==
  /\ pc[0] \in {"prompt", "quick", "sleep", "exit", "fork"} => Kids = {}
  /\ pc[0] = "forked" =>
       \/ a0[0] = -1 /\ Kids = {}
       \/ \E s \in Kids : a0[0] = pid[s]
  /\ pc[0] = "parent" => \E s \in Kids : kid[0] = pid[s]
  /\ pc[0] = "joined" =>
       \/ Waiting(0) /\ \E s \in Kids : kid[0] = pid[s]
       \/ Resumed(0) /\ Kids = {} /\ a0[0] = kid[0] /\ kid[0] > 0
  /\ pc[0] = "forked" => Resumed(0)
  /\ Waiting(0) => pc[0] = "joined"
  /\ mode = "read" => current_proc = 0 /\ pc[0] = "prompt"

Family == ShellTypes /\ ShellIsFirst /\ OneChild /\ ShellKnowsChild

(* The inductive invariant: the two properties the run checks hold only    *)
(* because the shell and its child agree on who exists.                    *)
ShellInv == TableInv /\ TablesMatch /\ Family
-----------------------------------------------------------------------------
(* The shell makes system calls and nothing else: every step is a trap of  *)
(* NanoProc, or leaves the kernel alone.                                   *)
LEMMA ShellStepIsTrap == [ShellNext]_allvars => [Next]_vars
<1> SUFFICES ASSUME [ShellNext]_allvars PROVE Next \/ UNCHANGED vars
  OBVIOUS
<1>1. CASE ReadChar  BY <1>1 DEF ReadChar, Next
<1>2. CASE QuickCommand  BY <1>2 DEF QuickCommand, Next
<1>3. CASE SleepCommand  BY <1>3 DEF SleepCommand, Next
<1>4. CASE Exit  BY <1>4 DEF Exit, Next
<1>5. CASE ForkCall  BY <1>5 DEF ForkCall, Next
<1>6. CASE Branch  BY <1>6 DEF Branch
<1>7. CASE Nap
  <2>1. 1 \in 1 .. MaxSleep /\ 2 \in 1 .. MaxSleep
    BY BoundsAssumption, NapsAssumption
  <2> QED
    BY <1>7, <2>1 DEF Nap, Next
<1>8. CASE ChildExit  BY <1>8 DEF ChildExit, Next
<1>9. CASE Join  BY <1>9 DEF Join, Next
<1>10. CASE Report  BY <1>10 DEF Report, Next
<1>11. CASE CharArrives  BY <1>11 DEF CharArrives, Next
<1>12. CASE Tick  BY <1>12 DEF Tick, Next
<1>13. CASE Poll  BY <1>13 DEF Poll, Next
<1>14. CASE UNCHANGED allvars  BY <1>14 DEF allvars
<1> QED
  BY <1>1, <1>2, <1>3, <1>4, <1>5, <1>6, <1>7, <1>8, <1>9, <1>10, <1>11,
     <1>12, <1>13, <1>14 DEF ShellNext, UserStep

(* So what holds of the table under any program holds under the shell.     *)
LEMMA ShellRunsKernel == ShellSpec => Spec
<1>1. ShellInit => Init
  BY DEF ShellInit
<1> QED
  BY <1>1, ShellStepIsTrap, PTL DEF ShellSpec, Spec

-----------------------------------------------------------------------------
(* The state main() leaves, with the shell at its prompt.                  *)
LEMMA ShellStarts == ShellInit => ShellInv
<1> SUFFICES ASSUME ShellInit PROVE ShellInv
  OBVIOUS
<1>1. 0 \in Slots
  BY NProcAssumption DEF Slots
<1>2. TableInv /\ TablesMatch
  BY <1>1, InitTable DEF ShellInit, Init, TablesMatch
<1>3. /\ state[0] = "RUNNING" /\ pc[0] = "prompt" /\ pid[0] = 1 /\ ppid[0] = 0
      /\ parent[0] = NULL /\ mode = "user"
      /\ \A s \in Slots \ {0} : state[s] = "UNUSED" /\ pc[s] = "none"
  BY <1>1 DEF ShellInit, Init
<1>4. Kids = {}
  BY <1>3 DEF Kids
<1>5. ShellTypes
  BY DEF ShellInit, ShellTypes, ShellLabels, ChildLabels, ForkCommands
<1>6. ShellIsFirst /\ OneChild
  BY <1>3, <1>4, Zenon, SMT DEF ShellIsFirst, OneChild, ShellLabels, ChildLabels
<1>7. ShellKnowsChild
  BY <1>3, <1>4, Zenon, SMT DEF ShellKnowsChild, Waiting
<1> QED
  BY <1>2, <1>5, <1>6, <1>7 DEF ShellInv, Family
-----------------------------------------------------------------------------
(* A step that neither fills nor empties a slot.                           *)
CalmTable ==
  \A s \in Slots :
    /\ state'[s] = "UNUSED" <=> state[s] = "UNUSED"
    /\ state'[s] = "ZOMBIE" <=> state[s] = "ZOMBIE"
    /\ state[s] # "UNUSED" =>
         pid'[s] = pid[s] /\ parent'[s] = parent[s] /\ ppid'[s] = ppid[s]

(* It keeps the shell's family as it is.                                   *)
LEMMA CalmFamily ==
  ASSUME ShellInv, CalmTable,
         pc'[0] \in ShellLabels, state[0] # "UNUSED" => pc'[0] # "none",
         \A s \in Slots \ {0} : \/ pc'[s] = pc[s] /\ a0'[s] = a0[s]
                                \/ pc[s] # "none" /\ pc'[s] = "child"
  PROVE  /\ Kids' = Kids /\ \A s \in Kids : pid'[s] = pid[s]
         /\ ShellIsFirst' /\ OneChild'
<1>1. 0 \in Slots
  BY NProcAssumption DEF Slots
<1>2. Kids' = Kids /\ \A s \in Kids : pid'[s] = pid[s]
  BY Zenon, SMT DEF CalmTable, Kids
<1>3. ShellIsFirst'
  BY <1>1, <1>2, Zenon, SMT DEF ShellInv, Family, ShellIsFirst, CalmTable
<1>4. OneChild'
  BY <1>2 DEF ShellInv, Family, OneChild, CalmTable, ChildLabels
<1> QED
  BY <1>2, <1>3, <1>4

(* What a dispatch does to the states of a table, one RUNNING process of   *)
(* which has been put aside.                                               *)
LEMMA DispatchStates ==
  ASSUME TableInv, NEW st \in [Slots -> States], NEW start \in Slots,
         NEW sp \in Slots \cup {KERNEL}, \A s \in Slots : st[s] # "RUNNING",
         Dispatch(st, start, sp)
  PROVE  /\ mode' # "read"
         /\ \A s \in Slots : \/ state'[s] = st[s]
                             \/ st[s] = "RUNNABLE" /\ state'[s] = "RUNNING"
<1>1. last_slot \in Slots
  BY DEF TableInv, TypeOK
<1>2. mode' # "read"
  BY DEF Dispatch
<1> QED
  BY <1>1, <1>2, DispatchEffect

(* The process that makes a call is the shell, or its child.               *)
LEMMA CallerIsShellOrKid ==
  ASSUME ShellInv, mode = "user"
  PROVE  /\ current_proc \in Slots /\ state[current_proc] = "RUNNING"
         /\ state[0] # "UNUSED" /\ 0 \in Slots
         /\ current_proc # 0 =>
              /\ current_proc \in Kids /\ pc[current_proc] \in {"forked", "child"}
              /\ \A s \in Kids : s = current_proc
         /\ current_proc = 0 => pc[0] \in ShellLabels \ {"none"}
<1>1. 0 \in Slots
  BY NProcAssumption DEF Slots
<1>2. current_proc \in Slots /\ state[current_proc] = "RUNNING"
  BY UserModeHasCurrent DEF ShellInv
<1>3. current_proc # 0 => current_proc \in Kids
  BY <1>2 DEF Kids
<1>4. state[0] # "UNUSED"
  BY <1>2, <1>3 DEF ShellInv, Family, ShellIsFirst
<1>5. current_proc # 0 => pc[current_proc] \in {"forked", "child"}
                          /\ \A s \in Kids : s = current_proc
  BY <1>2, <1>3 DEF ShellInv, Family, OneChild, ChildLabels
<1> QED
  BY <1>1, <1>2, <1>3, <1>4, <1>5 DEF ShellInv, Family, ShellIsFirst
-----------------------------------------------------------------------------
(* The calls that return at once, and the branches on their results.       *)
LEMMA QuietFamily ==
  ASSUME ShellInv,
         ReadChar \/ CharArrives \/ QuickCommand \/ Report \/ Branch
  PROVE  Family'
<1> DEFINE q == current_proc
<1>1. 0 \in Slots /\ q \in Slots /\ state[q] = "RUNNING"
  <2>1. mode # "poll"
    BY DEF ReadChar, CharArrives, QuickCommand, Report, Branch, At, ReadDone
  <2> QED
    BY <2>1, UserModeHasCurrent, NProcAssumption DEF ShellInv, Slots
<1>2. /\ UNCHANGED <<state, pid, parent, ppid, wake_tick, current_proc>>
      /\ CalmTable
  BY DEF ReadChar, CharArrives, QuickCommand, Report, Branch, SysRead, ReadDone,
         SysQuick, Return, sched, ident, vars, CalmTable
<1>3. UNCHANGED Resumed(0) /\ UNCHANGED Waiting(0)
  BY <1>2 DEF Resumed, Waiting
<1>4. ShellTypes /\ a0 \in [Slots -> Int \cup {AnyVal}]
      /\ (q # 0 => pc[q] \in {"forked", "child"})
  BY <1>1, CallerIsShellOrKid
  DEF ShellInv, Family, TableInv, TypeOK, ShellTypes, OneChild, ChildLabels
<1>5. CASE ReadChar
  <2>1. q = 0 /\ pc[0] = "prompt" /\ UNCHANGED <<pc, cmd, kid, naps, a0>>
    BY <1>4, <1>5 DEF ReadChar, At, SysRead, user
  <2>2. /\ Kids' = Kids /\ \A s \in Kids : pid'[s] = pid[s]
        /\ ShellIsFirst' /\ OneChild'
    BY <1>2, <2>1, CalmFamily, Zenon, SMT DEF ShellLabels
  <2>3. ShellKnowsChild'
    BY <1>2, <1>3, <2>1, <2>2 DEF ShellInv, Family, ShellKnowsChild
  <2> QED
    BY <1>4, <2>1, <2>2, <2>3, Zenon, SMT DEF Family, ShellTypes
<1>6. CASE CharArrives
  <2>1. /\ q = 0 /\ pc[0] = "prompt" /\ mode' = "user"
        /\ pc' = [pc EXCEPT ![0] = pc'[0]] /\ a0' = [a0 EXCEPT ![0] = AnyVal]
        /\ pc'[0] \in {"prompt", "quick", "sleep", "exit", "fork"}
        /\ cmd' \in [Slots -> ForkCommands] /\ UNCHANGED <<kid, naps>>
    BY <1>1, <1>4, <1>6
    DEF CharArrives, ReadDone, Goto, ShellInv, Family, ShellKnowsChild,
        ShellTypes
  <2>2. /\ Kids' = Kids /\ \A s \in Kids : pid'[s] = pid[s]
        /\ ShellIsFirst' /\ OneChild'
    BY <1>2, <1>4, <2>1, CalmFamily, Zenon, SMT DEF ShellLabels, ShellTypes
  <2>3. ShellKnowsChild'
    BY <1>2, <1>3, <2>1, <2>2 DEF ShellInv, Family, ShellKnowsChild
  <2> QED
    BY <1>4, <2>1, <2>2, <2>3, Zenon, SMT DEF Family, ShellTypes, ShellLabels
<1>7. CASE QuickCommand \/ Report
  <2>1. /\ q = 0 /\ pc[0] \in {"quick", "joined"} /\ mode' = "user"
        /\ pc' = [pc EXCEPT ![0] = "prompt"] /\ a0' = [a0 EXCEPT ![0] = AnyVal]
        /\ UNCHANGED <<cmd, kid, naps>>
    BY <1>1, <1>4, <1>7, Zenon, SMT
    DEF QuickCommand, Report, At, SysQuick, Return, sched, Goto
  <2>2. /\ Kids' = Kids /\ \A s \in Kids : pid'[s] = pid[s]
        /\ ShellIsFirst' /\ OneChild'
    BY <1>1, <1>2, <1>4, <2>1, CalmFamily DEF ShellLabels, ShellTypes
  <2>3. Kids = {} /\ ~ Waiting(0)
    BY <1>1, <2>1, Zenon, SMT DEF ShellInv, Family, ShellKnowsChild, Waiting
  <2>4. ShellKnowsChild'
    BY <1>1, <1>2, <1>3, <1>4, <2>1, <2>2, <2>3 DEF ShellKnowsChild, ShellTypes
  <2> QED
    BY <1>4, <2>1, <2>2, <2>4, Zenon, SMT DEF Family, ShellTypes, ShellLabels
<1>8. CASE Branch
  <2>1. /\ pc[q] = "forked" /\ UNCHANGED <<a0, cmd, mode>> /\ mode = "user"
        /\ kid' = [kid EXCEPT ![q] = a0[q]]
        /\ pc' = [pc EXCEPT ![q] = IF a0[q] = -1 THEN "quick"
                                    ELSE IF a0[q] = 0 THEN "child" ELSE "parent"]
    <3> DEFINE label == CASE a0[q] = -1 -> "quick" [] a0[q] = 0 -> "child"
                          [] OTHER -> "parent"
    <3>1. label = IF a0[q] = -1 THEN "quick"
                  ELSE IF a0[q] = 0 THEN "child" ELSE "parent"
      <4>1. CASE a0[q] = -1  BY <4>1
      <4>2. CASE a0[q] = 0  BY <4>2
      <4>3. CASE a0[q] # -1 /\ a0[q] # 0  BY <4>3
      <4> QED  BY <4>1, <4>2, <4>3
    <3>2. /\ pc[q] = "forked" /\ UNCHANGED <<a0, cmd, mode>> /\ mode = "user"
          /\ kid' = [kid EXCEPT ![q] = a0[q]]
          /\ pc' = [pc EXCEPT ![q] = label]
      BY <1>8 DEF Branch, At, Goto, vars, sched
    <3> HIDE DEF label
    <3> QED
      BY <3>1, <3>2
  <2>2. naps' \in [Slots -> Nat]
    BY <1>4, <1>8, RoundsAssumption, Zenon, SMT DEF Branch, ShellTypes
  <2>3. CASE q # 0
    <3>1. a0[q] = 0 /\ kid'[0] = kid[0]
      BY <1>1, <1>4, <2>1, <2>3 DEF ShellInv, Family, OneChild, ShellTypes
    <3>2. pc' = [pc EXCEPT ![q] = "child"]
      BY <2>1, <3>1
    <3>3. pc'[0] = pc[0] /\ pc[0] \in ShellLabels
          /\ (state[0] # "UNUSED" => pc[0] # "none")
      BY <1>1, <1>4, <2>3, <3>2, Zenon, SMT DEF ShellTypes, ShellInv, Family, ShellIsFirst
    <3>4. /\ Kids' = Kids /\ \A s \in Kids : pid'[s] = pid[s]
          /\ ShellIsFirst' /\ OneChild'
      <4>1. \A s \in Slots \ {0} : \/ pc'[s] = pc[s] /\ a0'[s] = a0[s]
                                   \/ pc[s] # "none" /\ pc'[s] = "child"
        BY <1>4, <2>1, <3>2, Zenon, SMT DEF ShellTypes
      <4> QED
        BY <1>2, <3>3, <4>1, CalmFamily
    <3>5. ShellKnowsChild'
      BY <1>2, <1>3, <2>1, <2>3, <3>1, <3>3, <3>4
      DEF ShellInv, Family, ShellKnowsChild
    <3> QED
      BY <1>4, <2>1, <2>2, <3>2, <3>4, <3>5, Zenon, SMT
      DEF Family, ShellTypes, ShellLabels, ChildLabels
  <2>4. CASE q = 0
    <3>1. \/ a0[0] = -1 /\ Kids = {}
          \/ \E s \in Kids : a0[0] = pid[s]
      BY <2>1, <2>4 DEF ShellInv, Family, ShellKnowsChild
    <3>2. \A s \in Kids : pid[s] \in Nat \ {0}
      BY DEF Kids, ShellInv, TableInv, UniquePids
    <3>3. CASE a0[0] = -1 /\ Kids = {}
      <4>1. pc' = [pc EXCEPT ![0] = "quick"]
        BY <2>1, <2>4, <3>3, Zenon, SMT
      <4>2. /\ Kids' = Kids /\ \A s \in Kids : pid'[s] = pid[s]
            /\ ShellIsFirst' /\ OneChild'
        BY <1>1, <1>2, <1>4, <2>1, <4>1, CalmFamily DEF ShellLabels, ShellTypes
      <4>3. ~ Waiting(0)
        BY <1>1, <2>4, Zenon, SMT DEF Waiting
      <4>4. ShellKnowsChild'
        BY <1>1, <1>2, <1>3, <1>4, <2>1, <3>3, <4>1, <4>2, <4>3
        DEF ShellKnowsChild, ShellTypes
      <4> QED
        BY <1>4, <2>1, <2>2, <2>4, <4>1, <4>2, <4>4, Zenon, SMT
        DEF Family, ShellTypes, ShellLabels
    <3>4. CASE \E s \in Kids : a0[0] = pid[s]
      <4>1. pc' = [pc EXCEPT ![0] = "parent"]
        <5>1. PICK n \in Nat \ {0} : a0[0] = n
          BY <3>2, <3>4, Zenon, SMT
        <5>2. n # -1 /\ n # 0
          OBVIOUS
        <5> QED
          BY <2>1, <2>4, <5>1, <5>2
      <4>2. /\ Kids' = Kids /\ \A s \in Kids : pid'[s] = pid[s]
            /\ ShellIsFirst' /\ OneChild'
        BY <1>1, <1>2, <1>4, <2>1, <4>1, CalmFamily, Zenon, SMT DEF ShellLabels, ShellTypes
      <4>3. ~ Waiting(0)
        BY <1>1, <2>4 DEF Waiting
      <4>4. ShellKnowsChild'
        BY <1>1, <1>2, <1>3, <1>4, <2>1, <2>4, <3>4, <4>1, <4>2, <4>3
        DEF ShellKnowsChild, ShellTypes
      <4> QED
        BY <1>4, <2>1, <2>2, <2>4, <4>1, <4>2, <4>4, Zenon, SMT
        DEF Family, ShellTypes, ShellLabels
    <3> QED
      BY <3>1, <3>3, <3>4, Zenon, SMT
  <2> QED
    BY <2>3, <2>4
<1> QED
  BY <1>5, <1>6, <1>7, <1>8
-----------------------------------------------------------------------------
(* A step of the timer wakes who sleeps, and a wait() is no sleep.         *)
LEMMA TimerFamily ==
  ASSUME ShellInv, Tick \/ Poll
  PROVE  Family'
<1>1. /\ 0 \in Slots /\ state \in [Slots -> States] /\ last_slot \in Slots
      /\ satp \in Slots \cup {KERNEL}
      /\ wake_tick \in [Slots -> Nat] /\ ticks \in Nat
  <2>1. 0 \in Slots
    BY NProcAssumption DEF Slots
  <2> QED
    BY <2>1, Zenon, SMT DEF ShellInv, TableInv, TypeOK
<1>2. /\ UNCHANGED <<pc, cmd, kid, naps, a0, pid, parent, ppid>>
      /\ wake_tick' = [s \in Slots |-> IF Expired(s, NextTick) THEN 0
                                      ELSE wake_tick[s]]
  BY DEF Tick, Poll, TimerTrap, PollTick, timer_tick, user, ident
<1>3. /\ mode' # "read"
      /\ \A s \in Slots :
           \/ state'[s] = Woken(NextTick)[s]
           \/ state'[s] \in {"RUNNABLE", "RUNNING"}
              /\ Woken(NextTick)[s] \in {"RUNNABLE", "RUNNING"}
  <2>1. Woken(NextTick) \in [Slots -> States]
    BY <1>1, Zenon, SMT DEF Woken, States
  <2>2. CASE Tick
    <3> DEFINE st == [Woken(NextTick) EXCEPT ![current_proc] = "RUNNABLE"]
    <3>1. current_proc \in Slots /\ state[current_proc] = "RUNNING"
      BY <2>2, UserModeHasCurrent DEF Tick, TimerTrap, ShellInv
    <3>2. \A s \in Slots : Woken(NextTick)[s] = "RUNNING" <=> s = current_proc
      BY <1>1, <3>1 DEF Woken, Expired, ShellInv, TableInv, CurrentRuns
    <3>3. st \in [Slots -> States] /\ \A s \in Slots : st[s] # "RUNNING"
      BY <2>1, <3>2, Zenon, SMT DEF States
    <3>4. Dispatch(st, current_proc, satp)
      BY <2>2 DEF Tick, TimerTrap
    <3>5. /\ mode' # "read"
          /\ \A s \in Slots : \/ state'[s] = st[s]
                              \/ st[s] = "RUNNABLE" /\ state'[s] = "RUNNING"
      <4> HIDE DEF st
      <4> QED
        BY <1>1, <3>1, <3>3, <3>4, DispatchStates, Zenon, SMT DEF ShellInv
    <3> QED
      BY <2>1, <3>1, <3>2, <3>5
  <2>3. CASE Poll
    <3>1. \A s \in Slots : Woken(NextTick)[s] # "RUNNING"
      BY <1>1, <2>3, SentinelAssumption
      DEF Poll, PollTick, Woken, ShellInv, TableInv, CurrentRuns
    <3>2. Dispatch(Woken(NextTick), last_slot, satp)
      BY <2>3, Zenon, SMT DEF Poll, PollTick
    <3> QED
      BY <1>1, <2>1, <3>1, <3>2, DispatchStates, Zenon, SMT DEF ShellInv
  <2> QED
    BY <2>2, <2>3, Zenon, SMT
<1>4. CalmTable
  BY <1>1, <1>2, <1>3 DEF CalmTable, Woken, Expired
<1>5. (Waiting(0)' <=> Waiting(0)) /\ (Resumed(0) => Resumed(0)')
  BY <1>1, <1>2, <1>3, Zenon, SMT DEF Waiting, Resumed, Woken, Expired
<1>6. /\ Kids' = Kids /\ \A s \in Kids : pid'[s] = pid[s]
      /\ ShellIsFirst' /\ OneChild'
  BY <1>2, <1>4, CalmFamily DEF ShellInv, Family, ShellIsFirst
<1>7. ShellKnowsChild'
  BY <1>2, <1>3, <1>5, <1>6, Zenon, SMT DEF ShellInv, Family, ShellKnowsChild
<1> QED
  BY <1>2, <1>6, <1>7, Zenon, SMT DEF ShellInv, Family, ShellTypes

(* A sleep of the shell or of its child: sys_sleep blocks with a deadline. *)
LEMMA SleepFamily ==
  ASSUME ShellInv, SleepCommand \/ Nap
  PROVE  Family'
<1> DEFINE q == current_proc
           st == [state EXCEPT ![q] = "SLEEPING"]
<1>1. /\ state \in [Slots -> States]
      /\ satp \in Slots \cup {KERNEL}
      /\ wake_tick \in [Slots -> Nat] /\ ticks \in Nat
      /\ a0 \in [Slots -> Int \cup {AnyVal}] /\ ShellTypes
  BY DEF ShellInv, Family, TableInv, TypeOK
<1>2. PICK n \in Nat \ {0} : SysSleep(n)
  BY DEF SleepCommand, Nap
<1>3. mode = "user"
  BY <1>2 DEF SysSleep
<1>4. /\ q \in Slots /\ state[q] = "RUNNING"
      /\ state[0] # "UNUSED" /\ 0 \in Slots
      /\ q # 0 => /\ q \in Kids /\ pc[q] \in {"forked", "child"}
      /\ q = 0 => pc[0] \in ShellLabels \ {"none"}
  BY <1>3, CallerIsShellOrKid
<1>5. /\ UNCHANGED <<pid, parent, ppid>>
      /\ wake_tick' = [wake_tick EXCEPT ![q] = ticks + n]
      /\ a0' = [a0 EXCEPT ![q] = 0]
      /\ Dispatch(st, q, satp)
  BY <1>2 DEF SysSleep, ident
<1>6. /\ mode' # "read"
      /\ \A s \in Slots : \/ state'[s] = st[s]
                          \/ st[s] = "RUNNABLE" /\ state'[s] = "RUNNING"
  <2>1. st \in [Slots -> States] /\ \A s \in Slots : st[s] # "RUNNING"
    BY <1>1, <1>4, Zenon, SMT DEF States, ShellInv, TableInv, CurrentRuns
  <2> HIDE DEF st
  <2> QED
    BY <1>1, <1>4, <1>5, <2>1, DispatchStates, Zenon, SMT DEF ShellInv
<1>7. CalmTable
  BY <1>1, <1>4, <1>5, <1>6, Zenon, SMT DEF CalmTable
<1>8. /\ (q # 0 => (Waiting(0)' <=> Waiting(0)) /\ (Resumed(0) => Resumed(0)'))
      /\ q = 0 => ~ Waiting(0)'
  BY <1>1, <1>2, <1>4, <1>5, <1>6 DEF Waiting, Resumed
<1>9. /\ UNCHANGED <<cmd, kid>> /\ naps' \in [Slots -> Nat]
      /\ \/ q = 0 /\ pc[0] = "sleep" /\ pc' = [pc EXCEPT ![0] = "prompt"]
         \/ q = 0 /\ pc[0] = "parent" /\ UNCHANGED pc
         \/ q # 0 /\ pc[q] = "child" /\ UNCHANGED pc
  <2>1. CASE SleepCommand
    BY <1>1, <1>4, <2>1, Zenon, SMT DEF SleepCommand, At, Goto, ShellTypes
  <2>2. CASE Nap
    BY <1>1, <1>4, <2>2 DEF Nap, At, ShellTypes, ShellLabels
  <2> QED
    BY <2>1, <2>2
<1> HIDE DEF st
<1>10. /\ Kids' = Kids /\ \A s \in Kids : pid'[s] = pid[s]
       /\ ShellIsFirst' /\ OneChild'
  <2>1. \A s \in Slots \ {0} : \/ pc'[s] = pc[s] /\ a0'[s] = a0[s]
                               \/ pc[s] # "none" /\ pc'[s] = "child"
    BY <1>1, <1>4, <1>5, <1>9, Zenon, SMT DEF ShellTypes
  <2>2. pc'[0] \in ShellLabels /\ pc'[0] # "none"
    BY <1>1, <1>4, <1>9 DEF ShellTypes, ShellLabels, ShellInv, Family, ShellIsFirst
  <2> QED
    BY <1>7, <2>1, <2>2, CalmFamily, Zenon, SMT
<1>11. ShellKnowsChild'
  <2>1. CASE q # 0
    <3>1. a0'[0] = a0[0] /\ pc'[0] = pc[0]
      BY <1>1, <1>4, <1>5, <1>9, <2>1
    <3> QED
      BY <1>6, <1>8, <1>9, <1>10, <2>1, <3>1 DEF ShellInv, Family, ShellKnowsChild
  <2>2. CASE q = 0
    <3>1. \/ pc[0] = "sleep" /\ pc'[0] = "prompt"
          \/ pc[0] = "parent" /\ pc'[0] = "parent"
      BY <1>1, <1>4, <1>9, <2>2 DEF ShellTypes
    <3> QED
      BY <1>6, <1>8, <1>9, <1>10, <2>2, <3>1, Zenon, SMT DEF ShellInv, Family, ShellKnowsChild
  <2> QED
    BY <2>1, <2>2
<1> QED
  BY <1>1, <1>9, <1>10, <1>11, Zenon, SMT DEF Family, ShellTypes, ShellLabels
-----------------------------------------------------------------------------
(* The tests fork from a clean table: the child, if there is one, is the   *)
(* only one.                                                               *)
LEMMA ForkFamily ==
  ASSUME ShellInv, ForkCall
  PROVE  Family'
<1> DEFINE c == Least(FreeSlots)
<1>1. /\ state \in [Slots -> States] /\ pid \in [Slots -> Nat]
      /\ parent \in [Slots -> Slots \cup {NULL}] /\ ppid \in [Slots -> Nat]
      /\ wake_tick \in [Slots -> Nat] /\ next_pid \in Nat /\ next_pid >= 2
      /\ a0 \in [Slots -> Int \cup {AnyVal}] /\ ShellTypes
  BY DEF ShellInv, Family, TableInv, TypeOK
<1>2. mode = "user" /\ pc[current_proc] = "fork" /\ SysFork
  BY DEF ForkCall, At
<1>3. current_proc = 0 /\ 0 \in Slots /\ state[0] = "RUNNING" /\ pc[0] = "fork"
  BY <1>2, CallerIsShellOrKid, Zenon, SMT
<1>4. Kids = {} /\ pid[0] = 1 /\ ppid[0] = 0 /\ parent[0] = NULL
  BY <1>3 DEF ShellInv, Family, ShellKnowsChild, ShellIsFirst
<1>5. /\ \A s \in Slots \ {0} : state[s] = "UNUSED" /\ pc[s] = "none"
      /\ \A s \in Slots \ {0} : pc[s] \in ChildLabels
  BY <1>1, <1>4 DEF Kids, ShellInv, Family, OneChild
<1>6. CASE ForkNoSlot \/ ForkNoMemory
  <2>1. /\ UNCHANGED <<state, mode, current_proc>>
        /\ a0' = [a0 EXCEPT ![0] = -1] /\ CalmTable
    <3>1. CASE ForkNoSlot
      BY <1>3, <3>1, Zenon, SMT DEF ForkNoSlot, Return, sched, ident, CalmTable
    <3>2. CASE ForkNoMemory
      <4>1. c \in Slots /\ state[c] = "UNUSED"
        BY <3>2, FirstFreeSlot, Zenon, SMT DEF ForkNoMemory
      <4>2. /\ UNCHANGED <<state, mode, current_proc>>
            /\ a0' = [a0 EXCEPT ![0] = -1]
            /\ pid' = [pid EXCEPT ![c] = next_pid]
            /\ parent' = [parent EXCEPT ![c] = current_proc]
            /\ ppid' = [ppid EXCEPT ![c] = pid[current_proc]]
        BY <1>3, <3>2 DEF ForkNoMemory, FillSlot, Return, sched
      <4> HIDE DEF c
      <4> QED
        BY <1>1, <4>1, <4>2 DEF CalmTable
    <3> QED
      BY <1>6, <3>1, <3>2, Zenon, SMT
  <2>2. pc' = [pc EXCEPT ![0] = "forked"] /\ UNCHANGED <<cmd, kid, naps>>
    <3>1. a0'[0] = -1
      BY <1>1, <1>3, <2>1, Zenon, SMT
    <3> QED
      BY <1>3, <3>1 DEF ForkCall, Goto
  <2>3. /\ Kids' = Kids /\ ShellIsFirst' /\ OneChild'
    BY <1>1, <1>3, <2>1, <2>2, CalmFamily, Zenon, SMT DEF ShellLabels, ShellTypes
  <2>4. ShellKnowsChild'
    BY <1>1, <1>2, <1>3, <1>4, <2>1, <2>2, <2>3
    DEF ShellKnowsChild, ShellTypes, Resumed, Waiting
  <2> QED
    BY <1>1, <2>2, <2>3, <2>4, Zenon, SMT DEF Family, ShellTypes, ShellLabels
<1>7. CASE Fork
  <2>1. c \in Slots /\ state[c] = "UNUSED"
    BY <1>7, FirstFreeSlot, Zenon, SMT DEF Fork
  <2>2. /\ state' = [state EXCEPT ![c] = "RUNNABLE"]
        /\ a0' = [a0 EXCEPT ![c] = 0, ![0] = next_pid]
        /\ pid' = [pid EXCEPT ![c] = next_pid]
        /\ parent' = [parent EXCEPT ![c] = 0]
        /\ ppid' = [ppid EXCEPT ![c] = pid[0]]
        /\ wake_tick' = [wake_tick EXCEPT ![c] = 0]
        /\ UNCHANGED mode
    BY <1>3, <1>7 DEF Fork, FillSlot
  <2>3. c # 0
    BY <1>3, <2>1, Zenon, SMT
  <2>4. /\ pc' = [pc EXCEPT ![0] = "forked", ![c] = "forked"]
        /\ cmd' = [cmd EXCEPT ![c] = cmd[0]]
        /\ kid' = [kid EXCEPT ![c] = kid[0]]
        /\ naps' = [naps EXCEPT ![c] = naps[0]]
    <3>1. a0'[0] # -1
      BY <1>1, <1>3, <2>1, <2>2
    <3> QED
      BY <1>3, <3>1, Zenon, SMT DEF ForkCall
  <2> HIDE DEF c
  <2>5. Kids' = {c}
    BY <1>1, <1>5, <2>1, <2>2, <2>3, Zenon, SMT DEF Kids
  <2>6. ShellIsFirst'
    BY <1>1, <1>3, <1>4, <2>1, <2>2, <2>3, <2>4
    DEF ShellIsFirst, ShellTypes, ShellLabels
  <2>7. OneChild'
    <3>1. ASSUME NEW s \in Slots \ {0}
          PROVE  /\ pc'[s] \in ChildLabels
                 /\ state'[s] # "UNUSED" => parent'[s] = 0 /\ ppid'[s] = 1
                 /\ pc'[s] = "none" <=> state'[s] \in {"UNUSED", "ZOMBIE"}
                 /\ pc'[s] = "forked" => a0'[s] = 0
      <4>1. CASE s = c
        BY <1>1, <1>4, <2>1, <2>2, <2>3, <2>4, <4>1, Zenon, SMT DEF ShellTypes, ChildLabels
      <4>2. CASE s # c
        BY <1>1, <1>5, <2>1, <2>2, <2>4, <4>2 DEF ShellTypes
      <4> QED
        BY <4>1, <4>2, Zenon, SMT
    <3> QED
      BY <2>5, <3>1 DEF OneChild
  <2>8. ShellKnowsChild'
    BY <1>1, <1>2, <1>3, <2>1, <2>2, <2>3, <2>4, <2>5
    DEF ShellKnowsChild, ShellTypes, Resumed, Waiting
  <2>9. ShellTypes'
    BY <1>1, <1>3, <2>1, <2>4 DEF ShellTypes, ShellLabels
  <2> QED
    BY <2>6, <2>7, <2>8, <2>9, Zenon, SMT DEF Family
<1> QED
  BY <1>2, <1>6, <1>7, Zenon, SMT DEF SysFork
-----------------------------------------------------------------------------
(* The exit command: the shell has no child and no parent, and the table   *)
(* is empty afterwards.                                                    *)
LEMMA ShellExitFamily ==
  ASSUME ShellInv, Exit
  PROVE  Family'
<1> DEFINE st == [state EXCEPT ![0] = "UNUSED"]
<1>1. /\ state \in [Slots -> States] /\ satp \in Slots \cup {KERNEL}
      /\ a0 \in [Slots -> Int \cup {AnyVal}] /\ ShellTypes /\ TypeOK
  BY DEF ShellInv, Family, TableInv, TypeOK
<1>2. mode = "user" /\ pc[current_proc] = "exit" /\ proc_exit(0)
  BY DEF Exit, At, SysExit
<1>3. current_proc = 0 /\ 0 \in Slots /\ state[0] = "RUNNING" /\ pc[0] = "exit"
  BY <1>2, CallerIsShellOrKid
<1>4. Kids = {} /\ parent[0] = NULL
  BY <1>3, Zenon, SMT DEF ShellInv, Family, ShellKnowsChild, ShellIsFirst
<1>5. /\ Dispatch(st, 0, KernelSatp) /\ a0' = [a0 EXCEPT ![0] = 0]
      /\ UNCHANGED wake_tick
  BY <1>2, <1>3, <1>4
  DEF proc_exit, ExitToWaiter, ExitToZombie, ExitNoParent
<1>6. \A s \in Slots : st[s] = "UNUSED"
  BY <1>1, <1>3, <1>4 DEF Kids
<1>7. mode' # "read" /\ \A s \in Slots : state'[s] = "UNUSED"
  <2>1. KernelSatp \in Slots \cup {KERNEL}
    BY <1>1, PoolAfterKernelPt
  <2>2. st \in [Slots -> States]
    BY <1>1, Zenon, SMT DEF States
  <2> HIDE DEF st
  <2> QED
    BY <1>3, <1>5, <1>6, <2>1, <2>2, DispatchStates DEF ShellInv
<1>8. Kids' = {}
  BY <1>7 DEF Kids
<1>9. pc' = [pc EXCEPT ![0] = "none"] /\ UNCHANGED <<cmd, kid, naps>>
  BY <1>3, Zenon, SMT DEF Exit, Goto
<1>10. ShellTypes' /\ ShellIsFirst'
  BY <1>1, <1>3, <1>7, <1>8, <1>9 DEF ShellTypes, ShellIsFirst, ShellLabels
<1>11. OneChild'
  <2>1. \A s \in Slots \ {0} : pc'[s] = pc[s]
    BY <1>1, <1>9 DEF ShellTypes
  <2>2. \A s \in Slots \ {0} : state[s] = "UNUSED"
    BY <1>4 DEF Kids
  <2>3. OneChild
    BY DEF ShellInv, Family
  <2>4. \A s \in Slots \ {0} : pc[s] = "none"
    BY <2>2, <2>3 DEF OneChild
  <2>5. "none" \in ChildLabels
    BY Zenon, SMT DEF ChildLabels
  <2> QED
    BY <1>7, <1>8, <2>1, <2>4, <2>5 DEF OneChild
<1>12. ShellKnowsChild'
  BY <1>1, <1>3, <1>7, <1>9 DEF ShellKnowsChild, ShellTypes, Waiting
<1> QED
  BY <1>10, <1>11, <1>12, Zenon, SMT DEF Family

(* The child leaves: into the shell's wait(), or as a ZOMBIE that the      *)
(* shell, not yet in wait(), still knows by its pid.                       *)
LEMMA ChildExitFamily ==
  ASSUME ShellInv, ChildExit
  PROVE  Family'
<1> DEFINE q == current_proc
<1>1. /\ state \in [Slots -> States] /\ satp \in Slots \cup {KERNEL}
      /\ parent \in [Slots -> Slots \cup {NULL}] /\ pid \in [Slots -> Nat]
      /\ a0 \in [Slots -> Int \cup {AnyVal}] /\ ShellTypes /\ TypeOK
  BY Zenon, SMT DEF ShellInv, Family, TableInv, TypeOK
<1>2. mode = "user" /\ pc[q] = "child" /\ proc_exit(0)
  BY DEF ChildExit, At, SysExit
<1>3. /\ q \in Slots \ {0} /\ q \in Kids /\ \A s \in Kids : s = q
      /\ state[q] = "RUNNING" /\ 0 \in Slots /\ state[0] # "UNUSED"
  BY <1>2, CallerIsShellOrKid, Zenon, SMT DEF ShellLabels
<1>4. /\ parent[q] = 0 /\ 0 # NULL
      /\ \A s \in Slots \ {0} :
           s # q => state[s] = "UNUSED" /\ pc[s] = "none"
  BY <1>1, <1>3, SentinelAssumption, Zenon, SMT DEF ShellInv, Family, OneChild, Kids
<1>5. pc' = [pc EXCEPT ![q] = "none"] /\ UNCHANGED <<cmd, kid, naps, wake_tick, ppid>>
  BY <1>2, Zenon, SMT DEF ChildExit, Goto, proc_exit
<1>6. ShellTypes' /\ pc'[0] = pc[0] /\ pc'[q] = "none"
  BY <1>1, <1>3, <1>5 DEF ShellTypes, ShellLabels
<1>7. CASE ExitToWaiter(0)
  <2> DEFINE st == [state EXCEPT ![0] = "RUNNABLE", ![q] = "UNUSED"]
  <2>1. /\ Waiting(0) /\ a0' = [a0 EXCEPT ![0] = pid[q], ![q] = 0]
        /\ pid' = [pid EXCEPT ![q] = 0] /\ parent' = [parent EXCEPT ![q] = NULL]
        /\ Dispatch(st, q, KernelSatp)
    BY <1>4, <1>7, Zenon, SMT DEF ExitToWaiter
  <2>2. /\ mode' # "read"
        /\ \A s \in Slots : \/ state'[s] = st[s]
                            \/ st[s] = "RUNNABLE" /\ state'[s] = "RUNNING"
    <3>1. KernelSatp \in Slots \cup {KERNEL}
      BY <1>1, PoolAfterKernelPt, Zenon, SMT
    <3>2. st \in [Slots -> States] /\ \A s \in Slots : st[s] # "RUNNING"
      BY <1>1, <1>3, Zenon, SMT DEF States, ShellInv, TableInv, CurrentRuns
    <3> HIDE DEF st
    <3> QED
      BY <1>3, <2>1, <3>1, <3>2, DispatchStates, Zenon, SMT DEF ShellInv
  <2>3. /\ state'[0] \in {"RUNNABLE", "RUNNING"}
        /\ \A s \in Slots \ {0} : state'[s] = "UNUSED"
    BY <1>1, <1>3, <1>4, <2>2
  <2>4. Kids' = {}
    BY <2>3, Zenon, SMT DEF Kids
  <2>5. pc[0] = "joined" /\ kid[0] = pid[q] /\ pid[q] > 0
    <3>1. pid[q] > 0
      <4>1. q \in Slots /\ state[q] # "UNUSED"
        BY <1>3
      <4>2. pid[q] \in 1 .. next_pid - 1 /\ next_pid \in Nat
        BY <4>1, Zenon, SMT DEF ShellInv, TableInv, TypeOK, UniquePids
      <4> QED
        BY <4>2
    <3>2. pc[0] = "joined" /\ ~ Resumed(0)
      BY <2>1, Zenon, SMT DEF ShellInv, Family, ShellKnowsChild, Waiting, Resumed
    <3> QED
      BY <1>3, <3>1, <3>2, Zenon, SMT DEF ShellInv, Family, ShellKnowsChild
  <2>6. ShellIsFirst'
    BY <1>1, <1>3, <1>5, <1>6, <2>1, <2>3, <2>4, <2>5
    DEF ShellInv, Family, ShellIsFirst
  <2>7. OneChild'
    BY <1>1, <1>3, <1>4, <1>5, <1>6, <2>3, <2>4 DEF OneChild, ChildLabels
  <2>8. ShellKnowsChild'
    BY <1>1, <1>3, <1>5, <1>6, <2>1, <2>2, <2>3, <2>4, <2>5
    DEF ShellKnowsChild, Waiting, Resumed
  <2> QED
    BY <1>6, <2>6, <2>7, <2>8, Zenon, SMT DEF Family
<1>8. CASE ExitToZombie(0)
  <2> DEFINE st == [state EXCEPT ![q] = "ZOMBIE"]
  <2>1. /\ ~ Waiting(0) /\ a0' = [a0 EXCEPT ![q] = 0]
        /\ UNCHANGED <<pid, parent>> /\ Dispatch(st, q, satp)
    BY <1>4, <1>8 DEF ExitToZombie
  <2>2. /\ mode' # "read"
        /\ \A s \in Slots : \/ state'[s] = st[s]
                            \/ st[s] = "RUNNABLE" /\ state'[s] = "RUNNING"
    <3>1. st \in [Slots -> States] /\ \A s \in Slots : st[s] # "RUNNING"
      BY <1>1, <1>3, Zenon, SMT DEF States, ShellInv, TableInv, CurrentRuns
    <3> HIDE DEF st
    <3> QED
      BY <1>1, <1>3, <2>1, <3>1, DispatchStates, Zenon, SMT DEF ShellInv
  <2>3. /\ state'[q] = "ZOMBIE" /\ ~ Waiting(0)'
        /\ Resumed(0) => Resumed(0)'
        /\ state'[0] \notin {"UNUSED", "ZOMBIE"}
        /\ \A s \in Slots \ {0} : s # q => state'[s] = "UNUSED"
    BY <1>1, <1>3, <1>4, <1>5, <2>1, <2>2
    DEF Waiting, Resumed, ShellInv, Family, ShellIsFirst
  <2>4. Kids' = Kids
    BY <1>3, <1>4, <2>3, Zenon, SMT DEF Kids
  <2>5. ShellIsFirst'
    BY <1>3, <1>5, <1>6, <2>1, <2>3 DEF ShellInv, Family, ShellIsFirst
  <2>6. OneChild'
    BY <1>1, <1>3, <1>4, <1>5, <1>6, <2>1, <2>3, <2>4
    DEF ShellInv, Family, OneChild, ChildLabels, ShellTypes
  <2>7. a0'[0] = a0[0]
    BY <1>1, <1>3, <2>1, Zenon, SMT
  <2>8. ShellKnowsChild'
    BY <1>5, <1>6, <2>1, <2>2, <2>3, <2>4, <2>7
    DEF ShellInv, Family, ShellKnowsChild
  <2> QED
    BY <1>6, <2>5, <2>6, <2>8 DEF Family
<1> QED
  BY <1>2, <1>4, <1>7, <1>8, Zenon, SMT DEF proc_exit, ExitNoParent
(* sys_wait after a test: the child is there, as a ZOMBIE or still alive.  *)
LEMMA JoinFamily ==
  ASSUME ShellInv, Join
  PROVE  Family'
<1>1. /\ state \in [Slots -> States] /\ satp \in Slots \cup {KERNEL}
      /\ parent \in [Slots -> Slots \cup {NULL}] /\ pid \in [Slots -> Nat]
      /\ a0 \in [Slots -> Int \cup {AnyVal}] /\ ShellTypes
  BY DEF ShellInv, Family, TableInv, TypeOK
<1>2. mode = "user" /\ pc[current_proc] = "parent" /\ SysWait
  BY DEF Join, At
<1>3. /\ current_proc = 0 /\ 0 \in Slots /\ state[0] = "RUNNING"
      /\ pc[0] = "parent"
  BY <1>2, CallerIsShellOrKid, Zenon, SMT
<1>4. PICK k \in Kids : kid[0] = pid[k]
  BY <1>3, Zenon, SMT DEF ShellInv, Family, ShellKnowsChild
<1>5. /\ k \in Slots \ {0} /\ state[k] # "UNUSED" /\ parent[k] = 0
      /\ pid[k] > 0 /\ \A s \in Slots \ {0} : s # k => state[s] = "UNUSED"
  BY <1>1 DEF Kids, ShellInv, Family, OneChild, TableInv, UniquePids
<1>6. pc' = [pc EXCEPT ![0] = "joined"] /\ UNCHANGED <<cmd, kid, naps>>
  BY <1>3, Zenon, SMT DEF Join, Goto
<1>7. ShellTypes' /\ pc'[0] = "joined"
  BY <1>1, <1>3, <1>6 DEF ShellTypes, ShellLabels
<1>8. CASE WaitReap
  <2> DEFINE c == Least(ZombieChildren(0))
  <2>1. c \in Slots /\ state[c] = "ZOMBIE"
    BY <1>3, <1>8, FirstZombie, Zenon, SMT DEF WaitReap
  <2>2. c = k
    BY <1>3, <1>5, <2>1
  <2>3. /\ state' = [state EXCEPT ![k] = "UNUSED"]
        /\ pid' = [pid EXCEPT ![k] = 0] /\ parent' = [parent EXCEPT ![k] = NULL]
        /\ a0' = [a0 EXCEPT ![0] = pid[k]]
        /\ UNCHANGED <<mode, current_proc, ppid, wake_tick>>
    BY <1>3, <1>8, <2>2, Zenon, SMT DEF WaitReap
  <2>4. /\ state'[0] = "RUNNING" /\ a0'[0] = kid[0]
        /\ \A s \in Slots \ {0} : state'[s] = "UNUSED"
    BY <1>1, <1>3, <1>4, <1>5, <2>3
  <2>5. Kids' = {}
    BY <2>4 DEF Kids
  <2>6. ShellIsFirst'
    BY <1>1, <1>3, <1>5, <1>7, <2>3, <2>4
    DEF ShellInv, Family, ShellIsFirst, ShellLabels
  <2>7. OneChild'
    <3>1. \A s \in Slots \ {0} : pc[s] = "none"
      BY <1>5, <2>1, <2>2 DEF ShellInv, Family, OneChild
    <3> QED
      BY <1>1, <1>6, <2>4, <2>5, <3>1, Zenon, SMT DEF OneChild, ChildLabels, ShellTypes
  <2>8. ShellKnowsChild'
    BY <1>2, <1>4, <1>5, <1>6, <1>7, <2>3, <2>4, <2>5
    DEF ShellKnowsChild, Resumed, Waiting
  <2> QED
    BY <1>7, <2>6, <2>7, <2>8 DEF Family
<1>9. CASE WaitBlock
  <2> DEFINE st == [state EXCEPT ![0] = "SLEEPING"]
  <2>1. /\ Dispatch(st, 0, satp) /\ a0' = [a0 EXCEPT ![0] = 0]
        /\ UNCHANGED <<pid, parent, ppid, wake_tick>>
    BY <1>3, <1>9 DEF WaitBlock, ident
  <2>2. /\ mode' # "read"
        /\ \A s \in Slots : \/ state'[s] = st[s]
                            \/ st[s] = "RUNNABLE" /\ state'[s] = "RUNNING"
    <3>1. st \in [Slots -> States] /\ \A s \in Slots : st[s] # "RUNNING"
      BY <1>1, <1>3 DEF States, ShellInv, TableInv, CurrentRuns
    <3> HIDE DEF st
    <3> QED
      BY <1>1, <1>3, <2>1, <3>1, DispatchStates, Zenon, SMT DEF ShellInv
  <2>3. wake_tick[0] = 0
    BY <1>3, Zenon, SMT DEF ShellInv, TableInv, SleepersTellApart
  <2>4. Waiting(0)' /\ CalmTable
    BY <1>1, <1>3, <2>1, <2>2, <2>3, Zenon, SMT DEF Waiting, CalmTable
  <2>5. /\ Kids' = Kids /\ \A s \in Kids : pid'[s] = pid[s]
        /\ ShellIsFirst' /\ OneChild'
    <3>1. /\ pc'[0] \in ShellLabels /\ pc'[0] # "none"
          /\ \A s \in Slots \ {0} : pc'[s] = pc[s] /\ a0'[s] = a0[s]
      BY <1>1, <1>6, <1>7, <2>1 DEF ShellTypes, ShellLabels
    <3> QED
      BY <2>4, <3>1, CalmFamily, Zenon, SMT
  <2>6. ShellKnowsChild'
    BY <1>4, <1>6, <1>7, <2>2, <2>4, <2>5 DEF ShellKnowsChild
  <2> QED
    BY <1>7, <2>5, <2>6, Zenon, SMT DEF Family
<1>10. ~ WaitNoChild
  BY <1>3, <1>5 DEF WaitNoChild, Children
<1> QED
  BY <1>2, <1>8, <1>9, <1>10, Zenon, SMT DEF SysWait

-----------------------------------------------------------------------------
(* Every step of the shell, of its child and of the timer keeps it.        *)
LEMMA ShellStep == ShellInv /\ [ShellNext]_allvars => ShellInv'
<1> SUFFICES ASSUME ShellInv, [ShellNext]_allvars PROVE ShellInv'
  OBVIOUS
<1>1. TableInv' /\ TablesMatch'
  BY ShellStepIsTrap, NextTable, NextIsTableStep, TablesStayMatched DEF ShellInv
<1>2. CASE ShellNext
  <2>1. Family'
    BY <1>2, QuietFamily, TimerFamily, SleepFamily, ForkFamily,
       ShellExitFamily, ChildExitFamily, JoinFamily DEF ShellNext, UserStep
  <2> QED
    BY <1>1, <2>1 DEF ShellInv
<1>3. CASE UNCHANGED allvars
  <2>1. /\ UNCHANGED <<state, parent, ppid, pid, a0, mode, current_proc, wake_tick>>
        /\ UNCHANGED <<pc, cmd, kid, naps>>
    BY <1>3 DEF allvars, vars, user, sched, ident
  <2>2. Kids' = Kids
    BY <2>1, Zenon, SMT DEF Kids
  <2>3. Waiting(0)' = Waiting(0) /\ Resumed(0)' = Resumed(0)
    BY <2>1 DEF Waiting, Resumed
  <2>4. ShellTypes' /\ ShellIsFirst' /\ OneChild'
    BY <2>1, <2>2 DEF ShellInv, Family, ShellTypes, ShellIsFirst, OneChild
  <2>5. ShellKnowsChild'
    BY <2>1, <2>2, <2>3, Zenon, SMT DEF ShellInv, Family, ShellKnowsChild
  <2> QED
    BY <1>1, <2>4, <2>5, Zenon, SMT DEF ShellInv, Family
<1> QED
  BY <1>2, <1>3

(* Whatever is typed and whenever the timer fires, the shell has one child *)
(* at most and knows it: the invariant behind the theorems below.          *)
THEOREM ShellInvariant == ShellSpec => []ShellInv
BY ShellStarts, ShellStep, PTL DEF ShellSpec

(* The wait() of a command returns the pid the command forked, for every   *)
(* order in which the two processes sleep, exit and are preempted.         *)
THEOREM WaitGetsOwnChild == ShellSpec => []WaitReturnsKid
<1>1. ShellInv => WaitReturnsKid
  <2> SUFFICES ASSUME ShellInv, NEW s \in Slots, pc[s] = "joined", Resumed(s)
               PROVE  a0[s] = kid[s] /\ kid[s] > 0
    BY DEF WaitReturnsKid
  <2>1. s = 0
    BY DEF ShellInv, Family, OneChild, ChildLabels
  <2>2. ~ Waiting(0)
    BY <2>1, Zenon, SMT DEF Waiting, Resumed
  <2> QED
    BY <2>1, <2>2 DEF ShellInv, Family, ShellKnowsChild
<1> QED
  BY <1>1, ShellInvariant, PTL

(* No command leaves a process or a page table behind: at the prompt the   *)
(* shell is alone, whatever failed.                                        *)
THEOREM NothingLeftBehind == ShellSpec => []PromptIsClean
<1>1. ShellInv => PromptIsClean
  <2> SUFFICES ASSUME ShellInv, NEW s \in Slots, pc[s] = "prompt",
                      state[s] # "UNUSED"
               PROVE  /\ \A t \in Slots \ {s} : state[t] = "UNUSED"
                      /\ tables \ {KERNEL} = {s}
    BY DEF PromptIsClean
  <2>1. s = 0
    BY Zenon, SMT DEF ShellInv, Family, OneChild, ChildLabels
  <2>2. \A t \in Slots \ {s} : state[t] = "UNUSED"
    BY <2>1, Zenon, SMT DEF ShellInv, Family, ShellKnowsChild, Kids
  <2>3. tables \subseteq Slots \cup {KERNEL} /\ s # KERNEL
    BY SentinelAssumption DEF ShellInv, TableInv, TypeOK
  <2>4. tables \ {KERNEL} = {s}
    BY <2>2, <2>3, Zenon, SMT DEF ShellInv, TablesMatch
  <2> QED
    BY <2>2, <2>4, Zenon, SMT
<1> QED
  BY <1>1, ShellInvariant, PTL

(* A slot is emptied by wait(), or by the exit of its own process.         *)
LEMMA EmptiedBy ==
  ASSUME TableStep, NEW c \in Slots, state[c] # "UNUSED", state'[c] = "UNUSED"
  PROVE  \/ WaitReap /\ c = Least(ZombieChildren(current_proc))
         \/ c = current_proc /\ \E ret \in {0, AnyVal} : proc_exit(ret)
<1>1. CASE Keeps
  BY <1>1 DEF Keeps, SlotsKept
<1>2. ASSUME NEW s \in Slots, Fills(s) PROVE FALSE
  BY <1>2 DEF Fills, SlotsKept
<1>3. ASSUME NEW s \in Slots, TurnsZombie(s) PROVE FALSE
  BY <1>3 DEF TurnsZombie, SlotsKept
<1>4. ASSUME NEW s \in Slots, Reaps(s)
      PROVE  WaitReap /\ c = Least(ZombieChildren(current_proc))
  <2>1. s = c
    BY <1>4 DEF Reaps, SlotsKept
  <2> QED
    BY <1>4, <2>1 DEF Reaps
<1>5. ASSUME NEW s \in Slots, Leaves(s)
      PROVE  c = current_proc /\ \E ret \in {0, AnyVal} : proc_exit(ret)
  <2>1. s = c
    BY <1>5 DEF Leaves, SlotsKept
  <2> QED
    BY <1>5, <2>1 DEF Leaves
<1> QED
  BY <1>1, <1>2, <1>3, <1>4, <1>5, Zenon, SMT DEF TableStep

(* The shell's child leaves the table in one way only: the shell's wait()  *)
(* returns its pid.                                                        *)
LEMMA KidGoesToShell ==
  ASSUME ShellInv, TableStep, NEW c \in Kids, state'[c] = "UNUSED"
  PROVE  /\ state'[0] \in {"RUNNABLE", "RUNNING"}
         /\ pending'[0] = "wait" /\ a0'[0] = pid[c]
         /\ \A s \in Slots \ {0} : state'[s] = "UNUSED"
<1>1. /\ state \in [Slots -> States] /\ satp \in Slots \cup {KERNEL}
      /\ a0 \in [Slots -> Int \cup {AnyVal}] /\ TypeOK
      /\ pending \in [Slots -> {"none", "wait", "sleep"}]
  BY DEF ShellInv, TableInv, TypeOK
<1>2. /\ 0 \in Slots /\ c \in Slots \ {0} /\ state[c] # "UNUSED"
      /\ parent[c] = 0 /\ 0 # NULL
      /\ \A s \in Slots \ {0} : s # c => state[s] = "UNUSED"
  BY NProcAssumption, SentinelAssumption
  DEF Slots, Kids, ShellInv, Family, OneChild
<1>3. CASE WaitReap /\ c = Least(ZombieChildren(current_proc))
  <2>1. current_proc \in Slots /\ state[current_proc] = "RUNNING"
    BY <1>3, UserModeHasCurrent DEF WaitReap, ShellInv
  <2>2. state[c] = "ZOMBIE"
    BY <1>3, FirstZombie, Zenon, SMT DEF WaitReap
  <2>3. current_proc = 0
    BY <1>2, <2>1, <2>2
  <2>4. /\ state' = [state EXCEPT ![c] = "UNUSED"]
        /\ a0' = [a0 EXCEPT ![0] = pid[c]]
        /\ pending' = [pending EXCEPT ![0] = "wait"]
    BY <1>3, <2>3, Zenon, SMT DEF WaitReap, Pending
  <2> QED
    BY <1>1, <1>2, <2>1, <2>3, <2>4
<1>4. ASSUME NEW ret \in {0, AnyVal}, c = current_proc, proc_exit(ret)
      PROVE  /\ state'[0] \in {"RUNNABLE", "RUNNING"}
             /\ pending'[0] = "wait" /\ a0'[0] = pid[c]
             /\ \A s \in Slots \ {0} : state'[s] = "UNUSED"
  <2>1. mode = "user" /\ pending' = [pending EXCEPT ![c] = "none"]
    BY <1>4 DEF proc_exit, Pending
  <2>2. state[c] = "RUNNING"
    BY <1>4, <2>1, UserModeHasCurrent DEF ShellInv
  <2>3. CASE ExitToWaiter(ret)
    <3> DEFINE st == [state EXCEPT ![0] = "RUNNABLE", ![c] = "UNUSED"]
    <3>1. /\ Waiting(0) /\ a0' = [a0 EXCEPT ![0] = pid[c], ![c] = ret]
          /\ Dispatch(st, c, KernelSatp)
      BY <1>2, <1>4, <2>3, Zenon, SMT DEF ExitToWaiter
    <3>2. st \in [Slots -> States] /\ \A s \in Slots : st[s] # "RUNNING"
      BY <1>1, <1>2, <1>4, <2>2, Zenon, SMT
      DEF States, ShellInv, TableInv, CurrentRuns
    <3>3. KernelSatp \in Slots \cup {KERNEL}
      BY <1>1, PoolAfterKernelPt, Zenon, SMT
    <3>4. st[0] = "RUNNABLE" /\ \A s \in Slots \ {0} : st[s] = "UNUSED"
      BY <1>1, <1>2
    <3>5. \A s \in Slots : \/ state'[s] = st[s]
                           \/ st[s] = "RUNNABLE" /\ state'[s] = "RUNNING"
      <4> HIDE DEF st
      <4> QED
        BY <1>2, <3>1, <3>2, <3>3, DispatchStates, Zenon, SMT DEF ShellInv
    <3> HIDE DEF st
    <3>6. /\ state'[0] \in {"RUNNABLE", "RUNNING"}
          /\ \A s \in Slots \ {0} : state'[s] = "UNUSED"
      BY <1>2, <3>4, <3>5
    <3>7. pending[0] = "wait"
      BY <1>2, <3>1, Zenon, SMT
      DEF Waiting, ShellInv, TableInv, SleepersTellApart
    <3>8. a0'[0] = pid[c] /\ pending'[0] = "wait"
      BY <1>1, <1>2, <2>1, <3>1, <3>7
    <3> QED
      BY <3>6, <3>8
  <2>4. ~ ExitNoParent(ret)
    BY <1>2, <1>4 DEF ExitNoParent
  <2>5. ~ ExitToZombie(ret)
    <3> SUFFICES ASSUME ExitToZombie(ret) PROVE FALSE
      OBVIOUS
    <3> DEFINE st == [state EXCEPT ![c] = "ZOMBIE"]
    <3>1. Dispatch(st, c, satp)
      BY <1>4, Zenon, SMT DEF ExitToZombie
    <3>2. st \in [Slots -> States] /\ st[c] = "ZOMBIE"
      BY <1>1, <1>2 DEF States
    <3> HIDE DEF st
    <3>3. state'[c] = "ZOMBIE"
      BY <1>2, <3>1, <3>2, DispatchKeepsStates
    <3> QED
      BY <3>3
  <2> QED
    BY <1>4, <2>3, <2>4, <2>5 DEF proc_exit
<1> QED
  BY <1>2, <1>3, <1>4, EmptiedBy

(* With this shell the promise holds that arbitrary programs break: what   *)
(* leaves the table is handed to the process that forked it, and to no     *)
(* other.                                                                  *)
THEOREM ShellCollectsItsOwn == ShellSpec => CollectedByForker
<1> DEFINE Told(c) == {s \in Slots : Resumed(s)' /\ pending'[s] = "wait"
                                     /\ a0'[s] = pid[c]}
           Collected(c) ==
             state[c] # "UNUSED" /\ state'[c] = "UNUSED" /\ ppid[c] # 0 =>
               \E f \in Slots :
                 /\ pid[f] = ppid[c] /\ state[f] \notin {"UNUSED", "ZOMBIE"}
                 /\ Told(c) = {f}
<1>1. ShellInv /\ [ShellNext]_allvars => \A c \in Slots : Collected(c)
  <2> SUFFICES ASSUME ShellInv, [ShellNext]_allvars, NEW c \in Slots,
                      state[c] # "UNUSED", state'[c] = "UNUSED", ppid[c] # 0
               PROVE  \E f \in Slots :
                        /\ pid[f] = ppid[c]
                        /\ state[f] \notin {"UNUSED", "ZOMBIE"}
                        /\ Told(c) = {f}
    OBVIOUS
  <2>1. TableStep
    BY ShellStepIsTrap, NextIsTableStep DEF ShellInv
  <2>2. 0 \in Slots /\ c \in Kids
    BY NProcAssumption DEF Slots, Kids, ShellInv, Family, ShellIsFirst
  <2>3. /\ pid[0] = ppid[c] /\ state[0] \notin {"UNUSED", "ZOMBIE"}
    BY <2>2 DEF Kids, ShellInv, Family, ShellIsFirst, OneChild
  <2>4. Told(c) = {0}
    BY <2>1, <2>2, KidGoesToShell DEF Resumed
  <2> QED
    BY <2>2, <2>3, <2>4
<1>2. ShellInv /\ [ShellNext]_allvars =>
        [\A c \in Slots : Collected(c)]_allvars
  BY <1>1
<1> QED
  BY <1>2, ShellInvariant, PTL DEF ShellSpec, CollectedByForker
=============================================================================
