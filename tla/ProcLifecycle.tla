--------------------------- MODULE ProcLifecycle ----------------------------
(***************************************************************************)
(* What the process table of NanoBoot promises, without slots, scheduler   *)
(* and page tables: a process is a pid and the pid of the process that     *)
(* forked it.  It lives, it is a zombie or it is collected at its exit,    *)
(* and its pid never comes back.  By whom it is collected is left open.    *)
(***************************************************************************)
EXTENDS Integers

VARIABLES
  live,    \* processes that run or may run again, as <<pid, forker>>
  zombie,  \* processes that have exited and wait to be reaped
  next     \* the pid the next fork hands out

vars == <<live, zombie, next>>

(* The first process was forked by none.                                   *)
Init == live = {<<1, 0>>} /\ zombie = {} /\ next = 2

Fork(p) ==
  /\ live' = live \cup {<<next, p[1]>>}
  /\ next' = next + 1
  /\ UNCHANGED zombie

(* A fork that fails for memory has already taken its pid.                 *)
ForkFails == next' = next + 1 /\ UNCHANGED <<live, zombie>>

ExitToZombie(p) ==
  /\ live' = live \ {p}
  /\ zombie' = zombie \cup {p}
  /\ UNCHANGED next

ExitCollected(p) == live' = live \ {p} /\ UNCHANGED <<zombie, next>>

Reap(z) == zombie' = zombie \ {z} /\ UNCHANGED <<live, next>>

Next ==
  \/ ForkFails
  \/ \E p \in live : Fork(p) \/ ExitToZombie(p) \/ ExitCollected(p)
  \/ \E z \in zombie : Reap(z)

Spec == Init /\ [][Next]_vars
=============================================================================
