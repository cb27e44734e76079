---------------------------- MODULE SFJobsProofs ----------------------------
(***************************************************************************)
(* Proofs about SFJobs, for every size of the job table, every number of   *)
(* processes and pipelines of every length.                                *)
(***************************************************************************)
EXTENDS SFJobs, WellFoundedInduction, FiniteSetTheorems, TLAPS

(* SMT takes a step first, except where a step names Zenon first.  A step  *)
(* that runs out of time is tried a second time.                           *)
USE SMT, Zenon, Z3, ZenonT(20)

(* The loops over job_table return the first slot that fits, if any does.  *)
LEMMA FirstIsFirst ==
  ASSUME NEW S \in SUBSET JobSlots, S # {}
  PROVE  First(S) \in S
<1>0. S \in SUBSET Nat
  BY JobsAssumption DEF JobSlots
<1>1. \E x \in S : \A y \in S : ~ (<<y, x>> \in OpToRel(<, Nat))
  BY <1>0, NatLessThanWellFounded, WFMin
<1>2. \A x, y \in Nat : <<y, x>> \in OpToRel(<, Nat) <=> y < x
  BY DEF OpToRel
<1>3. PICK x \in S : \A y \in S : ~ (<<y, x>> \in OpToRel(<, Nat))
  BY <1>1
<1>4. \A y \in S : ~ (y < x)
  BY <1>0, <1>2, <1>3, Zenon, SMT
<1>5. \A y \in S : x <= y
  BY <1>0, <1>4
<1> QED
  BY <1>5 DEF First

-----------------------------------------------------------------------------
(* The inductive invariant.                                                *)

\* Where the shell is in the pids of the pipeline.  From the first setpgid of
\* the parent on, the leader is in its group.
Launching ==
  /\ pc \in {"setpgid", "add", "wait"} => pids # <<>>
  /\ pc = "fork" => Len(pids) < cmd.n
  /\ pc = "setpgid" => w = 1 /\ leader[pids[Len(pids)]] = pids[1]
  /\ pc \in {"fork", "setpgid"} /\ pids # <<>> =>
       InOwnGroup /\ leader[pids[1]] = pids[1]
  /\ pc = "fork" /\ pids # <<>> => grp[pids[1]] = pids[1]
  /\ \A i \in 1 .. Len(pids) : proc[pids[i]] # "none"

\* What is true of process p and the group it is to join.
GroupInv(p) ==
  /\ proc[p] = "none" => leader[p] = 0 /\ p \notin awaited
  /\ grp[p] \in {0, leader[p]}
  /\ leader[p] # 0 =>
       /\ leader[p] \in Pids
       /\ proc[leader[p]] # "none"
       /\ leader[leader[p]] = leader[p]
  /\ leader[p] \notin {0, p} => grp[leader[p]] = leader[p]
  /\ proc[p] \notin {"none", "new"} =>
       grp[p] = leader[p]
         \/ (proc[p] \in {"zomb", "gone"} /\ leader[p] # p /\ proc[leader[p]] = "gone")
  /\ proc[p] = "new" =>
       grp[p] = leader[p] \/ proc[leader[p]] = "gone"
         \/ (pc = "setpgid" /\ p = pids[Len(pids)])

\* A listed job is that of a process that was forked, and never that of the
\* pipeline the shell is setting up.
JobInv(k) ==
  job[k].id # 0 =>
    /\ job[k].pgid \in Pids
    /\ proc[job[k].pgid] # "none"
    /\ job[k].state = "Done" => proc[job[k].pgid] = "gone"
    /\ pc \in {"fork", "setpgid", "add"} /\ pids # <<>> => job[k].pgid # pids[1]

\* The processes the shell has waited for in vain.  While the handler is
\* installed there are none; the wait that it interrupts is the only one.
Waiting == IF pc = "wait" THEN {pids[i] : i \in w .. Len(pids)} ELSE {}
Left == {p \in awaited : proc[p] # "gone"} \ Waiting
LeftInv ==
  /\ sig => handler
  /\ handler => Left = {}
  /\ \A p, q \in Left : p = q

JobsInv ==
  /\ TypeOK
  /\ Launching
  /\ \A p \in Pids : GroupInv(p)
  /\ \A k \in JobSlots : JobInv(k)
  /\ LeftInv

-----------------------------------------------------------------------------
(* Most steps let processes only grow older: none is forked, reaches its   *)
(* own setpgid, or comes back from the dead.                               *)
Older(p) ==
  /\ proc'[p] = "none" <=> proc[p] = "none"
  /\ proc'[p] = "new" <=> proc[p] = "new"
  /\ proc[p] = "gone" => proc'[p] = "gone"
  /\ proc[p] = "zomb" => proc'[p] \in {"zomb", "gone"}
Ages == \A p \in Pids : Older(p)

\* Such a step keeps what is known of the groups.
(* Process groups stay as they are while processes only age.               *)
LEMMA GroupAges ==
  ASSUME JobsInv, Ages, UNCHANGED <<grp, leader>>,
         pc # "setpgid" \/ UNCHANGED <<pc, pids>>,
         \A p \in awaited' : p \in awaited \/ proc[p] # "none"
  PROVE  \A p \in Pids : GroupInv(p)'
<1> SUFFICES ASSUME NEW p \in Pids PROVE GroupInv(p)'
  OBVIOUS
<1>1. GroupInv(p) /\ Older(p) /\ grp' = grp /\ leader' = leader
  BY DEF JobsInv, Ages
<1>2. leader[p] # 0 => leader[p] \in Pids /\ Older(leader[p])
  BY <1>1 DEF Ages, GroupInv
<1>3. proc[p] \in ProcStates /\ proc'[p] = "none" => p \notin awaited'
  BY <1>1 DEF JobsInv, TypeOK, GroupInv, Older
<1>4. leader[p] = 0 => grp[p] = leader[p]
  BY <1>1 DEF GroupInv
<1>5. proc[p] \in ProcStates
  BY DEF JobsInv, TypeOK
<1> QED
  BY <1>1, <1>2, <1>3, <1>4, <1>5 DEF GroupInv, Older, ProcStates

\* Such a step keeps what is known of a job that it leaves in its slot, unless
\* the shell starts on another pipeline.
(* A job keeps its group while processes only age.                         *)
LEMMA JobAges ==
  ASSUME JobsInv, Ages, NEW k \in JobSlots,
         job'[k].id # 0 =>
           /\ job'[k].id = job[k].id /\ job'[k].pgid = job[k].pgid
           /\ job'[k].state = "Done" =>
                job[k].state = "Done" \/ proc'[job[k].pgid] = "gone",
         pc' \in {"fork", "setpgid", "add"} /\ pids' # <<>> =>
           pc \in {"fork", "setpgid", "add"} /\ pids # <<>> /\ pids'[1] = pids[1]
  PROVE  JobInv(k)'
<1>1. JobInv(k)
  BY DEF JobsInv
<1>2. job[k].id # 0 => job[k].pgid \in Pids /\ Older(job[k].pgid)
  BY <1>1 DEF Ages, JobInv
<1> QED
  BY <1>1, <1>2 DEF JobInv, Older

\* At most the processes given up before are given up, and the handler was
\* installed if it is.
(* Fewer children left behind are no harm.                                 *)
LEMMA LeftShrinks ==
  ASSUME JobsInv, Left' \subseteq Left, sig' => handler', handler' => handler
  PROVE  LeftInv'
  BY DEF JobsInv, LeftInv

-----------------------------------------------------------------------------
(* The shell starts without a job.                                         *)
LEMMA InitJobs == Init => JobsInv
<1> SUFFICES ASSUME Init PROVE JobsInv
  OBVIOUS
<1> USE JobsAssumption, JobBoundsAssumption DEF Init
<1>1. TypeOK
  <2>1. /\ proc \in [Pids -> ProcStates] /\ grp \in [Pids -> Nat]
        /\ leader \in [Pids -> Nat]
    BY DEF ProcStates
  <2>2. job \in [JobSlots -> [id : Nat, pgid : Nat, state : JobStates]]
    BY DEF JobStates, FreeJob
  <2>3. cmd \in [n : 0..MaxStages, bg : BOOLEAN] /\ Len(pids) <= cmd.n
    BY DEF NoCmd
  <2>4. fg \in [jid : JobIds, slot : JobSlots]
    BY DEF NoFg, JobIds, JobSlots
  <2>5. pids \in Seq(Pids)
    OBVIOUS
  <2>6. next_job_id \in Nat \ {0} /\ w \in Nat \ {0}
    OBVIOUS
  <2>7. handler \in BOOLEAN /\ sig \in BOOLEAN /\ awaited \subseteq Pids /\ pc = "prompt"
    BY Zenon, SMT
  <2>8. pc # "wait"
    OBVIOUS
  <2> QED
    BY <2>1, <2>2, <2>3, <2>4, <2>5, <2>6, <2>7, <2>8, Zenon, SMT DEF TypeOK
<1>2. Launching
  BY DEF Launching
<1>3. \A p \in Pids : GroupInv(p)
  BY DEF GroupInv, Pids
<1>4. \A k \in JobSlots : JobInv(k)
  BY DEF JobInv, FreeJob
<1>5. LeftInv
  BY DEF LeftInv, Left
<1> QED
  BY <1>1, <1>2, <1>3, <1>4, <1>5 DEF JobsInv

-----------------------------------------------------------------------------
(* What the kernel does to the processes of the shell.                     *)

\* The command is over.
(* Back at the prompt nothing of the last line is left.                    *)
LEMMA PromptTypes ==
  ASSUME ToPrompt
  PROVE  /\ pc' = "prompt" /\ pids' = <<>> /\ w' = 1
         /\ cmd' \in [n : 0..MaxStages, bg : BOOLEAN] /\ Len(pids') <= cmd'.n
         /\ fg' \in [jid : JobIds, slot : JobSlots]
<1> USE JobsAssumption, JobBoundsAssumption DEF ToPrompt
<1>1. cmd' \in [n : 0..MaxStages, bg : BOOLEAN] /\ Len(pids') <= cmd'.n
  BY DEF NoCmd
<1>2. fg' \in [jid : JobIds, slot : JobSlots]
  BY DEF NoFg, JobIds, JobSlots
<1> QED
  BY <1>1, <1>2

\* kill(-g, SIGCONT) only lets stopped processes run.
(* SIGCONT wakes what was stopped.                                         *)
LEMMA ContinueAges ==
  ASSUME JobsInv, NEW g, ContinueGroup(g)
  PROVE  /\ Ages
         /\ proc' \in [Pids -> ProcStates] /\ sig' \in BOOLEAN
         /\ UNCHANGED <<grp, handler>>
         /\ sig' => handler
<1>1. proc \in [Pids -> ProcStates] /\ sig \in BOOLEAN /\ handler \in BOOLEAN
  BY DEF JobsInv, TypeOK
<1>2. sig => handler
  BY DEF JobsInv, LeftInv
<1>3. Ages /\ proc' \in [Pids -> ProcStates]
  BY <1>1 DEF ContinueGroup, Ages, Older, ProcStates
<1> QED
  BY <1>1, <1>2, <1>3 DEF ContinueGroup, RaiseSigchld

\* The handler reaps, and marks the jobs whose leader it has reaped.
(* sigchld_handler reaps children and marks their jobs.                    *)
LEMMA HandlerAges ==
  ASSUME JobsInv, sigchld_handler
  PROVE  /\ Ages
         /\ proc' \in [Pids -> ProcStates]
         /\ job' \in [JobSlots -> [id : Nat, pgid : Nat, state : JobStates]]
         /\ \A k \in JobSlots : job'[k].id = job[k].id /\ job'[k].pgid = job[k].pgid
         /\ \A k \in JobSlots : job'[k].id # 0 /\ job'[k].state = "Done" =>
              proc'[job'[k].pgid] = "gone"
         /\ handler' = FALSE /\ sig' = FALSE /\ UNCHANGED <<grp, next_job_id>>
<1>1. proc \in [Pids -> ProcStates]
      /\ job \in [JobSlots -> [id : Nat, pgid : Nat, state : JobStates]]
  BY DEF JobsInv, TypeOK
<1>2. Ages /\ proc' \in [Pids -> ProcStates]
  BY <1>1 DEF sigchld_handler, Zombies, Ages, Older, ProcStates
<1> DEFINE done == {First(job_find_by_pgid(p)) :
                      p \in {q \in Zombies : job_find_by_pgid(q) # {}}}
<1>3. job' = [k \in JobSlots |->
                IF k \in done THEN [job[k] EXCEPT !.state = "Done"] ELSE job[k]]
  BY DEF sigchld_handler, MarkDone
<1>4. \A k \in done : k \in JobSlots /\ proc'[job[k].pgid] = "gone"
  <2> SUFFICES ASSUME NEW p \in Zombies, job_find_by_pgid(p) # {}
               PROVE  /\ First(job_find_by_pgid(p)) \in JobSlots
                      /\ proc'[job[First(job_find_by_pgid(p))].pgid] = "gone"
    OBVIOUS
  <2>1. First(job_find_by_pgid(p)) \in job_find_by_pgid(p)
    BY FirstIsFirst DEF job_find_by_pgid
  <2>2. /\ First(job_find_by_pgid(p)) \in JobSlots
        /\ job[First(job_find_by_pgid(p))].pgid = p
    BY <2>1 DEF job_find_by_pgid
  <2>3. proc'[p] = "gone"
    BY DEF sigchld_handler, Zombies
  <2> QED
    BY <2>2, <2>3
<1> HIDE DEF done
<1>5. /\ job' \in [JobSlots -> [id : Nat, pgid : Nat, state : JobStates]]
      /\ \A k \in JobSlots : job'[k].id = job[k].id /\ job'[k].pgid = job[k].pgid
  BY <1>1, <1>3 DEF JobStates
<1>6. ASSUME NEW k \in JobSlots, job'[k].id # 0, job'[k].state = "Done"
      PROVE  proc'[job'[k].pgid] = "gone"
  <2>1. CASE k \in done
    BY <2>1, <1>4, <1>5
  <2>2. CASE k \notin done
    <3>1. job'[k] = job[k] /\ JobInv(k)
      BY <2>2, <1>3 DEF JobsInv
    <3>2. job[k].pgid \in Pids /\ proc[job[k].pgid] = "gone"
      BY <1>6, <3>1 DEF JobInv
    <3> QED
      BY <3>1, <3>2, <1>2 DEF Ages, Older
  <2> QED
    BY <2>1, <2>2
<1> QED
  BY <1>2, <1>5, <1>6 DEF sigchld_handler

-----------------------------------------------------------------------------
(* The steps of the children.                                              *)

\* A child exits or stops.
(* A child ends or stops.                                                  *)
LEMMA ChildAges ==
  ASSUME JobsInv, NEW p \in Pids, ChildExits(p) \/ ChildStops(p)
  PROVE  JobsInv'
<1>1. /\ proc[p] = "run" /\ sig' = handler
      /\ proc' = [proc EXCEPT ![p] = "zomb"] \/ proc' = [proc EXCEPT ![p] = "stop"]
      /\ UNCHANGED <<grp, handler, job, next_job_id, pc, cmd, pids, w, fg, leader, awaited>>
  BY DEF ChildExits, ChildStops, RaiseSigchld, table, shell, ghost
<1>2. proc' \in [Pids -> ProcStates] /\ Ages
  BY <1>1 DEF JobsInv, TypeOK, ProcStates, Ages, Older
<1>3. TypeOK'
  BY <1>1, <1>2 DEF JobsInv, TypeOK
<1>4. Launching'
  <2>1. pids \in Seq(Pids) /\ \A i \in 1 .. Len(pids) : pids[i] \in Pids
    BY DEF JobsInv, TypeOK
  <2> QED
    BY <1>1, <1>2, <2>1 DEF JobsInv, Launching, InOwnGroup, Ages, Older
<1>5. \A q \in Pids : GroupInv(q)'
  BY <1>1, <1>2, GroupAges
<1>6. \A k \in JobSlots : JobInv(k)'
  BY <1>1, <1>2, JobAges
<1>7. LeftInv'
  <2>1. Left' \subseteq Left
    BY <1>1, <1>2 DEF Left, Waiting, Ages, Older, JobsInv, TypeOK
  <2> QED
    BY <1>1, <2>1, LeftShrinks
<1> QED
  BY <1>3, <1>4, <1>5, <1>6, <1>7 DEF JobsInv

\* The child's own setpgid.  It fails only when nobody is left in the group:
\* the leader, who was in it before this child was forked, has been reaped.
(* A child joins its group.                                                *)
LEMMA ChildSetpgidKeeps ==
  ASSUME JobsInv, NEW p \in Pids, ChildSetpgid(p)
  PROVE  JobsInv'
<1> DEFINE joins == GroupExists(p, leader[p])
<1>1. /\ proc[p] = "new"
      /\ proc' = [proc EXCEPT ![p] = IF joins THEN "run" ELSE "zomb"]
      /\ grp' = [grp EXCEPT ![p] = IF joins THEN leader[p] ELSE grp[p]]
      /\ sig' = sig \/ sig' = handler
      /\ UNCHANGED <<handler, job, next_job_id, pc, cmd, pids, w, fg, leader, awaited>>
  BY DEF ChildSetpgid, RaiseSigchld, table, shell, ghost
<1>2. ~joins => leader[p] \notin {0, p} /\ leader[p] \in Pids /\ proc[leader[p]] = "gone"
  <2>1. GroupInv(p)
    BY DEF JobsInv
  <2>2. leader[p] \notin {0, p} => leader[p] \in Pids /\ grp[leader[p]] = leader[p]
                                     /\ proc[leader[p]] # "none"
    BY <2>1 DEF GroupInv
  <2> QED
    BY <2>2 DEF GroupExists
<1> HIDE DEF joins
<1>3. proc' \in [Pids -> ProcStates] /\ grp' \in [Pids -> Nat]
  BY <1>1 DEF JobsInv, TypeOK, ProcStates
<1>4. TypeOK'
  BY <1>1, <1>3 DEF JobsInv, TypeOK
<1>5. \A q \in Pids : /\ proc'[q] = "none" <=> proc[q] = "none"
                      /\ proc'[q] = "gone" <=> proc[q] = "gone"
  BY <1>1 DEF JobsInv, TypeOK
<1>6. \A q \in Pids : q # p => proc'[q] = proc[q] /\ grp'[q] = grp[q]
  BY <1>1 DEF JobsInv, TypeOK
<1>7. /\ joins => proc'[p] = "run" /\ grp'[p] = leader[p]
      /\ ~joins => proc'[p] = "zomb" /\ grp'[p] = grp[p]
  BY <1>1 DEF JobsInv, TypeOK
<1>8. \A q \in Pids : grp[q] = leader[q] => grp'[q] = leader[q]
  BY <1>6, <1>7
<1>9. Launching'
  <2>1. pids \in Seq(Pids) /\ \A i \in 1 .. Len(pids) : pids[i] \in Pids
    BY DEF JobsInv, TypeOK
  <2> QED
    BY <1>1, <1>5, <1>8, <2>1 DEF JobsInv, Launching, InOwnGroup
<1>10. ASSUME NEW q \in Pids PROVE GroupInv(q)'
  <2>1. GroupInv(q)
    BY DEF JobsInv
  <2>2. leader[q] \notin {0, q} => grp'[leader[q]] = leader[q]
    BY <1>8, <2>1 DEF GroupInv
  <2>3. CASE q = p
    BY <1>1, <1>2, <1>5, <1>7, <2>1, <2>2, <2>3 DEF GroupInv
  <2>4. CASE q # p
    BY <1>1, <1>5, <1>6, <2>1, <2>2, <2>4 DEF GroupInv
  <2> QED
    BY <2>3, <2>4
<1>11. ASSUME NEW k \in JobSlots PROVE JobInv(k)'
  BY <1>1, <1>5 DEF JobsInv, JobInv
<1>12. LeftInv'
  <2>1. Left' \subseteq Left
    BY <1>1, <1>5 DEF Left, Waiting, JobsInv, TypeOK
  <2>2. sig' => handler'
    BY <1>1 DEF JobsInv, LeftInv
  <2> QED
    BY <1>1, <2>1, <2>2, LeftShrinks
<1> QED
  BY <1>4, <1>9, <1>10, <1>11, <1>12 DEF JobsInv

-----------------------------------------------------------------------------
(* The steps of the executor.                                              *)

\* pids[i] = pid.
(* What Append does to a list of pids.                                     *)
LEMMA Appended ==
  ASSUME NEW s \in Seq(Pids), NEW p \in Pids
  PROVE  LET t == Append(s, p)
         IN  /\ t \in Seq(Pids) /\ Len(t) = Len(s) + 1 /\ t[Len(t)] = p /\ t # <<>>
             /\ \A i \in 1 .. Len(s) : t[i] = s[i] /\ s[i] \in Pids
             /\ s # <<>> => t[1] = s[1] /\ Head(s) = s[1] /\ s[1] \in Pids
             /\ s = <<>> => t[1] = p
<1> DEFINE t == Append(s, p)
<1>1. t \in Seq(Pids) /\ Len(t) = Len(s) + 1 /\ t[Len(t)] = p /\ t # <<>>
  OBVIOUS
<1>2. \A i \in 1 .. Len(s) : t[i] = s[i] /\ s[i] \in Pids
  OBVIOUS
<1>3. s # <<>> => Len(s) >= 1 /\ Head(s) = s[1]
  OBVIOUS
<1>4. s = <<>> => t[1] = p
  OBVIOUS
<1> HIDE DEF t
<1>5. s # <<>> => t[1] = s[1] /\ s[1] \in Pids
  BY <1>2, <1>3
<1> QED
  BY <1>1, <1>2, <1>3, <1>4, <1>5 DEF t

\* fork: the new process is in no group yet, is the leader of no other, and
\* belongs to no job.
(* execute_pipeline forks a stage.                                         *)
LEMMA ForkKeeps == JobsInv /\ Fork => JobsInv'
<1> SUFFICES ASSUME JobsInv, Fork PROVE JobsInv'
  OBVIOUS
<1> DEFINE g(p) == IF ~InOwnGroup THEN 0 ELSE IF pids = <<>> THEN p ELSE Head(pids)
<1>1. PICK p \in Pids :
        /\ proc[p] = "none"
        /\ proc' = [proc EXCEPT ![p] = "new"]
        /\ pids' = Append(pids, p)
        /\ leader' = [leader EXCEPT ![p] = g(p)]
  BY DEF Fork
<1>2. /\ pc = "fork" /\ pc' = (IF InOwnGroup THEN "setpgid" ELSE "wait")
      /\ w' = 1
      /\ awaited' = awaited \union (IF InOwnGroup THEN {} ELSE Range(pids'))
      /\ UNCHANGED <<grp, handler, sig, job, next_job_id, cmd, fg>>
  BY DEF Fork, table
<1>3. /\ pids \in Seq(Pids) /\ pids' \in Seq(Pids) /\ Len(pids') = Len(pids) + 1
      /\ pids'[Len(pids')] = p /\ pids' # <<>>
      /\ \A i \in 1 .. Len(pids) : pids'[i] = pids[i] /\ pids[i] \in Pids
      /\ pids # <<>> => pids'[1] = pids[1] /\ Head(pids) = pids[1] /\ pids[1] \in Pids
      /\ pids = <<>> => pids'[1] = p
  <2>1. pids \in Seq(Pids)
    BY DEF JobsInv, TypeOK
  <2> QED
    BY <1>1, <2>1, Appended
<1>4. /\ Len(pids) < cmd.n
      /\ pids # <<>> => /\ InOwnGroup /\ proc[pids[1]] # "none"
                        /\ leader[pids[1]] = pids[1] /\ grp[pids[1]] = pids[1]
  BY <1>2, <1>3 DEF JobsInv, Launching
<1>5. g(p) = (IF InOwnGroup THEN pids'[1] ELSE 0) /\ g(p) \in Nat
      /\ (g(p) # 0 => g(p) \in Pids)
  BY <1>3 DEF Pids
<1> HIDE DEF g
<1>6. /\ proc' \in [Pids -> ProcStates] /\ leader' \in [Pids -> Nat]
      /\ proc'[p] = "new" /\ leader'[p] = g(p)
      /\ \A q \in Pids : q # p => proc'[q] = proc[q] /\ leader'[q] = leader[q]
  BY <1>1, <1>5 DEF JobsInv, TypeOK, ProcStates
<1>7. Range(pids') \subseteq Pids /\ \A q \in Range(pids') : \E i \in 1 .. Len(pids') : q = pids'[i]
  BY <1>3 DEF Range
<1>8. InOwnGroup' = InOwnGroup
  BY <1>2 DEF InOwnGroup
<1>9. TypeOK'
  <2>1. awaited' \subseteq Pids
    <3>1. awaited \subseteq Pids
      BY DEF JobsInv, TypeOK
    <3> QED
      BY <1>2, <1>7, <3>1
  <2>2. Len(pids') <= cmd'.n /\ w' <= Len(pids')
    BY <1>2, <1>3, <1>4 DEF JobsInv, TypeOK
  <2>3. w' \in Nat \ {0} /\ pc' \in {"setpgid", "wait"}
    BY <1>2
  <2>4. /\ grp' \in [Pids -> Nat] /\ handler' \in BOOLEAN /\ sig' \in BOOLEAN
        /\ job' \in [JobSlots -> [id : Nat, pgid : Nat, state : JobStates]]
        /\ next_job_id' \in Nat \ {0}
        /\ cmd' \in [n : 0..MaxStages, bg : BOOLEAN]
        /\ fg' \in [jid : JobIds, slot : JobSlots]
    BY <1>2 DEF JobsInv, TypeOK
  <2> QED
    BY <1>3, <1>6, <2>1, <2>2, <2>3, <2>4 DEF TypeOK
<1>10. Launching'
  <2>1. \A i \in 1 .. Len(pids') : proc'[pids'[i]] # "none"
    <3> SUFFICES ASSUME NEW i \in 1 .. Len(pids') PROVE proc'[pids'[i]] # "none"
      OBVIOUS
    <3>1. CASE i \in 1 .. Len(pids)
      BY <1>3, <1>6, <3>1 DEF JobsInv, Launching
    <3>2. CASE i = Len(pids')
      BY <1>3, <1>6, <3>2
    <3> QED
      BY <1>3, <3>1, <3>2
  <2> QED
    BY <1>2, <1>3, <1>4, <1>5, <1>6, <1>8, <2>1 DEF Launching
<1>11. /\ leader[p] = 0 /\ grp[p] = 0 /\ p \notin awaited
       /\ \A q \in Pids : leader[q] # p
  BY <1>1 DEF JobsInv, GroupInv, Pids
<1>12. ASSUME NEW q \in Pids PROVE GroupInv(q)'
  <2>1. GroupInv(q)
    BY DEF JobsInv
  <2>2. CASE q = p
    BY <1>2, <1>3, <1>4, <1>5, <1>6, <1>11, <2>2 DEF GroupInv
  <2>3. CASE q # p
    <3>1. proc'[q] = "none" => q \notin awaited'
      <4>1. SUFFICES ASSUME proc[q] = "none", ~InOwnGroup PROVE q \notin Range(pids')
        BY <1>2, <1>6, <2>1, <2>3 DEF GroupInv
      <4>2. pids = <<>>
        BY <1>4, <4>1
      <4>3. Len(pids') = 1 /\ pids'[1] = p
        BY <1>3, <4>2
      <4> QED
        BY <1>7, <2>3, <4>3
    <3>2. leader[q] # 0 => /\ leader[q] \in Pids /\ leader[q] # p
                           /\ proc'[leader[q]] = proc[leader[q]]
                           /\ leader'[leader[q]] = leader[leader[q]]
      BY <1>6, <1>11, <2>1 DEF GroupInv
    <3>3. leader[q] = 0 => grp[q] = leader[q]
      BY <2>1 DEF GroupInv
    <3> QED
      BY <1>2, <1>6, <2>1, <2>3, <3>1, <3>2, <3>3 DEF GroupInv
  <2> QED
    BY <2>2, <2>3
<1>13. ASSUME NEW k \in JobSlots PROVE JobInv(k)'
  <2>1. JobInv(k) /\ job'[k] = job[k]
    BY <1>2 DEF JobsInv
  <2>2. job[k].id # 0 => /\ job[k].pgid \in Pids /\ job[k].pgid # p
                         /\ proc'[job[k].pgid] = proc[job[k].pgid]
                         /\ pids # <<>> => job[k].pgid # pids[1]
    BY <1>1, <1>2, <1>6, <2>1 DEF JobInv
  <2> QED
    BY <1>3, <2>1, <2>2 DEF JobInv
<1>14. LeftInv'
  <2>1. Left' \subseteq Left
    <3> SUFFICES ASSUME NEW q \in Left' PROVE q \in Left
      OBVIOUS
    <3>1. q \in awaited' /\ proc'[q] # "gone" /\ q \notin Waiting'
      BY DEF Left
    <3>2. q \in awaited
      BY <1>2, <1>7, <3>1 DEF Waiting
    <3>3. q \in Pids /\ proc[q] # "gone"
      BY <1>6, <1>11, <3>1, <3>2 DEF JobsInv, TypeOK
    <3> QED
      BY <1>2, <3>2, <3>3 DEF Left, Waiting
  <2> QED
    BY <1>2, <2>1, LeftShrinks DEF JobsInv, LeftInv
<1> QED
  BY <1>9, <1>10, <1>12, <1>13, <1>14 DEF JobsInv

\* The parent's setpgid.  If the child has not yet made its own, the group
\* exists or its leader has been reaped; the leader is in its group for good.
(* The shell puts a child in its group.                                    *)
LEMMA ParentSetpgidKeeps == JobsInv /\ ParentSetpgid => JobsInv'
<1> SUFFICES ASSUME JobsInv, ParentSetpgid PROVE JobsInv'
  OBVIOUS
<1> DEFINE p == pids[Len(pids)]
           moves == proc[p] = "new" /\ GroupExists(p, leader[p])
<1>1. /\ pc = "setpgid" /\ Forked
      /\ grp' = [grp EXCEPT ![p] = IF moves THEN leader[p] ELSE grp[p]]
      /\ UNCHANGED <<proc, handler, sig, job, next_job_id, cmd, pids, w, fg, leader>>
  BY DEF ParentSetpgid, table
<1>2. /\ pids \in Seq(Pids) /\ pids # <<>> /\ p \in Pids /\ pids[1] \in Pids
      /\ Len(pids) \in Nat /\ Len(pids) >= 1
      /\ w = 1 /\ leader[p] = pids[1] /\ leader[pids[1]] = pids[1]
      /\ proc[pids[1]] # "none" /\ InOwnGroup
  BY <1>1 DEF JobsInv, TypeOK, Launching
<1>3. GroupInv(p) /\ leader[p] # 0
  BY <1>2 DEF JobsInv, Pids
<1>4. proc[p] = "new" => moves \/ proc[leader[p]] = "gone"
  <2>1. leader[p] # p => leader[p] \in Pids /\ grp[leader[p]] = leader[p]
                           /\ proc[leader[p]] # "none"
    BY <1>3 DEF GroupInv
  <2> QED
    BY <2>1 DEF GroupExists
<1>5. proc[p] = "new" /\ leader[p] = p => moves
  BY DEF GroupExists
<1> HIDE DEF moves
<1>6. /\ grp' \in [Pids -> Nat]
      /\ grp'[p] = (IF moves THEN leader[p] ELSE grp[p])
      /\ \A q \in Pids : q # p => grp'[q] = grp[q]
  BY <1>1, <1>2 DEF JobsInv, TypeOK
<1>7. \A q \in Pids : grp[q] = leader[q] => grp'[q] = leader[q]
  BY <1>6
<1>8. /\ pc' \in {"fork", "add", "wait"}
      /\ pc' = "fork" => Len(pids) < cmd.n /\ awaited' = awaited
      /\ pc' = "add" => awaited' = awaited
      /\ pc' = "wait" => awaited' = awaited \union Range(pids)
  BY <1>1 DEF Forked
<1>9. Range(pids) \subseteq Pids /\ \A q \in Range(pids) : \E i \in 1 .. Len(pids) : q = pids[i]
  BY <1>2 DEF Range
<1>10. TypeOK'
  <2>1. awaited' \subseteq Pids
    BY <1>8, <1>9 DEF JobsInv, TypeOK
  <2> QED
    BY <1>1, <1>2, <1>6, <1>8, <2>1 DEF JobsInv, TypeOK
<1>11. grp'[pids[1]] = pids[1]
  <2>1. CASE p = pids[1]
    <3>1. proc[p] # "new" => grp[p] = leader[p]
      BY <1>2, <1>3, <2>1 DEF GroupInv
    <3> QED
      BY <1>2, <1>5, <1>6, <2>1, <3>1
  <2>2. CASE p # pids[1]
    BY <1>2, <1>3, <1>7, <2>2 DEF GroupInv
  <2> QED
    BY <2>1, <2>2
<1>12. Launching'
  BY <1>1, <1>2, <1>8, <1>11 DEF JobsInv, Launching, InOwnGroup
<1>13. ASSUME NEW q \in Pids PROVE GroupInv(q)'
  <2>1. GroupInv(q)
    BY DEF JobsInv
  <2>2. proc[q] = "none" => q \notin awaited'
    <3>1. SUFFICES ASSUME proc[q] = "none", q \in Range(pids), pc' = "wait" PROVE FALSE
      BY <1>8, <2>1 DEF GroupInv
    <3> QED
      BY <1>9, <3>1 DEF JobsInv, Launching
  <2>3. leader[q] \notin {0, q} => grp'[leader[q]] = leader[q]
    BY <1>7, <2>1, Zenon, SMT DEF GroupInv
  <2>4. CASE q = p
    BY <1>1, <1>3, <1>4, <1>6, <2>1, <2>2, <2>3, <2>4 DEF GroupInv
  <2>5. CASE q # p
    BY <1>1, <1>6, <1>8, <2>1, <2>2, <2>3, <2>5 DEF GroupInv
  <2> QED
    BY <2>4, <2>5
<1>14. ASSUME NEW k \in JobSlots PROVE JobInv(k)'
  BY <1>1, <1>2, <1>8 DEF JobsInv, JobInv
<1>15. LeftInv'
  <2>1. Left' \subseteq Left
    <3> SUFFICES ASSUME NEW q \in Left' PROVE q \in Left
      OBVIOUS
    <3>1. q \in awaited' /\ proc[q] # "gone" /\ q \notin Waiting'
      BY <1>1 DEF Left
    <3>2. q \in awaited
      BY <1>1, <1>2, <1>8, <1>9, <3>1 DEF Waiting
    <3> QED
      BY <1>1, <3>1, <3>2 DEF Left, Waiting
  <2> QED
    BY <1>1, <2>1, LeftShrinks DEF JobsInv, LeftInv
<1> QED
  BY <1>10, <1>12, <1>13, <1>14, <1>15 DEF JobsInv

\* A step that is not one of setting up a pipeline, or leaves the shell where
\* it is.
(* Steps that change no group and start no job.                            *)
LEMMA QuietKeeps ==
  ASSUME JobsInv, TypeOK', Ages, UNCHANGED <<grp, leader, awaited>>,
         \/ UNCHANGED <<pc, cmd, pids>> /\ (pc = "setpgid" => w' = w)
         \/ /\ pc # "setpgid" /\ pids' \in {pids, <<>>}
            /\ pc' \in {"prompt", "test", "pause", "exited"}
         \/ /\ pc # "setpgid" /\ pids' = <<>>
            /\ pc' = "fork" /\ cmd'.n > 0,
         \A k \in JobSlots : job'[k].id # 0 =>
           /\ job'[k].id = job[k].id /\ job'[k].pgid = job[k].pgid
           /\ job'[k].state = "Done" =>
                job[k].state = "Done" \/ proc'[job[k].pgid] = "gone",
         LeftInv'
  PROVE  JobsInv'
<1>1. Launching'
  <2>1. pids \in Seq(Pids) /\ \A i \in 1 .. Len(pids) : pids[i] \in Pids
    BY DEF JobsInv, TypeOK
  <2>2. \A i \in 1 .. Len(pids) : proc'[pids[i]] # "none"
    BY <2>1 DEF JobsInv, Launching, Ages, Older
  <2>3. pids' = pids \/ pids' = <<>>
    OBVIOUS
  <2> QED
    BY <2>2, <2>3 DEF JobsInv, Launching, InOwnGroup
<1>2. \A q \in Pids : GroupInv(q)'
  <2>1. \A q \in awaited' : q \in awaited \/ proc[q] # "none"
    OBVIOUS
  <2> QED
    BY <2>1, GroupAges
<1>3. \A k \in JobSlots : JobInv(k)'
  BY JobAges
<1> QED
  BY <1>1, <1>2, <1>3 DEF JobsInv

\* A failing pipe or fork, a new command, and exit.
(* A line starts, a fork fails, or the shell leaves.                       *)
LEMMA IdleKeeps ==
  ASSUME JobsInv,
         ForkFails \/ Exit \/ \E n \in 1..MaxStages, b \in BOOLEAN : Start(n, b)
  PROVE  JobsInv'
<1> USE JobBoundsAssumption
<1>1. /\ UNCHANGED <<proc, grp, handler, sig, job, next_job_id, leader, awaited>>
      /\ pc \in {"prompt", "fork"}
  BY DEF ForkFails, Exit, Start, kernel, table, ghost
<1>2. /\ pc' \in {"prompt", "exited"} \/ (pc' = "fork" /\ pids' = <<>> /\ cmd'.n > 0)
      /\ pids' \in {pids, <<>>}
      /\ TypeOK'
  <2>1. CASE ForkFails
    BY <1>1, <2>1, PromptTypes DEF ForkFails, JobsInv, TypeOK
  <2>2. CASE Exit
    BY <1>1, <2>2 DEF Exit, JobsInv, TypeOK
  <2>3. ASSUME NEW n \in 1..MaxStages, NEW b \in BOOLEAN, Start(n, b)
        PROVE  pc' = "fork" /\ pids' = <<>> /\ cmd'.n > 0 /\ TypeOK'
    <3>1. pc' = "fork" /\ pids' = <<>> /\ w' = w /\ fg' = fg /\ cmd' = [n |-> n, bg |-> b]
      BY <2>3 DEF Start
    <3>2. cmd' \in [n : 0..MaxStages, bg : BOOLEAN] /\ cmd'.n > 0
      BY <3>1
    <3> QED
      BY <1>1, <3>1, <3>2 DEF JobsInv, TypeOK
  <2> QED
    BY <2>1, <2>2, <2>3
<1>3. Ages
  BY <1>1 DEF Ages, Older
<1>4. LeftInv'
  <2>1. Left' \subseteq Left
    BY <1>1, <1>2 DEF Left, Waiting
  <2> QED
    BY <1>1, <2>1, LeftShrinks DEF JobsInv, LeftInv
<1> QED
  BY <1>1, <1>2, <1>3, <1>4, QuietKeeps

\* job_add, whether it succeeds or not.
(* job_add.                                                                *)
LEMMA AddJobKeeps == JobsInv /\ AddJob => JobsInv'
<1> SUFFICES ASSUME JobsInv, AddJob PROVE JobsInv'
  OBVIOUS
<1>1. /\ pc = "add" /\ ToPrompt
      /\ UNCHANGED <<proc, grp, handler, sig, leader, awaited>>
  BY DEF AddJob, kernel, ghost
<1>2. pids[1] \in Pids /\ proc[pids[1]] # "none"
  BY <1>1 DEF JobsInv, TypeOK, Launching
<1> DEFINE x == First(job_find(0))
<1>3. PICK id \in {0, next_job_id} :
        \/ /\ job' = [job EXCEPT ![x] = [id |-> id, pgid |-> pids[1], state |-> "Running"]]
           /\ next_job_id' = next_job_id + 1
        \/ UNCHANGED <<job, next_job_id>>
  BY DEF AddJob, JobAdd, JobAddNoMemory, JobNotAdded, table
<1>4. /\ job' \in [JobSlots -> [id : Nat, pgid : Nat, state : JobStates]]
      /\ next_job_id' \in Nat \ {0}
  <2>1. /\ job \in [JobSlots -> [id : Nat, pgid : Nat, state : JobStates]]
        /\ next_job_id \in Nat \ {0} /\ pids[1] \in Nat
    BY <1>2 DEF JobsInv, TypeOK, Pids
  <2>2. [id |-> id, pgid |-> pids[1], state |-> "Running"]
          \in [id : Nat, pgid : Nat, state : JobStates]
    BY <2>1 DEF JobStates
  <2> HIDE DEF x
  <2> QED
    BY <1>3, <2>1, <2>2
<1>5. TypeOK'
  BY <1>1, <1>4, PromptTypes DEF JobsInv, TypeOK
<1>6. Ages
  BY <1>1 DEF Ages, Older
<1>7. pc' = "prompt" /\ pids' = <<>>
  BY <1>1, PromptTypes
<1>8. Launching'
  BY <1>7 DEF Launching
<1>9. \A q \in Pids : GroupInv(q)'
  BY <1>1, <1>6, GroupAges
<1>10. ASSUME NEW k \in JobSlots PROVE JobInv(k)'
  <2>1. CASE job'[k] = job[k]
    BY <1>6, <1>7, <2>1, JobAges
  <2>2. CASE job'[k] = [id |-> id, pgid |-> pids[1], state |-> "Running"]
    BY <1>1, <1>2, <1>7, <2>2 DEF JobInv
  <2> QED
    BY <1>3, <2>1, <2>2 DEF JobsInv, TypeOK
<1>11. LeftInv'
  <2>1. Left' \subseteq Left
    BY <1>1, <1>7 DEF Left, Waiting
  <2> QED
    BY <1>1, <2>1, LeftShrinks DEF JobsInv, LeftInv
<1> QED
  BY <1>5, <1>8, <1>9, <1>10, <1>11 DEF JobsInv

\* The end of one turn of the wait loop.
(* The loop over waitpid goes to the next stage, or ends.                  *)
LEMMA NextWaitTurns ==
  ASSUME JobsInv, pc = "wait", NextWait
  PROVE  /\ cmd' \in [n : 0..MaxStages, bg : BOOLEAN]
         /\ pids' \in Seq(Pids) /\ Len(pids') <= cmd'.n
         /\ w' \in Nat \ {0} /\ (pc' = "wait" => w' <= Len(pids'))
         /\ fg' \in [jid : JobIds, slot : JobSlots]
         /\ \/ UNCHANGED <<pc, cmd, pids>>
            \/ pc' = "prompt" /\ pids' = <<>>
         /\ \A q \in Waiting : q \in Waiting' \/ q = pids[w]
<1>1. /\ cmd \in [n : 0..MaxStages, bg : BOOLEAN]
      /\ pids \in Seq(Pids) /\ Len(pids) <= cmd.n /\ Len(pids) \in Nat
      /\ w \in Nat \ {0} /\ w <= Len(pids)
      /\ fg \in [jid : JobIds, slot : JobSlots]
  BY DEF JobsInv, TypeOK
<1>2. CASE w < Len(pids)
  <2>1. w' = w + 1 /\ UNCHANGED <<pc, cmd, pids, fg>>
    BY <1>2 DEF NextWait
  <2>2. \A i \in w .. Len(pids) : i = w \/ i \in w + 1 .. Len(pids)
    BY <1>1
  <2>3. \A q \in Waiting : q \in Waiting' \/ q = pids[w]
    BY <2>1, <2>2 DEF Waiting
  <2> QED
    BY <1>1, <1>2, <2>1, <2>3
<1>3. CASE ~(w < Len(pids))
  <2>1. ToPrompt
    BY <1>3 DEF NextWait
  <2>2. \A i \in w .. Len(pids) : i = w
    BY <1>1, <1>3
  <2>3. \A q \in Waiting : q = pids[w]
    BY <2>2 DEF Waiting
  <2>4. pids' \in Seq(Pids) /\ w' \in Nat \ {0}
    BY <2>1, PromptTypes
  <2> QED
    BY <2>1, <2>3, <2>4, PromptTypes
<1> QED
  BY <1>2, <1>3

\* waitpid returns the child, or ECHILD because it has been reaped.
(* waitpid in the foreground.                                              *)
LEMMA WaitKeeps == JobsInv /\ (WaitReaps \/ WaitEchild) => JobsInv'
<1> SUFFICES ASSUME JobsInv, WaitReaps \/ WaitEchild PROVE JobsInv'
  OBVIOUS
<1>1. /\ pc = "wait" /\ NextWait
      /\ UNCHANGED <<grp, handler, sig, job, next_job_id, leader, awaited>>
  BY DEF WaitReaps, WaitEchild, kernel, table, ghost
<1>2. pids[w] \in Pids
  BY <1>1 DEF JobsInv, TypeOK
<1>3. /\ proc' \in [Pids -> ProcStates] /\ Ages /\ proc'[pids[w]] = "gone"
  <2>1. proc \in [Pids -> ProcStates]
    BY DEF JobsInv, TypeOK
  <2>2. CASE WaitReaps
    BY <1>2, <2>1, <2>2 DEF WaitReaps, ProcStates, Ages, Older
  <2>3. CASE WaitEchild
    BY <2>1, <2>3 DEF WaitEchild, kernel, Ages, Older
  <2> QED
    BY <2>2, <2>3
<1>4. TypeOK'
  BY <1>1, <1>3, NextWaitTurns DEF JobsInv, TypeOK
<1>5. LeftInv'
  <2>1. Left' \subseteq Left
    <3> SUFFICES ASSUME NEW q \in Left' PROVE q \in Left
      OBVIOUS
    <3>1. q \in awaited /\ proc'[q] # "gone" /\ q \notin Waiting' /\ q \in Pids
      BY <1>1 DEF Left, JobsInv, TypeOK
    <3>2. q \notin Waiting /\ proc[q] # "gone"
      BY <1>1, <1>3, <3>1, NextWaitTurns DEF Ages, Older
    <3> QED
      BY <3>1, <3>2 DEF Left
  <2> QED
    BY <1>1, <2>1, LeftShrinks DEF JobsInv, LeftInv
<1> QED
  BY <1>1, <1>3, <1>4, <1>5, NextWaitTurns, QuietKeeps

-----------------------------------------------------------------------------
(* The handler and the builtins.                                           *)

\* A wait that the handler interrupts leaves one process behind.  There was
\* none before, because the handler was still installed.
(* A signal is delivered.                                                  *)
LEMMA SignalKeeps == JobsInv /\ SignalStep => JobsInv'
<1> SUFFICES ASSUME JobsInv, SignalStep PROVE JobsInv'
  OBVIOUS
<1>1. sigchld_handler /\ UNCHANGED <<leader, awaited>>
  BY DEF SignalStep, Deliver, WaitEintr, fgWake, ghost
<1>2. sig /\ Left = {}
  BY <1>1 DEF sigchld_handler, JobsInv, LeftInv
<1>3. \/ UNCHANGED <<pc, cmd, pids, w, fg>>
      \/ pc = "wait" /\ NextWait
      \/ pc = "pause" /\ pc' = "test" /\ UNCHANGED <<cmd, pids, w, fg>>
  BY DEF SignalStep, Deliver, WaitEintr, fgWake, shell
<1>4. TypeOK'
  <2>1. /\ proc' \in [Pids -> ProcStates] /\ grp' \in [Pids -> Nat]
        /\ job' \in [JobSlots -> [id : Nat, pgid : Nat, state : JobStates]]
        /\ next_job_id' \in Nat \ {0} /\ leader' \in [Pids -> Nat]
        /\ awaited' \subseteq Pids
    BY <1>1, HandlerAges DEF JobsInv, TypeOK
  <2>2. handler' \in BOOLEAN /\ sig' \in BOOLEAN
    BY <1>1, HandlerAges
  <2>3. /\ cmd' \in [n : 0..MaxStages, bg : BOOLEAN]
        /\ pids' \in Seq(Pids) /\ Len(pids') <= cmd'.n
        /\ w' \in Nat \ {0} /\ (pc' = "wait" => w' <= Len(pids'))
        /\ fg' \in [jid : JobIds, slot : JobSlots]
        /\ pc' \in {"prompt", "fork", "setpgid", "add", "wait", "test", "pause", "exited"}
    BY <1>3, NextWaitTurns DEF JobsInv, TypeOK
  <2> QED
    BY <2>1, <2>2, <2>3 DEF TypeOK
<1>5. LeftInv'
  <2>1. \A q \in Left' : pc = "wait" /\ q = pids[w]
    <3> SUFFICES ASSUME NEW q \in Left' PROVE pc = "wait" /\ q = pids[w]
      OBVIOUS
    <3>1. q \in awaited /\ proc'[q] # "gone" /\ q \notin Waiting' /\ q \in Pids
      BY <1>1 DEF Left, JobsInv, TypeOK
    <3>2. proc[q] # "gone"
      BY <1>1, <3>1, HandlerAges DEF Ages, Older
    <3>3. q \in Waiting
      BY <1>2, <3>1, <3>2 DEF Left
    <3>4. pc = "wait"
      BY <3>3 DEF Waiting
    <3>5. CASE UNCHANGED <<pc, cmd, pids, w, fg>>
      BY <3>1, <3>3, <3>5 DEF Waiting
    <3> QED
      BY <1>3, <3>1, <3>3, <3>4, <3>5, NextWaitTurns
  <2>2. handler' = FALSE /\ sig' = FALSE
    BY <1>1, HandlerAges
  <2> QED
    BY <2>1, <2>2 DEF LeftInv
<1>6. /\ Ages /\ UNCHANGED grp
      /\ \A k \in JobSlots : job'[k].id # 0 =>
           /\ job'[k].id = job[k].id /\ job'[k].pgid = job[k].pgid
           /\ job'[k].state = "Done" => proc'[job[k].pgid] = "gone"
  BY <1>1, HandlerAges
<1>7. \/ UNCHANGED <<pc, cmd, pids>> /\ (pc = "setpgid" => w' = w)
      \/ /\ pc # "setpgid" /\ pids' \in {pids, <<>>}
         /\ pc' \in {"prompt", "test", "pause", "exited"}
  BY <1>3, NextWaitTurns
<1> QED
  BY <1>1, <1>4, <1>5, <1>6, <1>7, QuietKeeps

\* fg and bg change the state of a job at most from Stopped or Done to
\* Running.
(* bg, and fg up to its loop.                                              *)
LEMMA ResumeKeeps ==
  ASSUME JobsInv, NEW jid \in JobIds, bg(jid) \/ fgStart(jid)
  PROVE  JobsInv'
<1> DEFINE k0 == First(job_find(jid))
<1>1. k0 \in JobSlots
  <2>1. job_find(jid) # {} /\ job_find(jid) \subseteq JobSlots
    BY DEF bg, fgStart, job_find
  <2> QED
    BY <2>1, FirstIsFirst
<1>2. PICK x :
        \/ UNCHANGED <<proc, grp, handler, sig, job>>
        \/ /\ job' = [job EXCEPT ![x].state = "Running"]
           /\ ContinueGroup(job[k0].pgid)
  BY DEF bg, fgStart, job_continue, kernel
<1>3. /\ pc = "prompt" /\ pc' \in {"prompt", "test"}
      /\ fg' = fg \/ fg' = [jid |-> jid, slot |-> k0]
      /\ UNCHANGED <<next_job_id, cmd, pids, w, leader, awaited>>
  BY DEF bg, fgStart, shell, ghost
<1> HIDE DEF k0
<1>4. /\ proc' \in [Pids -> ProcStates] /\ sig' \in BOOLEAN /\ Ages
      /\ UNCHANGED <<grp, handler>> /\ (sig' => handler)
  <2>1. CASE UNCHANGED <<proc, grp, handler, sig, job>>
    BY <2>1 DEF JobsInv, TypeOK, LeftInv, Ages, Older
  <2>2. CASE ContinueGroup(job[k0].pgid)
    BY <2>2, ContinueAges
  <2> QED
    BY <1>2, <2>1, <2>2
<1>5. /\ job' \in [JobSlots -> [id : Nat, pgid : Nat, state : JobStates]]
      /\ \A k \in JobSlots :
           /\ job'[k].id = job[k].id /\ job'[k].pgid = job[k].pgid
           /\ job'[k].state = "Done" => job[k].state = "Done"
  <2>1. job \in [JobSlots -> [id : Nat, pgid : Nat, state : JobStates]]
    BY DEF JobsInv, TypeOK
  <2> QED
    BY <1>2, <2>1 DEF JobStates
<1>6. fg' \in [jid : JobIds, slot : JobSlots]
  BY <1>1, <1>3 DEF JobsInv, TypeOK
<1>7. TypeOK'
  BY <1>3, <1>4, <1>5, <1>6 DEF JobsInv, TypeOK
<1>8. LeftInv'
  <2>1. Left' \subseteq Left
    BY <1>3, <1>4 DEF Left, Waiting, Ages, Older, JobsInv, TypeOK
  <2> QED
    BY <1>4, <2>1, LeftShrinks, Zenon, SMT
<1> QED
  BY <1>3, <1>4, <1>5, <1>7, <1>8, QuietKeeps

\* The loop of fg, and the job it removes.
(* The test of the loop of fg.                                             *)
LEMMA FgTestKeeps == JobsInv /\ fgTest => JobsInv'
<1> SUFFICES ASSUME JobsInv, fgTest PROVE JobsInv'
  OBVIOUS
<1>1. /\ pc = "test" /\ pc' \in {"pause", "prompt"} /\ pids' \in {pids, <<>>}
      /\ UNCHANGED <<proc, grp, handler, sig, next_job_id, leader, awaited>>
  BY DEF fgTest, ToPrompt, kernel, ghost
<1>2. PICK x : job' = job \/ job' = [job EXCEPT ![x] = FreeJob]
  BY DEF fgTest, JobRemoved
<1>3. /\ job' \in [JobSlots -> [id : Nat, pgid : Nat, state : JobStates]]
      /\ \A k \in JobSlots : job'[k].id # 0 => job'[k] = job[k]
  <2>1. job \in [JobSlots -> [id : Nat, pgid : Nat, state : JobStates]]
    BY DEF JobsInv, TypeOK
  <2> QED
    BY <1>2, <2>1 DEF JobStates, FreeJob
<1>4. TypeOK'
  <2>1. CASE UNCHANGED <<cmd, pids, w, fg>>
    BY <1>1, <1>3, <2>1 DEF JobsInv, TypeOK
  <2>2. CASE ToPrompt
    <3>1. pids' \in Seq(Pids) /\ w' \in Nat \ {0}
      BY <2>2, PromptTypes
    <3> QED
      BY <1>1, <1>3, <2>2, <3>1, PromptTypes DEF JobsInv, TypeOK
  <2> QED
    BY <2>1, <2>2 DEF fgTest
<1>5. Ages
  BY <1>1 DEF Ages, Older
<1>6. LeftInv'
  <2>1. Left' \subseteq Left
    BY <1>1 DEF Left, Waiting
  <2> QED
    BY <1>1, <2>1, LeftShrinks DEF JobsInv, LeftInv
<1> QED
  BY <1>1, <1>3, <1>4, <1>5, <1>6, QuietKeeps, Zenon, SMT

-----------------------------------------------------------------------------
(* Every step keeps the invariant.                                         *)
LEMMA JobsStep == JobsInv /\ [Next]_vars => JobsInv'
<1> SUFFICES ASSUME JobsInv, [Next]_vars PROVE JobsInv'
  OBVIOUS
<1>1. CASE ShellStep
  BY <1>1, ForkKeeps, IdleKeeps, ParentSetpgidKeeps, AddJobKeeps, WaitKeeps, FgTestKeeps
  DEF ShellStep
<1>2. CASE SignalStep
  BY <1>2, SignalKeeps
<1>3. CASE UserStep
  <2>1. ASSUME NEW jid \in JobIds, bg(jid) \/ fgStart(jid) PROVE JobsInv'
    BY <2>1, ResumeKeeps
  <2>2. CASE Exit \/ \E n \in 1..MaxStages, b \in BOOLEAN : Start(n, b)
    BY <2>2, IdleKeeps
  <2> QED
    BY <1>3, <2>1, <2>2 DEF UserStep
<1>4. ASSUME NEW p \in Pids, ChildStep(p) PROVE JobsInv'
  BY <1>4, ChildAges, ChildSetpgidKeeps, Zenon, SMT DEF ChildStep
<1>5. CASE UNCHANGED vars
  <2>1. UNCHANGED <<proc, grp, handler, sig, job, next_job_id, pc, cmd, pids, w, fg,
                    leader, awaited>>
    BY <1>5 DEF vars, kernel, table, shell, ghost
  <2>2. TypeOK'
    BY <2>1 DEF JobsInv, TypeOK
  <2>3. Launching'
    BY <2>1 DEF JobsInv, Launching, InOwnGroup
  <2>4. \A p \in Pids : GroupInv(p)'
    BY <2>1 DEF JobsInv, GroupInv, InOwnGroup
  <2>5. \A k \in JobSlots : JobInv(k)'
    BY <2>1 DEF JobsInv, JobInv
  <2>6. LeftInv'
    BY <2>1 DEF JobsInv, LeftInv, Left, Waiting
  <2> QED
    BY <2>2, <2>3, <2>4, <2>5, <2>6 DEF JobsInv
<1> QED
  BY <1>1, <1>2, <1>3, <1>4, <1>5 DEF Next

(* The inductive invariant holds in every reachable state of the shell,    *)
(* its handler and its children.                                           *)
THEOREM JobsInvariant == Spec => []JobsInv
<1> QED
  BY InitJobs, JobsStep, PTL DEF Spec

(* The variables of main.c, executor.c and jobs.c keep their types, and    *)
(* the wait loop of execute_pipeline stays inside pids[].                  *)
THEOREM JobTypes == Spec => []TypeOK
<1>1. JobsInv => TypeOK
  BY DEF JobsInv
<1> QED
  BY <1>1, JobsInvariant, PTL

(* The leader of a job that the handler has marked Done has been reaped.   *)
THEOREM DoneJobsAreReaped == Spec => []DoneIsReaped
<1>1. JobsInv => DoneIsReaped
  BY DEF JobsInv, JobInv, DoneIsReaped
<1> QED
  BY <1>1, JobsInvariant, PTL

(* Both calls of setpgid together put every process of a listed job into   *)
(* the group of its leader, unless the leader was reaped first.            *)
THEOREM ListedJobsAreGroups == Spec => []ListedJobIsOneGroup
<1>1. JobsInv => ListedJobIsOneGroup
  <2> SUFFICES ASSUME JobsInv, NEW k \in JobSlots, NEW p \in Pids, job[k].id # 0,
                      leader[p] = job[k].pgid, proc[p] \in {"new", "run", "stop"}
               PROVE  grp[p] = job[k].pgid \/ proc[job[k].pgid] = "gone"
    BY DEF ListedJobIsOneGroup
  <2>1. GroupInv(p) /\ JobInv(k)
    BY DEF JobsInv
  <2>2. ~(pc = "setpgid" /\ p = pids[Len(pids)])
    BY <2>1 DEF JobsInv, JobInv, Launching
  <2> QED
    BY <2>1, <2>2 DEF GroupInv
<1> QED
  BY <1>1, JobsInvariant, PTL

(* A stage outside the group of its pipeline has exited without running,   *)
(* and its leader had been reaped.                                         *)
THEOREM StraysDoNotRun == Spec => []StraysNeverRun
<1>1. JobsInv => StraysNeverRun
  BY DEF JobsInv, GroupInv, StraysNeverRun
<1> QED
  BY <1>1, JobsInvariant, PTL

(* At the prompt at most one process the shell waited for is left.         *)
THEOREM AtMostOneAbandoned == Spec => []OneAbandonedAtMost
<1>1. JobsInv => OneAbandonedAtMost
  <2> SUFFICES ASSUME JobsInv, pc = "prompt"
               PROVE  Cardinality({p \in awaited : proc[p] # "gone"}) <= 1
    BY DEF OneAbandonedAtMost
  <2> DEFINE A == {p \in awaited : proc[p] # "gone"}
  <2>1. A = Left
    BY DEF Left, Waiting
  <2>2. \A p, q \in A : p = q
    BY <2>1 DEF JobsInv, LeftInv
  <2> HIDE DEF A
  <2>3. CASE A = {}
    BY <2>3, FS_EmptySet DEF A
  <2>4. CASE A # {}
    <3>1. PICK p \in A : TRUE
      BY <2>4
    <3>2. A = {p}
      BY <2>2, <3>1
    <3> QED
      BY <3>2, FS_Singleton DEF A
  <2> QED
    BY <2>3, <2>4
<1> QED
  BY <1>1, JobsInvariant, PTL

(* No step of any kind gives a listed job another group, or a used job id  *)
(* to another job.                                                         *)
THEOREM JobIdsStable == Spec => JobIdsAreStable
<1> DEFINE Stable == \A k \in JobSlots : job'[k].id # 0 =>
                       \/ job'[k].id = job[k].id /\ job'[k].pgid = job[k].pgid
                       \/ job'[k].id >= next_job_id
<1>1. JobsInv /\ [Next]_vars => [Stable]_vars
  <2> SUFFICES ASSUME JobsInv, Next, NEW k \in JobSlots, job'[k].id # 0
               PROVE  \/ job'[k].id = job[k].id /\ job'[k].pgid = job[k].pgid
                      \/ job'[k].id >= next_job_id
    OBVIOUS
  <2>1. job \in [JobSlots -> [id : Nat, pgid : Nat, state : JobStates]]
        /\ next_job_id \in Nat
    BY DEF JobsInv, TypeOK
  <2>2. CASE job' = job
    BY <2>2
  <2>3. CASE sigchld_handler
    BY <2>3, HandlerAges
  <2>4. CASE AddJob
    <3>1. PICK x, id : job' = job \/ (id \in {0, next_job_id} /\
            job' = [job EXCEPT ![x] = [id |-> id, pgid |-> pids[1], state |-> "Running"]])
      BY <2>4 DEF AddJob, JobAdd, JobAddNoMemory, JobNotAdded, table
    <3> QED
      BY <2>1, <3>1
  <2>5. CASE fgTest
    <3>1. PICK x : job' = job \/ job' = [job EXCEPT ![x] = FreeJob]
      BY <2>5 DEF fgTest, JobRemoved
    <3> QED
      BY <2>1, <3>1 DEF FreeJob
  <2>6. ASSUME NEW jid \in JobIds, bg(jid) \/ fgStart(jid)
        PROVE  job'[k].id = job[k].id /\ job'[k].pgid = job[k].pgid
    <3>1. PICK x : job' = job \/ job' = [job EXCEPT ![x].state = "Running"]
      BY <2>6, Zenon, SMT DEF bg, fgStart, job_continue, kernel
    <3> QED
      BY <2>1, <3>1
  <2>7. CASE \/ Fork \/ ForkFails \/ ParentSetpgid \/ WaitReaps \/ WaitEchild \/ Exit
             \/ (\E n \in 1..MaxStages, b \in BOOLEAN : Start(n, b))
             \/ (\E p \in Pids : ChildStep(p))
    BY <2>2, <2>7 DEF Fork, ForkFails, ParentSetpgid, WaitReaps, WaitEchild, Exit, Start,
                      ChildStep, ChildSetpgid, ChildExits, ChildStops, table
  <2> QED
    BY <2>3, <2>4, <2>5, <2>6, <2>7
    DEF Next, ShellStep, SignalStep, UserStep, Deliver, WaitEintr, fgWake
<1> QED
  BY <1>1, JobsInvariant, PTL DEF Spec, JobIdsAreStable
=============================================================================
