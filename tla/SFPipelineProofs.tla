-------------------------- MODULE SFPipelineProofs --------------------------
(***************************************************************************)
(* Safety of the descriptors of SFPipeline, for pipelines of any length.   *)
(***************************************************************************)
EXTENDS SFPipeline, TLAPS

(* SMT takes a step first, then Zenon.  A step that runs out of time is    *)
(* tried a second time.                                                    *)
USE SMT, Zenon, Z3, ZenonT(20)

(* What the shell has open for stage k: previous_read, and pipefd[].       *)
Prev(k) == IF k > 1 THEN {R(k - 1)} ELSE {}
Made(k) == IF HasNext(k) THEN {R(k), W(k)} ELSE {}

StdIn(k) == IF k > 1 THEN R(k - 1) ELSE Other
StdOut(k) == IF HasNext(k) THEN W(k) ELSE Other

(* The ends in the shell at each point of the loop.                        *)
ShellInv ==
  /\ spc = "pipe" => pfd = Prev(i)
  /\ spc \in {"fork", "close"} => pfd = Prev(i) \cup Made(i)
  /\ spc \in {"wait", "prompt"} /\ ~failed => pfd = {}
  /\ failed => spc = "prompt" /\ Prev(i) \subseteq pfd

(* The stages that have been forked.                                       *)
Begun(k) ==
  IF spc \in {"pipe", "fork"} \/ failed THEN k < i
  ELSE IF spc = "close" THEN k <= i ELSE k <= n

ForkInv == \A k \in Stages : life[k] # "none" <=> Begun(k)

(* The ends in a stage at each point of its way to execvp.                 *)
StageInv(k) ==
  /\ life[k] = "plumb" => extra[k] = Prev(k) \cup Made(k)
  /\ life[k] \in {"redirect", "run"} => extra[k] = {}
  /\ life[k] \in {"none", "plumb"} => cin[k] = Other /\ cout[k] = Other
  /\ life[k] = "redirect" => cin[k] = StdIn(k) /\ cout[k] = StdOut(k)
  /\ life[k] = "run" => /\ cin[k] = StdIn(k) \/ (cin[k] = Other /\ redir[k] \in {"in", "both"})
                        /\ cout[k] = StdOut(k) \/ (cout[k] = Other /\ redir[k] \in {"out", "both"})

PlumbingInv == TypeOK /\ ShellInv /\ ForkInv /\ \A k \in Stages : StageInv(k)

(* Distinct ends are distinct values.                                      *)
LEMMA EndsDiffer ==
  /\ \A j, k : R(j) = R(k) => j = k
  /\ \A j, k : W(j) = W(k) => j = k
  /\ \A j, k : R(j) # W(k)
  /\ \A j : R(j) # Other /\ W(j) # Other
  /\ \A j : R(j).pipe = j /\ W(j).pipe = j
  /\ \A j \in Stages : R(j) \in Ends /\ W(j) \in Ends
  /\ \A e \in Ends : e.pipe \in Stages
  <1>1. \A j : R(j).pipe = j /\ W(j).pipe = j
    BY DEF R, W
  <1>2. \A j : R(j).end = "r" /\ W(j).end = "w" /\ Other.end = "other"
    BY DEF R, W, Other
  <1>3. \A j \in Stages : R(j) \in Ends /\ W(j) \in Ends
    BY DEF Ends
  <1>4. \A e \in Ends : \E j \in Stages : e = R(j) \/ e = W(j)
    BY DEF Ends
  <1>5. \A e \in Ends : e.pipe \in Stages
    BY <1>1, <1>4
  <1>6. /\ \A j, k : R(j) = R(k) => j = k
        /\ \A j, k : W(j) = W(k) => j = k
    BY <1>1
  <1>7. "r" # "w" /\ "r" # "other" /\ "w" # "other"
    OBVIOUS
  <1>8. \A j, k : R(j) # W(k) /\ R(j) # Other /\ W(j) # Other
    BY <1>2, <1>7
  <1> QED
    BY <1>1, <1>3, <1>5, <1>6, <1>8

(* A pipeline starts with no pipe.                                         *)
LEMMA InitPlumbing == Init => PlumbingInv
  <1> SUFFICES ASSUME Init PROVE PlumbingInv
    OBVIOUS
  <1>1. TypeOK
    <2>1. n \in Stages /\ i \in 1 .. n
      BY PipelineAssumption DEF Init, Stages
    <2>2. /\ buf \in [Stages -> 0 .. Capacity]
          /\ left \in [Stages -> 0 .. MaxBlocks]
      BY PipelineAssumption DEF Init
    <2>3. /\ cin \in [Stages -> Ends \union {Other}]
          /\ cout \in [Stages -> Ends \union {Other}]
          /\ extra \in [Stages -> SUBSET Ends]
      BY DEF Init
    <2> QED
      BY <2>1, <2>2, <2>3 DEF Init, TypeOK
  <1>2. ShellInv
    BY DEF Init, ShellInv, Prev
  <1>3. ForkInv
    BY <1>1 DEF Init, ForkInv, Begun, TypeOK, Stages
  <1>4. \A k \in Stages : StageInv(k)
    BY DEF Init, StageInv
  <1> QED
    BY <1>1, <1>2, <1>3, <1>4 DEF PlumbingInv

(* The turns of the loop in the shell.                                     *)
LEMMA PipeKeeps == PlumbingInv /\ Pipe => PlumbingInv'
  <1> SUFFICES ASSUME PlumbingInv, Pipe PROVE PlumbingInv'
    OBVIOUS
  <1> USE DEF PlumbingInv, Pipe, command, fds, data
  <1>1. TypeOK'
    <2>1. i \in Stages
      BY PipelineAssumption DEF TypeOK, Stages
    <2>2. pfd' \subseteq Ends
      BY <2>1, EndsDiffer DEF TypeOK
    <2> QED
      BY <2>2 DEF TypeOK
  <1>2. ShellInv'
    BY DEF ShellInv, Prev, Made, HasNext
  <1>3. ForkInv'
    BY DEF ForkInv, Begun
  <1>4. (\A k \in Stages : StageInv(k))'
    BY DEF StageInv, Prev, Made, StdIn, StdOut, HasNext
  <1> QED
    BY <1>1, <1>2, <1>3, <1>4

(* pipe() or fork() fails.                                                 *)
LEMMA FailsKeeps == PlumbingInv /\ Fails => PlumbingInv'
  <1> SUFFICES ASSUME PlumbingInv, Fails PROVE PlumbingInv'
    OBVIOUS
  <1> USE DEF PlumbingInv, Fails, command, fds, data
  <1>1. TypeOK'
    BY DEF TypeOK, Stages
  <1>2. ShellInv'
    BY DEF ShellInv, Prev, Made, HasNext
  <1>3. ForkInv'
    BY DEF ForkInv, Begun, ShellInv
  <1>4. (\A k \in Stages : StageInv(k))'
    BY DEF StageInv, Prev, Made, StdIn, StdOut, HasNext
  <1> QED
    BY <1>1, <1>2, <1>3, <1>4

(* The shell forks a stage.                                                *)
LEMMA ForkKeeps == PlumbingInv /\ Fork => PlumbingInv'
  <1> SUFFICES ASSUME PlumbingInv, Fork PROVE PlumbingInv'
    OBVIOUS
  <1> USE DEF PlumbingInv, Fork, command, data
  <1>0. i \in Stages /\ n \in Stages /\ i <= n
    BY PipelineAssumption DEF TypeOK, Stages
  <1>1. TypeOK'
    BY <1>0 DEF TypeOK, Stages
  <1>2. ShellInv'
    BY DEF ShellInv, Prev, Made, HasNext
  <1>3. ForkInv'
    BY <1>0 DEF ForkInv, Begun, ShellInv, TypeOK, Stages
  <1>4. ASSUME NEW k \in Stages PROVE StageInv(k)'
    <2>1. life[i] = "none" /\ StageInv(k)
      BY <1>0 DEF ForkInv, Begun, Stages
    <2>2. CASE k = i
      BY <1>0, <2>1, <2>2 DEF StageInv, ShellInv, Prev, Made, HasNext, TypeOK
    <2>3. CASE k # i
      BY <1>0, <2>1, <2>3 DEF StageInv, Prev, Made, StdIn, StdOut, HasNext, TypeOK
    <2> QED
      BY <2>2, <2>3
  <1> QED
    BY <1>1, <1>2, <1>3, <1>4

(* The shell closes the ends it has no use for.                            *)
LEMMA CloseKeeps == PlumbingInv /\ Close => PlumbingInv'
  <1> SUFFICES ASSUME PlumbingInv, Close PROVE PlumbingInv'
    OBVIOUS
  <1> USE DEF PlumbingInv, Close, Advance, command, fds, data
  <1>0. i \in Stages /\ n \in Stages /\ i <= n /\ ~failed
    BY PipelineAssumption DEF TypeOK, Stages, ShellInv
  <1>1. TypeOK'
    BY <1>0 DEF TypeOK, Stages, HasNext
  <1>2. pfd' = IF HasNext(i) THEN {R(i)} ELSE {}
    BY <1>0, EndsDiffer DEF ShellInv, Prev, Made, Stages
  <1>3. ShellInv'
    BY <1>0, <1>2 DEF ShellInv, Prev, HasNext, Stages
  <1>4. ForkInv'
    BY <1>0 DEF ForkInv, Begun, HasNext, Stages
  <1>5. (\A k \in Stages : StageInv(k))'
    BY DEF StageInv, Prev, Made, StdIn, StdOut, HasNext
  <1> QED
    BY <1>1, <1>3, <1>4, <1>5

(* The shell waits for a stage.                                            *)
LEMMA WaitKeeps == PlumbingInv /\ Wait => PlumbingInv'
  <1> SUFFICES ASSUME PlumbingInv, Wait PROVE PlumbingInv'
    OBVIOUS
  <1> USE DEF PlumbingInv, Wait, command, fds, data
  <1>1. TypeOK'
    BY DEF TypeOK, Stages, HasNext
  <1>2. ShellInv'
    BY DEF ShellInv
  <1>3. ForkInv'
    BY DEF ForkInv, Begun, ShellInv
  <1>4. (\A k \in Stages : StageInv(k))'
    BY DEF StageInv, Prev, Made, StdIn, StdOut, HasNext
  <1> QED
    BY <1>1, <1>2, <1>3, <1>4

(* The steps of a child.                                                   *)
LEMMA PlumbKeeps ==
  ASSUME NEW j \in Stages, PlumbingInv, Plumb(j) PROVE PlumbingInv'
  <1> USE DEF PlumbingInv, Plumb, command, shell, data
  <1>0. j \in Nat /\ j >= 1
    BY PipelineAssumption DEF Stages
  <1>1. extra[j] = Prev(j) \cup Made(j)
    BY DEF StageInv
  <1>2. Wanted(j) \subseteq extra[j]
    BY <1>1 DEF Wanted, Prev, Made
  <1>3. extra[j] \ {R(j - 1), R(j), W(j)} = {}
    BY <1>1 DEF Prev, Made
  <1>4. /\ cin' = [cin EXCEPT ![j] = StdIn(j)]
        /\ cout' = [cout EXCEPT ![j] = StdOut(j)]
        /\ extra' = [extra EXCEPT ![j] = {}]
        /\ life' = [life EXCEPT ![j] = "redirect"]
    BY <1>2, <1>3 DEF StdIn, StdOut, TypeOK
  <1>5. StdIn(j) \in Ends \cup {Other} /\ StdOut(j) \in Ends \cup {Other}
    <2>1. j > 1 => j - 1 \in Stages
      BY <1>0, PipelineAssumption DEF Stages
    <2> QED
      BY <2>1, EndsDiffer DEF StdIn, StdOut
  <1>6. TypeOK'
    BY <1>4, <1>5 DEF TypeOK
  <1>7. ShellInv'
    BY DEF ShellInv, Prev, Made, HasNext
  <1>8. ForkInv'
    BY <1>4 DEF ForkInv, Begun, TypeOK
  <1>9. ASSUME NEW k \in Stages PROVE StageInv(k)'
    <2>1. CASE k = j
      BY <1>4, <2>1 DEF StageInv, StdIn, StdOut, HasNext, TypeOK
    <2>2. CASE k # j
      BY <1>4, <2>2 DEF StageInv, Prev, Made, StdIn, StdOut, HasNext, TypeOK
    <2> QED
      BY <2>1, <2>2
  <1> QED
    BY <1>6, <1>7, <1>8, <1>9

(* A stage opens its files.                                                *)
LEMMA RedirectKeeps ==
  ASSUME NEW j \in Stages, PlumbingInv, Redirect(j) PROVE PlumbingInv'
  <1> USE DEF PlumbingInv, Redirect, redirect_input, redirect_output, Dies,
              command, shell, data
  <1>1. TypeOK'
    BY DEF TypeOK
  <1>2. ShellInv'
    BY DEF ShellInv, Prev, Made, HasNext
  <1>3. ForkInv'
    BY DEF ForkInv, Begun, TypeOK
  <1>4. ASSUME NEW k \in Stages PROVE StageInv(k)'
    <2>1. CASE k = j
      BY <2>1 DEF StageInv, StdIn, StdOut, HasNext, TypeOK
    <2>2. CASE k # j
      BY <2>2 DEF StageInv, Prev, Made, StdIn, StdOut, HasNext, TypeOK
    <2> QED
      BY <2>1, <2>2
  <1> QED
    BY <1>1, <1>2, <1>3, <1>4

(* A command that runs changes no descriptor; all it can do is die.        *)
LEMMA CommandKeeps ==
  ASSUME NEW j \in Stages, PlumbingInv, Command(j) \/ Quits(j)
  PROVE  PlumbingInv'
  <1> USE DEF PlumbingInv
  <1>1. /\ UNCHANGED <<command, shell, fds>>
        /\ life[j] = "run"
        /\ life' = life \/ life' = [life EXCEPT ![j] = "dead"]
    BY DEF Command, Quits, Reads, SeesEof, Writes, Finishes, Dies
  <1>2. /\ buf' \in [Stages -> 0 .. Capacity]
        /\ left' \in [Stages -> 0 .. MaxBlocks]
        /\ eof' \in [Stages -> BOOLEAN]
    <2>1. /\ cin[j] # Other => cin[j].pipe \in Stages
          /\ cout[j] # Other => cout[j].pipe \in Stages
      BY EndsDiffer DEF TypeOK
    <2>2. CASE Reads(j)
      BY <2>1, <2>2, PipelineAssumption DEF Reads, TypeOK
    <2>3. CASE SeesEof(j)
      BY <2>3 DEF SeesEof, TypeOK
    <2>4. CASE Writes(j)
      BY <2>1, <2>4, PipelineAssumption DEF Writes, TypeOK
    <2>5. CASE Finishes(j) \/ Quits(j)
      BY <2>5 DEF Finishes, Quits, TypeOK, data
    <2> QED
      BY <2>2, <2>3, <2>4, <2>5 DEF Command
  <1>3. TypeOK'
    BY <1>1, <1>2 DEF TypeOK, command, shell, fds
  <1>4. ShellInv'
    BY <1>1 DEF ShellInv, Prev, Made, HasNext, command, shell
  <1>5. ForkInv'
    BY <1>1 DEF ForkInv, Begun, TypeOK, command, shell
  <1>6. ASSUME NEW k \in Stages PROVE StageInv(k)'
    BY <1>1 DEF StageInv, Prev, Made, StdIn, StdOut, HasNext, TypeOK,
                command, shell, fds
  <1> QED
    BY <1>3, <1>4, <1>5, <1>6

(* The plumbing is right in every reachable state.                         *)
THEOREM PlumbingInvariant == Spec => []PlumbingInv
  <1>1. PlumbingInv /\ [Next]_vars => PlumbingInv'
    <2> SUFFICES ASSUME PlumbingInv, [Next]_vars PROVE PlumbingInv'
      OBVIOUS
    <2>1. CASE ShellStep
      BY <2>1, PipeKeeps, ForkKeeps, CloseKeeps, WaitKeeps DEF ShellStep
    <2>2. CASE Fails
      BY <2>2, FailsKeeps
    <2>3. ASSUME NEW k \in Stages, Child(k) \/ Command(k) \/ Quits(k)
          PROVE  PlumbingInv'
      BY <2>3, PlumbKeeps, RedirectKeeps, CommandKeeps DEF Child
    <2>4. CASE UNCHANGED vars
      <3> USE <2>4 DEF vars, command, shell, fds, data, PlumbingInv
      <3>1. TypeOK'
        BY DEF TypeOK
      <3>2. ShellInv'
        BY DEF ShellInv, Prev, Made, HasNext
      <3>3. ForkInv'
        BY DEF ForkInv, Begun
      <3>4. (\A k \in Stages : StageInv(k))'
        BY DEF StageInv, Prev, Made, StdIn, StdOut, HasNext
      <3> QED
        BY <3>1, <3>2, <3>3, <3>4
    <2> QED
      BY <2>1, <2>2, <2>3, <2>4 DEF Next
  <1> QED
    BY <1>1, InitPlumbing, PTL DEF Spec

(* A stage in its way: what it holds and how it relates to its neighbours. *)
LEMMA StageNumbers ==
  ASSUME PlumbingInv, NEW k \in Stages, life[k] # "none"
  PROVE  k \in Nat /\ 1 <= k /\ k <= n /\ n \in Nat /\ i \in Nat
  <1>1. /\ n \in Nat /\ i \in Nat /\ 1 <= i /\ i <= n /\ n <= MaxStages
        /\ k \in Nat /\ 1 <= k
    BY PipelineAssumption DEF PlumbingInv, TypeOK, Stages
  <1>2. Begun(k)
    BY DEF PlumbingInv, ForkInv
  <1> QED
    BY <1>1, <1>2 DEF Begun

(* No stage has an end it should not have.                                 *)
THEOREM EndsBelong == Spec => []EndsAreWhereTheyBelong
  <1>1. PlumbingInv => EndsAreWhereTheyBelong
    <2> SUFFICES ASSUME PlumbingInv PROVE EndsAreWhereTheyBelong
      OBVIOUS
    <2>1. \A k \in Stages : life[k] = "run" => extra[k] = {}
      BY DEF PlumbingInv, StageInv
    <2>2. ASSUME NEW j \in Stages, NEW k \in Stages, W(j) \in Holds(k)
          PROVE  k = j
      <3>1. StageInv(k) /\ Live(k) /\ W(j) \in extra[k] \cup {cin[k], cout[k]}
        BY <2>2 DEF PlumbingInv, Holds
      <3>2. W(j) \in Prev(k) \cup Made(k) \cup {StdIn(k), StdOut(k), Other}
        BY <3>1 DEF StageInv, Live
      <3> QED
        BY <3>2, EndsDiffer DEF Prev, Made, StdIn, StdOut
    <2> QED
      BY <2>1, <2>2 DEF EndsAreWhereTheyBelong
  <1> QED
    BY <1>1, PlumbingInvariant, PTL

(* The shell returns from a pipeline with no end open.                     *)
THEOREM ShellLeavesNoneOpen == Spec => []ShellClosesAll
  <1>1. PlumbingInv => ShellClosesAll
    BY DEF PlumbingInv, ShellInv, ShellClosesAll
  <1> QED
    BY <1>1, PlumbingInvariant, PTL

(* No stage sees the end of its input before its time.                     *)
THEOREM EofIsReal == Spec => []NoPrematureEof
  <1>1. PlumbingInv => NoPrematureEof
    <2> SUFFICES ASSUME PlumbingInv, NEW k \in Stages \ {1}, life[k] = "run",
                        ~IsOpen(W(k - 1))
                 PROVE  life[k - 1] = "dead" \/ redir[k - 1] \in {"out", "both"}
      BY DEF NoPrematureEof
    <2>1. k \in Nat /\ k > 1 /\ k <= n /\ n \in Nat /\ i \in Nat /\ i <= n
      BY StageNumbers, PipelineAssumption DEF PlumbingInv, TypeOK, Stages
    <2>2. k - 1 \in Stages /\ HasNext(k - 1)
      BY <2>1, PipelineAssumption DEF Stages, HasNext
    <2>3. life[k - 1] # "none"
      BY <2>1, <2>2 DEF PlumbingInv, ForkInv, Begun
    <2>4. W(k - 1) \notin Holds(k - 1)
      BY <2>2 DEF IsOpen
    <2>5. StageInv(k - 1)
      BY <2>2 DEF PlumbingInv
    <2>6. W(k - 1) \in Made(k - 1) /\ StdOut(k - 1) = W(k - 1)
      BY <2>2 DEF Made, StdOut
    <2>7. life[k - 1] \in {"none", "plumb", "redirect", "run", "dead"}
      BY <2>2 DEF PlumbingInv, TypeOK
    <2> QED
      BY <2>3, <2>4, <2>5, <2>6, <2>7 DEF StageInv, Holds, Live
  <1> QED
    BY <1>1, PlumbingInvariant, PTL

(* No stage is killed for writing to a reader that is yet to come.         *)
THEOREM SigpipeIsReal == Spec => []NoPrematureSigpipe
  <1>1. PlumbingInv => NoPrematureSigpipe
    <2> SUFFICES ASSUME PlumbingInv, NEW k \in Stages, life[k] = "run",
                        cout[k] = W(k), ~IsOpen(R(k))
                 PROVE  life[k + 1] = "dead" \/ redir[k + 1] \in {"in", "both"}
      BY DEF NoPrematureSigpipe
    <2>1. StageInv(k) /\ HasNext(k)
      BY EndsDiffer DEF PlumbingInv, StageInv, StdOut
    <2>2. k \in Nat /\ 1 <= k /\ k < n /\ n \in Nat /\ i \in Nat /\ n <= MaxStages
      BY <2>1, StageNumbers, PipelineAssumption DEF PlumbingInv, TypeOK, Stages, HasNext
    <2>3. k + 1 \in Stages
      BY <2>2, PipelineAssumption DEF Stages
    <2>4. life[k + 1] # "none"
      <3> SUFFICES ASSUME life[k + 1] = "none" PROVE FALSE
        OBVIOUS
      <3>1. Begun(k) /\ ~Begun(k + 1)
        BY <2>3 DEF PlumbingInv, ForkInv
      <3>2. \/ (spc \in {"pipe", "fork"} \/ failed) /\ i = k + 1
            \/ spc = "close" /\ ~failed /\ i = k
        BY <2>2, <3>1 DEF Begun
      <3>3. R(k) \in pfd
        BY <2>1, <2>2, <3>2 DEF PlumbingInv, ShellInv, Prev, Made
      <3> QED
        BY <3>3 DEF IsOpen
    <2>5. R(k) \notin Holds(k + 1) /\ StageInv(k + 1)
      BY <2>3 DEF IsOpen, PlumbingInv
    <2>6. R(k) \in Prev(k + 1) /\ StdIn(k + 1) = R(k)
      BY <2>2 DEF Prev, StdIn
    <2>7. life[k + 1] \in {"none", "plumb", "redirect", "run", "dead"}
      BY <2>3 DEF PlumbingInv, TypeOK
    <2> QED
      BY <2>4, <2>5, <2>6, <2>7 DEF StageInv, Holds, Live
  <1> QED
    BY <1>1, PlumbingInvariant, PTL
=============================================================================
