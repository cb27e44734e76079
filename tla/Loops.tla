------------------------------- MODULE Loops --------------------------------
(***************************************************************************)
(* A loop of the code with a known bound on its turns, as a function of    *)
(* the state it starts from.                                               *)
(***************************************************************************)
EXTENDS Integers

(* What the turns 1 .. n of a loop make of x, when turn k makes step(x, k). *)
Loop(step(_, _), x, n) ==
  LET after[k \in 0 .. n] == IF k = 0 THEN x ELSE step(after[k-1], k)
  IN  after[n]
=============================================================================
