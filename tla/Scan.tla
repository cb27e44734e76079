-------------------------------- MODULE Scan --------------------------------
(***************************************************************************)
(* The loop by which the scanners of ShellForge look for the end of a      *)
(* word, a quoted string, a name or a run of blanks.                       *)
(***************************************************************************)
EXTENDS Integers, Sequences, FiniteSetsExt

(* The first position from pos on whose character is in Stop, or the end:  *)
(* `while (pos < length && !stop(text[pos])) pos++'.                       *)
FirstFrom(text, pos, Stop) ==
  Min({q \in pos .. Len(text) : q = Len(text) \/ text[q+1] \in Stop})
=============================================================================
