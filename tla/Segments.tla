------------------------------ MODULE Segments ------------------------------
(***************************************************************************)
(* Cutting a text into the pieces of a grammar, as a reference for the     *)
(* scanners of both shells: a text is a sequence of characters, a piece is *)
(* given by its ends a < b and holds the characters a+1 .. b, and the      *)
(* grammar says which pieces there are.                                    *)
(***************************************************************************)
EXTENDS Integers, FiniteSets, SequencesExt

(* The piece of a cutting C that starts at a.                              *)
End(C, a) == Min({b \in C : b > a})

Cuttings(text, Piece(_, _, _)) ==
  {C \in {S \cup {0, Len(text)} : S \in SUBSET (0 .. Len(text))} :
     \A a \in C \ {Len(text)} : Piece(text, a, End(C, a))}

(* The grammar leaves no choice: the text can be cut in exactly one way.   *)
Unambiguous(text, Piece(_, _, _)) == Cardinality(Cuttings(text, Piece)) = 1

(* The meanings of the pieces of a text, joined in their order.            *)
Meaning(text, Piece(_, _, _), Of(_, _, _)) ==
  LET C == CHOOSE S \in Cuttings(text, Piece) : TRUE
      starts == SetToSortSeq(C \ {Len(text)}, <)
  IN  FlattenSeq([k \in 1 .. Len(starts) |->
                    Of(text, starts[k], End(C, starts[k]))])
=============================================================================
