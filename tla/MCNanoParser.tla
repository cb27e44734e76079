---------------------------- MODULE MCNanoParser ----------------------------
(***************************************************************************)
(* The reference that NanoParser is checked against: what a line of the    *)
(* NanoBoot shell means to its reader, and what should become of it.       *)
(***************************************************************************)
EXTENDS NanoParser, Segments

(* A line as its reader sees it: blanks, operators, and words made of      *)
(* plain characters and strings between equal quotes, as long as possible. *)
Stretch(text, a, b) ==
  LET c == text[a+1]
  IN  \/ b = a + 1 /\ c \notin Ends \cup Quotes
      \/ /\ b > a + 1 /\ c \in Quotes /\ text[b] = c
         /\ \A k \in a+2 .. b-1 : text[k] # c

Piece(text, a, b) ==
  LET c == text[a+1]
      after == IF b < Len(text) THEN text[b+1] ELSE " "
  IN  \/ b = a + 1 /\ c \in {" ", "|", "&", "<"}
      \/ b = a + 1 /\ c = ">" /\ after # ">"
      \/ b = a + 2 /\ c = ">" /\ text[b] = ">"
      \/ Cuttings(SubSeq(text, a + 1, b), Stretch) # {} /\ after \in Ends

TextOf(s, a, b) == IF b = a + 1 THEN <<s[b]>> ELSE SubSeq(s, a + 2, b - 1)

TokenOf(text, a, b) ==
  LET c == text[a+1]
      is(type) == <<[type |-> type, val |-> SubSeq(text, a + 1, b)]>>
      val == Meaning(SubSeq(text, a + 1, b), Stretch, TextOf)
  IN  CASE c = " " -> <<>>
        [] c \in DOMAIN OpType ->
             is(IF b = a + 2 THEN "REDIR_APPEND" ELSE OpType[c])
        [] OTHER -> <<[type |-> "WORD",
                       val |-> [k \in 1 .. Min({Len(val), MAX_TOKEN_LEN - 1}) |->
                                  val[k]]]>>

(* What should become of a list of tokens.                                 *)
Verdict(ts) ==
  LET of(types) == {k \in DOMAIN ts : ts[k].type \in types}
      into == of({"REDIR_IN"})
      out == of({"REDIR_OUT", "REDIR_APPEND"})
      targets == {k + 1 : k \in into \cup out}
      args == SetToSortSeq(of({"WORD"}) \ targets, <)
      named == \E ks \in {into, out} \ {{}} : ts[Max(ks) + 1].val # <<>>
      malformed ==
        \/ \E k \in into \cup out \cup of({"PIPE"}) : k + 1 \notin of({"WORD"})
        \/ \E k \in of({"AMPERSAND"}) : k # Len(ts)
        \/ Len(args) > MAX_ARGS - 1
      is(did) == [did |-> did, argv |-> [j \in DOMAIN args |-> ts[args[j]].val]]
  IN  IF malformed \/ (args = <<>> /\ named) THEN Error
      ELSE CASE args = <<>> -> is("nothing")
             [] args # <<>> /\ of({"PIPE"}) # {} -> is("no pipes")
             [] args # <<>> /\ of({"PIPE"}) = {} ->
                  CASE named -> is("no redirections")
                    [] ~named /\ of({"AMPERSAND"}) # {} -> is("no background")
                    [] OTHER -> is("run")

(* What becomes of a line is what its one reading says.  It is an error    *)
(* exactly when a quote stays open, there are too many tokens or           *)
(* arguments, a pipe or a redirection has no word right behind it, an & is *)
(* not the last token, or a redirection names a file and there is no       *)
(* command.  Of the other lines one without arguments, also a lone &, is   *)
(* nothing; one with a pipe, wherever it stands, is answered "no pipes";   *)
(* then a redirection, if its file has a name, and an & turn the command   *)
(* down; what is left is run, with the words that name no file as its      *)
(* arguments, quoted operators among them.  A word that is too long is cut *)
(* to MAX_TOKEN_LEN - 1 characters and is no error.                        *)
HandledAsRead ==
  LET cuts == Cuttings(line, Piece)
      ts == Meaning(line, Piece, TokenOf)
  IN  result # Reading =>
        /\ Cardinality(cuts) <= 1
        /\ result = IF cuts = {} THEN Error
                    ELSE IF Len(ts) > MAX_TOKENS - 1 THEN Error ELSE Verdict(ts)
=============================================================================
