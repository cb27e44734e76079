----------------------------- MODULE NanoParser -----------------------------
(***************************************************************************)
(* The command lines of the NanoBoot shell (NanoBoot/user/sh.c): the line  *)
(* editor of main(), tokenize, parse_command, and the checks by which      *)
(* execute_command turns down what the kernel cannot do.  What a command   *)
(* then does is in NanoShell.                                              *)
(*                                                                         *)
(* "a" stands for the characters that mean nothing to the shell, " " for   *)
(* white space, "NL" for carriage return and line feed, "BS" for backspace *)
(* and delete.                                                             *)
(***************************************************************************)
EXTENDS Integers, FiniteSets, Sequences, Loops

CONSTANTS
  MAX_LINE,       \* 128 in the code
  MAX_TOKENS,     \* 32 in the code
  MAX_TOKEN_LEN,  \* 64 in the code
  MAX_ARGS,       \* 16 in the code
  MaxTyped        \* bound: keys pressed for one line

(* A line has room for a key, and a token for the longest operator.        *)
ASSUME LimitsAssumption ==
  /\ {MAX_LINE, MAX_TOKENS, MAX_TOKEN_LEN, MAX_ARGS, MaxTyped} \subseteq Nat \ {0}
  /\ MAX_LINE >= 2 /\ MAX_TOKEN_LEN >= 3

VARIABLES
  line,   \* line[0 .. n-1]
  typed,  \* history: the keys pressed since the prompt
  result  \* what became of the line, once it is complete

vars == <<line, typed, result>>

Quotes == {"\"", "'"}
OpType == [o \in {"|", "<", ">", "&"} |->
             CASE o = "|" -> "PIPE" [] o = "<" -> "REDIR_IN"
               [] o = ">" -> "REDIR_OUT" [] o = "&" -> "AMPERSAND"]
Ends == {" "} \cup DOMAIN OpType
Chars == {"a"} \cup Ends \cup Quotes

Reading == [did |-> "reading", argv |-> <<>>]
Error == [did |-> "error", argv |-> <<>>]

-----------------------------------------------------------------------------
(* tokenize.                                                               *)

(* A turn of the loop over the characters of a word.  The rest of a long  *)
(* word is dropped.  A turn that finds the end of the word changes nothing. *)
WordTurn(text, w) ==
  LET c == text[w.p+1]
      val == IF Len(w.val) < MAX_TOKEN_LEN - 1 THEN Append(w.val, c) ELSE w.val
  IN  IF w.p = Len(text) \/ (w.in_quote = "none" /\ c \in Ends) THEN w
      ELSE CASE w.in_quote = "none" /\ c \in Quotes ->
                  [w EXCEPT !.p = @ + 1, !.in_quote = c]
             [] w.in_quote = c -> [w EXCEPT !.p = @ + 1, !.in_quote = "none"]
             [] OTHER -> [w EXCEPT !.p = @ + 1, !.val = val]

(* The word at start: its text, its end, and the quote still open there.   *)
ScanWord(text, start) ==
  Loop(LAMBDA w, k : WordTurn(text, w),
       [p |-> start, val |-> <<>>, in_quote |-> "none"], Len(text) - start)

(* Variant: no place is kept for the END token.                            *)
TooManyLate(ntok) == ntok >= MAX_TOKENS

TooMany(ntok) == ntok >= MAX_TOKENS - 1

(* A turn of the loop over the tokens of a line.                           *)
TokenTurn(text, s) ==
  LET c == text[s.p+1]
      word == ScanWord(text, s.p)
      fail == [s EXCEPT !.ok = FALSE]
      add(type, val, q) ==
        [s EXCEPT !.p = q, !.tokens = Append(@, [type |-> type, val |-> val])]
  IN  IF s.p = Len(text) \/ ~s.ok THEN s
      ELSE CASE c = " " -> [s EXCEPT !.p = @ + 1]
             [] c # " " /\ TooMany(Len(s.tokens)) -> fail
             [] ~TooMany(Len(s.tokens)) /\ c = ">" ->
                  IF s.p + 1 < Len(text) /\ text[s.p+2] = ">"
                  THEN add("REDIR_APPEND", <<">", ">">>, s.p + 2)
                  ELSE add("REDIR_OUT", <<">">>, s.p + 1)
             [] ~TooMany(Len(s.tokens)) /\ c \in DOMAIN OpType \ {">"} ->
                  add(OpType[c], <<c>>, s.p + 1)
             [] ~TooMany(Len(s.tokens)) /\ c \notin Ends ->
                  IF word.in_quote # "none" THEN fail
                  ELSE add("WORD", word.val, word.p)

(* The tokens of a line without the END, and whether there is no error.    *)
tokenize(text) ==
  Loop(LAMBDA s, k : TokenTurn(text, s),
       [p |-> 0, tokens |-> <<>>, ok |-> TRUE], Len(text))

-----------------------------------------------------------------------------
(* parse_command.                                                          *)
NoCommand == [argv |-> <<>>, redir_in |-> <<>>, redir_out |-> <<>>,
              append |-> FALSE, background |-> FALSE, has_pipe |-> FALSE]

TooManyArgs(cmd) == Len(cmd.argv) >= MAX_ARGS - 1

WordAt(tokens, k) == k <= Len(tokens) /\ tokens[k].type = "WORD"

(* A turn of the loop over the tokens.                                     *)
ParseTurn(tokens, s) ==
  LET t == tokens[s.i]
      fail == [s EXCEPT !.ok = FALSE]
      target == tokens[s.i+1].val
  IN  IF s.i > Len(tokens) \/ ~s.ok THEN s
      ELSE CASE t.type = "WORD" ->
                  IF TooManyArgs(s.cmd) THEN fail
                  ELSE [s EXCEPT !.i = @ + 1, !.cmd.argv = Append(@, t.val)]
             [] t.type = "REDIR_IN" ->
                  IF ~WordAt(tokens, s.i + 1) THEN fail
                  ELSE [s EXCEPT !.i = @ + 2, !.cmd.redir_in = target]
             [] t.type \in {"REDIR_OUT", "REDIR_APPEND"} ->
                  IF ~WordAt(tokens, s.i + 1) THEN fail
                  ELSE [s EXCEPT !.i = @ + 2, !.cmd.redir_out = target,
                                 !.cmd.append = t.type = "REDIR_APPEND"]
             [] t.type = "PIPE" ->
                  [s EXCEPT !.i = @ + 1, !.cmd.has_pipe = TRUE,
                            !.ok = WordAt(tokens, s.i + 1)]
             [] t.type = "AMPERSAND" ->
                  [s EXCEPT !.i = @ + 1, !.cmd.background = TRUE,
                            !.ok = s.i = Len(tokens)]

(* Variant: only the output is looked at.                                  *)
RedirectedOut(cmd) == cmd.redir_out # <<>>

Redirected(cmd) == cmd.redir_in # <<>> \/ cmd.redir_out # <<>>

parse_command(tokens) ==
  LET r == Loop(LAMBDA s, k : ParseTurn(tokens, s),
                [i |-> 1, cmd |-> NoCommand, ok |-> TRUE], Len(tokens))
      missing == r.cmd.argv = <<>> /\ (r.cmd.has_pipe \/ Redirected(r.cmd))
  IN  [ok |-> r.ok /\ ~missing, cmd |-> r.cmd]

(* execute_command, up to the choice of the builtin.                       *)
execute_command(cmd) ==
  CASE cmd.argv = <<>> -> "nothing"
    [] cmd.argv # <<>> /\ cmd.has_pipe -> "no pipes"
    [] cmd.argv # <<>> /\ ~cmd.has_pipe ->
         CASE Redirected(cmd) -> "no redirections"
           [] ~Redirected(cmd) /\ cmd.background -> "no background"
           [] OTHER -> "run"

(* What main() does with a line.                                           *)
Handle(text) ==
  LET t == tokenize(text)
      p == parse_command(t.tokens)
  IN  IF t.ok /\ p.ok THEN [did |-> execute_command(p.cmd), argv |-> p.cmd.argv]
      ELSE Error

-----------------------------------------------------------------------------
(* main: the keys of one line.  A full line ends by itself; the keys that  *)
(* follow belong to the next.                                              *)

Full(text) == Len(text) = MAX_LINE - 1

Finished(text) == IF Full(text) THEN Handle(text) ELSE Reading

Press(c) ==
  /\ result = Reading
  /\ Len(typed) < MaxTyped
  /\ line' = Append(line, c)
  /\ typed' = Append(typed, c)
  /\ result' = Finished(line')

(* Variant: a backspace at the start of a line is kept as text.            *)
BackspaceAtStart ==
  /\ result = Reading
  /\ Len(typed) < MaxTyped
  /\ typed' = Append(typed, "BS")
  /\ line' = IF line # <<>> THEN SubSeq(line, 1, Len(line) - 1) ELSE <<"a">>
  /\ UNCHANGED result

Backspace ==
  /\ result = Reading
  /\ Len(typed) < MaxTyped
  /\ typed' = Append(typed, "BS")
  /\ line' = IF line # <<>> THEN SubSeq(line, 1, Len(line) - 1) ELSE line
  /\ UNCHANGED result

Enter ==
  /\ result = Reading
  /\ result' = Handle(line)
  /\ UNCHANGED <<line, typed>>

Prompt ==
  /\ result # Reading
  /\ line' = <<>> /\ typed' = <<>> /\ result' = Reading

Init == line = <<>> /\ typed = <<>> /\ result = Reading

Next == (\E c \in Chars : Press(c)) \/ Backspace \/ Enter \/ Prompt

Spec == Init /\ [][Next]_vars

-----------------------------------------------------------------------------
HowMany(Keys, a, b) == Cardinality({k \in a .. b : typed[k] \in Keys})

(* A key is taken back by the first backspace that comes after it and has  *)
(* no later key left to take.                                              *)
TakenBack(k) ==
  \E m \in k+1 .. Len(typed) : HowMany({"BS"}, k+1, m) > HowMany(Chars, k+1, m)

Kept == {k \in DOMAIN typed : typed[k] # "BS" /\ ~TakenBack(k)}

(* The line main() hands to tokenize is the text the user sees: the keys   *)
(* in their order without those a backspace took back, however backspaces  *)
(* and keys alternate, and a backspace at the prompt takes nothing.        *)
LineAsEdited ==
  /\ Len(line) = Cardinality(Kept)
  /\ \A k \in Kept : line[Cardinality({j \in Kept : j <= k})] = typed[k]

(* No keys make the line editor, tokenize or parse_command leave an array: *)
(* the terminators of the line and of each word, the END token and the     *)
(* NULL after the arguments have a place in line[], val[], tokens[] and    *)
(* argv[].                                                                 *)
ArraysHold ==
  LET t == tokenize(line)
      cmd == parse_command(t.tokens).cmd
  IN  /\ Len(line) <= MAX_LINE - 1
      /\ result # Reading =>
           /\ Len(t.tokens) <= MAX_TOKENS - 1
           /\ \A k \in DOMAIN t.tokens : Len(t.tokens[k].val) <= MAX_TOKEN_LEN - 1
           /\ t.ok => /\ Len(cmd.argv) <= MAX_ARGS - 1
                      /\ Len(cmd.redir_in) <= MAX_TOKEN_LEN - 1
                      /\ Len(cmd.redir_out) <= MAX_TOKEN_LEN - 1
=============================================================================
