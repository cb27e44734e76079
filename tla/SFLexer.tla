------------------------------ MODULE SFLexer -------------------------------
(***************************************************************************)
(* The lexer of ShellForge (src/lexer.c, src/token.c) as a function from   *)
(* a line and a position to the next token and the position after it.      *)
(* Only the characters the lexer tells apart are distinguished: "a" stands *)
(* for all the others and " " for white space.                             *)
(***************************************************************************)
EXTENDS Scan

Quotes == {"\"", "'"}
LexChars == {" ", "|", "&", "<", ">", "a"} \cup Quotes
WordChars == {"a"}
Breaks == LexChars \ WordChars

Token(type, value, pos) == [type |-> type, value |-> value, pos |-> pos]

lexer_peek(line, pos) == IF pos >= Len(line) THEN "NUL" ELSE line[pos+1]

lexer_skip_whitespace(line, pos) == FirstFrom(line, pos, LexChars \ {" "})

(* Variant: the closing quote is not consumed.                             *)
QuotedKeepsQuote(line, pos) ==
  LET end == FirstFrom(line, pos + 1, {line[pos+1]})
  IN  Token("WORD", SubSeq(line, pos + 2, end), end)

(* A quoted string, without its quotes; it may run to the end of the line. *)
Quoted(line, pos) ==
  LET end == FirstFrom(line, pos + 1, {line[pos+1]})
  IN  Token("WORD", SubSeq(line, pos + 2, end),
            IF lexer_peek(line, end) = line[pos+1] THEN end + 1 ELSE end)

Word(line, pos) ==
  LET end == FirstFrom(line, pos, Breaks)
  IN  Token("WORD", SubSeq(line, pos + 1, end), end)

lexer_next_token(line, from) ==
  LET pos == lexer_skip_whitespace(line, from)
      c == lexer_peek(line, pos)
  IN  CASE c = "NUL" -> Token("END", <<>>, pos)
        [] c = "|" -> Token("PIPE", <<>>, pos + 1)
        [] c = "&" -> Token("AMPERSAND", <<>>, pos + 1)
        [] c = "<" -> Token("REDIRECT_IN", <<>>, pos + 1)
        [] c = ">" /\ lexer_peek(line, pos + 1) = ">" ->
             Token("REDIRECT_APPEND", <<>>, pos + 2)
        [] c = ">" /\ lexer_peek(line, pos + 1) # ">" ->
             Token("REDIRECT_OUT", <<>>, pos + 1)
        [] c \in Quotes -> Quoted(line, pos)
        [] c \in WordChars -> Word(line, pos)

(* The tokens of a line up to its END, as main() collects them.            *)
Lexed(line) ==
  LET from[pos \in 0 .. Len(line)] ==
        LET t == lexer_next_token(line, pos)
        IN  IF t.type = "END" THEN <<>>
            ELSE <<[type |-> t.type, value |-> t.value]>> \o from[t.pos]
  IN  from[0]

-----------------------------------------------------------------------------
Plain(text, a, b) == \A k \in a+1 .. b : text[k] \in WordChars
Next1(text, b) == IF b < Len(text) THEN text[b+1] ELSE "NUL"

(* A line as its reader sees it: blanks, operators, strings between equal  *)
(* quotes or from a quote to the end, and words that cannot be longer.     *)
Lexeme(text, a, b) ==
  LET c == text[a+1]
  IN  \/ b = a + 1 /\ c \in {" ", "|", "&", "<"}
      \/ b = a + 1 /\ c = ">" /\ Next1(text, b) # ">"
      \/ b = a + 2 /\ c = ">" /\ text[b] = ">"
      \/ /\ c \in Quotes
         /\ \A k \in a+2 .. b-1 : text[k] # c
         /\ IF b > a + 1 /\ text[b] = c THEN TRUE ELSE b = Len(text)
      \/ Plain(text, a, b) /\ Next1(text, b) \notin WordChars

Reads(text, a, b) ==
  LET c == text[a+1]
      closed == b > a + 1 /\ text[b] = c
      is(type) == <<[type |-> type, value |-> <<>>]>>
      word(x, y) == <<[type |-> "WORD", value |-> SubSeq(text, x, y)]>>
  IN  CASE c = " " -> <<>>
        [] c = "|" -> is("PIPE")
        [] c = "&" -> is("AMPERSAND")
        [] c = "<" -> is("REDIRECT_IN")
        [] c = ">" -> IF b = a + 1 THEN is("REDIRECT_OUT")
                      ELSE is("REDIRECT_APPEND")
        [] c \in Quotes -> word(a + 2, IF closed THEN b - 1 ELSE b)
        [] OTHER -> word(a + 1, b)
=============================================================================
