------------------------------ MODULE MCSFLine ------------------------------
(***************************************************************************)
(* SFLine with the lexer and the expansion for TLC.  SFLine takes lines as *)
(* any tokens and any strings; here a user also types a text at the first  *)
(* prompt, and after every key the lexer and expand_string are held        *)
(* against the one way to read the text.                                   *)
(***************************************************************************)
EXTENDS SFLine, SFLexer, SFExpand, Segments

CONSTANTS
  MaxLexed,     \* bound: length of the lines the lexer is checked on
  MaxExpanded   \* bound: length of the strings expansion is checked on

VARIABLE text   \* what has been typed

(* Names that are a prefix of each other, a value that looks like a        *)
(* reference, one longer than the first buffer, and a name only ${} allows. *)
MCEnvironment ==
     <<"a">> :> <<"$", "a">>
  @@ <<"a", "1">> :> <<"1", "1", "1", "1", "1">>
  @@ <<"1">> :> <<"a">>

IsLine(t) == Range(t) \subseteq LexChars /\ Len(t) <= MaxLexed
IsText(t) == Range(t) \subseteq TextChars /\ Len(t) <= MaxExpanded

(* A key reaches readline.                                                 *)
Key(c) ==
  /\ Init
  /\ text' = Append(text, c)
  /\ IsLine(text') \/ IsText(text')
  /\ UNCHANGED vars

MCInit == Init /\ text = <<>>

MCNext ==
  \/ text = <<>> /\ Next /\ UNCHANGED text
  \/ \E c \in LexChars \cup TextChars : Key(c)

MCSpec == MCInit /\ [][MCNext]_<<vars, text>> /\ WF_vars(Work)

-----------------------------------------------------------------------------
(* The tokens main() collects are those of the one way to read the line:   *)
(* no character is lost or read twice, at the end of the line either, and  *)
(* a quote inside the other kind of quotes is text.                        *)
LexesAsRead ==
  IsLine(text) => /\ Unambiguous(text, Lexeme)
                  /\ Lexed(text) = Meaning(text, Lexeme, Reads)

(* Every reference in a string is replaced by its value, once: names are   *)
(* as long as they can be, a value that contains a $ is not looked at      *)
(* again, and what is not a reference is left as it is.                    *)
ExpandsAsRead ==
  IsText(text) => /\ Unambiguous(text, Reference)
                  /\ expand_string(text) = Meaning(text, Reference, Value)

(* However long the values, the buffer of expand_string always holds the   *)
(* text and its NUL.                                                       *)
BufferHoldsText ==
  IsText(text) => ~append_text(NewBuffer, expand_string(text)).overrun
=============================================================================
