------------------------------ MODULE SFExpand ------------------------------
(***************************************************************************)
(* Variable expansion in ShellForge (src/expand.c): what expand_string     *)
(* puts into its buffer, and the growth of the buffer.  "a" stands for the *)
(* letters and `_', "1" for the digits; `{' and `}' also stand for the     *)
(* characters that mean nothing.  A failing malloc or realloc makes        *)
(* expand_string free what it holds and return NULL; SFLine chooses it.    *)
(***************************************************************************)
EXTENDS Scan, Loops

CONSTANTS
  Environment,  \* name -> value of the variables that are set
  Capacity      \* size of the first buffer (64 in the code)

NameStart == {"a"}
NameChars == NameStart \cup {"1"}
TextChars == NameChars \cup {"$", "{", "}"}

ASSUME ExpandAssumption ==
  /\ Capacity \in Nat \ {0}
  /\ \A name \in DOMAIN Environment : Environment[name] \in Seq(TextChars)

getenv(name) == IF name \in DOMAIN Environment THEN Environment[name] ELSE <<>>

At(input, i) == IF i < Len(input) THEN input[i+1] ELSE "NUL"

(* Variant: the name ends before the first digit.                          *)
NameEndShort(input, start) == FirstFrom(input, start, TextChars \ NameStart)

NameEnd(input, start) == FirstFrom(input, start, TextChars \ NameChars)

(* A turn of the loop of expand_string: what it appends, and where it goes *)
(* on.                                                                     *)
ExpandTurn(input, s) ==
  LET c == At(input, s.i)
      d == At(input, s.i + 1)
      brace == FirstFrom(input, s.i + 2, {"}"})
      end == NameEnd(input, s.i + 1)
      braced == d = "{" /\ At(input, brace) = "}"
      put(chars, i) == [i |-> i, out |-> s.out \o chars]
  IN  CASE c = "NUL" -> s
        [] c \notin {"$", "NUL"} -> put(<<c>>, s.i + 1)
        [] c = "$" /\ braced -> put(getenv(SubSeq(input, s.i + 3, brace)), brace + 1)
        [] c = "$" /\ d \in NameStart -> put(getenv(SubSeq(input, s.i + 2, end)), end)
        [] c = "$" /\ ~braced /\ d \notin NameStart -> put(<<"$">>, s.i + 1)

(* The characters expand_string appends.                                   *)
expand_string(input) ==
  Loop(LAMBDA s, k : ExpandTurn(input, s), [i |-> 0, out |-> <<>>], Len(input)).out

(* Variant: the buffer grows when it is full, with no room for the NUL.    *)
append_char_late(buffer, c) ==
  LET capacity == IF buffer.length >= buffer.capacity
                  THEN 2 * buffer.capacity ELSE buffer.capacity
  IN  [length |-> buffer.length + 1, capacity |-> capacity,
       overrun |-> buffer.overrun \/ buffer.length + 1 >= capacity]

(* append_char stores c at length and a NUL behind it.                     *)
append_char(buffer, c) ==
  LET capacity == IF buffer.length + 1 >= buffer.capacity
                  THEN 2 * buffer.capacity ELSE buffer.capacity
  IN  [length |-> buffer.length + 1, capacity |-> capacity,
       overrun |-> buffer.overrun \/ buffer.length + 1 >= capacity]

append_text(buffer, text) ==
  Loop(LAMBDA b, k : append_char(b, text[k]), buffer, Len(text))

NewBuffer == [length |-> 0, capacity |-> Capacity, overrun |-> FALSE]

-----------------------------------------------------------------------------
(* A string as its reader sees it: characters, ${...} up to the next `}',  *)
(* $ and the longest name that follows, and a $ that starts neither.       *)
Braced(text, a, b) ==
  /\ b >= a + 3 /\ text[a+1] = "$" /\ text[a+2] = "{" /\ text[b] = "}"
  /\ \A k \in a+3 .. b-1 : text[k] # "}"

Named(text, a, b) ==
  /\ b >= a + 2 /\ text[a+1] = "$" /\ text[a+2] \in NameStart
  /\ \A k \in a+2 .. b : text[k] \in NameChars
  /\ At(text, b) \notin NameChars

Single(text, a, b) ==
  /\ b = a + 1
  /\ text[b] = "$" => \A e \in a+2 .. Len(text) :
                        ~Braced(text, a, e) /\ ~Named(text, a, e)

Reference(text, a, b) == Braced(text, a, b) \/ Named(text, a, b) \/ Single(text, a, b)

Value(text, a, b) ==
  CASE Braced(text, a, b) -> getenv(SubSeq(text, a + 3, b - 1))
    [] Named(text, a, b) -> getenv(SubSeq(text, a + 2, b))
    [] OTHER -> SubSeq(text, a + 1, b)
=============================================================================
