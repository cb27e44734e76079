------------------------------- MODULE SFLine -------------------------------
(***************************************************************************)
(* The life of a command line in ShellForge: main() reads it, collects its *)
(* tokens, has them parsed (src/parser.c) and expanded (src/expand.c),     *)
(* runs the pipeline and frees everything before the next prompt.  The     *)
(* memory is modelled block by block, and malloc and strdup may fail.      *)
(*                                                                         *)
(* Any sequence of tokens can come out of the lexer, which is SFLexer; a   *)
(* block holds the number of the token it was copied from and how often it *)
(* has been expanded, which is SFExpand.                                   *)
(***************************************************************************)
EXTENDS Integers, FiniteSets, Sequences, FiniteSetsExt, Functions, Loops

CONSTANTS
  MAX_TOKENS,    \* tokens main() collects (255 in the code)
  MAX_COMMANDS,  \* 16 in the code
  MAX_ARGS,      \* 64 in the code
  SLACK,         \* room beside argv[0] in the text of one command (64)
  NULL,          \* the null pointer
  MaxLength,     \* bound: length of the arguments in the text of a job
  Failures,      \* bound: calls of malloc and strdup that fail
  MaxLost        \* bound: no line is read once more blocks have been lost

ASSUME LimitsAssumption ==
  /\ MAX_TOKENS \in Nat \ {0} /\ MAX_COMMANDS \in Nat \ {0}
  /\ MAX_ARGS \in Nat \ {0} /\ SLACK \in Nat
  /\ MaxLength \in Nat /\ Failures \in Nat /\ MaxLost \in Nat

ASSUME NullAssumption == NULL \notin Nat

VARIABLES
  phase,   \* where main() is
  tokens,  \* tokens[0 .. token_count-1]: types and pointers
  i,       \* the next token of parse_tokens
  cmds,    \* pipeline.commands[0 .. command_count-1]
  next,    \* strings of the pipeline that expand_pipeline has done
  line,    \* the pointer readline returned
  heap,    \* address -> block, for the blocks that are allocated
  fails,   \* calls that may still fail
  lost     \* history: blocks a parse error has left behind

vars == <<phase, tokens, i, cmds, next, line, heap, fails, lost>>

Phases == {"read", "lex", "parse", "error", "expand", "expand_error", "run",
           "free", "exit", "exited", "crashed"}
Redirects == {"REDIRECT_IN", "REDIRECT_OUT", "REDIRECT_APPEND"}
TokenTypes == Redirects \cup {"WORD", "PIPE", "AMPERSAND", "END"}

NoCommand == [argv |-> <<>>, input |-> NULL, output |-> NULL,
              append |-> FALSE, background |-> FALSE]

-----------------------------------------------------------------------------
(* The allocator: a block at the first free address, or none.              *)
Address(h) == Min((1 .. Cardinality(DOMAIN h) + 1) \ DOMAIN h)

Block(token, times) == [token |-> token, times |-> times]

Without(h, S) == [a \in DOMAIN h \ S |-> h[a]]
With(h, a, b) == [x \in DOMAIN h \cup {a} |-> IF x = a THEN b ELSE h[x]]

MayFail == fails > 0 /\ fails' = fails - 1

Strings(cmd) == (Range(cmd.argv) \cup {cmd.input, cmd.output}) \ {NULL}
PipelineBlocks == UNION {Strings(cmds[k]) : k \in DOMAIN cmds}
TokenBlocks == {tokens[k].value : k \in DOMAIN tokens} \ {NULL}

-----------------------------------------------------------------------------
(* readline; a line that is empty or starts with # is freed at once.       *)
ReadLine ==
  /\ phase = "read"
  /\ Cardinality(lost) <= MaxLost
  /\ line' = Address(heap)
  /\ heap' = With(heap, line', Block(0, 0))
  /\ phase' = "lex"
  /\ UNCHANGED <<tokens, i, cmds, next, fails, lost>>

(* readline returns NULL at the end of the input.                          *)
EndOfInput ==
  /\ phase = "read"
  /\ phase' = "exited"
  /\ UNCHANGED <<tokens, i, cmds, next, line, heap, fails, lost>>

(* The loop of main() around lexer_next_token: it ends at END or with the  *)
(* array.  create_token copies the text, or leaves value NULL.             *)
Collect(type) ==
  /\ phase = "lex"
  /\ \/ /\ tokens' = Append(tokens, [type |-> type, value |-> Address(heap)])
        /\ heap' = With(heap, Address(heap), Block(Len(tokens) + 1, 0))
        /\ UNCHANGED fails
     \/ /\ MayFail
        /\ tokens' = Append(tokens, [type |-> type, value |-> NULL])
        /\ UNCHANGED heap
  /\ IF type = "END" \/ Len(tokens') = MAX_TOKENS
     THEN phase' = "parse" /\ i' = 0 /\ cmds' = <<NoCommand>>
     ELSE UNCHANGED <<phase, i, cmds>>
  /\ UNCHANGED <<next, line, lost>>

-----------------------------------------------------------------------------
(* parse_tokens: one turn of its loop each.                                *)
cmd == cmds[Len(cmds)]
SetCmd(c) == cmds' = [cmds EXCEPT ![Len(cmds)] = c]

Turn(type) == phase = "parse" /\ i < Len(tokens) /\ tokens[i+1].type = type

ParseFails ==
  /\ phase' = "error"
  /\ UNCHANGED <<tokens, i, cmds, next, line, heap, fails, lost>>

(* Variant: the last element of argv is not kept for the NULL.             *)
TooManyArgsLate == Len(cmd.argv) >= MAX_ARGS

TooManyArgs == Len(cmd.argv) >= MAX_ARGS - 1

(* A WORD, add_argument.                                                   *)
AddArgument ==
  /\ Turn("WORD")
  /\ tokens[i+1].value # NULL /\ ~TooManyArgs
  /\ SetCmd([cmd EXCEPT !.argv = Append(@, Address(heap))])
  /\ heap' = With(heap, Address(heap), Block(i + 1, 0))
  /\ i' = i + 1
  /\ UNCHANGED <<phase, tokens, next, line, fails, lost>>

WordFails ==
  /\ Turn("WORD")
  /\ tokens[i+1].value = NULL \/ TooManyArgs
  /\ ParseFails

(* add_argument or set_string without memory for the copy.                 *)
CopyFails ==
  /\ phase = "parse" /\ i < Len(tokens)
  /\ \/ Turn("WORD") /\ tokens[i+1].value # NULL /\ ~TooManyArgs
     \/ /\ tokens[i+1].type \in Redirects /\ i + 1 < Len(tokens)
        /\ tokens[i+2].type = "WORD" /\ tokens[i+2].value # NULL
  /\ MayFail
  /\ phase' = "error"
  /\ UNCHANGED <<tokens, i, cmds, next, line, heap, lost>>

HasTarget == i + 1 < Len(tokens) /\ tokens[i+2].type = "WORD"

RedirectFails ==
  /\ \E type \in Redirects : Turn(type)
  /\ ~HasTarget
  /\ ParseFails

(* strdup of the NULL that stands for a word there was no memory for.      *)
RedirectCrashes ==
  /\ \E type \in Redirects : Turn(type)
  /\ HasTarget /\ tokens[i+2].value = NULL
  /\ phase' = "crashed"
  /\ UNCHANGED <<tokens, i, cmds, next, line, heap, fails, lost>>

(* Variant: set_string does not free the name it replaces.                 *)
set_string_keeps(old) ==
  heap' = With(heap, Address(heap), Block(i + 2, 0))

(* set_string makes the copy before it frees the name it replaces.         *)
set_string(old) ==
  heap' = Without(With(heap, Address(heap), Block(i + 2, 0)), {old})

(* Variant: > after >> still appends.                                      *)
RedirectKeepsAppend(type) ==
  /\ Turn(type) /\ HasTarget /\ tokens[i+2].value # NULL
  /\ IF type = "REDIRECT_IN"
     THEN /\ set_string(cmd.input)
          /\ SetCmd([cmd EXCEPT !.input = Address(heap)])
     ELSE /\ set_string(cmd.output)
          /\ SetCmd([cmd EXCEPT !.output = Address(heap),
                                !.append = @ \/ type = "REDIRECT_APPEND"])
  /\ i' = i + 2
  /\ UNCHANGED <<phase, tokens, next, line, fails, lost>>

Redirect(type) ==
  /\ Turn(type) /\ HasTarget /\ tokens[i+2].value # NULL
  /\ IF type = "REDIRECT_IN"
     THEN /\ set_string(cmd.input)
          /\ SetCmd([cmd EXCEPT !.input = Address(heap)])
     ELSE /\ set_string(cmd.output)
          /\ SetCmd([cmd EXCEPT !.output = Address(heap),
                                !.append = (type = "REDIRECT_APPEND")])
  /\ i' = i + 2
  /\ UNCHANGED <<phase, tokens, next, line, fails, lost>>

(* Variant: the 16th command may still be followed by a pipe.              *)
PipeRefusedLate == cmd.argv = <<>> \/ Len(cmds) > MAX_COMMANDS

PipeRefused == cmd.argv = <<>> \/ Len(cmds) - 1 >= MAX_COMMANDS - 1

Pipe ==
  /\ Turn("PIPE") /\ ~PipeRefused
  /\ cmds' = Append(cmds, NoCommand)
  /\ i' = i + 1
  /\ UNCHANGED <<phase, tokens, next, line, heap, fails, lost>>

PipeFails == Turn("PIPE") /\ PipeRefused /\ ParseFails

Ampersand ==
  /\ Turn("AMPERSAND")
  /\ SetCmd([cmd EXCEPT !.background = TRUE])
  /\ i' = i + 1
  /\ UNCHANGED <<phase, tokens, next, line, heap, fails, lost>>

(* Variant: the loop ends at END only.                                     *)
ParsedAtEnd ==
  /\ Turn("END")
  /\ phase' = "expand" /\ next' = 0
  /\ UNCHANGED <<tokens, i, cmds, line, heap, fails, lost>>

(* END, or the last token that fitted.                                     *)
Parsed ==
  /\ Turn("END") \/ (phase = "parse" /\ i = Len(tokens))
  /\ phase' = "expand" /\ next' = 0
  /\ UNCHANGED <<tokens, i, cmds, line, heap, fails, lost>>

-----------------------------------------------------------------------------
(* expand_pipeline: the strings of the pipeline, in the order of its loops. *)
FileName(k, f) ==
  IF cmds[k][f] = NULL THEN <<>> ELSE <<[cmd |-> k, field |-> f, arg |-> 0]>>

Fields(k) ==
  [j \in 1 .. Len(cmds[k].argv) |-> [cmd |-> k, field |-> "argv", arg |-> j]]
    \o FileName(k, "input") \o FileName(k, "output")

ToExpand == Loop(LAMBDA done, k : done \o Fields(k), <<>>, Len(cmds))

Pointer(x) ==
  IF x.field = "argv" THEN cmds[x.cmd].argv[x.arg] ELSE cmds[x.cmd][x.field]

Store(x, p) ==
  cmds' = IF x.field = "argv" THEN [cmds EXCEPT ![x.cmd].argv[x.arg] = p]
          ELSE [cmds EXCEPT ![x.cmd][x.field] = p]

AllExpanded == next = Len(ToExpand)

(* expand_string makes the new string, then the old one is freed.          *)
Expand ==
  /\ phase = "expand" /\ ~AllExpanded
  /\ LET x == ToExpand[next+1]
         old == heap[Pointer(x)]
     IN  /\ heap' = Without(With(heap, Address(heap),
                                 Block(old.token, old.times + 1)),
                            {Pointer(x)})
         /\ Store(x, Address(heap))
  /\ next' = next + 1
  /\ UNCHANGED <<phase, tokens, i, line, fails, lost>>

(* expand_string returns NULL and has freed what it had allocated.         *)
ExpandFails ==
  /\ phase = "expand" /\ ~AllExpanded
  /\ MayFail
  /\ phase' = "expand_error"
  /\ UNCHANGED <<tokens, i, cmds, next, line, heap, lost>>

Expanded ==
  /\ phase = "expand" /\ AllExpanded
  /\ phase' = "run"
  /\ UNCHANGED <<tokens, i, cmds, next, line, heap, fails, lost>>

-----------------------------------------------------------------------------
(* What argv[0] may name: exit, echo or pwd, another builtin, a program.   *)
Kinds == {"exit", "echo", "builtin", "program"}

(* builtin_execute of a single command: 1 for exit, 0 for what is done, -1 *)
(* for what execute_pipeline is to do.                                     *)
rc(kind) ==
  LET has_redir == cmd.input # NULL \/ cmd.output # NULL
      force_exec == has_redir /\ cmd.argv # <<>> /\ kind = "echo"
  IN  CASE force_exec -> -1
        [] ~force_exec /\ cmd.argv = <<>> -> 0
        [] ~force_exec /\ cmd.argv # <<>> ->
             CASE kind = "exit" -> 1 [] kind = "program" -> -1 [] OTHER -> 0

Run ==
  /\ phase = "run"
  /\ \E kind \in Kinds :
       phase' = IF Len(cmds) = 1 /\ rc(kind) = 1 THEN "exit" ELSE "free"
  /\ UNCHANGED <<tokens, i, cmds, next, line, heap, fails, lost>>

Forget(p) ==
  /\ phase' = p
  /\ tokens' = <<>> /\ cmds' = <<>> /\ line' = NULL /\ i' = 0 /\ next' = 0
  /\ UNCHANGED fails

(* free_pipeline, free_token of every token, free(line): after a run, an   *)
(* exit, or an expansion error.                                            *)
Release ==
  /\ phase \in {"free", "exit", "expand_error"}
  /\ heap' = Without(heap, PipelineBlocks \cup TokenBlocks \cup {line})
  /\ Forget(IF phase = "exit" THEN "exited" ELSE "read")
  /\ UNCHANGED lost

(* After a parse error main() frees the tokens and the line, and not what  *)
(* parse_tokens had put into the pipeline.                                 *)
ParseError ==
  /\ phase = "error"
  /\ heap' = Without(heap, TokenBlocks \cup {line})
  /\ lost' = lost \cup PipelineBlocks
  /\ Forget("read")

-----------------------------------------------------------------------------
Init ==
  /\ phase = "read" /\ tokens = <<>> /\ i = 0 /\ cmds = <<>> /\ next = 0
  /\ line = NULL /\ heap = <<>> /\ fails = Failures /\ lost = {}

Parse ==
  \/ AddArgument \/ WordFails \/ CopyFails
  \/ RedirectFails \/ RedirectCrashes \/ \E type \in Redirects : Redirect(type)
  \/ Pipe \/ PipeFails \/ Ampersand \/ Parsed

Work ==
  \/ \E type \in TokenTypes : Collect(type)
  \/ Parse
  \/ Expand \/ ExpandFails \/ Expanded
  \/ Run \/ Release \/ ParseError

Next == ReadLine \/ EndOfInput \/ Work

Spec == Init /\ [][Next]_vars

(* main() does not stop between two prompts.                               *)
FairSpec == Spec /\ WF_vars(Work)

-----------------------------------------------------------------------------
(* The text of a job (src/executor.c), made of arguments that are given    *)
(* here by their lengths.  That of a pipeline of two commands or more is   *)
(* build_command_string.  First the size of its block: each argument with  *)
(* one character behind it.                                                *)
Words(argv) == Loop(LAMBDA size, j : size + argv[j] + 1, 0, Len(argv))
Room(pipeline) == Loop(LAMBDA size, k : size + Words(pipeline[k]), 0, Len(pipeline))

(* Variant: no room for the separators.                                    *)
SizeOfWords(pipeline, background) == 1 + Room(pipeline)

Size(pipeline, background) ==
  1 + Room(pipeline) + 3 * (Len(pipeline) - 1) + (IF background THEN 3 ELSE 0)

(* strcat of one argument, after a blank unless the text is still empty.   *)
CatWord(n, w) == (IF n = 0 THEN 0 ELSE n + 1) + w

CatWords(n, argv) == Loop(LAMBDA x, j : CatWord(x, argv[j]), n, Len(argv))
CatCommand(n, pipeline, k) ==
  CatWords(n, pipeline[k]) + (IF k < Len(pipeline) THEN 3 ELSE 0)
JobText(pipeline) == Loop(LAMBDA n, k : CatCommand(n, pipeline, k), 0, Len(pipeline))

build_command_string(pipeline, background) ==
  JobText(pipeline) + (IF background THEN 2 ELSE 0)

(* A single command makes its own text, in execute_command: a blank before *)
(* every argument but the first, then " &".  Of its block only the room    *)
(* for argv[0] depends on the arguments.                                   *)
CommandSize(argv) == argv[1] + SLACK

command_string(argv) ==
  Loop(LAMBDA n, j : n + (IF j > 1 THEN 1 ELSE 0) + argv[j], 0, Len(argv)) + 2

-----------------------------------------------------------------------------
Pointers == Nat \cup {NULL}

(* Everything stays within its array: MAX_TOKENS tokens, MAX_COMMANDS      *)
(* commands, and argv with room for the NULL behind the last argument.     *)
TypeOK ==
  /\ phase \in Phases
  /\ tokens \in Seq([type : TokenTypes, value : Pointers])
  /\ Len(tokens) <= MAX_TOKENS
  /\ i \in 0 .. Len(tokens)
  /\ Len(cmds) <= MAX_COMMANDS
  /\ \A k \in DOMAIN cmds :
       /\ cmds[k] \in [argv : Seq(Nat), input : Pointers, output : Pointers,
                        append : BOOLEAN, background : BOOLEAN]
       /\ Len(cmds[k].argv) <= MAX_ARGS - 1
  /\ next \in Nat /\ line \in Pointers /\ fails \in 0 .. Failures
  /\ \A a \in DOMAIN heap : heap[a] \in [token : Nat, times : Nat]
  /\ lost \subseteq Nat

(* The pointers main() holds, by the place that holds them.                *)
Held ==
  {<<"line", 0, line>>}
    \cup {<<"token", k, tokens[k].value>> : k \in DOMAIN tokens}
    \cup {<<"input", k, cmds[k].input>> : k \in DOMAIN cmds}
    \cup {<<"output", k, cmds[k].output>> : k \in DOMAIN cmds}
    \cup (UNION {{<<"argv", <<k, j>>, cmds[k].argv[j]>> :
                    j \in DOMAIN cmds[k].argv} : k \in DOMAIN cmds})

(* Every pointer main() holds is to a block that is allocated, and no two  *)
(* are to the same one, so nothing is freed twice or used after it is      *)
(* freed, whichever call fails; and every block that no pointer leads to   *)
(* is one that a parse error has left behind.                              *)
OneOwner ==
  LET held == {h \in Held : h[3] # NULL}
      owned == {h[3] : h \in held}
  IN  /\ Cardinality(held) = Cardinality(owned)
      /\ owned \cap lost = {}
      /\ DOMAIN heap = owned \cup lost

-----------------------------------------------------------------------------
(* A line by its tokens, as the grammar of parse_tokens reads it: only |   *)
(* separates commands.                                                     *)
Written ==
  {k \in DOMAIN tokens : \A e \in 1 .. k : tokens[e].type # "END"}

OfType(T) == {k \in Written : tokens[k].type \in T}
Targets == {k \in OfType({"WORD"}) : k - 1 \in OfType(Redirects)}
CommandOf(k) == 1 + Cardinality({p \in OfType({"PIPE"}) : p < k})
Arguments(c) ==
  {k \in OfType({"WORD"}) \ Targets : CommandOf(k) = c}
TargetsOf(c, T) ==
  {k \in Targets : CommandOf(k) = c /\ tokens[k-1].type \in T}

(* Every redirection has a target, every pipe a command on its left, and   *)
(* nothing is too long.                                                    *)
WellFormed ==
  /\ \A k \in OfType(Redirects) : k + 1 \in Targets
  /\ \A k \in OfType({"PIPE"}) : \E a \in Arguments(CommandOf(k)) : a < k
  /\ Cardinality(OfType({"PIPE"})) < MAX_COMMANDS
  /\ \A c \in 1 .. MAX_COMMANDS : Cardinality(Arguments(c)) < MAX_ARGS

(* With enough memory parse_tokens refuses exactly the lines that are not  *)
(* well formed.                                                            *)
RefusesMalformed ==
  fails = Failures =>
    /\ phase = "error" => ~WellFormed
    /\ phase \in {"expand", "run"} => WellFormed

(* seq lists the numbers of S, each once and in their order.               *)
InOrder(seq, S) ==
  /\ Range(seq) = S
  /\ \A j, k \in DOMAIN seq : j < k => seq[j] < seq[k]

Source(p) == IF p = NULL THEN 0 ELSE heap[p].token
LastOf(S) == IF S = {} THEN 0 ELSE Max(S)

(* What is run has the commands that | separates, each with its arguments  *)
(* in their order; the last redirection of each kind counts, and every     *)
(* string has been expanded exactly once: a pipeline that is only partly   *)
(* expanded is never run.  An & puts the command it stands in into the     *)
(* background, wherever it stands there, and ends nothing: WORD & & WORD   *)
(* is one background command with both words.  docs/VIVA_GUIDE.md:108 has  *)
(* `cd /tmp && pwd' run as two; the code runs one, cd with /tmp and pwd.   *)
RunsAsWritten ==
  phase = "run" =>
    /\ Len(cmds) = 1 + Cardinality(OfType({"PIPE"}))
    /\ \A p \in PipelineBlocks : heap[p].times = 1
    /\ \A c \in DOMAIN cmds :
         LET outs == TargetsOf(c, {"REDIRECT_OUT", "REDIRECT_APPEND"})
         IN  /\ InOrder([j \in DOMAIN cmds[c].argv |-> Source(cmds[c].argv[j])],
                        Arguments(c))
             /\ Source(cmds[c].input) = LastOf(TargetsOf(c, {"REDIRECT_IN"}))
             /\ Source(cmds[c].output) = LastOf(outs)
             /\ cmds[c].append <=> LastOf(outs) \in TargetsOf(c, {"REDIRECT_APPEND"})
             /\ cmds[c].background <=>
                  \E k \in OfType({"AMPERSAND"}) : CommandOf(k) = c

(* The text of a background job, with its NUL, fits its block if the job   *)
(* is a pipeline, whatever the lengths of its arguments, also with empty   *)
(* ones and an empty command behind a pipe.  For a single command the code *)
(* does not ensure it: the text fits exactly when the arguments behind     *)
(* argv[0], each with its blank, and " &" and the NUL take no more than    *)
(* SLACK; with longer ones execute_command writes past the block.          *)
JobTextFits ==
  phase = "run" /\ cmds[Len(cmds)].background =>
    \A size \in [PipelineBlocks -> 0 .. MaxLength] :
      LET pipeline == [c \in DOMAIN cmds |->
                         [j \in DOMAIN cmds[c].argv |-> size[cmds[c].argv[j]]]]
          argv == pipeline[1]
      IN  /\ Len(cmds) > 1 =>
               build_command_string(pipeline, TRUE) + 1 <= Size(pipeline, TRUE)
          /\ Len(cmds) = 1 /\ argv # <<>> =>
               (command_string(argv) + 1 <= CommandSize(argv)
                  <=> Words(Tail(argv)) + 3 <= SLACK)

(* Every line ends: with the next prompt, with exit, or in the crash.      *)
LineEnds ==
  phase = "lex" ~> phase \in {"read", "exited", "crashed"}
=============================================================================
