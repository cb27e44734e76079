---------------------------- MODULE SFLineProofs ----------------------------
(***************************************************************************)
(* Proofs about SFLine, for lines, pipelines and argument lists of every   *)
(* length and every number of allocations that fail.                       *)
(***************************************************************************)
EXTENDS SFLineLemmas

(* Most steps are first-order logic, which Zenon settles; SMT, which has   *)
(* the arithmetic, takes the ones that name it and what Zenon leaves.  A   *)
(* step that runs out of time is tried a second time.                      *)
USE ZenonT(5), SMT, ZenonT(20), Z3

-----------------------------------------------------------------------------
(* Where expansion is: the strings it has done are expanded once, the      *)
(* others not yet, and a pipeline that is run is done.                     *)
Expanding ==
  /\ phase = "parse" => \A x \in Places : heap[Pointer(x)].times = 0
  /\ phase \in {"expand", "run"} =>
       /\ next <= Len(ToExpand)
       /\ \A j \in 1 .. Len(ToExpand) :
            heap[Pointer(ToExpand[j])].times = IF j <= next THEN 1 ELSE 0
  /\ phase = "run" => AllExpanded

(* The order of expansion does not change while the strings do.            *)
LEMMA SameOrder ==
  ASSUME LineInv, Len(cmds') = Len(cmds), cmds' \in Seq(Commands), Places' = Places,
         \A k \in 1 .. Len(cmds) : Len(cmds'[k].argv) = Len(cmds[k].argv)
  PROVE  ToExpand' = ToExpand
<1>1. ASSUME NEW k \in 1 .. Len(cmds), NEW f \in {"input", "output"}
      PROVE  FileName(k, f)' = FileName(k, f)
  <2> DEFINE x == [cmd |-> k, field |-> f, arg |-> 0]
  <2>1. /\ cmds[k] \in Commands /\ cmds'[k] \in Commands
        /\ cmds[k]["input"] = cmds[k].input /\ cmds[k]["output"] = cmds[k].output
        /\ cmds'[k]["input"] = cmds'[k].input /\ cmds'[k]["output"] = cmds'[k].output
    <3>1. cmds[k] \in Commands /\ cmds'[k] \in Commands
      BY SMT, Z3 DEF LineInv, LineShape
    <3> QED
      BY <3>1 DEF Commands
  <2>2. x \in Place /\ x.cmd = k /\ x.field = f /\ x.arg = 0
    BY SMT, Z3 DEF Place
  <2> HIDE DEF x
  <2>3. x \in Places <=> cmds[k][f] # NULL
    BY SMT, Z3, <2>1, <2>2 DEF Places, PlacesOf
  <2>4. x \in Places' <=> cmds'[k][f] # NULL
    BY SMT, Z3, <2>1, <2>2 DEF Places, PlacesOf
  <2> QED
    BY <2>3, <2>4 DEF FileName
<1>2. ASSUME NEW k \in 1 .. Len(cmds) PROVE Fields(k)' = Fields(k)
  BY <1>1 DEF Fields
<1> DEFINE N == Len(cmds)
           Old(f) == [k \in 0 .. N |-> IF k = 0 THEN <<>> ELSE f[k-1] \o Fields(k)]
           New(f) == [k \in 0 .. N |-> IF k = 0 THEN <<>> ELSE f[k-1] \o Fields(k)']
<1>3. \A k \in 0 .. N : k # 0 => k \in 1 .. N
  BY SMT, Z3 DEF LineInv, LineShape
<1>4. \A f : Old(f) = New(f)
  BY <1>2, <1>3
<1>5. ToExpand = (CHOOSE f : f = Old(f))[N] /\ ToExpand' = (CHOOSE f : f = New(f))[N]
  BY DEF ToExpand, Loop
<1> HIDE DEF Old, New
<1> QED
  BY <1>4, <1>5

(* A new string has not been expanded; the others are as they were.        *)
LEMMA NewIsFresh ==
  ASSUME LineInv, Expanding, phase = "parse", NEW x, NEW b, b.times = 0,
         PutsBlock(x, b)
  PROVE  Expanding'
<1>1. /\ Places' = Places \cup {x} /\ heap'[Pointer(x)'] = b
      /\ \A y \in Places : y # x => heap'[Pointer(y)'] = heap[Pointer(y)]
  BY PutsBlockOwns
<1>2. \A y \in Places : heap[Pointer(y)].times = 0
  BY DEF Expanding
<1>3. phase' = "parse"
  BY DEF PutsBlock
<1>4. ASSUME NEW y \in Places' PROVE heap'[Pointer(y)'].times = 0
  <2>1. CASE y = x
    BY <1>1, <2>1
  <2>2. CASE y # x
    BY <1>1, <1>2, <2>2
  <2> QED
    BY <2>1, <2>2
<1> QED
  BY <1>3, <1>4 DEF Expanding

(* One string more is expanded, and it had not been.                       *)
LEMMA ExpandCounts ==
  ASSUME LineInv, Expanding, Expand
  PROVE  Expanding'
<1> PICK x : x = ToExpand[next+1]
  OBVIOUS
<1> DEFINE old == heap[Pointer(x)]
           b == Block(old.token, old.times + 1)
           L == Len(ToExpand)
<1>1. /\ phase = "expand" /\ phase' = "expand" /\ next' = next + 1 /\ next <= L
      /\ next \in Nat /\ ~AllExpanded
      /\ \A j \in 1 .. L :
           heap[Pointer(ToExpand[j])].times = IF j <= next THEN 1 ELSE 0
  BY DEF Expand, Expanding, LineInv, TypeOK
<1>2. next + 1 \in 1 .. L
  BY <1>1, NextPlace
<1>3. /\ PutsBlock(x, b) /\ x \in Places
      /\ \A k \in 1 .. Len(cmds) : Len(cmds'[k].argv) = Len(cmds[k].argv)
  BY <1>1, ExpandPuts
<1>4. /\ Places' = Places /\ heap'[Pointer(x)'] = b
      /\ \A y \in Places : y # x => heap'[Pointer(y)'] = heap[Pointer(y)]
  <2> HIDE DEF b
  <2>1. /\ Places' = Places \cup {x} /\ heap'[Pointer(x)'] = b
        /\ \A y \in Places : y # x => heap'[Pointer(y)'] = heap[Pointer(y)]
    BY <1>3, PutsBlockOwns
  <2> QED
    BY <1>3, <2>1
<1>5. ToExpand' = ToExpand
  <2>1. Len(cmds') = Len(cmds) /\ cmds' \in Seq(Commands)
    BY <1>3 DEF PutsBlock, Puts
  <2> QED
    BY <1>3, <1>4, <2>1, SameOrder
<1>6. /\ L \in Nat /\ \A j \in 1 .. L : ToExpand[j] \in Places
      /\ \A j, k \in 1 .. L : ToExpand[j] = ToExpand[k] => j = k
  <2>1. ToExpand \in Seq(Place) /\ Range(ToExpand) = Places /\ IsInjective(ToExpand)
    BY <1>1, ToExpandIsPlaces DEF LineInv, LineShape
  <2>2. DOMAIN ToExpand = 1 .. L /\ L \in Nat
    BY SMT, Z3, <2>1
  <2> QED
    BY <2>1, <2>2 DEF Range, IsInjective
<1>7. b.times = 1
  <2>1. old.times = 0
    BY SMT, Z3, <1>1, <1>2
  <2> HIDE DEF old
  <2> QED
    BY SMT, Z3, <2>1 DEF Block
<1> HIDE DEF b, L
<1>8. ASSUME NEW j \in 1 .. L
      PROVE  heap'[Pointer(ToExpand[j])'].times = IF j <= next + 1 THEN 1 ELSE 0
  <2>1. CASE j = next + 1
    <3>1. ToExpand[j] = x
      BY <2>1
    <3>2. heap'[Pointer(ToExpand[j])'].times = 1
      BY <1>4, <1>5, <1>7, <3>1
    <3> QED
      BY SMT, Z3, <1>1, <2>1, <3>2
  <2>2. CASE j # next + 1
    <3>1. ToExpand[j] # x /\ ToExpand[j] \in Places
      BY <1>2, <1>6, <2>2
    <3>2. heap'[Pointer(ToExpand[j])'] = heap[Pointer(ToExpand[j])]
      BY <1>4, <1>5, <3>1
    <3>3. (j <= next + 1) <=> (j <= next)
      BY SMT, Z3, <1>1, <1>6, <2>2
    <3> QED
      BY <1>1, <3>2, <3>3 DEF L
  <2> QED
    BY <2>1, <2>2
<1>9. next' <= Len(ToExpand')
  BY SMT, Z3, <1>1, <1>2, <1>5, <1>6 DEF L
<1>10. \A j \in 1 .. Len(ToExpand') :
         heap'[Pointer(ToExpand[j])'].times = IF j <= next' THEN 1 ELSE 0
  BY <1>1, <1>5, <1>8 DEF L
<1> QED
  BY <1>1, <1>9, <1>10 DEF Expanding

(* Expansion goes through the words in order.                              *)
LEMMA ExpandingStep == LineInv /\ Expanding /\ [Next]_vars => Expanding'
<1> SUFFICES ASSUME LineInv, Expanding, [Next]_vars PROVE Expanding'
  OBVIOUS
<1>1. CASE Parsed
  <2>1. /\ phase = "parse" /\ phase' = "expand" /\ next' = 0
        /\ UNCHANGED <<cmds, heap>>
    BY <1>1 DEF Parsed, Turn
  <2>2. ToExpand' = ToExpand /\ \A y : Pointer(y)' = Pointer(y)
    BY <2>1 DEF ToExpand, Loop, Fields, FileName, Pointer
  <2>3. /\ Len(ToExpand) \in Nat
        /\ \A j \in 1 .. Len(ToExpand) : ToExpand[j] \in Places
    <3>1. ToExpand \in Seq(Place) /\ Range(ToExpand) = Places
      BY <2>1, ToExpandIsPlaces DEF LineInv, LineShape
    <3>2. DOMAIN ToExpand = 1 .. Len(ToExpand) /\ Len(ToExpand) \in Nat
      BY SMT, Z3, <3>1
    <3> QED
      BY <3>1, <3>2 DEF Range
  <2>4. \A j \in 1 .. Len(ToExpand) : heap[Pointer(ToExpand[j])].times = 0
    BY <2>1, <2>3 DEF Expanding
  <2>5. \A j \in 1 .. Len(ToExpand') :
          heap'[Pointer(ToExpand[j])'].times = IF j <= next' THEN 1 ELSE 0
    BY SMT, Z3, <2>1, <2>2, <2>3, <2>4
  <2>6. next' <= Len(ToExpand')
    BY SMT, Z3, <2>1, <2>2, <2>3
  <2> QED
    BY <2>1, <2>5, <2>6 DEF Expanding
<1>2. CASE Expanded
  <2>1. /\ phase = "expand" /\ phase' = "run" /\ AllExpanded /\ UNCHANGED <<cmds, heap, next>>
    BY <1>2 DEF Expanded
  <2>2. ToExpand' = ToExpand /\ \A y : Pointer(y)' = Pointer(y)
    BY <2>1 DEF ToExpand, Loop, Fields, FileName, Pointer
  <2> QED
    BY <2>1, <2>2 DEF Expanding, AllExpanded
<1>3. CASE /\ Moves /\ ~Parsed /\ ~Expanded
  BY <1>3 DEF Moves, WordFails, CopyFails, RedirectFails, RedirectCrashes,
              PipeFails, ParseFails, ExpandFails, Run, Expanding
<1>4. CASE ReadLine \/ EndOfInput \/ Release \/ ParseError
  BY <1>4 DEF ReadLine, EndOfInput, Release, ParseError, Forget, Expanding
<1>5. CASE \E type \in TokenTypes : Collect(type)
  <2>1. /\ phase' = "lex" \/ (phase' = "parse" /\ cmds' = <<NoCommand>>)
    BY <1>5 DEF Collect
  <2> QED
    BY <2>1, EmptyPipelineNext DEF Expanding
<1>6. CASE AddArgument
  <2>1. phase = "parse" /\ PutsBlock(ArgumentPlace, Block(i + 1, 0))
    BY <1>6, AddArgumentPuts DEF AddArgument, Turn
  <2>2. PICK x : x = ArgumentPlace
    OBVIOUS
  <2>3. Block(i + 1, 0).times = 0
    BY DEF Block
  <2>4. PICK b : b = Block(i + 1, 0)
    OBVIOUS
  <2> QED
    BY <2>1, <2>2, <2>3, <2>4, NewIsFresh
<1>7. CASE \E type \in Redirects : Redirect(type)
  <2>1. PICK type \in Redirects : Redirect(type)
    BY <1>7
  <2>2. phase = "parse" /\ PutsBlock(FilePlace(type), Block(i + 2, 0))
    BY <2>1, RedirectPuts DEF Redirect, Turn
  <2>3. Block(i + 2, 0).times = 0
    BY DEF Block
  <2>4. PICK x, b : x = FilePlace(type) /\ b = Block(i + 2, 0)
    OBVIOUS
  <2> QED
    BY <2>2, <2>3, <2>4, NewIsFresh
<1>8. CASE Pipe \/ Ampersand
  <2>1. phase = "parse" /\ phase' = "parse" /\ heap' = heap
    BY <1>8 DEF Pipe, Ampersand, Turn
  <2>2. Places' = Places /\ \A y \in Places : Pointer(y)' = Pointer(y)
    BY <1>8, PipeOwns, AmpersandOwns
  <2> QED
    BY <2>1, <2>2 DEF Expanding
<1>9. CASE Expand
  BY <1>9, ExpandCounts
<1>10. CASE UNCHANGED vars
  <2>1. UNCHANGED <<phase, next, cmds, heap>>
    BY <1>10 DEF vars
  <2>2. ToExpand' = ToExpand /\ Places' = Places /\ \A y : Pointer(y)' = Pointer(y)
    BY SMT, Z3, <2>1 DEF ToExpand, Loop, Fields, FileName, Pointer, Places, PlacesOf
  <2> QED
    BY <2>1, <2>2 DEF Expanding, AllExpanded
<1> QED
  BY <1>1, <1>2, <1>3, <1>4, <1>5, <1>6, <1>7, <1>8, <1>9, <1>10
  DEF Next, Work, Parse, Moves
-----------------------------------------------------------------------------
(* Ownership by places is the ownership OneOwner speaks of.                *)
LEMMA OwnershipSuffices == LineInv => OneOwner
<1> SUFFICES ASSUME LineInv PROVE OneOwner
  OBVIOUS
<1> DEFINE held == {h \in Held : h[3] # NULL}
           owned == {h[3] : h \in held}
           tag(x) == IF x.field = "argv"
                     THEN <<"argv", <<x.cmd, x.arg>>, Pointer(x)>>
                     ELSE <<x.field, x.cmd, Pointer(x)>>
           OfLine(h) == h = <<"line", 0, line>> /\ line # NULL
           OfToken(h) == \E k \in DOMAIN tokens : /\ h = <<"token", k, tokens[k].value>>
                                                /\ tokens[k].value # NULL
           OfPlace(h) == \E x \in Places : h = tag(x)
<1>1. /\ cmds \in Seq(Commands) /\ DOMAIN cmds = 1 .. Len(cmds)
      /\ PipelineBlocks = {Pointer(x) : x \in Places} /\ PipelineBlocks \subseteq Nat
      /\ NULL \notin PipelineBlocks
  BY SMT, Z3, BlocksArePointers, NullAssumption DEF LineInv, LineShape
<1>2. ASSUME NEW k \in DOMAIN cmds
      PROVE  /\ k \in Nat /\ cmds[k] \in Commands /\ cmds[k].argv \in Seq(Nat)
             /\ DOMAIN cmds[k].argv = 1 .. Len(cmds[k].argv)
             /\ \A j \in DOMAIN cmds[k].argv : j \in Nat
             /\ cmds[k]["input"] = cmds[k].input
             /\ cmds[k]["output"] = cmds[k].output
  <2>1. k \in Nat /\ cmds[k] \in Commands
    BY SMT, Z3, <1>1
  <2>2. cmds[k].argv \in Seq(Nat)
    BY <2>1 DEF Commands
  <2> QED
    BY SMT, Z3, <2>1, <2>2 DEF Commands
<1> DEFINE Listed(h) ==
             \/ h = <<"line", 0, line>>
             \/ \E k \in DOMAIN tokens : h = <<"token", k, tokens[k].value>>
             \/ \E k \in DOMAIN cmds : \E j \in DOMAIN cmds[k].argv :
                  h = <<"argv", <<k, j>>, cmds[k].argv[j]>>
             \/ \E k \in DOMAIN cmds : \/ h = <<"input", k, cmds[k].input>>
                                      \/ h = <<"output", k, cmds[k].output>>
<1>3. ASSUME NEW h PROVE h \in Held <=> Listed(h)
  <2> DEFINE toks == {<<"token", k, tokens[k].value>> : k \in DOMAIN tokens}
             args(k) == {<<"argv", <<k, j>>, cmds[k].argv[j]>> :
                           j \in DOMAIN cmds[k].argv}
             ins == {<<"input", k, cmds[k].input>> : k \in DOMAIN cmds}
             outs == {<<"output", k, cmds[k].output>> : k \in DOMAIN cmds}
             all == UNION {args(k) : k \in DOMAIN cmds}
  <2>1. h \in toks <=> \E k \in DOMAIN tokens : h = <<"token", k, tokens[k].value>>
    OBVIOUS
  <2>2. /\ h \in ins <=> \E k \in DOMAIN cmds : h = <<"input", k, cmds[k].input>>
        /\ h \in outs <=> \E k \in DOMAIN cmds : h = <<"output", k, cmds[k].output>>
    OBVIOUS
  <2>3. \A k : h \in args(k) <=> \E j \in DOMAIN cmds[k].argv :
                                   h = <<"argv", <<k, j>>, cmds[k].argv[j]>>
    OBVIOUS
  <2>4. Held = {<<"line", 0, line>>} \cup toks \cup ins \cup outs \cup all
    BY DEF Held
  <2> HIDE DEF toks, args, ins, outs
  <2>5. h \in all <=> \E k \in DOMAIN cmds : h \in args(k)
    OBVIOUS
  <2> HIDE DEF all
  <2> QED
    BY <2>1, <2>2, <2>3, <2>4, <2>5
<1>4. ASSUME NEW h \in held PROVE OfLine(h) \/ OfToken(h) \/ OfPlace(h)
  <2>1. CASE h = <<"line", 0, line>>
    BY <2>1
  <2>2. CASE \E k \in DOMAIN tokens : h = <<"token", k, tokens[k].value>>
    <3>1. PICK k \in DOMAIN tokens : h = <<"token", k, tokens[k].value>>
      BY <2>2
    <3>2. tokens[k].value # NULL
      BY <3>1
    <3> QED
      BY <3>1, <3>2
  <2>3. CASE \E k \in DOMAIN cmds : \E j \in DOMAIN cmds[k].argv :
               h = <<"argv", <<k, j>>, cmds[k].argv[j]>>
    <3>1. PICK k \in DOMAIN cmds : \E j \in DOMAIN cmds[k].argv :
                                      h = <<"argv", <<k, j>>, cmds[k].argv[j]>>
      BY <2>3
    <3>2. PICK j \in DOMAIN cmds[k].argv : h = <<"argv", <<k, j>>, cmds[k].argv[j]>>
      BY <3>1
    <3> DEFINE x == [cmd |-> k, field |-> "argv", arg |-> j]
    <3>3. x \in PlacesOf(k) /\ tag(x) = h
      BY <1>2, <3>2 DEF PlacesOf, Place, Pointer
    <3> HIDE DEF x, tag
    <3> QED
      BY <1>1, <3>3 DEF Places
  <2>4. ASSUME NEW f \in {"input", "output"}, NEW k \in DOMAIN cmds,
               h = <<f, k, cmds[k][f]>>
        PROVE  OfPlace(h)
    <3> DEFINE x == [cmd |-> k, field |-> f, arg |-> 0]
    <3>1. h[3] = cmds[k][f] /\ cmds[k][f] # NULL
      BY <2>4
    <3>2. x \in PlacesOf(k)
      BY <1>2, <3>1 DEF PlacesOf, Place
    <3>3. tag(x) = h
      BY <2>4 DEF Pointer
    <3> HIDE DEF x, tag
    <3> QED
      BY <1>1, <3>2, <3>3 DEF Places
  <2>5. CASE \E k \in DOMAIN cmds : \/ h = <<"input", k, cmds[k].input>>
                                   \/ h = <<"output", k, cmds[k].output>>
    <3> HIDE DEF OfPlace
    <3> QED
      BY <1>2, <2>4, <2>5
  <2> HIDE DEF OfLine, OfToken, OfPlace
  <2> QED
    BY <1>3, <2>1, <2>2, <2>3, <2>5
<1>5. ASSUME NEW x \in Places PROVE tag(x) \in held /\ tag(x)[3] = Pointer(x)
  <2>1. /\ x.cmd \in DOMAIN cmds /\ x \in PlacesOf(x.cmd)
        /\ x.field \in {"argv", "input", "output"} /\ Pointer(x) # NULL
    BY SMT, Z3, <1>1 DEF Places, PlacesOf, Place
  <2>2. CASE x.field = "argv"
    <3>1. x.arg \in DOMAIN cmds[x.cmd].argv
      BY <1>2, <2>1, <2>2 DEF PlacesOf
    <3>2. tag(x) = <<"argv", <<x.cmd, x.arg>>, cmds[x.cmd].argv[x.arg]>>
      BY <2>2 DEF Pointer
    <3>3. tag(x)[3] = Pointer(x)
      BY <2>2
    <3> HIDE DEF tag
    <3>4. tag(x) \in Held
      BY <1>3, <2>1, <3>1, <3>2
    <3> QED
      BY <2>1, <3>3, <3>4
  <2>3. CASE x.field \in {"input", "output"}
    <3>1. /\ tag(x) = <<x.field, x.cmd, Pointer(x)>> /\ tag(x)[3] = Pointer(x)
          /\ Pointer(x) = cmds[x.cmd][x.field]
      BY <2>3 DEF Pointer
    <3> HIDE DEF tag
    <3>2. tag(x) \in Held
      <4>1. \/ tag(x) = <<"input", x.cmd, cmds[x.cmd].input>>
            \/ tag(x) = <<"output", x.cmd, cmds[x.cmd].output>>
        BY <1>2, <2>1, <2>3, <3>1
      <4> QED
        BY <1>3, <2>1, <4>1
    <3> QED
      BY <2>1, <3>1, <3>2
  <2> QED
    BY <2>1, <2>2, <2>3
<1>6. /\ \A k \in DOMAIN tokens : tokens[k].value # NULL => tokens[k].value \in TokenBlocks
      /\ line # NULL => line \in LineBlock
      /\ \A x \in Places : Pointer(x) \in PipelineBlocks
  BY <1>1 DEF TokenBlocks, LineBlock
<1>7. ASSUME NEW h \in held, NEW g \in held, h[3] = g[3] PROVE h = g
  <2>1. \A x, y \in Places : tag(x)[3] = tag(y)[3] => x = y
    BY <1>5 DEF LineInv, Ownership
  <2>2. OfLine(h) => h[3] \in LineBlock
    BY SMT, Z3, <1>6
  <2>3. OfToken(h) => h[3] \in TokenBlocks
    BY SMT, Z3, <1>6
  <2>4. OfPlace(h) => h[3] \in PipelineBlocks
    BY <1>5, <1>6
  <2>5. OfLine(g) => g[3] \in LineBlock
    BY SMT, Z3, <1>6
  <2>6. OfToken(g) => g[3] \in TokenBlocks
    BY SMT, Z3, <1>6
  <2>7. OfPlace(g) => g[3] \in PipelineBlocks
    BY <1>5, <1>6
  <2>8. OfLine(h) /\ OfLine(g) => h = g
    OBVIOUS
  <2>9. OfToken(h) /\ OfToken(g) => h = g
    BY SMT, Z3, <1>7 DEF LineInv, Ownership
  <2>10. OfPlace(h) /\ OfPlace(g) => h = g
    <3> HIDE DEF tag
    <3> QED
      BY <1>7, <2>1
  <2>11. /\ PipelineBlocks \cap TokenBlocks = {} /\ LineBlock \cap PipelineBlocks = {}
         /\ LineBlock \cap TokenBlocks = {}
    BY DEF LineInv, Ownership
  <2> HIDE DEF OfLine, OfToken, OfPlace, held
  <2> QED
    BY <1>4, <1>7, <2>2, <2>3, <2>4, <2>5, <2>6, <2>7, <2>8, <2>9, <2>10, <2>11
<1>8. owned = PipelineBlocks \cup TokenBlocks \cup LineBlock
  <2>1. \A h \in held : h[3] \in PipelineBlocks \cup TokenBlocks \cup LineBlock
    <3>1. \A h : OfLine(h) => h[3] \in LineBlock
      BY SMT, Z3, <1>6
    <3>2. \A h : OfToken(h) => h[3] \in TokenBlocks
      BY SMT, Z3, <1>6
    <3>3. \A h : OfPlace(h) => h[3] \in PipelineBlocks
      <4> HIDE DEF tag
      <4> QED
        BY <1>5, <1>6
    <3> HIDE DEF OfLine, OfToken, OfPlace, held
    <3> QED
      BY <1>4, <3>1, <3>2, <3>3
  <2>2. ASSUME NEW e \in PipelineBlocks PROVE e \in owned
    <3>1. PICK x \in Places : e = Pointer(x)
      BY <1>1
    <3> HIDE DEF tag, held
    <3> QED
      BY <1>5, <3>1
  <2>3. ASSUME NEW e \in TokenBlocks PROVE e \in owned
    <3>1. PICK k \in DOMAIN tokens : e = tokens[k].value /\ e # NULL
      BY DEF TokenBlocks
    <3>2. <<"token", k, e>> \in Held /\ <<"token", k, e>>[3] = e
      BY <3>1 DEF Held
    <3> QED
      BY <3>1, <3>2
  <2>4. ASSUME NEW e \in LineBlock PROVE e \in owned
    <3>1. e = line /\ e # NULL
      BY DEF LineBlock
    <3>2. <<"line", 0, e>> \in Held /\ <<"line", 0, e>>[3] = e
      BY <3>1 DEF Held
    <3> QED
      BY <3>1, <3>2
  <2> HIDE DEF held
  <2> QED
    BY <2>1, <2>2, <2>3, <2>4
<1> HIDE DEF held, owned
<1>9. Cardinality(held) = Cardinality(owned)
  <2> DEFINE f == [h \in held |-> h[3]]
  <2>1. f \in Injection(held, owned) /\ f \in Surjection(held, owned)
    BY <1>7 DEF owned, Injection, IsInjective, Surjection
  <2>2. IsFiniteSet(owned)
    <3>1. owned \subseteq DOMAIN heap
      BY <1>8 DEF LineInv, Ownership
    <3> QED
      BY <3>1, FS_Subset DEF LineInv, LineShape
  <2> QED
    BY <2>1, <2>2, FS_Injection
<1>10. owned \cap lost = {} /\ DOMAIN heap = owned \cup lost
  BY <1>8 DEF LineInv, Ownership
<1> QED
  BY <1>9, <1>10 DEF OneOwner, held, owned

-----------------------------------------------------------------------------
(* The inductive invariant of the memory: types, owners, and how far the   *)
(* expansion is.                                                           *)
THEOREM MemoryInvariant == Spec => [](LineInv /\ Expanding)
<1>1. Init => LineInv /\ Expanding
  <2>1. Init => Expanding
    BY DEF Init, Expanding
  <2> QED
    BY <2>1, LineStarts
<1>2. LineInv /\ Expanding /\ [Next]_vars => LineInv' /\ Expanding'
  BY LineStep, ExpandingStep DEF Progress, Expanding
<1> QED
  BY <1>1, <1>2, PTL DEF Spec

(* However long the line, its tokens, commands and arguments stay within   *)
(* the arrays of main() and parse_tokens.                                  *)
THEOREM ArraysHoldLine == Spec => []TypeOK
<1>1. LineInv => TypeOK
  BY DEF LineInv
<1> QED
  BY <1>1, MemoryInvariant, PTL

(* Nothing is freed twice or used after it is freed, whichever calls of    *)
(* malloc and strdup fail, and the only blocks without an owner are those  *)
(* that a parse error has left behind.                                     *)
THEOREM EachBlockOneOwner == Spec => []OneOwner
BY OwnershipSuffices, MemoryInvariant, PTL

(* The text of a background pipeline fits the block it is given, with any  *)
(* number of commands and arguments of any length.  That of a single       *)
(* command does exactly when what stands behind argv[0] fits SLACK.        *)
THEOREM JobTextAlwaysFits == Spec => []JobTextFits
<1>1. LineInv => JobTextFits
  <2> SUFFICES ASSUME LineInv, phase = "run",
                      NEW size \in [PipelineBlocks -> 0 .. MaxLength]
               PROVE  LET pipeline == [c \in DOMAIN cmds |->
                            [j \in DOMAIN cmds[c].argv |-> size[cmds[c].argv[j]]]]
                          argv == pipeline[1]
                      IN  /\ Len(cmds) > 1 =>
                               build_command_string(pipeline, TRUE) + 1
                                 <= Size(pipeline, TRUE)
                          /\ Len(cmds) = 1 /\ argv # <<>> =>
                               (command_string(argv) + 1 <= CommandSize(argv)
                                  <=> Words(Tail(argv)) + 3 <= SLACK)
    BY DEF JobTextFits
  <2> DEFINE pipeline == [c \in DOMAIN cmds |->
                            [j \in DOMAIN cmds[c].argv |-> size[cmds[c].argv[j]]]]
             argv == pipeline[1]
  <2>1. cmds \in Seq(Commands) /\ cmds # <<>>
    BY DEF LineInv, LineShape
  <2>2. ASSUME NEW c \in DOMAIN cmds
        PROVE  [j \in DOMAIN cmds[c].argv |-> size[cmds[c].argv[j]]] \in Seq(Nat)
    <3>1. cmds[c].argv \in Seq(Nat)
      <4>1. cmds[c] \in Commands
        BY SMT, Z3, <2>1
      <4> QED BY <4>1 DEF Commands
    <3>2. \A j \in DOMAIN cmds[c].argv : cmds[c].argv[j] \in PipelineBlocks
      <4>1. \A j \in DOMAIN cmds[c].argv :
              cmds[c].argv[j] \in Range(cmds[c].argv) /\ cmds[c].argv[j] # NULL
        BY SMT, Z3, <3>1, NullAssumption DEF Range
      <4> QED BY SMT, Z3, <4>1 DEF PipelineBlocks, Strings
    <3>3. \A j \in DOMAIN cmds[c].argv : size[cmds[c].argv[j]] \in Nat
      BY SMT, Z3, <3>2, LimitsAssumption
    <3> QED BY SMT, Z3, <3>1, <3>3
  <2>3. pipeline \in Seq(Seq(Nat)) /\ pipeline # <<>> /\ argv \in Seq(Nat)
    <3>1. PICK n \in Nat : DOMAIN cmds = 1 .. n /\ n # 0
      BY SMT, Z3, <2>1
    <3>2. 1 \in DOMAIN cmds
      BY SMT, Z3, <3>1
    <3>3. pipeline \in [DOMAIN cmds -> Seq(Nat)]
      BY <2>2
    <3>4. argv \in Seq(Nat)
      BY <2>2, <3>2
    <3> HIDE DEF pipeline, argv
    <3>5. pipeline \in [1 .. n -> Seq(Nat)]
      BY <3>1, <3>3
    <3>6. pipeline \in Seq(Seq(Nat))
      BY SMT, Z3, <3>5
    <3>7. pipeline # <<>>
      BY SMT, Z3, <3>1, <3>5
    <3> QED BY <3>4, <3>6, <3>7
  <2> HIDE DEF pipeline, argv
  <2>4. build_command_string(pipeline, TRUE) + 1 <= Size(pipeline, TRUE)
    BY <2>3, TextFits
  <2>5. ASSUME argv # <<>>
        PROVE  command_string(argv) + 1 <= CommandSize(argv)
                 <=> Words(Tail(argv)) + 3 <= SLACK
    <3>1. PICK w \in Nat : w = Words(Tail(argv))
      BY <2>3, <2>5, CommandLength
    <3>2. PICK a \in Nat : a = argv[1]
      BY <2>3, <2>5, CommandLength
    <3>3. command_string(argv) = a + w + 2 /\ CommandSize(argv) = a + SLACK
      BY <2>3, <2>5, <3>1, <3>2, CommandLength DEF CommandSize
    <3>4. SLACK \in Nat
      BY LimitsAssumption
    <3>5. (a + w + 2) + 1 <= a + SLACK <=> w + 3 <= SLACK
      BY SMT, Z3, <3>4
    <3> QED BY <3>1, <3>3, <3>5
  <2> QED BY <2>4, <2>5 DEF pipeline, argv
<1> QED
  BY <1>1, MemoryInvariant, PTL
-----------------------------------------------------------------------------
(* The reading of a line depends on its tokens only.                       *)
LEMMA ReadingKept ==
  ASSUME tokens' = tokens
  PROVE  /\ Written' = Written /\ Targets' = Targets
         /\ \A T : OfType(T)' = OfType(T)
         /\ \A k : CommandOf(k)' = CommandOf(k)
         /\ \A c : Arguments(c)' = Arguments(c)
         /\ \A c, T : TargetsOf(c, T)' = TargetsOf(c, T)
         /\ WellFormed' = WellFormed
<1>1. Written' = Written
  BY DEF Written
<1>2. \A T : OfType(T)' = OfType(T)
  BY <1>1 DEF OfType
<1>3. Targets' = Targets
  BY <1>2 DEF Targets
<1>4. \A k : CommandOf(k)' = CommandOf(k)
  BY <1>2 DEF CommandOf
<1>5. \A c : Arguments(c)' = Arguments(c)
  BY <1>2, <1>3, <1>4 DEF Arguments
<1>6. \A c, T : TargetsOf(c, T)' = TargetsOf(c, T)
  BY <1>3, <1>4 DEF TargetsOf
<1>7. WellFormed' = WellFormed
  BY <1>2, <1>3, <1>4, <1>5 DEF WellFormed
<1> QED
  BY <1>1, <1>2, <1>3, <1>4, <1>5, <1>6, <1>7

(* The sets of the reading are sets of places in the line.                 *)
LEMMA TokenSets ==
  ASSUME LineInv
  PROVE  /\ Len(tokens) \in Nat /\ DOMAIN tokens = 1 .. Len(tokens)
         /\ Written \subseteq 1 .. Len(tokens)
         /\ \A T : OfType(T) \subseteq Written /\ IsFiniteSet(OfType(T))
         /\ Targets \subseteq Written
         /\ \A c : Arguments(c) \subseteq Written /\ IsFiniteSet(Arguments(c))
         /\ \A c, T : TargetsOf(c, T) \subseteq Written
         /\ \A k : CommandOf(k) \in Nat \ {0}
<1>1. Len(tokens) \in Nat /\ DOMAIN tokens = 1 .. Len(tokens)
  BY SMT, Z3 DEF LineInv, TypeOK
<1>2. Written \subseteq 1 .. Len(tokens)
  BY <1>1 DEF Written
<1>3. \A T : T \subseteq Written => IsFiniteSet(T)
  <2>1. IsFiniteSet(1 .. Len(tokens))
    BY SMT, Z3, <1>1, FS_Interval
  <2>2. \A T : T \subseteq Written => T \in SUBSET (1 .. Len(tokens))
    BY <1>2
  <2> QED
    BY <2>1, <2>2, FS_Subset
<1>4. \A T : OfType(T) \subseteq Written
  BY DEF OfType
<1>5. Targets \subseteq Written
  BY <1>4 DEF Targets
<1>6. \A c : Arguments(c) \subseteq Written
  BY <1>4 DEF Arguments
<1>7. \A c, T : TargetsOf(c, T) \subseteq Written
  BY <1>5 DEF TargetsOf
<1>8. ASSUME NEW k PROVE CommandOf(k) \in Nat \ {0}
  <2> DEFINE S == {p \in OfType({"PIPE"}) : p < k}
  <2>1. IsFiniteSet(S)
    BY <1>3, <1>4
  <2>2. Cardinality(S) \in Nat
    BY <2>1, FS_CardinalityType
  <2> HIDE DEF S
  <2>3. CommandOf(k) = 1 + Cardinality(S)
    BY DEF CommandOf, S
  <2> QED
    BY SMT, Z3, <2>2, <2>3
<1> QED
  BY <1>1, <1>2, <1>3, <1>4, <1>5, <1>6, <1>7, <1>8

-----------------------------------------------------------------------------
(* Sequences in order, and the last of a set.                              *)
LEMMA InOrderGrows ==
  ASSUME NEW n \in Nat, NEW u, DOMAIN u = 1 .. n, NEW v, DOMAIN v = 1 .. n + 1,
         \A j \in 1 .. n : v[j] = u[j],
         NEW S \in SUBSET Nat, InOrder(u, S), \A k \in S : k < v[n + 1]
  PROVE  InOrder(v, S \cup {v[n + 1]})
<1>1. 1 .. n + 1 = (1 .. n) \cup {n + 1}
  BY SMT, Z3
<1>2. Range(v) = S \cup {v[n + 1]}
  BY SMT, Z3, <1>1 DEF Range, InOrder
<1>3. \A j \in 1 .. n : u[j] \in S
  BY DEF Range, InOrder
<1>4. ASSUME NEW j \in 1 .. n + 1, NEW k \in 1 .. n + 1, j < k PROVE v[j] < v[k]
  <2>1. j \in 1 .. n
    BY SMT, Z3, <1>4
  <2>2. CASE k = n + 1
    BY <1>3, <2>1, <2>2
  <2>3. CASE k \in 1 .. n
    BY <1>4, <2>1, <2>3 DEF InOrder
  <2> QED
    BY <1>1, <2>2, <2>3
<1> QED
  BY <1>2, <1>4 DEF InOrder

(* A listing in order has one place for each member.                       *)
LEMMA InOrderCount ==
  ASSUME NEW n \in Nat, NEW u, u = [j \in 1 .. n |-> u[j]],
         NEW S \in SUBSET Nat, InOrder(u, S)
  PROVE  IsFiniteSet(S) /\ Cardinality(S) = n
<1>1. \A j, k \in 1 .. n : u[j] = u[k] => j = k
  <2>1. \A j, k \in 1 .. n : j < k => u[j] < u[k]
    BY DEF InOrder
  <2>2. \A j \in 1 .. n : u[j] \in Nat
    BY DEF InOrder, Range
  <2> QED
    BY SMT, Z3, <2>1, <2>2
<1>2. u \in Surjection(1 .. n, S) /\ u \in Injection(1 .. n, S)
  BY <1>1 DEF InOrder, Range, Surjection, Injection, IsInjective
<1>3. IsFiniteSet(1 .. n) /\ Cardinality(1 .. n) = n
  <2>1. 1 \in Int /\ n \in Int
    BY SMT, Z3
  <2>2. IsFiniteSet(1 .. n) /\ Cardinality(1 .. n) = IF 1 > n THEN 0 ELSE n - 1 + 1
    BY <2>1, FS_Interval
  <2> QED
    BY SMT, Z3, <2>2
<1> QED
  BY <1>2, <1>3, FS_Surjection

(* A number above all the others is the last.                              *)
LEMMA LastAdded ==
  ASSUME NEW S \in SUBSET Nat, NEW m \in Nat, \A k \in S : k < m
  PROVE  LastOf(S \cup {m}) = m
<1> DEFINE T == S \cup {m}
<1>1. \A x \in T : (\A y \in T : x >= y) => x = m
  BY SMT, Z3
<1>2. m \in T /\ \A y \in T : m >= y
  BY SMT, Z3
<1>3. Max(T) \in T /\ \A y \in T : Max(T) >= y
  BY <1>2 DEF Max
<1> QED
  BY <1>1, <1>3 DEF LastOf
-----------------------------------------------------------------------------
(* What parse_tokens has made of the first n tokens.                       *)
Before(S, n) == {k \in S : k <= n}

Arg(c, j) == [cmd |-> c, field |-> "argv", arg |-> j]
File(c, f) == [cmd |-> c, field |-> f, arg |-> 0]

(* The token a string of the pipeline comes from.                          *)
Text(x) == IF x \in Places THEN heap[Pointer(x)].token ELSE 0

Texts(c) == [j \in 1 .. Len(cmds[c].argv) |-> Text(Arg(c, j))]

Outs == {"REDIRECT_OUT", "REDIRECT_APPEND"}

(* Command c is what the first n tokens say of it.                         *)
Faithful(c, n) ==
  LET ins == Before(TargetsOf(c, {"REDIRECT_IN"}), n)
      outs == Before(TargetsOf(c, Outs), n)
  IN  /\ InOrder(Texts(c), Before(Arguments(c), n))
      /\ Text(File(c, "input")) = LastOf(ins)
      /\ Text(File(c, "output")) = LastOf(outs)
      /\ cmds[c].append <=> LastOf(outs) \in TargetsOf(c, {"REDIRECT_APPEND"})
      /\ cmds[c].background <=>
           \E k \in Before(OfType({"AMPERSAND"}), n) : CommandOf(k) = c

(* All of them are, END has not been read, and each redirection and each   *)
(* pipe that has been read is as it should be.                             *)
ReadSoFar ==
  /\ \A k \in 1 .. i : tokens[k].type # "END"
  /\ \A k \in 1 .. i : tokens[k].type \in Redirects =>
                         k + 1 <= i /\ tokens[k+1].type = "WORD"
  /\ Len(cmds) = 1 + Cardinality(Before(OfType({"PIPE"}), i))
  /\ \A k \in Before(OfType({"PIPE"}), i) : \E a \in Arguments(CommandOf(k)) : a < k
  /\ \A c \in 1 .. Len(cmds) : Faithful(c, i)

Parsing == phase \notin {"read", "lex", "exited"} => ReadSoFar

(* Storing a block changes the text of its place only.                     *)
LEMMA PutsText ==
  ASSUME LineInv, NEW x, NEW b, PutsBlock(x, b)
  PROVE  \A y : Text(y)' = IF y = x THEN b.token ELSE Text(y)
<1>1. /\ Places' = Places \cup {x} /\ heap'[Pointer(x)'] = b
      /\ \A y \in Places : y # x => heap'[Pointer(y)'] = heap[Pointer(y)]
  BY PutsBlockOwns
<1> QED
  BY <1>1 DEF Text

(* Tokens that have been read are written before END.                      *)
LEMMA ReadIsWritten ==
  ASSUME LineInv, ReadSoFar
  PROVE  1 .. i \subseteq Written /\ i \in Nat /\ i <= Len(tokens)
<1>1. i \in 0 .. Len(tokens) /\ Len(tokens) \in Nat /\ DOMAIN tokens = 1 .. Len(tokens)
  BY SMT, Z3 DEF LineInv, TypeOK
<1>2. ASSUME NEW k \in 1 .. i PROVE k \in Written
  <2>1. k \in 1 .. Len(tokens) /\ \A e \in 1 .. k : e \in 1 .. i
    BY SMT, Z3, <1>1
  <2> QED
    BY <1>1, <2>1 DEF Written, ReadSoFar
<1> QED
  BY SMT, Z3, <1>1, <1>2

(* The token that is next belongs to the command that is being filled, and *)
(* the ones before it to this one or an earlier one.                       *)
LEMMA CommandNow ==
  ASSUME LineInv, ReadSoFar
  PROVE  /\ CommandOf(i + 1) = Len(cmds)
         /\ \A k \in 1 .. i + 1 : CommandOf(k) <= Len(cmds)
<1> DEFINE P == OfType({"PIPE"})
           R == Before(P, i)
<1>1. P \subseteq 1 .. Len(tokens) /\ IsFiniteSet(P) /\ i \in Nat /\ Len(tokens) \in Nat
  BY TokenSets, ReadIsWritten
<1>2. IsFiniteSet(R) /\ R \subseteq P
  <2>1. R \subseteq P
    BY DEF Before
  <2> QED
    BY <1>1, <2>1, FS_Subset
<1>3. {p \in P : p < i + 1} = R
  BY SMT, Z3, <1>1 DEF Before
<1>4. Len(cmds) = 1 + Cardinality(R) /\ Cardinality(R) \in Nat
  BY <1>2, FS_CardinalityType DEF ReadSoFar
<1>5. ASSUME NEW k \in 1 .. i + 1 PROVE CommandOf(k) <= Len(cmds)
  <2> DEFINE S == {p \in P : p < k}
  <2>1. S \subseteq R
    BY SMT, Z3, <1>1 DEF Before
  <2> HIDE DEF S, R
  <2>2. Cardinality(S) <= Cardinality(R) /\ IsFiniteSet(S)
    BY <1>2, <2>1, FS_Subset
  <2>3. Cardinality(S) \in Nat
    BY <2>2, FS_CardinalityType
  <2>4. CommandOf(k) = 1 + Cardinality(S)
    BY DEF CommandOf, S
  <2> QED
    BY SMT, Z3, <1>4, <2>2, <2>3, <2>4
<1> HIDE DEF R
<1> QED
  BY <1>3, <1>4, <1>5 DEF CommandOf

(* The next token, as the reading has it: a WORD there is an argument,     *)
(* since the target of a redirection is read together with it.             *)
LEMMA TokenNow ==
  ASSUME LineInv, ReadSoFar, i < Len(tokens), tokens[i+1].type # "END"
  PROVE  /\ i + 1 \in Written /\ i + 1 \notin Targets
         /\ \A T : i + 1 \in OfType(T) <=> tokens[i+1].type \in T
<1>1. 1 .. i \subseteq Written /\ i \in Nat /\ Len(tokens) \in Nat
      /\ DOMAIN tokens = 1 .. Len(tokens)
  BY TokenSets, ReadIsWritten
<1>2. i + 1 \in 1 .. Len(tokens) /\ \A e \in 1 .. i + 1 : e \in 1 .. i \/ e = i + 1
  BY SMT, Z3, <1>1
<1>3. \A e \in 1 .. i + 1 : tokens[e].type # "END"
  BY <1>2 DEF ReadSoFar
<1>4. i + 1 \in Written
  BY <1>1, <1>2, <1>3 DEF Written
<1>5. \A T : i + 1 \in OfType(T) <=> tokens[i+1].type \in T
  BY <1>4 DEF OfType
<1>6. i + 1 \notin Targets
  <2> SUFFICES ASSUME i + 1 \in Targets PROVE FALSE
    OBVIOUS
  <2>1. i \in OfType(Redirects)
    <3>1. (i + 1) - 1 = i
      BY SMT, Z3, <1>1
    <3> QED
      BY <3>1 DEF Targets
  <2>2. i \in 1 .. Len(tokens) /\ tokens[i].type \in Redirects
    BY <2>1, TokenSets DEF OfType
  <2>3. i \in 1 .. i
    BY SMT, Z3, <1>1, <2>2
  <2>4. i + 1 <= i
    BY <2>2, <2>3 DEF ReadSoFar
  <2> QED
    BY SMT, Z3, <1>1, <2>4
<1> QED
  BY <1>4, <1>5, <1>6

(* One token more.                                                         *)
LEMMA OneMore ==
  ASSUME NEW n \in Nat, NEW S \in SUBSET Nat
  PROVE  Before(S, n + 1) = Before(S, n) \cup (IF n + 1 \in S THEN {n + 1} ELSE {})
<1>1. \A k \in S : k <= n + 1 <=> k <= n \/ k = n + 1
  BY SMT, Z3
<1> QED
  BY <1>1 DEF Before

(* A token outside the set adds nothing to what came before.               *)
LEMMA NoMore ==
  ASSUME NEW n \in Nat, NEW S \in SUBSET Nat, n + 1 \notin S
  PROVE  Before(S, n + 1) = Before(S, n)
<1>1. \A k \in S : k <= n + 1 <=> k <= n
  BY SMT, Z3
<1> QED
  BY <1>1 DEF Before

(* A command after a step, by the reading before it.                       *)
LEMMA FaithfulNext ==
  ASSUME tokens' = tokens, NEW c, NEW m,
         InOrder(Texts(c)', Before(Arguments(c), m)),
         Text(File(c, "input"))' = LastOf(Before(TargetsOf(c, {"REDIRECT_IN"}), m)),
         Text(File(c, "output"))' = LastOf(Before(TargetsOf(c, Outs), m)),
         cmds'[c].append <=> LastOf(Before(TargetsOf(c, Outs), m))
                               \in TargetsOf(c, {"REDIRECT_APPEND"}),
         cmds'[c].background <=>
           \E k \in Before(OfType({"AMPERSAND"}), m) : CommandOf(k) = c
  PROVE  Faithful(c, m)'
BY ReadingKept DEF Faithful, Before, LastOf, InOrder, Outs

(* A command that the tokens read in a step do not belong to.              *)
LEMMA FaithfulKept ==
  ASSUME LineInv, tokens' = tokens, NEW c, NEW n \in Nat, NEW m \in Nat, n <= m,
         Faithful(c, n),
         \A k \in OfType({"WORD", "AMPERSAND"}) : n < k /\ k <= m => CommandOf(k) # c,
         Len(cmds'[c].argv) = Len(cmds[c].argv),
         cmds'[c].append = cmds[c].append,
         cmds'[c].background = cmds[c].background,
         \A y : y.cmd = c => Text(y)' = Text(y)
  PROVE  Faithful(c, m)'
<1> DEFINE Used == OfType({"WORD", "AMPERSAND"})
<1>1. Used \subseteq Nat
  BY SMT, Z3, TokenSets
<1>2. ASSUME NEW S, S \subseteq Used, \A k \in S : CommandOf(k) = c
      PROVE  Before(S, m) = Before(S, n)
  <2>1. \A k \in S : k <= m <=> k <= n
    BY SMT, Z3, <1>1, <1>2
  <2> QED
    BY <2>1 DEF Before
<1>3. Before(Arguments(c), m) = Before(Arguments(c), n)
  BY <1>2 DEF Arguments, OfType
<1>4. \A T : Before(TargetsOf(c, T), m) = Before(TargetsOf(c, T), n)
  BY <1>2 DEF TargetsOf, Targets, OfType
<1>5. (\E k \in Before(OfType({"AMPERSAND"}), m) : CommandOf(k) = c)
        <=> \E k \in Before(OfType({"AMPERSAND"}), n) : CommandOf(k) = c
  <2>1. OfType({"AMPERSAND"}) \subseteq Used
    BY DEF OfType
  <2>2. ASSUME NEW k \in OfType({"AMPERSAND"}), CommandOf(k) = c
        PROVE  k <= m <=> k <= n
    <3>1. k \in Used /\ k \in Nat
      BY <1>1, <2>1
    <3>2. ~ (n < k /\ k <= m)
      BY <2>2, <3>1
    <3> QED
      BY SMT, Z3, <3>1, <3>2
  <2> QED
    BY <2>2 DEF Before
<1>6. Texts(c)' = Texts(c)
  BY DEF Texts, Arg
<1>7. \A f : Text(File(c, f))' = Text(File(c, f))
  BY DEF File
<1> QED
  BY <1>3, <1>4, <1>5, <1>6, <1>7, FaithfulNext DEF Faithful

(* The parts of ReadSoFar that are about the tokens, when token i+1 has    *)
(* been read: it may be a pipe if its command has an argument.             *)
LEMMA ReadOne ==
  ASSUME LineInv, ReadSoFar, i < Len(tokens), tokens' = tokens, i' = i + 1,
         tokens[i+1].type \notin Redirects \cup {"END"},
         tokens[i+1].type = "PIPE" => \E a \in Arguments(Len(cmds)) : a < i + 1
  PROVE  /\ \A k \in 1 .. i' : tokens'[k].type # "END"
         /\ \A k \in 1 .. i' : tokens'[k].type \in Redirects =>
                                 k + 1 <= i' /\ tokens'[k+1].type = "WORD"
         /\ Cardinality(Before(OfType({"PIPE"}), i)') =
              Len(cmds) - 1 + (IF tokens[i+1].type = "PIPE" THEN 1 ELSE 0)
         /\ \A k \in Before(OfType({"PIPE"}), i)' :
              \E a \in (Arguments(CommandOf(k)))' : a < k
<1>1. i \in Nat /\ Len(cmds) \in Nat
  BY SMT, Z3, ReadIsWritten DEF LineInv, LineShape
<1>2. \A k \in 1 .. i' : k \in 1 .. i \/ k = i + 1
  BY SMT, Z3, <1>1
<1>3. \A k \in 1 .. i' : tokens'[k].type # "END"
  BY <1>2 DEF ReadSoFar
<1>4. ASSUME NEW k \in 1 .. i', tokens'[k].type \in Redirects
      PROVE  k + 1 <= i' /\ tokens'[k+1].type = "WORD"
  <2>1. k \in 1 .. i
    BY <1>2, <1>4
  <2>2. k + 1 <= i /\ tokens[k+1].type = "WORD"
    BY <1>4, <2>1 DEF ReadSoFar
  <2> QED
    BY SMT, Z3, <1>1, <2>2
<1>5. Cardinality(Before(OfType({"PIPE"}), i)') =
        Len(cmds) - 1 + (IF tokens[i+1].type = "PIPE" THEN 1 ELSE 0)
  <2> DEFINE P == OfType({"PIPE"})
             R == Before(P, i)
  <2>1. P' = P
    BY ReadingKept
  <2>2. P \subseteq Nat /\ IsFiniteSet(P)
    BY SMT, Z3, TokenSets
  <2>3. i + 1 \in P <=> tokens[i+1].type = "PIPE"
    BY TokenNow
  <2>4. R' = R \cup (IF i + 1 \in P THEN {i + 1} ELSE {})
    <3>1. R' = Before(P, i + 1)
      BY <2>1 DEF Before
    <3> HIDE DEF P, R
    <3> QED
      BY <1>1, <2>2, <3>1, OneMore DEF R
  <2>5. IsFiniteSet(R) /\ i + 1 \notin R
    <3>1. R \subseteq P /\ i + 1 \notin R
      BY SMT, Z3, <1>1 DEF Before
    <3> QED
      BY <2>2, <3>1, FS_Subset
  <2>6. Cardinality(R) = Len(cmds) - 1 /\ Cardinality(R) \in Nat
    BY SMT, Z3, <1>1, <2>5, FS_CardinalityType DEF ReadSoFar
  <2>7. Cardinality(R \cup {i + 1}) = Cardinality(R) + 1
    BY <2>5, FS_AddElement
  <2> HIDE DEF P, R
  <2>8. Cardinality(R') = Cardinality(R) + (IF i + 1 \in P THEN 1 ELSE 0)
    <3>1. CASE i + 1 \in P
      BY <2>4, <2>7, <3>1
    <3>2. CASE i + 1 \notin P
      <4>1. R' = R
        BY <2>4, <3>2
      <4> QED
        BY SMT, Z3, <2>6, <3>2, <4>1
    <3> QED
      BY <3>1, <3>2
  <2> QED
    BY <2>3, <2>6, <2>8 DEF P, R
<1>6. ASSUME NEW k \in Before(OfType({"PIPE"}), i)'
      PROVE  \E a \in (Arguments(CommandOf(k)))' : a < k
  <2>1. (Arguments(CommandOf(k)))' = Arguments(CommandOf(k))
    BY ReadingKept
  <2>2. k \in OfType({"PIPE"}) /\ k <= i + 1 /\ k \in Nat
    <3>1. k \in OfType({"PIPE"}) /\ k <= i + 1
      BY ReadingKept DEF Before
    <3> QED
      BY SMT, Z3, <3>1, TokenSets
  <2>3. CASE k <= i
    <3>1. k \in Before(OfType({"PIPE"}), i)
      BY <2>2, <2>3 DEF Before
    <3> QED
      BY <2>1, <3>1 DEF ReadSoFar
  <2>4. CASE k = i + 1
    <3>1. tokens[i+1].type = "PIPE"
      BY <2>2, <2>4 DEF OfType
    <3>2. CommandOf(k) = Len(cmds)
      BY <2>4, CommandNow
    <3> QED
      BY <2>1, <2>4, <3>1, <3>2
  <2> QED
    BY SMT, Z3, <1>1, <2>2, <2>3, <2>4
<1> QED
  BY <1>3, <1>4, <1>5, <1>6

(* A word becomes the next argument of the last command.                   *)
LEMMA AddArgumentReads ==
  ASSUME LineInv, ReadSoFar, AddArgument
  PROVE  ReadSoFar'
<1>1. PICK K, n : K = Len(cmds) /\ n = i
  OBVIOUS
<1>2. /\ phase = "parse" /\ n < Len(tokens) /\ tokens[n+1].type = "WORD"
      /\ tokens' = tokens /\ i' = n + 1
      /\ PutsBlock(ArgumentPlace, Block(n + 1, 0)) /\ ArgumentPlace \notin Places
  BY <1>1, AddArgumentPuts DEF AddArgument, Turn
<1>3. /\ K \in Nat \ {0} /\ K \in 1 .. K /\ cmds \in Seq(Commands)
      /\ cmd.argv \in Seq(Nat) /\ Len(cmd.argv) \in Nat /\ n \in Nat
  BY <1>1, <1>2, LastCommand
<1>4. PICK x, b : x = ArgumentPlace /\ b = Block(n + 1, 0)
  OBVIOUS
<1>5. PICK L \in Nat : L = Len(cmds[K].argv)
  BY <1>1, <1>3 DEF cmd
<1>6. x = Arg(K, L + 1) /\ b.token = n + 1 /\ PutsBlock(x, b)
  BY <1>1, <1>2, <1>4, <1>5 DEF ArgumentPlace, Arg, Block, cmd
<1>7. \A y : Text(y)' = IF y = x THEN n + 1 ELSE Text(y)
  BY <1>6, PutsText
<1>8. /\ Len(cmds') = K
      /\ \A l \in 1 .. K : l # K => cmds'[l] = cmds[l]
      /\ Len(cmds'[K].argv) = L + 1
      /\ cmds'[K].append = cmds[K].append /\ cmds'[K].background = cmds[K].background
  <2> DEFINE w == Append(cmd.argv, Address(heap))
             c == [cmd EXCEPT !.argv = w]
  <2>1. cmds' = [cmds EXCEPT ![K] = c]
    BY <1>1 DEF AddArgument, SetCmd
  <2>2. Len(w) = L + 1
    BY SMT, Z3, <1>1, <1>3, <1>5 DEF cmd
  <2> HIDE DEF w
  <2>3. cmd = cmds[K] /\ cmds[K] \in Commands
    BY SMT, Z3, <1>1, <1>3 DEF cmd
  <2>4. c.argv = w /\ c.append = cmds[K].append /\ c.background = cmds[K].background
    BY <2>3 DEF Commands
  <2> HIDE DEF c
  <2>5. cmds'[K] = c /\ Len(cmds') = K /\ \A l \in 1 .. K : l # K => cmds'[l] = cmds[l]
    BY SMT, Z3, <1>1, <1>3, <2>1
  <2> QED
    BY <2>2, <2>4, <2>5
<1>9. /\ n + 1 \in Written /\ n + 1 \notin Targets /\ CommandOf(n + 1) = K
      /\ \A T : n + 1 \in OfType(T) <=> "WORD" \in T
  BY <1>1, <1>2, TokenNow, CommandNow
<1>10. \A k \in Written : n < k /\ k <= n + 1 => k = n + 1
  BY SMT, Z3, <1>3, TokenSets
<1>11. ASSUME NEW c \in 1 .. K, c # K PROVE Faithful(c, n + 1)'
  <2>1. \A k \in OfType({"WORD", "AMPERSAND"}) :
          n < k /\ k <= n + 1 => CommandOf(k) # c
    BY <1>9, <1>10, <1>11, TokenSets
  <2>2. \A y : y.cmd = c => Text(y)' = Text(y)
    BY SMT, Z3, <1>6, <1>7, <1>11 DEF Arg
  <2>3. Faithful(c, n) /\ cmds'[c] = cmds[c] /\ n + 1 \in Nat /\ n <= n + 1
    BY SMT, Z3, <1>1, <1>3, <1>8, <1>11 DEF ReadSoFar
  <2> QED
    BY <1>2, <1>3, <2>1, <2>2, <2>3, FaithfulKept
<1>12. Faithful(K, n + 1)'
  <2>1. Faithful(K, n)
    BY <1>1, <1>3 DEF ReadSoFar
  <2>2. \A S : S \subseteq Written => S \in SUBSET Nat
    BY SMT, Z3, TokenSets
  <2>3. ASSUME NEW S, S \subseteq Written, n + 1 \notin S
        PROVE  Before(S, n + 1) = Before(S, n)
    <3>1. S \in SUBSET Nat
      BY <2>2, <2>3
    <3> QED
      BY <1>3, <2>3, <3>1, NoMore
  <2>4. \A T : Before(TargetsOf(K, T), n + 1) = Before(TargetsOf(K, T), n)
    BY <1>9, <2>3, TokenSets DEF TargetsOf
  <2>5. Before(OfType({"AMPERSAND"}), n + 1) = Before(OfType({"AMPERSAND"}), n)
    BY SMT, Z3, <1>9, <2>3, TokenSets
  <2>6. Before(Arguments(K), n + 1) = Before(Arguments(K), n) \cup {n + 1}
    <3>1. n + 1 \in Arguments(K) /\ Arguments(K) \in SUBSET Nat
      BY <1>9, <2>2, TokenSets DEF Arguments
    <3> QED
      BY <1>3, <3>1, OneMore
  <2>7. InOrder(Texts(K)', Before(Arguments(K), n + 1))
    <3>1. PICK u, v : u = Texts(K) /\ v = Texts(K)'
      OBVIOUS
    <3>2. DOMAIN u = 1 .. L /\ DOMAIN v = 1 .. L + 1
      BY <1>5, <1>8, <3>1 DEF Texts
    <3>3. \A j \in 1 .. L : v[j] = u[j]
      BY SMT, Z3, <1>5, <1>6, <1>7, <1>8, <3>1 DEF Texts, Arg
    <3>4. v[L + 1] = n + 1
      BY SMT, Z3, <1>6, <1>7, <1>8, <3>1 DEF Texts, Arg
    <3>5. InOrder(u, Before(Arguments(K), n))
      BY <2>1, <3>1 DEF Faithful
    <3>6. /\ Before(Arguments(K), n) \in SUBSET Nat
          /\ \A k \in Before(Arguments(K), n) : k < v[L + 1]
      BY SMT, Z3, <1>3, <2>2, <3>4, TokenSets DEF Before
    <3>7. InOrder(v, Before(Arguments(K), n) \cup {v[L + 1]})
      BY <3>2, <3>3, <3>5, <3>6, InOrderGrows
    <3> QED
      BY <2>6, <3>1, <3>4, <3>7
  <2>8. \A f \in {"input", "output"} : Text(File(K, f))' = Text(File(K, f))
    BY <1>6, <1>7 DEF File, Arg
  <2> QED
    BY <1>2, <1>8, <2>1, <2>4, <2>5, <2>7, <2>8, FaithfulNext DEF Faithful
<1>13. \A c \in 1 .. K : Faithful(c, n + 1)'
  BY <1>11, <1>12
<1>14. /\ \A k \in 1 .. i' : tokens'[k].type # "END"
       /\ \A k \in 1 .. i' : tokens'[k].type \in Redirects =>
                               k + 1 <= i' /\ tokens'[k+1].type = "WORD"
       /\ Cardinality(Before(OfType({"PIPE"}), i)') = K - 1
       /\ \A k \in Before(OfType({"PIPE"}), i)' :
            \E a \in (Arguments(CommandOf(k)))' : a < k
  BY SMT, Z3, <1>1, <1>2, <1>3, ReadOne DEF Redirects
<1>15. \A c \in 1 .. K : Faithful(c, i)'
  BY <1>2, <1>13 DEF Faithful, Before
<1> QED
  BY SMT, Z3, <1>3, <1>8, <1>14, <1>15 DEF ReadSoFar

(* An ampersand marks the last command.                                    *)
LEMMA AmpersandReads ==
  ASSUME LineInv, ReadSoFar, Ampersand
  PROVE  ReadSoFar'
<1>1. PICK K, n : K = Len(cmds) /\ n = i
  OBVIOUS
<1>2. /\ phase = "parse" /\ n < Len(tokens) /\ tokens[n+1].type = "AMPERSAND"
      /\ tokens' = tokens /\ i' = n + 1 /\ heap' = heap
  BY <1>1 DEF Ampersand, Turn
<1>3. /\ K \in Nat \ {0} /\ K \in 1 .. K /\ n \in Nat
  BY <1>1, <1>2, LastCommand
<1>4. /\ Len(cmds') = K
      /\ Places' = Places /\ \A y \in Places : Pointer(y)' = Pointer(y)
      /\ \A l \in 1 .. K :
           /\ cmds'[l].argv = cmds[l].argv
           /\ cmds'[l].append = cmds[l].append
           /\ cmds'[l].background = (cmds[l].background \/ l = K)
  BY <1>1, AmpersandOwns
<1>5. \A y : Text(y)' = Text(y)
  BY <1>2, <1>4 DEF Text
<1>6. /\ n + 1 \in Written /\ CommandOf(n + 1) = K
      /\ \A T : n + 1 \in OfType(T) <=> "AMPERSAND" \in T
  BY <1>1, <1>2, TokenNow, CommandNow
<1>7. \A k \in Written : n < k /\ k <= n + 1 => k = n + 1
  BY SMT, Z3, <1>3, TokenSets
<1>8. ASSUME NEW c \in 1 .. K, c # K PROVE Faithful(c, n + 1)'
  <2>1. \A k \in OfType({"WORD", "AMPERSAND"}) :
          n < k /\ k <= n + 1 => CommandOf(k) # c
    BY <1>6, <1>7, <1>8, TokenSets
  <2>2. cmds[c].background \in BOOLEAN
    <3>1. cmds[c] \in Commands
      BY SMT, Z3, <1>1 DEF LineInv, LineShape
    <3> QED
      BY <3>1 DEF Commands
  <2>3. Faithful(c, n) /\ n + 1 \in Nat /\ n <= n + 1
    BY SMT, Z3, <1>1, <1>3 DEF ReadSoFar
  <2> QED
    BY <1>2, <1>3, <1>4, <1>5, <1>8, <2>1, <2>2, <2>3, FaithfulKept
<1>9. Faithful(K, n + 1)'
  <2>1. Faithful(K, n)
    BY <1>1, <1>3 DEF ReadSoFar
  <2>2. ASSUME NEW S, S \subseteq OfType({"WORD"})
        PROVE  Before(S, n + 1) = Before(S, n)
    <3>1. S \in SUBSET Nat /\ n + 1 \notin S
      BY SMT, Z3, <1>6, <2>2, TokenSets
    <3> QED
      BY <1>3, <3>1, NoMore
  <2>3. \A T : Before(TargetsOf(K, T), n + 1) = Before(TargetsOf(K, T), n)
    BY <2>2 DEF TargetsOf, Targets
  <2>4. Before(Arguments(K), n + 1) = Before(Arguments(K), n)
    BY <2>2 DEF Arguments
  <2>5. n + 1 \in Before(OfType({"AMPERSAND"}), n + 1)
    BY SMT, Z3, <1>3, <1>6 DEF Before
  <2>6. Texts(K)' = Texts(K)
    BY <1>3, <1>4, <1>5 DEF Texts
  <2>7. cmds'[K].background = TRUE /\ cmds'[K].append = cmds[K].append
    BY <1>3, <1>4
  <2> QED
    BY <1>2, <1>5, <1>6, <2>1, <2>3, <2>4, <2>5, <2>6, <2>7, FaithfulNext DEF Faithful
<1>10. \A c \in 1 .. K : Faithful(c, i)'
  BY <1>2, <1>8, <1>9 DEF Faithful, Before
<1>11. /\ \A k \in 1 .. i' : tokens'[k].type # "END"
       /\ \A k \in 1 .. i' : tokens'[k].type \in Redirects =>
                               k + 1 <= i' /\ tokens'[k+1].type = "WORD"
       /\ Cardinality(Before(OfType({"PIPE"}), i)') = K - 1
       /\ \A k \in Before(OfType({"PIPE"}), i)' :
            \E a \in (Arguments(CommandOf(k)))' : a < k
  BY SMT, Z3, <1>1, <1>2, <1>3, ReadOne DEF Redirects
<1> QED
  BY SMT, Z3, <1>3, <1>4, <1>10, <1>11 DEF ReadSoFar

(* A pipe ends a command and starts the next.                              *)
LEMMA PipeReads ==
  ASSUME LineInv, ReadSoFar, Pipe
  PROVE  ReadSoFar'
<1>1. PICK K, n : K = Len(cmds) /\ n = i
  OBVIOUS
<1>2. /\ phase = "parse" /\ n < Len(tokens) /\ tokens[n+1].type = "PIPE"
      /\ tokens' = tokens /\ i' = n + 1 /\ heap' = heap /\ ~PipeRefused
  BY <1>1 DEF Pipe, Turn
<1>3. /\ K \in Nat \ {0} /\ K \in 1 .. K /\ n \in Nat /\ cmd.argv \in Seq(Nat)
  BY <1>1, <1>2, LastCommand
<1>4. /\ Len(cmds') = K + 1 /\ cmds'[K+1] = NoCommand
      /\ Places' = Places /\ \A y \in Places : Pointer(y)' = Pointer(y)
      /\ \A l \in 1 .. K : cmds'[l] = cmds[l]
  BY <1>1, PipeOwns
<1>5. \A y : Text(y)' = Text(y)
  BY <1>2, <1>4 DEF Text
<1>6. /\ \A k \in 1 .. n + 1 : CommandOf(k) <= K
      /\ \A T : n + 1 \in OfType(T) <=> "PIPE" \in T
  BY <1>1, <1>2, TokenNow, CommandNow
<1>7. \A k \in Written : n < k /\ k <= n + 1 => k = n + 1
  BY SMT, Z3, <1>3, TokenSets
<1>8. ASSUME NEW c \in 1 .. K PROVE Faithful(c, n + 1)'
  <2>1. \A k \in OfType({"WORD", "AMPERSAND"}) : ~ (n < k /\ k <= n + 1)
    BY SMT, Z3, <1>6, <1>7, TokenSets
  <2>2. Faithful(c, n) /\ n + 1 \in Nat /\ n <= n + 1
    BY SMT, Z3, <1>1, <1>3 DEF ReadSoFar
  <2> QED
    BY <1>2, <1>3, <1>4, <1>5, <1>8, <2>1, <2>2, FaithfulKept
<1>9. Faithful(K + 1, n + 1)'
  <2>1. \A k \in Written : k <= n + 1 => CommandOf(k) # K + 1
    <3>1. \A k \in Written : k <= n + 1 => k \in 1 .. n + 1
      BY SMT, Z3, <1>3, TokenSets
    <3>2. \A k : CommandOf(k) \in Nat
      BY TokenSets
    <3> QED
      BY SMT, Z3, <1>3, <1>6, <3>1, <3>2
  <2>2. Before(Arguments(K + 1), n + 1) = {}
    BY <2>1, TokenSets DEF Before, Arguments
  <2>3. \A T : Before(TargetsOf(K + 1, T), n + 1) = {}
    BY <2>1, TokenSets DEF Before, TargetsOf
  <2>4. ~ \E k \in Before(OfType({"AMPERSAND"}), n + 1) : CommandOf(k) = K + 1
    BY <2>1, TokenSets DEF Before
  <2>5. Len(cmds'[K+1].argv) = 0
    BY SMT, Z3, <1>4 DEF NoCommand
  <2>6. InOrder(Texts(K + 1)', {})
    <3>1. DOMAIN (Texts(K + 1)') = {}
      BY SMT, Z3, <2>5 DEF Texts
    <3> QED
      BY <3>1 DEF InOrder, Range
  <2>7. \A f : Text(File(K + 1, f))' = 0
    <3>1. \A f : File(K + 1, f) \notin Places
      BY SMT, Z3, <1>1, <1>3 DEF Places, PlacesOf, File
    <3> QED
      BY <1>4, <3>1 DEF Text
  <2>8. ~cmds'[K+1].append /\ ~cmds'[K+1].background
    BY SMT, Z3, <1>4 DEF NoCommand
  <2>9. 0 \notin TargetsOf(K + 1, {"REDIRECT_APPEND"})
    BY SMT, Z3, TokenSets
  <2>10. LastOf({}) = 0
    BY DEF LastOf
  <2> QED
    BY <1>2, <2>2, <2>3, <2>4, <2>6, <2>7, <2>8, <2>9, <2>10, FaithfulNext
<1>10. \A c \in 1 .. K + 1 : Faithful(c, i)'
  <2>1. \A c \in 1 .. K + 1 : c \in 1 .. K \/ c = K + 1
    BY SMT, Z3, <1>3
  <2> QED
    BY <1>2, <1>8, <1>9, <2>1 DEF Faithful, Before
<1>11. \E a \in Arguments(K) : a < n + 1
  <2>1. Len(cmd.argv) \in Nat \ {0}
    BY SMT, Z3, <1>2, <1>3 DEF PipeRefused
  <2>2. Faithful(K, n)
    BY <1>1, <1>3 DEF ReadSoFar
  <2>3. 1 \in DOMAIN Texts(K)
    BY SMT, Z3, <1>1, <2>1 DEF Texts, cmd
  <2>4. Texts(K)[1] \in Before(Arguments(K), n)
    BY <2>2, <2>3 DEF Faithful, InOrder, Range
  <2>5. Arguments(K) \subseteq Nat
    BY SMT, Z3, TokenSets
  <2> QED
    BY SMT, Z3, <1>3, <2>4, <2>5 DEF Before
<1>12. /\ \A k \in 1 .. i' : tokens'[k].type # "END"
       /\ \A k \in 1 .. i' : tokens'[k].type \in Redirects =>
                               k + 1 <= i' /\ tokens'[k+1].type = "WORD"
       /\ Cardinality(Before(OfType({"PIPE"}), i)') = K - 1 + 1
       /\ \A k \in Before(OfType({"PIPE"}), i)' :
            \E a \in (Arguments(CommandOf(k)))' : a < k
  BY <1>1, <1>2, <1>3, <1>11, ReadOne DEF Redirects
<1> QED
  BY SMT, Z3, <1>3, <1>4, <1>10, <1>12 DEF ReadSoFar

(* A redirection and its target are read together.                         *)
LEMMA RedirectReads ==
  ASSUME LineInv, ReadSoFar, NEW type \in Redirects, Redirect(type)
  PROVE  ReadSoFar'
<1>1. PICK K, n : K = Len(cmds) /\ n = i
  OBVIOUS
<1>2. /\ phase = "parse" /\ n + 1 < Len(tokens) /\ tokens[n+1].type = type
      /\ tokens[n+2].type = "WORD" /\ tokens' = tokens /\ i' = n + 2
      /\ PutsBlock(FilePlace(type), Block(n + 2, 0))
      /\ cmds'[K].background = cmds[K].background
      /\ cmds'[K].append = IF type = "REDIRECT_IN" THEN cmds[K].append
                           ELSE type = "REDIRECT_APPEND"
  BY <1>1, RedirectPuts DEF Redirect, Turn, HasTarget, cmd
<1>3. /\ K \in Nat \ {0} /\ K \in 1 .. K /\ n \in Nat /\ Len(tokens) \in Nat
  BY <1>1, <1>2, LastCommand
<1>4. PICK x, b : x = FilePlace(type) /\ b = Block(n + 2, 0)
  OBVIOUS
<1> DEFINE field == IF type = "REDIRECT_IN" THEN "input" ELSE "output"
<1>5. x = File(K, field) /\ b.token = n + 2 /\ PutsBlock(x, b)
  BY <1>1, <1>2, <1>4 DEF FilePlace, File, Block
<1>6. \A y : Text(y)' = IF y = x THEN n + 2 ELSE Text(y)
  BY <1>5, PutsText
<1>7. /\ Len(cmds') = K /\ cmds'[K].argv = cmds[K].argv
      /\ \A l \in 1 .. K : l # K => cmds'[l] = cmds[l]
  <2>1. Puts(x, Address(heap)) /\ x.cmd = K /\ x.field # "argv"
    BY <1>5 DEF PutsBlock, File
  <2> QED
    BY <1>1, <2>1 DEF Puts
<1>8. /\ n + 1 \in Written /\ CommandOf(n + 1) = K
      /\ \A T : n + 1 \in OfType(T) <=> type \in T
  <2>1. i < Len(tokens) /\ tokens[i+1].type = type /\ type # "END"
    BY SMT, Z3, <1>1, <1>2, <1>3 DEF Redirects
  <2> QED
    BY <1>1, <2>1, TokenNow, CommandNow
<1>9. /\ n + 2 \in Written /\ n + 2 \in 1 .. Len(tokens)
      /\ \A T : n + 2 \in OfType(T) <=> "WORD" \in T
  <2>1. /\ n + 2 \in 1 .. Len(tokens) /\ DOMAIN tokens = 1 .. Len(tokens)
        /\ \A e \in 1 .. n + 2 : e \in 1 .. n + 1 \/ e = n + 2
    BY SMT, Z3, <1>2, <1>3, TokenSets
  <2>2. \A e \in 1 .. n + 1 : tokens[e].type # "END"
    BY <1>3, <1>8 DEF Written
  <2>3. n + 2 \in Written
    BY <1>2, <2>1, <2>2 DEF Written
  <2> QED
    BY <1>2, <2>1, <2>3 DEF OfType
<1>10. n + 2 \in Targets /\ (n + 2) - 1 = n + 1
  BY SMT, Z3, <1>3, <1>8, <1>9 DEF Targets
<1>11. CommandOf(n + 2) = K
  <2>1. \A p \in OfType({"PIPE"}) : p < n + 2 <=> p < n + 1
    <3>1. n + 1 \notin OfType({"PIPE"}) /\ OfType({"PIPE"}) \subseteq Nat
      BY SMT, Z3, <1>8, TokenSets DEF Redirects
    <3> QED
      BY SMT, Z3, <1>3, <3>1
  <2>2. {p \in OfType({"PIPE"}) : p < n + 2} = {p \in OfType({"PIPE"}) : p < n + 1}
    BY <2>1
  <2> QED
    BY <1>8, <2>2 DEF CommandOf
<1>12. \A k \in Written : k <= n + 2 <=> k <= n \/ k = n + 1 \/ k = n + 2
  BY SMT, Z3, <1>3, TokenSets
<1>13. ASSUME NEW c \in 1 .. K, c # K PROVE Faithful(c, n + 2)'
  <2>1. \A k \in OfType({"WORD", "AMPERSAND"}) :
          n < k /\ k <= n + 2 => CommandOf(k) # c
    <3>1. OfType({"WORD", "AMPERSAND"}) \subseteq Written /\ Written \subseteq Nat
      BY SMT, Z3, TokenSets
    <3>2. \A k \in Written : n < k /\ k <= n + 2 => k = n + 1 \/ k = n + 2
      BY SMT, Z3, <1>3, <3>1
    <3> QED
      BY <1>8, <1>11, <1>13, <3>1, <3>2
  <2>2. \A y : y.cmd = c => Text(y)' = Text(y)
    BY SMT, Z3, <1>5, <1>6, <1>13 DEF File
  <2>3. Faithful(c, n) /\ cmds'[c] = cmds[c] /\ n + 2 \in Nat /\ n <= n + 2
    BY SMT, Z3, <1>1, <1>3, <1>7, <1>13 DEF ReadSoFar
  <2> QED
    BY <1>2, <1>3, <2>1, <2>2, <2>3, FaithfulKept
<1>14. Faithful(K, n + 2)'
  <2>1. Faithful(K, n)
    BY <1>1, <1>3 DEF ReadSoFar
  <2>2. ASSUME NEW S, S \subseteq Written, n + 1 \notin S, n + 2 \notin S
        PROVE  Before(S, n + 2) = Before(S, n)
    BY <1>12, <2>2 DEF Before
  <2>3. Before(Arguments(K), n + 2) = Before(Arguments(K), n)
    <3>1. n + 1 \notin Arguments(K) /\ n + 2 \notin Arguments(K)
      BY SMT, Z3, <1>8, <1>10 DEF Arguments, Redirects
    <3> QED
      BY <2>2, <3>1, TokenSets
  <2>4. Before(OfType({"AMPERSAND"}), n + 2) = Before(OfType({"AMPERSAND"}), n)
    <3>1. n + 1 \notin OfType({"AMPERSAND"}) /\ n + 2 \notin OfType({"AMPERSAND"})
      BY SMT, Z3, <1>8, <1>9 DEF Redirects
    <3> QED
      BY <2>2, <3>1, TokenSets
  <2>5. \A T : n + 1 \notin TargetsOf(K, T)
    BY SMT, Z3, <1>8 DEF TargetsOf, Targets, Redirects
  <2>6. \A T : n + 2 \in TargetsOf(K, T) <=> type \in T
    BY <1>2, <1>10, <1>11 DEF TargetsOf
  <2>7. ASSUME NEW T, type \notin T
        PROVE  Before(TargetsOf(K, T), n + 2) = Before(TargetsOf(K, T), n)
    BY <2>2, <2>5, <2>6, <2>7, TokenSets
  <2>8. ASSUME NEW T, type \in T
        PROVE  LastOf(Before(TargetsOf(K, T), n + 2)) = n + 2
    <3> DEFINE S == TargetsOf(K, T)
    <3>1. S \subseteq Written /\ S \subseteq Nat /\ n + 1 \notin S /\ n + 2 \in S
      BY SMT, Z3, <2>5, <2>6, <2>8, TokenSets
    <3> HIDE DEF S
    <3>2. Before(S, n + 2) = Before(S, n) \cup {n + 2}
      BY <1>3, <1>12, <3>1 DEF Before
    <3>3. Before(S, n) \in SUBSET Nat /\ \A k \in Before(S, n) : k <= n
      BY <3>1 DEF Before
    <3>4. n + 2 \in Nat /\ \A k \in Before(S, n) : k < n + 2
      BY SMT, Z3, <1>3, <3>3
    <3>5. LastOf(Before(S, n) \cup {n + 2}) = n + 2
      BY <3>3, <3>4, LastAdded
    <3> QED
      BY <3>2, <3>5 DEF S
  <2>9. Texts(K)' = Texts(K)
    BY <1>5, <1>6, <1>7 DEF Texts, Arg, File
  <2>10. CASE type = "REDIRECT_IN"
    <3>1. /\ Text(File(K, "input"))' = n + 2
          /\ Text(File(K, "output"))' = Text(File(K, "output"))
      BY <1>5, <1>6, <2>10 DEF File
    <3>2. /\ LastOf(Before(TargetsOf(K, {"REDIRECT_IN"}), n + 2)) = n + 2
          /\ Before(TargetsOf(K, Outs), n + 2) = Before(TargetsOf(K, Outs), n)
      BY <2>7, <2>8, <2>10 DEF Outs
    <3>3. cmds'[K].append = cmds[K].append
      BY <1>2, <2>10
    <3> QED
      BY SMT, Z3, <1>2, <2>1, <2>3, <2>4, <2>9, <3>1, <3>2, <3>3, FaithfulNext DEF Faithful
  <2>11. CASE type \in Outs
    <3>1. /\ Text(File(K, "output"))' = n + 2
          /\ Text(File(K, "input"))' = Text(File(K, "input"))
      BY <1>5, <1>6, <2>11 DEF File, Outs
    <3>2. /\ LastOf(Before(TargetsOf(K, Outs), n + 2)) = n + 2
          /\ Before(TargetsOf(K, {"REDIRECT_IN"}), n + 2)
               = Before(TargetsOf(K, {"REDIRECT_IN"}), n)
      BY <2>7, <2>8, <2>11 DEF Outs
    <3>3. cmds'[K].append <=> n + 2 \in TargetsOf(K, {"REDIRECT_APPEND"})
      <4>1. n + 2 \in TargetsOf(K, {"REDIRECT_APPEND"}) <=> type \in {"REDIRECT_APPEND"}
        BY <2>6
      <4> QED
        BY <1>2, <2>11, <4>1 DEF Outs
    <3> QED
      BY SMT, Z3, <1>2, <2>1, <2>3, <2>4, <2>9, <3>1, <3>2, <3>3, FaithfulNext DEF Faithful
  <2> QED
    BY <2>10, <2>11 DEF Redirects, Outs
<1>15. \A c \in 1 .. K : Faithful(c, i)'
  BY <1>2, <1>13, <1>14 DEF Faithful, Before
<1>16. Before(OfType({"PIPE"}), i)' = Before(OfType({"PIPE"}), n)
  <2>1. OfType({"PIPE"})' = OfType({"PIPE"}) /\ OfType({"PIPE"}) \subseteq Written
    BY <1>2, ReadingKept, TokenSets
  <2>2. n + 1 \notin OfType({"PIPE"}) /\ n + 2 \notin OfType({"PIPE"})
    BY SMT, Z3, <1>8, <1>9 DEF Redirects
  <2> QED
    BY <1>2, <1>12, <2>1, <2>2 DEF Before
<1>17. /\ \A k \in 1 .. i' : tokens'[k].type # "END"
       /\ \A k \in 1 .. i' : tokens'[k].type \in Redirects =>
                               k + 1 <= i' /\ tokens'[k+1].type = "WORD"
  <2>1. \A k \in 1 .. i' : k \in 1 .. n \/ k = n + 1 \/ k = n + 2
    BY SMT, Z3, <1>2, <1>3
  <2>2. ASSUME NEW k \in 1 .. n
        PROVE  /\ tokens[k].type # "END"
               /\ tokens[k].type \in Redirects => k + 1 <= n /\ tokens[k+1].type = "WORD"
    BY <1>1 DEF ReadSoFar
  <2>3. n + 1 + 1 = n + 2
    BY SMT, Z3, <1>3
  <2>4. \A k \in 1 .. n : k + 1 <= n => k + 1 <= n + 2
    BY SMT, Z3, <1>3
  <2> QED
    BY SMT, Z3, <1>2, <1>3, <2>1, <2>2, <2>3, <2>4 DEF Redirects
<1>18. \A k \in Before(OfType({"PIPE"}), i)' : \E a \in (Arguments(CommandOf(k)))' : a < k
  <2>1. \A k : (Arguments(CommandOf(k)))' = Arguments(CommandOf(k))
    BY <1>2, ReadingKept
  <2> QED
    BY <1>1, <1>16, <2>1 DEF ReadSoFar
<1>19. Len(cmds') = 1 + Cardinality(Before(OfType({"PIPE"}), i)')
  BY <1>1, <1>7, <1>16 DEF ReadSoFar
<1> QED
  BY <1>7, <1>15, <1>17, <1>18, <1>19 DEF ReadSoFar

(* Expansion changes strings, and not where they come from.                *)
LEMMA ExpandReads ==
  ASSUME LineInv, ReadSoFar, next <= Len(ToExpand), Expand
  PROVE  ReadSoFar'
<1>1. PICK x, b : /\ x = ToExpand[next+1]
                  /\ b = Block(heap[Pointer(x)].token, heap[Pointer(x)].times + 1)
  OBVIOUS
<1>2. /\ PutsBlock(x, b) /\ x \in Places
      /\ \A k \in 1 .. Len(cmds) :
           /\ cmds'[k].append = cmds[k].append
           /\ cmds'[k].background = cmds[k].background
           /\ Len(cmds'[k].argv) = Len(cmds[k].argv)
  BY <1>1, ExpandPuts
<1>3. UNCHANGED <<tokens, i>> /\ Len(cmds') = Len(cmds) /\ i \in Nat
  BY <1>2, ReadIsWritten DEF Expand, PutsBlock, Puts
<1>4. b.token = Text(x)
  BY <1>1, <1>2 DEF Text, Block
<1>5. \A y : Text(y)' = Text(y)
  BY <1>2, <1>4, PutsText
<1>6. PICK n \in Nat : n = i
  BY <1>3
<1>7. ASSUME NEW c \in 1 .. Len(cmds) PROVE Faithful(c, n)'
  <2>1. Faithful(c, n) /\ n <= n
    BY SMT, Z3, <1>6 DEF ReadSoFar
  <2>2. \A k \in OfType({"WORD", "AMPERSAND"}) : ~ (n < k /\ k <= n)
    BY SMT, Z3, <1>6, TokenSets
  <2> QED
    BY <1>2, <1>3, <1>5, <1>6, <2>1, <2>2, FaithfulKept
<1>8. \A c \in 1 .. Len(cmds') : Faithful(c, i)'
  BY <1>3, <1>6, <1>7 DEF Faithful, Before
<1>9. /\ Before(OfType({"PIPE"}), i)' = Before(OfType({"PIPE"}), i)
      /\ \A k : (Arguments(CommandOf(k)))' = Arguments(CommandOf(k))
  BY SMT, Z3, <1>3, ReadingKept DEF Before
<1> QED
  BY <1>3, <1>8, <1>9 DEF ReadSoFar

(* Nothing has been read yet.                                              *)
LEMMA StartReads ==
  ASSUME LineInv, i = 0, cmds = <<NoCommand>>
  PROVE  ReadSoFar
<1>1. \A S : S \subseteq Written => Before(S, i) = {}
  BY SMT, Z3, TokenSets DEF Before
<1>2. Places = {} /\ Len(cmds) = 1 /\ cmds[1] = NoCommand
  BY EmptyPipeline
<1>3. \A k \in 1 .. i : FALSE
  BY SMT, Z3
<1>4. Before(OfType({"PIPE"}), i) = {} /\ Before(OfType({"AMPERSAND"}), i) = {}
  BY <1>1, TokenSets
<1>5. Faithful(1, i)
  <2>1. /\ Before(Arguments(1), i) = {}
        /\ \A T : LastOf(Before(TargetsOf(1, T), i)) = 0
    BY <1>1, TokenSets DEF LastOf
  <2>2. 0 \notin TargetsOf(1, {"REDIRECT_APPEND"})
    BY SMT, Z3, TokenSets
  <2>3. \A y : Text(y) = 0
    BY <1>2 DEF Text
  <2>4. InOrder(Texts(1), {})
    <3>1. Len(cmds[1].argv) = 0
      BY <1>2 DEF NoCommand
    <3>2. DOMAIN Texts(1) = {}
      BY SMT, Z3, <3>1 DEF Texts
    <3> QED
      BY <3>2 DEF InOrder, Range
  <2>5. cmds[1].append = FALSE /\ cmds[1].background = FALSE
    BY <1>2 DEF NoCommand
  <2> QED
    BY <1>4, <2>1, <2>2, <2>3, <2>4, <2>5 DEF Faithful
<1>6. Cardinality(Before(OfType({"PIPE"}), i)) = 0
  BY <1>4, FS_EmptySet
<1>7. \A c \in 1 .. Len(cmds) : c = 1
  BY SMT, Z3, <1>2
<1> QED
  BY SMT, Z3, <1>2, <1>3, <1>4, <1>5, <1>6, <1>7 DEF ReadSoFar

(* The same after a step.                                                  *)
LEMMA StartReadsNext ==
  (LineInv /\ i = 0 /\ cmds = <<NoCommand>>)' => ReadSoFar'
<1>1. LineInv /\ i = 0 /\ cmds = <<NoCommand>> => ReadSoFar
  BY StartReads
<1> QED
  BY <1>1, PTL

(* What was read does not change while nothing is written.                 *)
LEMMA ReadingUnchanged ==
  ASSUME ReadSoFar, UNCHANGED <<tokens, i, cmds, heap>>
  PROVE  ReadSoFar'
<1>1. \A y : Text(y)' = Text(y)
  BY SMT, Z3 DEF Text, Places, PlacesOf, Pointer
<1>2. \A c : Texts(c)' = Texts(c)
  BY <1>1 DEF Texts
<1>3. \A c : Faithful(c, i)' <=> Faithful(c, i)
  BY SMT, Z3, <1>1, <1>2, ReadingKept DEF Faithful, Before, InOrder, LastOf, Outs
<1>4. /\ Before(OfType({"PIPE"}), i)' = Before(OfType({"PIPE"}), i)
      /\ \A k : (Arguments(CommandOf(k)))' = Arguments(CommandOf(k))
  BY SMT, Z3, ReadingKept DEF Before
<1> QED
  BY <1>3, <1>4 DEF ReadSoFar

(* Every step of parse_tokens reads on, and the ones behind it keep what   *)
(* has been read.                                                          *)
LEMMA ParsingStep ==
  LineInv /\ Expanding /\ Parsing /\ [Next]_vars => Parsing'
<1> SUFFICES ASSUME LineInv, Expanding, Parsing, [Next]_vars PROVE Parsing'
  OBVIOUS
<1>1. CASE Moves
  <2>1. phase \in {"parse", "expand", "run"}
    BY <1>1 DEF Moves, WordFails, CopyFails, RedirectFails, RedirectCrashes,
                PipeFails, Turn, Parsed, ExpandFails, Expanded, Run
  <2> QED
    BY <1>1, <2>1, MovesFrame, ReadingUnchanged DEF Parsing
<1>2. CASE ReadLine \/ EndOfInput \/ Release \/ ParseError
  BY <1>2 DEF ReadLine, EndOfInput, Release, ParseError, Forget, Parsing
<1>3. CASE \E type \in TokenTypes : Collect(type)
  <2>1. /\ LineInv'
        /\ phase' = "lex" \/ (i' = 0 /\ cmds' = <<NoCommand>>)
    BY <1>3, CollectOwns DEF Collect
  <2> QED
    BY <2>1, StartReadsNext DEF Parsing
<1>4. CASE AddArgument
  BY <1>4, AddArgumentReads DEF Parsing, AddArgument, Turn
<1>5. CASE \E type \in Redirects : Redirect(type)
  BY <1>5, RedirectReads DEF Parsing, Redirect, Turn
<1>6. CASE Pipe
  BY <1>6, PipeReads DEF Parsing, Pipe, Turn
<1>7. CASE Ampersand
  BY <1>7, AmpersandReads DEF Parsing, Ampersand, Turn
<1>8. CASE Expand
  <2>1. phase = "expand" /\ next <= Len(ToExpand)
    BY <1>8 DEF Expand, Expanding
  <2> QED
    BY <1>8, <2>1, ExpandReads DEF Parsing
<1>9. CASE UNCHANGED vars
  <2>1. UNCHANGED <<phase, tokens, i, cmds, heap>>
    BY <1>9 DEF vars
  <2> QED
    BY <2>1, ReadingUnchanged DEF Parsing
<1> QED
  BY <1>1, <1>2, <1>3, <1>4, <1>5, <1>6, <1>7, <1>8, <1>9
  DEF Next, Work, Parse, Moves

-----------------------------------------------------------------------------
(* The line has been read to its end, which is END or the end of the array. *)
Complete == phase \in {"expand", "run"} => Written = 1 .. i

(* Only a line that was read to its end is expanded and run.               *)
LEMMA CompleteStep ==
  LineInv /\ Parsing /\ Complete /\ [Next]_vars => Complete'
<1> SUFFICES ASSUME LineInv, Parsing, Complete, [Next]_vars PROVE Complete'
  OBVIOUS
<1>1. CASE Parsed
  <2>1. /\ UNCHANGED <<tokens, i>>
        /\ i = Len(tokens) \/ (i < Len(tokens) /\ tokens[i+1].type = "END")
    BY <1>1 DEF Parsed, Turn
  <2>2. 1 .. i \subseteq Written /\ i \in Nat
    BY <1>1, ReadIsWritten DEF Parsed, Turn, Parsing
  <2>3. ASSUME NEW k \in Written PROVE k \in 1 .. i
    <3>1. k \in 1 .. Len(tokens) /\ Len(tokens) \in Nat
      BY TokenSets
    <3>2. CASE k > i
      <4>1. i + 1 \in 1 .. k /\ i # Len(tokens)
        BY SMT, Z3, <2>2, <3>1, <3>2
      <4>2. tokens[i+1].type # "END"
        BY <4>1 DEF Written
      <4> QED
        BY <2>1, <4>1, <4>2
    <3> QED
      BY SMT, Z3, <2>2, <3>1, <3>2
  <2> QED
    BY <2>1, <2>2, <2>3, ReadingKept DEF Complete
<1>2. CASE UNCHANGED <<tokens, i>> /\ (phase' \in {"expand", "run"} => phase \in {"expand", "run"})
  BY <1>2, ReadingKept DEF Complete
<1>3. CASE phase' \notin {"expand", "run"}
  BY <1>3 DEF Complete
<1>4. CASE Expand \/ Expanded \/ UNCHANGED vars
  <2>1. UNCHANGED <<tokens, i>> /\ (phase' \in {"expand", "run"} => phase \in {"expand", "run"})
    BY <1>4 DEF Expand, Expanded, vars
  <2> QED
    BY <2>1, <1>2
<1>5. CASE /\ Next /\ ~Parsed /\ ~Expand /\ ~Expanded
  <2>1. phase' \notin {"expand", "run"}
    BY <1>5 DEF Next, Work, Parse, ReadLine, EndOfInput, Collect, AddArgument,
                WordFails, CopyFails, RedirectFails, RedirectCrashes, Redirect, Pipe,
                PipeFails, Ampersand, ParseFails, ExpandFails, Run, Release,
                ParseError, Forget, Turn
  <2> QED
    BY <2>1, <1>3
<1> QED
  BY <1>1, <1>4, <1>5

(* A command's arguments that have been read, counted.                     *)
LEMMA ArgumentsCounted ==
  ASSUME LineInv, ReadSoFar, NEW c \in 1 .. Len(cmds)
  PROVE  /\ IsFiniteSet(Before(Arguments(c), i))
         /\ Cardinality(Before(Arguments(c), i)) = Len(cmds[c].argv)
         /\ Len(cmds[c].argv) \in Nat
<1>1. InOrder(Texts(c), Before(Arguments(c), i))
  BY DEF ReadSoFar, Faithful
<1>2. Len(cmds[c].argv) \in Nat
  <2>1. cmds[c] \in Commands
    BY SMT, Z3 DEF LineInv, LineShape
  <2> QED
    BY SMT, Z3, <2>1 DEF Commands
<1>3. Before(Arguments(c), i) \in SUBSET Nat
  BY SMT, Z3, TokenSets DEF Before
<1>4. PICK u, n : u = Texts(c) /\ n = Len(cmds[c].argv)
  OBVIOUS
<1>5. u = [j \in 1 .. n |-> u[j]]
  BY <1>4 DEF Texts
<1> QED
  BY <1>1, <1>2, <1>3, <1>4, <1>5, InOrderCount

(* A line that has been read to its end is well formed.                    *)
LEMMA CompleteIsWellFormed ==
  ASSUME LineInv, ReadSoFar, Written = 1 .. i
  PROVE  WellFormed
<1>1. /\ i \in Nat /\ Len(cmds) \in Nat /\ Len(cmds) <= MAX_COMMANDS
      /\ Cardinality(OfType({"PIPE"})) \in Nat
  <2>1. Cardinality(OfType({"PIPE"})) \in Nat
    BY TokenSets, FS_CardinalityType
  <2> QED
    BY SMT, Z3, <2>1, ReadIsWritten DEF LineInv, LineShape, TypeOK
<1>2. ASSUME NEW S, S \subseteq Written PROVE Before(S, i) = S
  <2>1. \A k \in S : k <= i
    BY SMT, Z3, <1>1, <1>2
  <2> QED
    BY <2>1 DEF Before
<1>3. ASSUME NEW k \in OfType(Redirects) PROVE k + 1 \in Targets
  <2>1. k \in 1 .. i /\ tokens[k].type \in Redirects
    BY DEF OfType
  <2>2. k + 1 \in 1 .. i /\ tokens[k+1].type = "WORD" /\ (k + 1) - 1 = k
    BY SMT, Z3, <1>1, <2>1 DEF ReadSoFar
  <2> QED
    BY <2>2 DEF Targets, OfType
<1>4. Before(OfType({"PIPE"}), i) = OfType({"PIPE"})
  BY <1>2, TokenSets
<1>5. \A k \in OfType({"PIPE"}) : \E a \in Arguments(CommandOf(k)) : a < k
  BY <1>4 DEF ReadSoFar
<1>6. Cardinality(OfType({"PIPE"})) < MAX_COMMANDS
  BY SMT, Z3, <1>1, <1>4, LimitsAssumption DEF ReadSoFar
<1>7. ASSUME NEW c \in 1 .. MAX_COMMANDS PROVE Cardinality(Arguments(c)) < MAX_ARGS
  <2>1. CASE c <= Len(cmds)
    <3>1. c \in 1 .. Len(cmds) /\ Before(Arguments(c), i) = Arguments(c)
      BY SMT, Z3, <1>1, <1>2, <2>1, LimitsAssumption, TokenSets
    <3>2. Len(cmds[c].argv) <= MAX_ARGS - 1
      BY SMT, Z3, <1>1, <3>1 DEF LineInv, LineShape, TypeOK
    <3>3. Cardinality(Arguments(c)) = Len(cmds[c].argv) /\ Len(cmds[c].argv) \in Nat
      BY <3>1, ArgumentsCounted
    <3> QED
      BY SMT, Z3, <3>2, <3>3, LimitsAssumption
  <2>2. CASE ~ (c <= Len(cmds))
    <3>1. \A k \in 1 .. i : k \in 1 .. i + 1
      BY SMT, Z3, <1>1
    <3>2. \A k \in Written : CommandOf(k) # c
      BY <2>2, <3>1, CommandNow
    <3>3. Arguments(c) = {}
      BY <3>2, TokenSets DEF Arguments, OfType
    <3> QED
      BY SMT, Z3, <3>3, FS_EmptySet, LimitsAssumption
  <2> QED
    BY <2>1, <2>2
<1> QED
  BY <1>3, <1>5, <1>6, <1>7 DEF WellFormed

-----------------------------------------------------------------------------
(* With enough memory every token has its text, and a line that has been   *)
(* refused is not well formed.                                             *)
Refused ==
  fails = Failures =>
    /\ \A k \in DOMAIN tokens : tokens[k].value # NULL
    /\ phase = "error" => ~WellFormed

(* Collecting a token refuses nothing.                                     *)
LEMMA CollectRefuses ==
  ASSUME LineInv, Refused, NEW type \in TokenTypes, Collect(type)
  PROVE  Refused'
<1>1. phase' # "error"
  BY DEF Collect
<1>2. fails \in 0 .. Failures /\ Failures \in Nat
  BY LimitsAssumption DEF LineInv, TypeOK
<1>3. CASE MayFail
  BY SMT, Z3, <1>2, <1>3 DEF MayFail, Refused
<1>4. CASE UNCHANGED fails
  <2> SUFFICES ASSUME fails = Failures
               PROVE  \A k \in DOMAIN tokens' : tokens'[k].value # NULL
    BY <1>1, <1>4 DEF Refused
  <2> DEFINE t == [type |-> type, value |-> Address(heap)]
  <2>1. tokens' = Append(tokens, t)
    BY SMT, Z3, <1>2, <1>4 DEF Collect, MayFail
  <2>2. t.value # NULL
    BY FreshAddress, NullAssumption DEF LineInv, LineShape
  <2> HIDE DEF t
  <2>3. tokens \in Seq([type : TokenTypes, value : Pointers])
    BY DEF LineInv, TypeOK
  <2>4. \A k \in DOMAIN tokens' :
          \/ k \in DOMAIN tokens /\ tokens'[k] = tokens[k]
          \/ tokens'[k] = t
    BY SMT, Z3, <2>1, <2>3
  <2> QED
    BY <2>2, <2>4 DEF Refused
<1> QED
  BY <1>3, <1>4 DEF Collect

(* A word that does not fit is one argument too many.                      *)
LEMMA WordFailsRefuses ==
  ASSUME LineInv, ReadSoFar, WordFails, tokens[i+1].value # NULL
  PROVE  ~WellFormed
<1>1. PICK K, n : K = Len(cmds) /\ n = i
  OBVIOUS
<1>2. /\ phase = "parse" /\ n < Len(tokens) /\ tokens[n+1].type = "WORD"
      /\ Len(cmds[K].argv) >= MAX_ARGS - 1
  BY <1>1 DEF WordFails, Turn, TooManyArgs, cmd
<1>3. /\ K \in 1 .. K /\ K \in 1 .. MAX_COMMANDS /\ n \in Nat
  BY SMT, Z3, <1>1, <1>2, LastCommand, LimitsAssumption DEF LineInv, TypeOK
<1>4. n + 1 \in Arguments(K)
  BY <1>1, <1>2, TokenNow, CommandNow DEF Arguments
<1> DEFINE R == Before(Arguments(K), n)
<1>5. IsFiniteSet(R) /\ Cardinality(R) = Len(cmds[K].argv) /\ Len(cmds[K].argv) \in Nat
  BY <1>1, <1>3, ArgumentsCounted
<1>6. n + 1 \notin R /\ R \cup {n + 1} \subseteq Arguments(K)
  BY SMT, Z3, <1>3, <1>4 DEF Before
<1> HIDE DEF R
<1>7. Cardinality(R \cup {n + 1}) = Len(cmds[K].argv) + 1
  BY <1>5, <1>6, FS_AddElement
<1>8. IsFiniteSet(Arguments(K)) /\ Cardinality(Arguments(K)) \in Nat
  BY TokenSets, FS_CardinalityType
<1>9. Cardinality(R \cup {n + 1}) <= Cardinality(Arguments(K))
  BY <1>6, <1>8, FS_Subset
<1>10. ~ (Cardinality(Arguments(K)) < MAX_ARGS)
  BY SMT, Z3, <1>2, <1>5, <1>7, <1>8, <1>9, LimitsAssumption
<1> QED
  BY <1>3, <1>10 DEF WellFormed

(* A redirection that fails has no target.                                 *)
LEMMA RedirectFailsRefuses ==
  ASSUME LineInv, ReadSoFar, RedirectFails
  PROVE  ~WellFormed
<1>1. /\ i < Len(tokens) /\ tokens[i+1].type \in Redirects /\ ~HasTarget
  BY DEF RedirectFails, Turn
<1>2. i \in Nat /\ Len(tokens) \in Nat /\ i + 1 + 1 = i + 2
  BY SMT, Z3, TokenSets, ReadIsWritten
<1>3. tokens[i+1].type # "END"
  BY <1>1 DEF Redirects
<1>4. i + 1 \in OfType(Redirects)
  BY <1>1, <1>3, TokenNow
<1>5. i + 2 \notin Targets
  <2> SUFFICES ASSUME i + 2 \in Targets PROVE FALSE
    OBVIOUS
  <2>1. i + 2 \in 1 .. Len(tokens) /\ tokens[i+2].type = "WORD"
    BY TokenSets DEF Targets, OfType
  <2> QED
    BY SMT, Z3, <1>1, <1>2, <2>1 DEF HasTarget
<1> QED
  BY <1>2, <1>4, <1>5 DEF WellFormed

(* A pipe that fails has no command on its left, or is one too many.       *)
LEMMA PipeFailsRefuses ==
  ASSUME LineInv, ReadSoFar, PipeFails
  PROVE  ~WellFormed
<1>1. PICK K, n : K = Len(cmds) /\ n = i
  OBVIOUS
<1>2. /\ phase = "parse" /\ n < Len(tokens) /\ tokens[n+1].type = "PIPE"
      /\ cmds[K].argv = <<>> \/ K - 1 >= MAX_COMMANDS - 1
  BY <1>1 DEF PipeFails, Turn, PipeRefused, cmd
<1>3. K \in 1 .. K /\ n \in Nat
  BY <1>1, <1>2, LastCommand
<1>4. n + 1 \in OfType({"PIPE"}) /\ CommandOf(n + 1) = K
  BY <1>1, <1>2, TokenNow, CommandNow
<1>5. CASE cmds[K].argv = <<>>
  <2> DEFINE R == Before(Arguments(K), n)
  <2>1. IsFiniteSet(R) /\ Cardinality(R) = 0
    <3>1. Len(cmds[K].argv) = 0
      BY SMT, Z3, <1>5
    <3> QED
      BY <1>1, <1>3, <3>1, ArgumentsCounted
  <2>2. R = {}
    <3> HIDE DEF R
    <3> QED
      BY <2>1, FS_EmptySet
  <2>3. Arguments(K) \subseteq Nat
    BY SMT, Z3, TokenSets
  <2>4. ~ \E a \in Arguments(K) : a < n + 1
    BY SMT, Z3, <1>3, <2>2, <2>3 DEF Before
  <2> QED
    BY <1>4, <2>4 DEF WellFormed
<1>6. CASE K - 1 >= MAX_COMMANDS - 1
  <2> DEFINE P == OfType({"PIPE"})
             R == Before(P, n)
  <2>1. IsFiniteSet(P) /\ Cardinality(P) \in Nat
    BY TokenSets, FS_CardinalityType
  <2>2. n + 1 \notin R /\ R \cup {n + 1} \subseteq P /\ R \subseteq P
    BY SMT, Z3, <1>3, <1>4 DEF Before
  <2>3. K = 1 + Cardinality(R)
    BY <1>1 DEF ReadSoFar
  <2> HIDE DEF P, R
  <2>4. IsFiniteSet(R) /\ Cardinality(R) \in Nat
    BY <2>1, <2>2, FS_Subset, FS_CardinalityType
  <2>5. Cardinality(R \cup {n + 1}) = Cardinality(R) + 1
    BY <2>2, <2>4, FS_AddElement
  <2>6. Cardinality(R \cup {n + 1}) <= Cardinality(P)
    BY <2>1, <2>2, FS_Subset
  <2>7. ~ (Cardinality(P) < MAX_COMMANDS)
    BY SMT, Z3, <1>6, <2>1, <2>3, <2>4, <2>5, <2>6, LimitsAssumption
  <2> QED
    BY <2>7 DEF WellFormed, P
<1> QED
  BY <1>2, <1>5, <1>6

(* A refusal has its reason in the tokens.                                 *)
LEMMA RefusedStep ==
  LineInv /\ Parsing /\ Refused /\ [Next]_vars => Refused'
<1> SUFFICES ASSUME LineInv, Parsing, Refused, [Next]_vars PROVE Refused'
  OBVIOUS
<1>1. CASE MayFail
  <2>1. fails \in 0 .. Failures /\ Failures \in Nat
    BY LimitsAssumption DEF LineInv, TypeOK
  <2> QED
    BY SMT, Z3, <1>1, <2>1 DEF MayFail, Refused
<1>2. CASE WordFails \/ RedirectFails \/ PipeFails
  <2>1. /\ UNCHANGED <<tokens, fails>> /\ phase = "parse" /\ i < Len(tokens)
    BY <1>2 DEF WordFails, RedirectFails, PipeFails, ParseFails, Turn
  <2>2. ReadSoFar
    BY <2>1 DEF Parsing
  <2>3. i + 1 \in DOMAIN tokens
    BY SMT, Z3, <2>1, <2>2, TokenSets, ReadIsWritten
  <2>4. fails = Failures => ~WellFormed
    BY <1>2, <2>2, <2>3, WordFailsRefuses, RedirectFailsRefuses, PipeFailsRefuses
    DEF Refused
  <2> QED
    BY <2>1, <2>4, ReadingKept DEF Refused
<1>3. CASE \E type \in TokenTypes : Collect(type)
  BY <1>3, CollectRefuses
<1>4. CASE Release \/ ParseError
  <2>1. tokens' = <<>> /\ phase' # "error"
    BY <1>4 DEF Release, ParseError, Forget
  <2> QED
    BY SMT, Z3, <2>1 DEF Refused
<1>5. CASE UNCHANGED <<tokens, fails>> /\ (phase' = "error" => phase = "error")
  BY <1>5, ReadingKept DEF Refused
<1>6. CASE UNCHANGED vars
  BY <1>5, <1>6 DEF vars
<1>7. CASE /\ Next /\ ~MayFail /\ ~Release /\ ~ParseError
           /\ ~WordFails /\ ~RedirectFails /\ ~PipeFails
           /\ ~ \E type \in TokenTypes : Collect(type)
  <2>1. UNCHANGED <<tokens, fails>> /\ (phase' = "error" => phase = "error")
    BY <1>7 DEF Next, Work, Parse, ReadLine, EndOfInput, AddArgument, CopyFails,
                RedirectCrashes, Redirect, Pipe, Ampersand, Parsed, Expand,
                ExpandFails, Expanded, Run
  <2> QED
    BY <1>5, <2>1
<1> QED
  BY <1>1, <1>2, <1>3, <1>4, <1>6, <1>7

-----------------------------------------------------------------------------
(* The inductive invariant of a line: what parse_tokens has made of it     *)
(* follows its tokens at every step of the parser and of the expansion.    *)
THEOREM LineInvariant ==
  Spec => [](LineInv /\ Expanding /\ Parsing /\ Complete /\ Refused)
<1>1. Init => Parsing /\ Complete /\ Refused
  BY SMT, Z3 DEF Init, Parsing, Complete, Refused
<1>2. LineInv /\ Expanding /\ Parsing /\ Complete /\ Refused /\ [Next]_vars
        => Parsing' /\ Complete' /\ Refused'
  BY ParsingStep, CompleteStep, RefusedStep
<1> QED
  BY <1>1, <1>2, MemoryInvariant, PTL DEF Spec

(* With enough memory parse_tokens refuses exactly the lines that are not  *)
(* well formed, however long they are.                                     *)
THEOREM RefusesExactlyMalformed == Spec => []RefusesMalformed
<1>1. LineInv /\ Parsing /\ Complete /\ Refused => RefusesMalformed
  <2> SUFFICES ASSUME LineInv, Parsing, Complete, Refused PROVE RefusesMalformed
    OBVIOUS
  <2>1. phase \in {"expand", "run"} => WellFormed
    BY CompleteIsWellFormed DEF Parsing, Complete
  <2> QED
    BY <2>1 DEF RefusesMalformed, Refused
<1> QED
  BY <1>1, LineInvariant, PTL

(* The string at a place of the pipeline, by the pointer that is there.    *)
LEMMA SourceIsText ==
  ASSUME LineInv, NEW c \in 1 .. Len(cmds)
  PROVE  /\ [j \in DOMAIN cmds[c].argv |-> Source(cmds[c].argv[j])] = Texts(c)
         /\ Source(cmds[c].input) = Text(File(c, "input"))
         /\ Source(cmds[c].output) = Text(File(c, "output"))
<1>1. cmds[c] \in Commands
  BY SMT, Z3 DEF LineInv, LineShape
<1>2. /\ cmds[c].argv \in Seq(Nat) /\ DOMAIN cmds[c].argv = 1 .. Len(cmds[c].argv)
      /\ cmds[c]["input"] = cmds[c].input /\ cmds[c]["output"] = cmds[c].output
  BY SMT, Z3, <1>1 DEF Commands
<1>3. ASSUME NEW j \in 1 .. Len(cmds[c].argv)
      PROVE  Source(cmds[c].argv[j]) = Text(Arg(c, j))
  <2>1. cmds[c].argv[j] # NULL
    BY SMT, Z3, <1>2, NullAssumption
  <2>2. Arg(c, j) \in Place /\ Arg(c, j).cmd = c /\ Arg(c, j).field = "argv"
        /\ Arg(c, j).arg = j
    <3>1. c \in Nat /\ j \in Nat
      BY SMT, Z3, <1>2
    <3> QED
      BY <3>1 DEF Arg, Place
  <2>3. Arg(c, j) \in PlacesOf(c)
    BY <1>2, <2>2 DEF PlacesOf
  <2>4. Arg(c, j) \in Places /\ Pointer(Arg(c, j)) = cmds[c].argv[j]
    BY <2>2, <2>3 DEF Places, Pointer
  <2> QED
    BY <2>1, <2>4 DEF Source, Text
<1>4. ASSUME NEW f \in {"input", "output"}
      PROVE  Source(cmds[c][f]) = Text(File(c, f))
  <2>1. File(c, f) \in Place /\ File(c, f).cmd = c /\ File(c, f).field = f
        /\ File(c, f).arg = 0
    <3>1. c \in Nat
      BY SMT, Z3
    <3> QED
      BY <3>1 DEF File, Place
  <2>2. Pointer(File(c, f)) = cmds[c][f]
    BY <2>1 DEF Pointer
  <2>3. File(c, f) \in Places <=> cmds[c][f] # NULL
    BY SMT, Z3, <1>2, <2>1 DEF Places, PlacesOf
  <2> QED
    BY <2>2, <2>3 DEF Source, Text
<1>5. [j \in DOMAIN cmds[c].argv |-> Source(cmds[c].argv[j])] = Texts(c)
  BY <1>2, <1>3 DEF Texts
<1> QED
  BY <1>2, <1>4, <1>5

(* What is run is what the line says, whatever its length: all commands,   *)
(* all arguments in their order, the last redirection of each kind, every  *)
(* string expanded exactly once.                                           *)
THEOREM RunsTheLine == Spec => []RunsAsWritten
<1>1. LineInv /\ Expanding /\ Parsing /\ Complete => RunsAsWritten
  <2> SUFFICES ASSUME LineInv, Expanding, Parsing, Complete, phase = "run"
               PROVE  /\ Len(cmds) = 1 + Cardinality(OfType({"PIPE"}))
                      /\ \A p \in PipelineBlocks : heap[p].times = 1
                      /\ \A c \in DOMAIN cmds :
                           LET outs == TargetsOf(c, {"REDIRECT_OUT", "REDIRECT_APPEND"})
                           IN  /\ InOrder([j \in DOMAIN cmds[c].argv |->
                                             Source(cmds[c].argv[j])], Arguments(c))
                               /\ Source(cmds[c].input)
                                    = LastOf(TargetsOf(c, {"REDIRECT_IN"}))
                               /\ Source(cmds[c].output) = LastOf(outs)
                               /\ cmds[c].append <=>
                                    LastOf(outs) \in TargetsOf(c, {"REDIRECT_APPEND"})
                               /\ cmds[c].background <=>
                                    \E k \in OfType({"AMPERSAND"}) : CommandOf(k) = c
    BY DEF RunsAsWritten
  <2>1. ReadSoFar /\ Written = 1 .. i /\ i \in Nat
    BY ReadIsWritten DEF Parsing, Complete
  <2>2. ASSUME NEW S, S \subseteq Written PROVE Before(S, i) = S
    <3>1. \A k \in S : k <= i
      BY SMT, Z3, <2>1, <2>2
    <3> QED
      BY <3>1 DEF Before
  <2>3. /\ Before(OfType({"PIPE"}), i) = OfType({"PIPE"})
        /\ Before(OfType({"AMPERSAND"}), i) = OfType({"AMPERSAND"})
        /\ \A c : Before(Arguments(c), i) = Arguments(c)
        /\ \A c, T : Before(TargetsOf(c, T), i) = TargetsOf(c, T)
    BY <2>2, TokenSets
  <2>4. Len(cmds) = 1 + Cardinality(OfType({"PIPE"}))
    BY <2>1, <2>3 DEF ReadSoFar
  <2>5. ASSUME NEW p \in PipelineBlocks PROVE heap[p].times = 1
    <3>1. cmds \in Seq(Commands) /\ cmds # <<>>
      BY DEF LineInv, LineShape
    <3>2. PICK x \in Places : p = Pointer(x)
      BY <3>1, BlocksArePointers
    <3>3. ToExpand \in Seq(Place) /\ Range(ToExpand) = Places
      BY <3>1, ToExpandIsPlaces
    <3>4. DOMAIN ToExpand = 1 .. Len(ToExpand) /\ Len(ToExpand) \in Nat
      BY SMT, Z3, <3>3
    <3>5. PICK j \in 1 .. Len(ToExpand) : x = ToExpand[j]
      BY <3>3, <3>4 DEF Range
    <3>6. next = Len(ToExpand)
      BY DEF Expanding, AllExpanded
    <3>7. heap[Pointer(ToExpand[j])].times = IF j <= next THEN 1 ELSE 0
      BY <3>5 DEF Expanding
    <3> QED
      BY SMT, Z3, <3>2, <3>4, <3>5, <3>6, <3>7
  <2>6. DOMAIN cmds = 1 .. Len(cmds)
    BY SMT, Z3 DEF LineInv, LineShape
  <2>7. ASSUME NEW c \in 1 .. Len(cmds) PROVE Faithful(c, i)
    BY <2>1, <2>7 DEF ReadSoFar
  <2> QED
    BY SMT, Z3, <2>3, <2>4, <2>5, <2>6, <2>7, SourceIsText DEF Faithful, Outs
<1> QED
  BY <1>1, LineInvariant, PTL
=============================================================================
