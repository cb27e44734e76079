---------------------------- MODULE SFLineLemmas ----------------------------
(***************************************************************************)
(* Lemmas on the life of a line, for lines, pipelines and argument lists   *)
(* of every length and every number of allocations that fail.  In SFLine   *)
(* every step keeps every block with its one owner, and the text of a job  *)
(* fits the block it is given; SFLineProofs draws the conclusions.  In     *)
(* SFExpand and SFLexer every turn takes the one piece of the text that    *)
(* starts where it is, and the buffer of the expansion holds.              *)
(***************************************************************************)
EXTENDS SFLine, SFLexer, SFExpand, FiniteSetTheorems, WellFoundedInduction, TLAPS

(* Most steps are first-order logic, which Zenon settles; SMT, which has   *)
(* the arithmetic, takes the ones that name it and what Zenon leaves.  A   *)
(* step that runs out of time is tried a second time.                      *)
USE ZenonT(5), SMT, ZenonT(20), Z3

-----------------------------------------------------------------------------
(* A non-empty set of naturals has a least element, and Min returns it.    *)
LEMMA MinIsLeast ==
  ASSUME NEW S \in SUBSET Nat, S # {}
  PROVE  Min(S) \in S /\ \A y \in S : Min(S) <= y
<1>1. \E x \in S : \A y \in S : ~ (<<y, x>> \in OpToRel(<, Nat))
  BY NatLessThanWellFounded, WFMin
<1>2. \A x, y \in Nat : <<y, x>> \in OpToRel(<, Nat) <=> y < x
  BY DEF OpToRel
<1>3. PICK x \in S : \A y \in S : ~ (<<y, x>> \in OpToRel(<, Nat))
  BY <1>1
<1>4. \A y \in S : ~ (y < x)
  BY <1>2, <1>3
<1>5. \A y \in S : x <= y
  BY SMT, Z3, <1>4
<1> QED
  BY <1>5 DEF Min

(* A set that holds 0 and goes on from each number to the next one holds   *)
(* all of them: the induction the lemmas on sequences use.                 *)
Inductive(G, N) == /\ 0 \in G
                   /\ \A m \in 0 .. N : m < N /\ m \in G => m + 1 \in G

(* Counting up: what holds at 0 and is passed on holds up to N.            *)
LEMMA UpTo ==
  ASSUME NEW N \in Nat, NEW G, Inductive(G, N)
  PROVE  \A m \in 0 .. N : m \in G
<1> DEFINE B == {m \in 0 .. N : m \notin G}
<1> SUFFICES ASSUME B # {} PROVE FALSE
  OBVIOUS
<1>1. Min(B) \in B /\ \A y \in B : Min(B) <= y
  BY SMT, Z3, MinIsLeast
<1> DEFINE b == Min(B)
<1> HIDE DEF b
<1>2. b \in 0 .. N /\ b \notin G /\ \A y \in B : b <= y
  BY <1>1 DEF b
<1>3. b # 0 /\ b - 1 \in 0 .. N /\ b - 1 < N
  BY SMT, Z3, <1>2 DEF Inductive
<1>4. b - 1 \in G
  BY SMT, Z3, <1>2, <1>3
<1> QED
  BY SMT, Z3, <1>2, <1>3, <1>4 DEF Inductive

-----------------------------------------------------------------------------
(* The allocator hands out an address that is not in use.                  *)
LEMMA FreshAddress ==
  ASSUME NEW h, IsFiniteSet(DOMAIN h)
  PROVE  Address(h) \in Nat \ {0} /\ Address(h) \notin DOMAIN h
<1> DEFINE c == Cardinality(DOMAIN h)
           S == (1 .. c + 1) \ DOMAIN h
<1>1. c \in Nat
  BY FS_CardinalityType
<1>2. S # {}
  <2> SUFFICES ASSUME 1 .. c + 1 \subseteq DOMAIN h PROVE FALSE
    OBVIOUS
  <2>1. Cardinality(1 .. c + 1) <= c
    BY FS_Subset
  <2>2. Cardinality(1 .. c + 1) = c + 1
    <3>1. 1 \in Int /\ c + 1 \in Int /\ c + 1 >= 1
      BY SMT, Z3, <1>1
    <3>2. Cardinality(1 .. c + 1) = (c + 1) - 1 + 1
      BY SMT, Z3, <3>1, FS_Interval
    <3> QED
      BY SMT, Z3, <1>1, <3>2
  <2> QED
    BY SMT, Z3, <1>1, <2>1, <2>2
<1>3. S \in SUBSET Nat
  BY SMT, Z3, <1>1
<1>4. Min(S) \in S
  BY <1>2, <1>3, MinIsLeast
<1> QED
  BY SMT, Z3, <1>1, <1>4 DEF Address
-----------------------------------------------------------------------------
(* The function that Loop defines by recursion exists, for turns that map  *)
(* a set V to itself.                                                      *)
LoopDef(f, N, x, step) ==
  f = [k \in 0 .. N |-> IF k = 0 THEN x ELSE step[k][f[k-1]]]

LEMMA LoopExists ==
  ASSUME NEW V, NEW N \in Nat, NEW x \in V, NEW step \in [1 .. N -> [V -> V]]
  PROVE  \E f \in [0 .. N -> V] : LoopDef(f, N, x, step)
<1> DEFINE Fits(f, m) == /\ f \in [0 .. m -> V] /\ f[0] = x
                         /\ \A k \in 1 .. m : f[k] = step[k][f[k-1]]
           G == {m \in 0 .. N : \E f : Fits(f, m)}
<1>1. 0 \in G
  <2>1. Fits([k \in 0 .. 0 |-> x], 0)
    BY SMT, Z3
  <2> HIDE DEF Fits
  <2> QED
    BY SMT, Z3, <2>1
<1>2. ASSUME NEW m \in 0 .. N, m < N, m \in G PROVE m + 1 \in G
  <2>1. PICK f : Fits(f, m)
    BY <1>2
  <2>2. PICK c \in Nat : c = m + 1
    BY SMT, Z3, <1>2
  <2>3. c \in 1 .. N /\ m \in 0 .. m /\ c - 1 = m /\ c \notin 0 .. m
    BY SMT, Z3, <1>2, <2>2
  <2>4. step[c][f[m]] \in V
    BY SMT, Z3, <2>1, <2>3
  <2> DEFINE g == [k \in 0 .. c |-> IF k = c THEN step[c][f[m]] ELSE f[k]]
  <2>5. \A k \in 0 .. c : k # c => k \in 0 .. m
    BY SMT, Z3, <1>2, <2>2
  <2>6. g \in [0 .. c -> V] /\ g[0] = x
    BY SMT, Z3, <2>1, <2>3, <2>4, <2>5
  <2>7. ASSUME NEW k \in 1 .. c PROVE g[k] = step[k][g[k-1]]
    <3>1. k \in 0 .. c /\ k - 1 \in 0 .. c /\ k - 1 # c
          /\ (k # c => k \in 1 .. m /\ k - 1 \in 0 .. m)
      BY SMT, Z3, <1>2, <2>2
    <3>2. g[k-1] = f[k-1] /\ (k # c => g[k] = f[k]) /\ (k = c => g[k] = step[c][f[m]])
      BY SMT, Z3, <3>1
    <3> HIDE DEF g
    <3>3. k # c => f[k] = step[k][f[k-1]]
      BY <2>1, <3>1
    <3> QED
      BY <2>3, <3>2, <3>3
  <2>8. Fits(g, c)
    BY <2>6, <2>7
  <2> HIDE DEF Fits, g
  <2>9. c \in 0 .. N
    BY SMT, Z3, <2>3
  <2> QED
    BY <2>2, <2>8, <2>9
<1> HIDE DEF G
<1>3. N \in G
  <2>1. Inductive(G, N)
    BY <1>1, <1>2 DEF Inductive
  <2> QED
    BY SMT, Z3, <2>1, UpTo
<1>4. PICK f : Fits(f, N)
  BY <1>3 DEF G
<1>5. \A k \in 0 .. N : f[k] = IF k = 0 THEN x ELSE step[k][f[k-1]]
  BY SMT, Z3, <1>4
<1>6. LoopDef(f, N, x, step)
  BY SMT, Z3, <1>4, <1>5 DEF LoopDef
<1> QED
  BY <1>4, <1>6

(* The elements of two sequences joined, and when none is there twice.     *)
LEMMA JoinRange ==
  ASSUME NEW S, NEW u \in Seq(S), NEW v \in Seq(S)
  PROVE  /\ u \o v \in Seq(S) /\ Range(u \o v) = Range(u) \cup Range(v)
         /\ IsInjective(u) /\ IsInjective(v) /\ Range(u) \cap Range(v) = {}
              => IsInjective(u \o v)
<1> DEFINE w == u \o v
           a == Len(u)
           b == Len(v)
<1>1. /\ w \in Seq(S) /\ a \in Nat /\ b \in Nat
      /\ DOMAIN u = 1 .. a /\ DOMAIN v = 1 .. b /\ DOMAIN w = 1 .. a + b
  BY SMT, Z3
<1>2. /\ \A x \in 1 .. a : w[x] = u[x]
      /\ \A y \in 1 .. b : w[a + y] = v[y]
  BY SMT, Z3
<1> HIDE DEF w, a, b
<1>3. ASSUME NEW x \in 1 .. a + b
      PROVE  \/ x \in 1 .. a /\ w[x] = u[x]
             \/ \E y \in 1 .. b : x = a + y /\ w[x] = v[y]
  <2>1. CASE x <= a
    BY SMT, Z3, <1>1, <1>2, <2>1
  <2>2. CASE ~ (x <= a)
    <3>1. x - a \in 1 .. b /\ x = a + (x - a)
      BY SMT, Z3, <1>1, <2>2
    <3> QED
      BY <1>2, <3>1
  <2> QED
    BY <2>1, <2>2
<1>4. \A y \in 1 .. b : a + y \in 1 .. a + b
  BY SMT, Z3, <1>1
<1>5. \A x \in 1 .. a : x \in 1 .. a + b
  BY SMT, Z3, <1>1
<1>6. Range(w) = Range(u) \cup Range(v)
  <2>1. ASSUME NEW e \in Range(w) PROVE e \in Range(u) \cup Range(v)
    BY <1>1, <1>3, <2>1 DEF Range
  <2>2. ASSUME NEW e \in Range(u) PROVE e \in Range(w)
    BY <1>1, <1>2, <1>5, <2>2 DEF Range
  <2>3. ASSUME NEW e \in Range(v) PROVE e \in Range(w)
    BY <1>1, <1>2, <1>4, <2>3 DEF Range
  <2> QED
    BY <2>1, <2>2, <2>3
<1>7. ASSUME IsInjective(u), IsInjective(v), Range(u) \cap Range(v) = {}
      PROVE  IsInjective(w)
  <2> SUFFICES ASSUME NEW x \in 1 .. a + b, NEW y \in 1 .. a + b, w[x] = w[y]
               PROVE  x = y
    BY <1>1 DEF IsInjective
  <2>1. /\ \A s \in 1 .. a : u[s] \in Range(u)
        /\ \A s \in 1 .. b : v[s] \in Range(v)
    BY <1>1 DEF Range
  <2>2. /\ \A s, t \in 1 .. a : u[s] = u[t] => s = t
        /\ \A s, t \in 1 .. b : v[s] = v[t] => s = t
    BY <1>1, <1>7 DEF IsInjective
  <2> QED
    BY SMT, Z3, <1>3, <1>7, <2>1, <2>2
<1> QED
  BY <1>1, <1>6, <1>7 DEF w

(* Parts joined one after the other: the elements of the parts, no others, *)
(* and none twice unless it is twice in the parts.                         *)
LEMMA JoinParts ==
  ASSUME NEW S, NEW ss \in Seq(Seq(S)), NEW F, F[0] = <<>>,
         \A k \in 1 .. Len(ss) : F[k] = F[k-1] \o ss[k]
  PROVE  /\ F[Len(ss)] \in Seq(S)
         /\ Range(F[Len(ss)]) = UNION {Range(ss[k]) : k \in 1 .. Len(ss)}
         /\ /\ \A k \in 1 .. Len(ss) : IsInjective(ss[k])
            /\ \A k, l \in 1 .. Len(ss) :
                 k # l => Range(ss[k]) \cap Range(ss[l]) = {}
            => IsInjective(F[Len(ss)])
<1> DEFINE N == Len(ss)
<1>1. N \in Nat /\ \A k \in 1 .. N : ss[k] \in Seq(S)
  BY SMT, Z3
<1>2. \A k \in 1 .. N : F[k] = F[k-1] \o ss[k]
  OBVIOUS
<1> HIDE DEF N
<1> DEFINE Of(k) == Range(ss[k])
           Distinct == /\ \A k \in 1 .. N : IsInjective(ss[k])
                       /\ \A k, l \in 1 .. N : k # l => Of(k) \cap Of(l) = {}
           Good(b) == /\ F[b] \in Seq(S)
                      /\ Range(F[b]) = UNION {Of(k) : k \in 1 .. b}
                      /\ Distinct => IsInjective(F[b])
           G == {b \in 0 .. N : Good(b)}
<1>3. 0 \in G
  <2>1. Range(<<>>) = {} /\ IsInjective(<<>>) /\ <<>> \in Seq(S)
    BY SMT, Z3 DEF Range, IsInjective
  <2>2. 1 .. 0 = {} /\ 0 \in 0 .. N
    BY SMT, Z3, <1>1
  <2> QED
    BY <2>1, <2>2
<1>4. ASSUME NEW b \in 0 .. N, b < N, b \in G PROVE b + 1 \in G
  <2>1. PICK c \in Nat : c = b + 1
    BY SMT, Z3, <1>4
  <2>2. Good(b) /\ c \in 1 .. N /\ c - 1 = b /\ c \in 0 .. N
    <3>1. c \in 1 .. N /\ c - 1 = b /\ c \in 0 .. N
      BY SMT, Z3, <1>1, <1>4, <2>1
    <3> HIDE DEF Good
    <3> QED
      BY <1>4, <3>1
  <2>3. F[c] = F[b] \o ss[c] /\ ss[c] \in Seq(S)
    BY <1>1, <1>2, <2>2
  <2>4. /\ F[c] \in Seq(S) /\ Range(F[c]) = Range(F[b]) \cup Of(c)
        /\ IsInjective(F[b]) /\ IsInjective(ss[c])
           /\ Range(F[b]) \cap Of(c) = {} => IsInjective(F[c])
    <3>1. F[b] \in Seq(S)
      BY <2>2
    <3> HIDE DEF Good
    <3> QED
      BY <2>3, <3>1, JoinRange
  <2>5. 1 .. c = (1 .. b) \cup {c} /\ c \notin 1 .. b /\ 1 .. b \subseteq 1 .. N
    BY SMT, Z3, <1>1, <1>4, <2>1
  <2> HIDE DEF Of
  <2>6. Range(F[c]) = UNION {Of(k) : k \in 1 .. c}
    BY <2>2, <2>4, <2>5
  <2>7. ASSUME Distinct PROVE IsInjective(F[c])
    <3>1. ASSUME NEW x \in Range(F[b]) PROVE x \notin Of(c)
      <4>1. PICK k \in 1 .. b : x \in Of(k)
        BY <2>2, <3>1
      <4>2. k \in 1 .. N /\ k # c
        BY <2>5
      <4> QED
        BY <2>2, <2>7, <4>1, <4>2
    <3> QED
      BY <2>2, <2>4, <2>7, <3>1
  <2>8. Good(c)
    BY <2>4, <2>6, <2>7
  <2> HIDE DEF Good
  <2> QED
    BY <2>1, <2>2, <2>8
<1> HIDE DEF G
<1>5. N \in G
  <2>1. Inductive(G, N)
    BY <1>3, <1>4 DEF Inductive
  <2> QED
    BY SMT, Z3, <1>1, <2>1, UpTo
<1>6. Good(N)
  BY <1>5 DEF G
<1> QED
  BY <1>6 DEF N
-----------------------------------------------------------------------------
(* The strings of a pipeline: those that expand_pipeline goes through.     *)
Commands == [argv : Seq(Nat), input : Pointers, output : Pointers,
             append : BOOLEAN, background : BOOLEAN]
Place == [cmd : Nat, field : {"argv", "input", "output"}, arg : Nat]

PlacesOf(k) ==
  {x \in Place :
     /\ x.cmd = k
     /\ x.field = "argv" => x.arg \in 1 .. Len(cmds[k].argv)
     /\ x.field = "input" => x.arg = 0 /\ cmds[k].input # NULL
     /\ x.field = "output" => x.arg = 0 /\ cmds[k].output # NULL}

Places == UNION {PlacesOf(k) : k \in 1 .. Len(cmds)}

(* One command: its arguments, then its files.                             *)
LEMMA FieldsArePlaces ==
  ASSUME cmds \in Seq(Commands), NEW k \in 1 .. Len(cmds)
  PROVE  /\ Fields(k) \in Seq(Place) /\ Range(Fields(k)) = PlacesOf(k)
         /\ IsInjective(Fields(k))
<1> DEFINE c == cmds[k]
           args == [j \in 1 .. Len(c.argv) |->
                      [cmd |-> k, field |-> "argv", arg |-> j]]
           In == FileName(k, "input")
           Out == FileName(k, "output")
           file(f) == [cmd |-> k, field |-> f, arg |-> 0]
<1>1. /\ k \in Nat /\ Len(c.argv) \in Nat /\ c["input"] = c.input
      /\ c["output"] = c.output
  BY SMT, Z3 DEF Commands
<1>2. /\ args \in Seq(Place) /\ IsInjective(args)
      /\ Range(args) = {x \in PlacesOf(k) : x.field = "argv"}
  <2>1. \A j \in 1 .. Len(c.argv) : args[j] = [cmd |-> k, field |-> "argv", arg |-> j]
    OBVIOUS
  <2>2. DOMAIN args = 1 .. Len(c.argv)
    OBVIOUS
  <2>3. args \in Seq(Place)
    BY SMT, Z3, <1>1 DEF Place
  <2>4. IsInjective(args)
    BY <2>1, <2>2 DEF IsInjective
  <2>5. \A x \in PlacesOf(k) : x.field = "argv" =>
          x = [cmd |-> k, field |-> "argv", arg |-> x.arg]
    BY SMT, Z3 DEF PlacesOf, Place
  <2>6. \A j \in 1 .. Len(c.argv) :
          [cmd |-> k, field |-> "argv", arg |-> j] \in PlacesOf(k)
    BY SMT, Z3, <1>1 DEF PlacesOf, Place
  <2>7. ASSUME NEW x \in PlacesOf(k), x.field = "argv" PROVE x \in Range(args)
    <3>1. x.arg \in 1 .. Len(c.argv)
      BY <2>7 DEF PlacesOf
    <3>2. args[x.arg] = x
      BY <2>1, <2>5, <2>7, <3>1
    <3> HIDE DEF args
    <3> QED
      BY <2>2, <3>1, <3>2 DEF Range
  <2>8. ASSUME NEW x \in Range(args) PROVE x \in PlacesOf(k) /\ x.field = "argv"
    <3>1. PICK j \in 1 .. Len(c.argv) : x = args[j]
      BY <2>2, <2>8 DEF Range
    <3> QED
      BY <2>1, <2>6, <3>1
  <2> QED
    BY <2>3, <2>4, <2>7, <2>8
<1>3. ASSUME NEW f \in {"input", "output"}
      PROVE  /\ FileName(k, f) \in Seq(Place) /\ IsInjective(FileName(k, f))
             /\ Range(FileName(k, f)) = {x \in PlacesOf(k) : x.field = f}
  <2>1. file(f) \in Place /\ file(f).field = f
    BY <1>1, <1>3 DEF Place
  <2>2. \A x \in PlacesOf(k) : x.field = f => x = file(f) /\ c[f] # NULL
    BY SMT, Z3, <1>1, <1>3 DEF PlacesOf, Place
  <2>3. c[f] # NULL => file(f) \in PlacesOf(k)
    BY <1>1, <1>3, <2>1 DEF PlacesOf
  <2>4. CASE c[f] = NULL
    <3>1. FileName(k, f) = <<>>
      BY <2>4 DEF FileName
    <3>2. Range(<<>>) = {} /\ IsInjective(<<>>)
      BY SMT, Z3 DEF Range, IsInjective
    <3> QED
      BY SMT, Z3, <2>2, <2>4, <3>1, <3>2
  <2>5. CASE c[f] # NULL
    <3>1. FileName(k, f) = <<file(f)>>
      BY <2>5 DEF FileName
    <3> HIDE DEF file
    <3>2. Range(<<file(f)>>) = {file(f)} /\ IsInjective(<<file(f)>>)
      BY SMT, Z3 DEF Range, IsInjective
    <3> QED
      BY SMT, Z3, <2>1, <2>2, <2>3, <2>5, <3>1, <3>2
  <2> QED
    BY <2>4, <2>5
<1> HIDE DEF args
<1>4. /\ In \in Seq(Place) /\ IsInjective(In) /\ Out \in Seq(Place)
      /\ IsInjective(Out)
      /\ Range(In) = {x \in PlacesOf(k) : x.field = "input"}
      /\ Range(Out) = {x \in PlacesOf(k) : x.field = "output"}
  BY <1>3
<1>5. Fields(k) = args \o In \o Out
  BY DEF Fields, args
<1> HIDE DEF In, Out
<1>6. /\ args \o In \in Seq(Place) /\ IsInjective(args \o In)
      /\ Range(args \o In) = Range(args) \cup Range(In)
  <2>1. Range(args) \cap Range(In) = {}
    BY <1>2, <1>4
  <2> QED
    BY SMT, Z3, <1>2, <1>4, <2>1, JoinRange
<1>7. /\ args \o In \o Out \in Seq(Place) /\ IsInjective(args \o In \o Out)
      /\ Range(args \o In \o Out) = Range(args \o In) \cup Range(Out)
  <2> DEFINE u == args \o In
  <2> HIDE DEF u
  <2>1. Range(u) \cap Range(Out) = {}
    BY <1>2, <1>4, <1>6 DEF u
  <2>2. u \in Seq(Place) /\ IsInjective(u)
    BY <1>6 DEF u
  <2>3. /\ u \o Out \in Seq(Place) /\ IsInjective(u \o Out)
        /\ Range(u \o Out) = Range(u) \cup Range(Out)
    BY SMT, Z3, <1>4, <2>1, <2>2, JoinRange
  <2> QED
    BY <2>3 DEF u
<1>8. PlacesOf(k) = Range(args) \cup Range(In) \cup Range(Out)
  <2>1. \A x \in PlacesOf(k) : x.field \in {"argv", "input", "output"}
    BY DEF PlacesOf, Place
  <2> QED
    BY <1>2, <1>4, <2>1
<1> QED
  BY <1>5, <1>6, <1>7, <1>8

(* expand_pipeline reaches every string of the pipeline, and each once.    *)
LEMMA ToExpandIsPlaces ==
  ASSUME cmds \in Seq(Commands)
  PROVE  /\ ToExpand \in Seq(Place) /\ Range(ToExpand) = Places
         /\ IsInjective(ToExpand)
<1> DEFINE N == Len(cmds)
           ss == [k \in 1 .. N |-> Fields(k)]
           Def(f) == f = [k \in 0 .. N |-> IF k = 0 THEN <<>> ELSE f[k-1] \o Fields(k)]
           F == CHOOSE f : Def(f)
           step == [k \in 1 .. N |-> [done \in Seq(Place) |-> done \o Fields(k)]]
<1>1. N \in Nat
  BY SMT, Z3
<1>2. ToExpand = F[N]
  BY DEF ToExpand, Loop
<1>3. \A k \in 1 .. N : /\ Fields(k) \in Seq(Place) /\ Range(Fields(k)) = PlacesOf(k)
                        /\ IsInjective(Fields(k))
  BY FieldsArePlaces
<1> HIDE DEF F, N
<1>4. step \in [1 .. N -> [Seq(Place) -> Seq(Place)]]
  BY SMT, Z3, <1>3
<1>5. <<>> \in Seq(Place)
  BY SMT, Z3
<1>6. PICK f \in [0 .. N -> Seq(Place)] : LoopDef(f, N, <<>>, step)
  <2> HIDE DEF step
  <2> QED BY <1>1, <1>4, <1>5, LoopExists
<1>7. ASSUME NEW k \in 0 .. N
      PROVE  f[k] = IF k = 0 THEN <<>> ELSE f[k-1] \o Fields(k)
  <2>1. k # 0 => k \in 1 .. N /\ f[k-1] \in Seq(Place)
    BY SMT, Z3, <1>1, <1>6
  <2>2. f[k] = IF k = 0 THEN <<>> ELSE step[k][f[k-1]]
    BY <1>6 DEF LoopDef
  <2> QED BY <2>1, <2>2
<1>8. Def(f)
  BY SMT, Z3, <1>6, <1>7
<1>9. Def(F)
  <2> HIDE DEF Def
  <2> QED BY <1>8 DEF F
<1>10. F[0] = <<>> /\ \A k \in 1 .. N : F[k] = F[k-1] \o ss[k]
  <2>1. 0 \in 0 .. N /\ \A k \in 1 .. N : k \in 0 .. N /\ k # 0
    BY SMT, Z3, <1>1
  <2> QED BY <1>9, <2>1
<1>11. ss \in Seq(Seq(Place)) /\ Len(ss) = N
  BY SMT, Z3, <1>1, <1>3
<1>12. \A k \in 1 .. N : Range(ss[k]) = PlacesOf(k) /\ IsInjective(ss[k])
  BY <1>3
<1> HIDE DEF ss, Def
<1>13. \A k, l \in 1 .. N : k # l => PlacesOf(k) \cap PlacesOf(l) = {}
  BY DEF PlacesOf
<1>14. UNION {Range(ss[k]) : k \in 1 .. Len(ss)} = Places
  BY <1>11, <1>12 DEF Places, N
<1> QED
  BY <1>2, <1>10, <1>11, <1>12, <1>13, <1>14, JoinParts
-----------------------------------------------------------------------------
(* The blocks of the pipeline are what its places point to.                *)
LEMMA BlocksArePointers ==
  ASSUME cmds \in Seq(Commands)
  PROVE  /\ PipelineBlocks = {Pointer(x) : x \in Places}
         /\ PipelineBlocks \subseteq Nat
<1>1. DOMAIN cmds = 1 .. Len(cmds) /\ \A k \in 1 .. Len(cmds) : cmds[k] \in Commands
  BY SMT, Z3
<1>2. ASSUME NEW k \in 1 .. Len(cmds)
      PROVE  Strings(cmds[k]) = {Pointer(x) : x \in PlacesOf(k)}
  <2> DEFINE c == cmds[k]
             place(f, j) == [cmd |-> k, field |-> f, arg |-> j]
  <2>1. /\ k \in Nat /\ c.argv \in Seq(Nat) /\ c.input \in Pointers
        /\ c.output \in Pointers /\ c["input"] = c.input
        /\ c["output"] = c.output
    BY SMT, Z3, <1>1 DEF Commands
  <2>2. /\ DOMAIN c.argv = 1 .. Len(c.argv) /\ Len(c.argv) \in Nat
        /\ \A j \in 1 .. Len(c.argv) : c.argv[j] \in Nat
    BY SMT, Z3, <2>1
  <2>3. ASSUME NEW x \in PlacesOf(k) PROVE Pointer(x) \in Strings(c)
    <3>1. x.cmd = k /\ x.field \in {"argv", "input", "output"}
      BY DEF PlacesOf, Place
    <3>2. CASE x.field = "argv"
      <4>1. x.arg \in 1 .. Len(c.argv) /\ Pointer(x) = c.argv[x.arg]
        BY <3>1, <3>2 DEF PlacesOf, Pointer
      <4>2. Pointer(x) \in Range(c.argv) /\ Pointer(x) # NULL
        BY <2>2, <4>1, NullAssumption DEF Range
      <4> QED
        BY <4>2 DEF Strings
    <3>3. CASE x.field = "input"
      BY <2>1, <3>1, <3>3 DEF PlacesOf, Pointer, Strings
    <3>4. CASE x.field = "output"
      BY <2>1, <3>1, <3>4 DEF PlacesOf, Pointer, Strings
    <3> QED
      BY <3>1, <3>2, <3>3, <3>4
  <2>4. ASSUME NEW e \in Strings(c) PROVE \E x \in PlacesOf(k) : e = Pointer(x)
    <3>1. e # NULL /\ (e \in Range(c.argv) \/ e = c.input \/ e = c.output)
      BY <2>4 DEF Strings
    <3>2. CASE e \in Range(c.argv)
      <4>1. PICK j \in 1 .. Len(c.argv) : e = c.argv[j]
        BY <2>2, <3>2 DEF Range
      <4>2. place("argv", j) \in PlacesOf(k) /\ Pointer(place("argv", j)) = e
        BY SMT, Z3, <2>1, <2>2, <4>1 DEF PlacesOf, Place, Pointer
      <4> QED
        BY <4>2
    <3>3. CASE e = c.input
      <4>1. place("input", 0) \in PlacesOf(k) /\ Pointer(place("input", 0)) = e
        BY <2>1, <3>1, <3>3 DEF PlacesOf, Place, Pointer
      <4> QED
        BY <4>1
    <3>4. CASE e = c.output
      <4>1. place("output", 0) \in PlacesOf(k) /\ Pointer(place("output", 0)) = e
        BY <2>1, <3>1, <3>4 DEF PlacesOf, Place, Pointer
      <4> QED
        BY <4>1
    <3> QED
      BY <3>1, <3>2, <3>3, <3>4
  <2> HIDE DEF c, place
  <2> QED
    BY <2>3, <2>4 DEF c
<1>3. PipelineBlocks = {Pointer(x) : x \in Places}
  BY SMT, Z3, <1>1, <1>2 DEF PipelineBlocks, Places
<1>4. \A k \in 1 .. Len(cmds) : Strings(cmds[k]) \subseteq Nat
  BY SMT, Z3, <1>1 DEF Strings, Commands, Range, Pointers
<1> QED
  BY <1>1, <1>3, <1>4 DEF PipelineBlocks

(* The same after a step.                                                  *)
LEMMA BlocksArePointersNext ==
  cmds' \in Seq(Commands) => PipelineBlocks' = {Pointer(x)' : x \in Places'}
<1>1. cmds \in Seq(Commands) => PipelineBlocks = {Pointer(x) : x \in Places}
  BY BlocksArePointers
<1>2. (cmds \in Seq(Commands) => PipelineBlocks = {Pointer(x) : x \in Places})'
  BY <1>1, PTL
<1> QED
  BY <1>2

-----------------------------------------------------------------------------
Blocks == [token : Nat, times : Nat]

(* What main() keeps true of its variables besides their types.            *)
LineShape ==
  /\ cmds \in Seq(Commands)
  /\ IsFiniteSet(DOMAIN heap) /\ DOMAIN heap \subseteq Nat
  /\ phase \in {"read", "exited"} => tokens = <<>> /\ cmds = <<>> /\ line = NULL
  /\ phase = "lex" => cmds = <<>> /\ Len(tokens) < MAX_TOKENS
  /\ phase \notin {"read", "exited", "lex"} => cmds # <<>>

LineBlock == {line} \ {NULL}

(* Every block has one owner: a string of the pipeline, a token, the line, *)
(* or nobody any more.                                                     *)
Ownership ==
  /\ \A x, y \in Places : Pointer(x) = Pointer(y) => x = y
  /\ \A k, l \in DOMAIN tokens :
       tokens[k].value # NULL /\ tokens[k].value = tokens[l].value => k = l
  /\ PipelineBlocks \cap TokenBlocks = {}
  /\ LineBlock \cap (PipelineBlocks \cup TokenBlocks) = {}
  /\ lost \cap (PipelineBlocks \cup TokenBlocks \cup LineBlock) = {}
  /\ DOMAIN heap = PipelineBlocks \cup TokenBlocks \cup LineBlock \cup lost

LineInv == TypeOK /\ LineShape /\ Ownership

(* A new block put into a place of the pipeline, and the one it replaces   *)
(* freed: what add_argument, set_string and expand_command do.             *)
LEMMA PutOwnership ==
  ASSUME LineInv, NEW x \in Place, NEW b \in Blocks,
         cmds' \in Seq(Commands),
         Places' = Places \cup {x},
         \A y \in Places : y # x => Pointer(y)' = Pointer(y),
         Pointer(x)' = Address(heap),
         heap' = Without(With(heap, Address(heap), b),
                         IF x \in Places THEN {Pointer(x)} ELSE {}),
         UNCHANGED <<tokens, line, lost>>
  PROVE  /\ Ownership'
         /\ IsFiniteSet(DOMAIN heap') /\ DOMAIN heap' \subseteq Nat
         /\ \A e \in DOMAIN heap' : heap'[e] \in Blocks
         /\ \A y \in Places : y # x => heap'[Pointer(y)] = heap[Pointer(y)]
         /\ heap'[Address(heap)] = b
<1> DEFINE a == Address(heap)
           old == IF x \in Places THEN {Pointer(x)} ELSE {}
<1>1. a \in Nat \ {0} /\ a \notin DOMAIN heap
  BY FreshAddress DEF LineInv, LineShape
<1> HIDE DEF a
<1>2. /\ cmds \in Seq(Commands) /\ IsFiniteSet(DOMAIN heap)
      /\ DOMAIN heap \subseteq Nat
      /\ \A e \in DOMAIN heap : heap[e] \in Blocks
  BY DEF LineInv, LineShape, TypeOK, Blocks
<1>3. /\ PipelineBlocks = {Pointer(y) : y \in Places}
      /\ PipelineBlocks' = {Pointer(y)' : y \in Places'}
  BY <1>2, BlocksArePointers, BlocksArePointersNext
<1>4. /\ DOMAIN heap' = (DOMAIN heap \cup {a}) \ old
      /\ \A e \in DOMAIN heap' : heap'[e] = IF e = a THEN b ELSE heap[e]
  <2> DEFINE h == With(heap, a, b)
  <2>1. heap' = Without(h, old)
    BY DEF a
  <2>2. /\ DOMAIN h = DOMAIN heap \cup {a}
        /\ \A e \in DOMAIN h : h[e] = IF e = a THEN b ELSE heap[e]
    BY DEF With
  <2> HIDE DEF h, old
  <2>3. DOMAIN heap' = DOMAIN h \ old /\ \A e \in DOMAIN h \ old : heap'[e] = h[e]
    BY <2>1 DEF Without
  <2> QED
    BY <2>2, <2>3
<1>5. PipelineBlocks' = (PipelineBlocks \ old) \cup {a} /\ old \subseteq PipelineBlocks
  BY SMT, Z3, <1>3 DEF a, LineInv, Ownership
<1>6. a \notin PipelineBlocks \cup TokenBlocks \cup LineBlock \cup lost
  BY <1>1 DEF LineInv, Ownership
<1>7. UNCHANGED <<TokenBlocks, LineBlock, lost>>
  BY DEF TokenBlocks, LineBlock
<1>8. \A y, z \in Places' : Pointer(y)' = Pointer(z)' => y = z
  BY SMT, Z3, <1>3, <1>6 DEF a, LineInv, Ownership
<1>9. Ownership'
  <2> HIDE DEF old
  <2>1. DOMAIN heap = PipelineBlocks \cup TokenBlocks \cup LineBlock \cup lost
    BY DEF LineInv, Ownership
  <2>2. old \cap (TokenBlocks \cup LineBlock \cup lost \cup {a}) = {}
    BY <1>5, <1>6 DEF LineInv, Ownership
  <2>3. /\ PipelineBlocks' \cap TokenBlocks' = {}
        /\ LineBlock' \cap (PipelineBlocks' \cup TokenBlocks') = {}
        /\ lost' \cap (PipelineBlocks' \cup TokenBlocks' \cup LineBlock') = {}
    BY SMT, Z3, <1>5, <1>6, <1>7 DEF LineInv, Ownership
  <2>4. DOMAIN heap' = PipelineBlocks' \cup TokenBlocks' \cup LineBlock' \cup lost'
    <3>1. DOMAIN heap' = (PipelineBlocks \ old) \cup {a} \cup TokenBlocks
                          \cup LineBlock \cup lost
      BY <1>4, <2>1, <2>2
    <3> QED
      BY <1>5, <1>7, <3>1
  <2> QED
    BY <1>8, <2>3, <2>4 DEF LineInv, Ownership
<1>10. IsFiniteSet(DOMAIN heap') /\ DOMAIN heap' \subseteq Nat
  <2>1. IsFiniteSet(DOMAIN heap \cup {a})
    BY <1>2, FS_AddElement
  <2>2. IsFiniteSet((DOMAIN heap \cup {a}) \ old)
    BY <2>1, FS_Difference
  <2> QED
    BY <1>1, <1>2, <1>4, <2>2
<1>11. ASSUME NEW y \in Places, y # x PROVE heap'[Pointer(y)] = heap[Pointer(y)]
  <2>1. Pointer(y) \in PipelineBlocks /\ Pointer(y) \notin old
    BY <1>3, <1>11 DEF LineInv, Ownership
  <2>2. Pointer(y) \in DOMAIN heap' /\ Pointer(y) # a
    BY <1>1, <1>4, <2>1 DEF LineInv, Ownership
  <2> QED
    BY <1>4, <2>2
<1>12. a \in DOMAIN heap'
  BY <1>1, <1>4, <1>5, <1>6
<1> QED
  BY <1>2, <1>4, <1>9, <1>10, <1>11, <1>12 DEF a
-----------------------------------------------------------------------------
(* The pointer in place x of the pipeline becomes a, and no other changes. *)
Puts(x, a) ==
  /\ cmds' \in Seq(Commands) /\ Len(cmds') = Len(cmds)
  /\ x \in Place /\ x.cmd \in 1 .. Len(cmds) /\ a \in Nat
  /\ \A l \in 1 .. Len(cmds) : l # x.cmd => cmds'[l] = cmds[l]
  /\ LET old == cmds[x.cmd]
         new == cmds'[x.cmd]
     IN  \/ /\ x.field = "argv"
            /\ new.input = old.input /\ new.output = old.output
            /\ Len(old.argv) <= Len(new.argv) /\ Len(new.argv) <= Len(old.argv) + 1
            /\ x.arg \in 1 .. Len(new.argv)
            /\ Len(new.argv) > Len(old.argv) => x.arg = Len(new.argv)
            /\ new.argv[x.arg] = a
            /\ \A j \in 1 .. Len(old.argv) : j # x.arg => new.argv[j] = old.argv[j]
         \/ /\ x.field = "input" /\ x.arg = 0
            /\ new.argv = old.argv /\ new.output = old.output /\ new.input = a
         \/ /\ x.field = "output" /\ x.arg = 0
            /\ new.argv = old.argv /\ new.input = old.input /\ new.output = a

(* The places of the pipeline after that: x is one of them, and only its   *)
(* pointer is another one.                                                 *)
LEMMA PutsPlace ==
  ASSUME cmds \in Seq(Commands), NEW x, NEW a, Puts(x, a)
  PROVE  /\ Places' = Places \cup {x}
         /\ \A y \in Places : y # x => Pointer(y)' = Pointer(y)
         /\ Pointer(x)' = a
<1> DEFINE k == x.cmd
           old == cmds[k]
           new == cmds'[k]
<1>1. /\ k \in 1 .. Len(cmds) /\ old \in Commands /\ new \in Commands /\ x \in Place
      /\ Len(cmds') = Len(cmds) /\ a \in Nat /\ a # NULL
      /\ \A l \in 1 .. Len(cmds) : l # k => cmds'[l] = cmds[l]
      /\ x.field \in {"argv", "input", "output"}
  BY SMT, Z3, NullAssumption DEF Puts, Place
<1>2. /\ Len(old.argv) \in Nat /\ Len(new.argv) \in Nat
      /\ old["input"] = old.input /\ new["input"] = new.input
      /\ old["output"] = old.output /\ new["output"] = new.output
  BY SMT, Z3, <1>1 DEF Commands
<1>3. \A l \in 1 .. Len(cmds) : l # k => PlacesOf(l)' = PlacesOf(l)
  BY <1>1 DEF PlacesOf
<1>4. PlacesOf(k)' = PlacesOf(k) \cup {x}
  <2>1. CASE x.field = "argv"
    <3>1. /\ new.input = old.input /\ new.output = old.output
          /\ 1 .. Len(new.argv) = (1 .. Len(old.argv)) \cup {x.arg}
      BY SMT, Z3, <1>2, <2>1 DEF Puts
    <3>2. \A y \in Place : y.cmd = k /\ y.field = "argv" =>
            (y = x <=> y.arg = x.arg)
      BY SMT, Z3, <1>1, <2>1 DEF Place
    <3>3. ASSUME NEW y \in Place PROVE y \in PlacesOf(k)' <=> y \in PlacesOf(k) \/ y = x
      BY <1>1, <2>1, <3>1, <3>2 DEF PlacesOf
    <3>4. PlacesOf(k) \subseteq Place /\ PlacesOf(k)' \subseteq Place
      BY DEF PlacesOf
    <3> QED
      BY <1>1, <3>3, <3>4
  <2>2. CASE x.field \in {"input", "output"}
    <3>1. new.argv = old.argv /\ x.arg = 0
      BY <2>2 DEF Puts
    <3>2. /\ x.field = "input" => new.output = old.output /\ new.input = a
          /\ x.field = "output" => new.input = old.input /\ new.output = a
      BY <2>2 DEF Puts
    <3>3. \A y \in Place : y.cmd = k /\ y.field = x.field /\ y.arg = 0 <=> y = x
      BY SMT, Z3, <1>1, <3>1 DEF Place
    <3>4. ASSUME NEW y \in Place PROVE y \in PlacesOf(k)' <=> y \in PlacesOf(k) \/ y = x
      BY <1>1, <2>2, <3>1, <3>2, <3>3 DEF PlacesOf
    <3>5. PlacesOf(k) \subseteq Place /\ PlacesOf(k)' \subseteq Place
      BY DEF PlacesOf
    <3> QED
      BY <1>1, <3>4, <3>5
  <2> QED
    BY <1>1, <2>1, <2>2
<1>5. Places' = Places \cup {x}
  BY <1>1, <1>3, <1>4 DEF Places
<1>6. Pointer(x)' = a
  BY <1>2 DEF Puts, Pointer
<1>7. ASSUME NEW y \in Places, y # x PROVE Pointer(y)' = Pointer(y)
  <2>1. /\ y.cmd \in 1 .. Len(cmds) /\ y \in PlacesOf(y.cmd) /\ y \in Place
        /\ y.field \in {"argv", "input", "output"}
    BY SMT, Z3 DEF Places, PlacesOf, Place
  <2>2. CASE y.cmd # k
    BY <1>1, <2>1, <2>2 DEF Pointer
  <2>3. CASE y.cmd = k /\ y.field = "argv"
    <3>1. y.arg \in 1 .. Len(old.argv) /\ (x.field = "argv" => y.arg # x.arg)
      BY SMT, Z3, <1>1, <1>7, <2>1, <2>3 DEF PlacesOf, Place
    <3>2. new.argv[y.arg] = old.argv[y.arg]
      BY <3>1 DEF Puts
    <3> QED
      BY <2>3, <3>2 DEF Pointer
  <2>4. CASE y.cmd = k /\ y.field \in {"input", "output"}
    <3>1. y.arg = 0
      BY <2>1, <2>4 DEF PlacesOf
    <3>2. x.field = y.field => x.arg # 0
      BY SMT, Z3, <1>1, <1>7, <2>1, <2>4, <3>1 DEF Place
    <3>3. /\ y.field = "input" => new.input = old.input
          /\ y.field = "output" => new.output = old.output
      BY <2>4, <3>2 DEF Puts
    <3> QED
      BY <1>2, <2>4, <3>3 DEF Pointer
  <2> QED
    BY <2>1, <2>2, <2>3, <2>4
<1> QED
  BY <1>5, <1>6, <1>7
-----------------------------------------------------------------------------
(* Steps that put no string into the pipeline and take none out.           *)
LEMMA SamePlaces ==
  ASSUME LineInv, cmds' \in Seq(Commands), Places' = Places,
         \A y \in Places : Pointer(y)' = Pointer(y),
         UNCHANGED <<tokens, line, heap, lost>>
  PROVE  Ownership'
<1>1. PipelineBlocks' = PipelineBlocks
  BY BlocksArePointers, BlocksArePointersNext DEF LineInv, LineShape
<1>2. UNCHANGED <<TokenBlocks, LineBlock>>
  BY DEF TokenBlocks, LineBlock
<1>3. \A y, z \in Places' : Pointer(y)' = Pointer(z)' => y = z
  BY SMT, Z3 DEF LineInv, Ownership
<1> QED
  BY <1>1, <1>2, <1>3 DEF LineInv, Ownership

(* Steps that move from one part of main() to the next and leave memory as *)
(* it is.                                                                  *)
LEMMA MemoryKept ==
  ASSUME LineInv, UNCHANGED <<tokens, cmds, line, heap, lost>>,
         phase' \in Phases, i' \in 0 .. Len(tokens), next' \in Nat,
         fails' \in 0 .. Failures,
         phase \notin {"read", "lex", "exited"},
         phase' \notin {"read", "lex", "exited"}
  PROVE  LineInv'
<1>1. Places' = Places /\ \A y \in Places : Pointer(y)' = Pointer(y)
  BY SMT, Z3 DEF Places, PlacesOf, Pointer
<1>2. cmds' \in Seq(Commands)
  BY DEF LineInv, LineShape
<1>3. Ownership'
  BY <1>1, <1>2, SamePlaces
<1>4. TypeOK'
  BY DEF LineInv, TypeOK
<1>5. LineShape'
  BY DEF LineInv, LineShape
<1> QED
  BY <1>3, <1>4, <1>5 DEF LineInv

(* A pipeline without strings.                                             *)
LEMMA EmptyPipeline ==
  ASSUME cmds \in {<<>>, <<NoCommand>>}
  PROVE  cmds \in Seq(Commands) /\ Places = {} /\ PipelineBlocks = {}
<1>1. NoCommand \in Commands /\ Len(NoCommand.argv) = 0
  BY SMT, Z3 DEF NoCommand, Commands, Pointers
<1>2. cmds \in Seq(Commands)
  <2> HIDE DEF NoCommand, Commands
  <2>1. <<>> \in Seq(Commands) /\ <<NoCommand>> \in Seq(Commands)
    BY SMT, Z3, <1>1
  <2> QED
    BY <2>1
<1>3. \A k \in 1 .. Len(cmds) : cmds[k] = NoCommand
  BY SMT, Z3
<1>4. \A k \in 1 .. Len(cmds) : PlacesOf(k) = {}
  BY SMT, Z3, <1>3 DEF PlacesOf, Place, NoCommand
<1>5. Places = {}
  BY SMT, Z3, <1>4 DEF Places
<1> QED
  BY <1>2, <1>5, BlocksArePointers

(* The same after a step.                                                  *)
LEMMA EmptyPipelineNext ==
  cmds' \in {<<>>, <<NoCommand>>} =>
    cmds' \in Seq(Commands) /\ Places' = {} /\ PipelineBlocks' = {}
<1>1. cmds \in {<<>>, <<NoCommand>>} =>
        cmds \in Seq(Commands) /\ Places = {} /\ PipelineBlocks = {}
  BY EmptyPipeline
<1>2. (cmds \in {<<>>, <<NoCommand>>} =>
        cmds \in Seq(Commands) /\ Places = {} /\ PipelineBlocks = {})'
  BY <1>1, PTL
<1> QED
  BY <1>2
-----------------------------------------------------------------------------
(* Between two lines main() holds nothing.                                 *)
LEMMA LineStarts == Init => LineInv
<1> SUFFICES ASSUME Init PROVE LineInv
  OBVIOUS
<1>1. DOMAIN heap = {} /\ IsFiniteSet({})
  BY SMT, Z3, FS_EmptySet DEF Init
<1>2. cmds \in Seq(Commands) /\ Places = {} /\ PipelineBlocks = {}
  BY EmptyPipeline DEF Init
<1>3. TypeOK
  BY SMT, Z3, <1>1, LimitsAssumption DEF Init, TypeOK, Phases, Pointers
<1>4. LineShape
  BY <1>1, <1>2 DEF Init, LineShape
<1>5. Ownership
  BY <1>1, <1>2 DEF Init, Ownership, TokenBlocks, LineBlock
<1> QED
  BY <1>3, <1>4, <1>5 DEF LineInv

(* What With does to a heap, at an address that is not in use.             *)
LEMMA NewBlock ==
  ASSUME LineInv, NEW b \in Blocks, heap' = With(heap, Address(heap), b)
  PROVE  /\ Address(heap) \in Nat /\ Address(heap) \notin DOMAIN heap
         /\ DOMAIN heap' = DOMAIN heap \cup {Address(heap)}
         /\ IsFiniteSet(DOMAIN heap') /\ DOMAIN heap' \subseteq Nat
         /\ \A e \in DOMAIN heap' : heap'[e] \in Blocks
         /\ \A e \in DOMAIN heap : heap'[e] = heap[e]
         /\ heap'[Address(heap)] = b
<1> DEFINE a == Address(heap)
<1>1. a \in Nat \ {0} /\ a \notin DOMAIN heap
  BY FreshAddress DEF LineInv, LineShape
<1> HIDE DEF a
<1>2. /\ IsFiniteSet(DOMAIN heap) /\ DOMAIN heap \subseteq Nat
      /\ \A e \in DOMAIN heap : heap[e] \in Blocks
  BY DEF LineInv, LineShape, TypeOK, Blocks
<1>3. /\ DOMAIN heap' = DOMAIN heap \cup {a}
      /\ \A e \in DOMAIN heap' : heap'[e] = IF e = a THEN b ELSE heap[e]
  BY DEF With, a
<1>4. IsFiniteSet(DOMAIN heap \cup {a})
  BY <1>2, FS_AddElement
<1> QED
  BY <1>1, <1>2, <1>3, <1>4 DEF a

(* getline gives the line to the loop.                                     *)
LEMMA ReadLineOwns == LineInv /\ ReadLine => LineInv'
<1> SUFFICES ASSUME LineInv, ReadLine PROVE LineInv'
  OBVIOUS
<1> DEFINE a == Address(heap)
<1>1. Block(0, 0) \in Blocks
  BY DEF Block, Blocks
<1>2. /\ a \in Nat /\ a \notin DOMAIN heap /\ DOMAIN heap' = DOMAIN heap \cup {a}
      /\ IsFiniteSet(DOMAIN heap') /\ DOMAIN heap' \subseteq Nat
      /\ \A e \in DOMAIN heap' : heap'[e] \in Blocks
  BY <1>1, NewBlock DEF ReadLine
<1>3. /\ tokens = <<>> /\ cmds = <<>> /\ line = NULL
      /\ phase' = "lex" /\ line' = a /\ cmds' = <<>> /\ tokens' = <<>>
      /\ UNCHANGED <<tokens, i, cmds, next, fails, lost>>
  BY DEF ReadLine, LineInv, LineShape
<1> HIDE DEF a
<1>4. /\ PipelineBlocks = {} /\ PipelineBlocks' = {} /\ Places' = {}
      /\ cmds' \in Seq(Commands) /\ TokenBlocks = {} /\ TokenBlocks' = {}
      /\ LineBlock = {} /\ LineBlock' = {a}
  <2>1. PipelineBlocks = {} /\ PipelineBlocks' = {} /\ Places' = {} /\ cmds' \in Seq(Commands)
    BY <1>3, EmptyPipeline, EmptyPipelineNext
  <2>2. TokenBlocks = {} /\ TokenBlocks' = {}
    BY SMT, Z3, <1>3 DEF TokenBlocks
  <2>3. LineBlock = {} /\ LineBlock' = {a}
    BY <1>2, <1>3, NullAssumption DEF LineBlock
  <2> QED
    BY <2>1, <2>2, <2>3
<1>5. TypeOK'
  BY <1>2, <1>3 DEF LineInv, TypeOK, Phases, Pointers, Blocks
<1>6. LineShape'
  BY SMT, Z3, <1>2, <1>3, <1>4, LimitsAssumption DEF LineShape
<1>7. Ownership'
  <2>1. DOMAIN heap = lost
    BY <1>4 DEF LineInv, Ownership
  <2> QED
    BY SMT, Z3, <1>2, <1>3, <1>4, <2>1 DEF Ownership
<1> QED
  BY <1>5, <1>6, <1>7 DEF LineInv

(* At the end of the input nothing is held.                                *)
LEMMA EndOfInputOwns == LineInv /\ EndOfInput => LineInv'
<1> SUFFICES ASSUME LineInv, EndOfInput PROVE LineInv'
  OBVIOUS
<1>1. Places' = Places /\ \A y \in Places : Pointer(y)' = Pointer(y)
  BY SMT, Z3 DEF EndOfInput, Places, PlacesOf, Pointer
<1>2. cmds' \in Seq(Commands) /\ UNCHANGED <<tokens, line, heap, lost>>
  BY DEF LineInv, LineShape, EndOfInput
<1>3. Ownership'
  BY <1>1, <1>2, SamePlaces
<1>4. TypeOK'
  BY DEF LineInv, TypeOK, EndOfInput, Phases
<1>5. LineShape'
  BY DEF LineInv, LineShape, EndOfInput
<1> QED
  BY <1>3, <1>4, <1>5 DEF LineInv

(* token_list_add gives the text of a token to the list.                   *)
LEMMA CollectOwns ==
  ASSUME LineInv, NEW type \in TokenTypes, Collect(type)
  PROVE  LineInv'
<1> DEFINE a == Address(heap)
           N == Len(tokens)
<1>1. /\ phase = "lex" /\ cmds = <<>> /\ N < MAX_TOKENS /\ N \in Nat
      /\ tokens \in Seq([type : TokenTypes, value : Pointers])
      /\ UNCHANGED <<next, line, lost>>
  BY SMT, Z3 DEF Collect, LineInv, LineShape, TypeOK
<1>2. PICK v \in Pointers :
        /\ tokens' = Append(tokens, [type |-> type, value |-> v])
        /\ \/ v = a /\ heap' = With(heap, a, Block(N + 1, 0)) /\ fails' = fails
           \/ v = NULL /\ heap' = heap /\ fails > 0 /\ fails' = fails - 1
  <2>1. a \in Pointers /\ NULL \in Pointers
    BY FreshAddress DEF LineInv, LineShape, Pointers
  <2> QED
    BY <2>1 DEF Collect, MayFail
<1>3. /\ IsFiniteSet(DOMAIN heap') /\ DOMAIN heap' \subseteq Nat
      /\ \A e \in DOMAIN heap' : heap'[e] \in Blocks
      /\ DOMAIN heap' = DOMAIN heap \cup ({v} \ {NULL})
      /\ v # NULL => v \notin DOMAIN heap
  <2>1. CASE v = NULL /\ heap' = heap
    BY <2>1 DEF LineInv, LineShape, TypeOK, Blocks
  <2>2. CASE v = a /\ heap' = With(heap, a, Block(N + 1, 0))
    <3>1. Block(N + 1, 0) \in Blocks
      BY <1>1 DEF Block, Blocks
    <3>2. /\ a \in Nat /\ a \notin DOMAIN heap /\ DOMAIN heap' = DOMAIN heap \cup {a}
          /\ IsFiniteSet(DOMAIN heap') /\ DOMAIN heap' \subseteq Nat
          /\ \A e \in DOMAIN heap' : heap'[e] \in Blocks
      BY <2>2, <3>1, NewBlock
    <3> QED
      BY <2>2, <3>2, NullAssumption
  <2> QED
    BY <1>2, <2>1, <2>2
<1>4. /\ tokens' \in Seq([type : TokenTypes, value : Pointers]) /\ Len(tokens') = N + 1
      /\ \A k \in 1 .. N : tokens'[k] = tokens[k]
      /\ tokens'[N+1] = [type |-> type, value |-> v]
      /\ DOMAIN tokens = 1 .. N /\ DOMAIN tokens' = 1 .. N + 1
  BY <1>1, <1>2
<1>5. /\ phase' \in {"lex", "parse"} /\ i' \in 0 .. N + 1 /\ fails' \in 0 .. Failures
      /\ phase' = "lex" => cmds' = <<>> /\ N + 1 < MAX_TOKENS
      /\ phase' = "parse" => cmds' = <<NoCommand>>
  BY <1>1, <1>2, <1>4, LimitsAssumption DEF Collect, LineInv, TypeOK
<1>6. /\ PipelineBlocks = {} /\ PipelineBlocks' = {} /\ Places' = {}
      /\ cmds' \in Seq(Commands)
  BY <1>1, <1>5, EmptyPipeline, EmptyPipelineNext
<1>7. TypeOK'
  <2>1. Len(cmds') <= MAX_COMMANDS
    <3>1. Len(cmds') = 0 \/ Len(cmds') = 1
      BY <1>5
    <3> QED
      BY <3>1, LimitsAssumption
  <2>2. \A k \in DOMAIN cmds' : cmds'[k] \in Commands /\ Len(cmds'[k].argv) <= MAX_ARGS - 1
    <3>1. \A k \in DOMAIN cmds' : cmds'[k] = NoCommand
      BY <1>5
    <3>2. Len(NoCommand.argv) <= MAX_ARGS - 1
      BY LimitsAssumption DEF NoCommand
    <3> QED
      BY <1>6, <3>1, <3>2
  <2>3. Len(tokens') <= MAX_TOKENS
    BY <1>1, <1>4, LimitsAssumption
  <2> QED
    BY <1>1, <1>3, <1>4, <1>5, <2>1, <2>2, <2>3
    DEF LineInv, TypeOK, Phases, Blocks, Commands
<1>8. LineShape'
  <2>1. <<NoCommand>> # <<>>
    OBVIOUS
  <2>2. phase' # "lex" => cmds' # <<>>
    BY <1>5, <2>1
  <2>3. phase' = "lex" => cmds' = <<>> /\ Len(tokens') < MAX_TOKENS
    BY <1>4, <1>5
  <2> QED
    BY <1>3, <1>5, <1>6, <2>2, <2>3 DEF LineShape
<1>9. Ownership'
  <2>1. DOMAIN heap = TokenBlocks \cup LineBlock \cup lost
    BY <1>6 DEF LineInv, Ownership
  <2>2. TokenBlocks' = TokenBlocks \cup ({v} \ {NULL})
    BY <1>1, <1>4 DEF TokenBlocks
  <2>3. LineBlock' = LineBlock /\ lost' = lost
    BY <1>1 DEF LineBlock
  <2>4. \A k \in 1 .. N : tokens[k].value # NULL => tokens[k].value \in TokenBlocks
    BY <1>4 DEF TokenBlocks
  <2>5. \A k, l \in DOMAIN tokens' :
          tokens'[k].value # NULL /\ tokens'[k].value = tokens'[l].value => k = l
    <3>1. \A k, l \in 1 .. N :
            tokens[k].value # NULL /\ tokens[k].value = tokens[l].value => k = l
      BY <1>4 DEF LineInv, Ownership
    <3>2. tokens'[N+1].value = v /\ (v # NULL => v \notin TokenBlocks)
      BY <1>3, <1>4, <2>1
    <3>3. \A k \in 1 .. N + 1 : k \in 1 .. N \/ k = N + 1
      BY <1>1
    <3> QED
      BY <1>4, <2>4, <3>1, <3>2, <3>3
  <2>6. v # NULL => v \notin LineBlock \cup lost
    BY <1>3, <2>1
  <2>7. LineBlock \cap TokenBlocks = {} /\ lost \cap (TokenBlocks \cup LineBlock) = {}
    BY DEF LineInv, Ownership
  <2> QED
    BY <1>3, <1>6, <2>1, <2>2, <2>3, <2>5, <2>6, <2>7 DEF Ownership
<1> QED
  BY <1>7, <1>8, <1>9 DEF LineInv
-----------------------------------------------------------------------------
(* A step that puts a new block into a place of the pipeline.              *)
PutsBlock(x, b) ==
  /\ Puts(x, Address(heap)) /\ b \in Blocks
  /\ heap' = Without(With(heap, Address(heap), b),
                     IF x \in Places THEN {Pointer(x)} ELSE {})
  /\ \A k \in 1 .. Len(cmds) : Len(cmds'[k].argv) <= MAX_ARGS - 1
  /\ i' \in 0 .. Len(tokens) /\ next' \in Nat
  /\ phase \notin {"read", "lex", "exited"}
  /\ UNCHANGED <<phase, tokens, line, fails, lost>>

(* A block that is stored in its place gets one owner.                     *)
LEMMA PutsBlockOwns ==
  ASSUME LineInv, NEW x, NEW b, PutsBlock(x, b)
  PROVE  /\ LineInv' /\ Places' = Places \cup {x}
         /\ \A y \in Places : y # x => /\ Pointer(y)' = Pointer(y)
                                      /\ heap'[Pointer(y)'] = heap[Pointer(y)]
         /\ Pointer(x)' = Address(heap) /\ heap'[Pointer(x)'] = b
<1>1. /\ cmds \in Seq(Commands) /\ cmds # <<>> /\ Puts(x, Address(heap))
      /\ cmds' \in Seq(Commands) /\ x \in Place /\ b \in Blocks
      /\ Len(cmds') = Len(cmds)
  BY DEF LineInv, LineShape, PutsBlock, Puts
<1>2. /\ Places' = Places \cup {x}
      /\ \A y \in Places : y # x => Pointer(y)' = Pointer(y)
      /\ Pointer(x)' = Address(heap)
  BY <1>1, PutsPlace
<1>3. /\ heap' = Without(With(heap, Address(heap), b),
                         IF x \in Places THEN {Pointer(x)} ELSE {})
      /\ UNCHANGED <<tokens, line, lost>>
  BY DEF PutsBlock
<1>4. /\ Ownership'
      /\ IsFiniteSet(DOMAIN heap') /\ DOMAIN heap' \subseteq Nat
      /\ \A e \in DOMAIN heap' : heap'[e] \in Blocks
      /\ \A y \in Places : y # x => heap'[Pointer(y)] = heap[Pointer(y)]
      /\ heap'[Address(heap)] = b
  BY <1>1, <1>2, <1>3, PutOwnership
<1>5. TypeOK'
  <2>1. /\ Len(cmds') <= MAX_COMMANDS
        /\ \A k \in DOMAIN cmds' : cmds'[k] \in Commands /\ Len(cmds'[k].argv) <= MAX_ARGS - 1
    <3>1. Len(cmds) <= MAX_COMMANDS
      BY DEF LineInv, TypeOK
    <3>2. \A k \in 1 .. Len(cmds) : Len(cmds'[k].argv) <= MAX_ARGS - 1
      BY DEF PutsBlock
    <3>3. DOMAIN cmds' = 1 .. Len(cmds) /\ \A k \in DOMAIN cmds' : cmds'[k] \in Commands
      BY SMT, Z3, <1>1
    <3> QED
      BY <1>1, <3>1, <3>2, <3>3
  <2> QED
    BY <1>4, <2>1 DEF LineInv, TypeOK, PutsBlock, Commands, Blocks
<1>6. LineShape'
  <2>1. cmds' # <<>>
    BY <1>1
  <2> QED
    BY <1>1, <1>4, <2>1 DEF LineShape, PutsBlock
<1> QED
  BY <1>2, <1>4, <1>5, <1>6 DEF LineInv

(* The command parse_tokens is filling.                                    *)
LEMMA LastCommand ==
  ASSUME LineInv, phase = "parse"
  PROVE  /\ Len(cmds) \in Nat \ {0} /\ Len(cmds) \in 1 .. Len(cmds)
         /\ cmds \in Seq(Commands) /\ cmd \in Commands
         /\ cmd.argv \in Seq(Nat) /\ Len(cmd.argv) \in Nat
         /\ i \in Nat /\ Len(tokens) \in Nat /\ i <= Len(tokens)
         /\ \A k \in 1 .. Len(cmds) : Len(cmds[k].argv) <= MAX_ARGS - 1
<1>1. cmds \in Seq(Commands) /\ cmds # <<>>
  BY DEF LineInv, LineShape
<1>2. Len(cmds) \in Nat \ {0}
  BY <1>1
<1>3. cmd \in Commands
  BY <1>1, <1>2 DEF cmd
<1> QED
  BY <1>1, <1>2, <1>3 DEF Commands, LineInv, TypeOK

ArgumentPlace == [cmd |-> Len(cmds), field |-> "argv", arg |-> Len(cmd.argv) + 1]

(* add_arg stores its copy in the next place of argv.                      *)
LEMMA AddArgumentPuts ==
  LineInv /\ AddArgument => PutsBlock(ArgumentPlace, Block(i + 1, 0))
                             /\ ArgumentPlace \notin Places
<1> SUFFICES ASSUME LineInv, AddArgument
             PROVE  PutsBlock(ArgumentPlace, Block(i + 1, 0))
                    /\ ArgumentPlace \notin Places
  OBVIOUS
<1> DEFINE K == Len(cmds)
           x == ArgumentPlace
           a == Address(heap)
           argv == cmd.argv
           c == [cmd EXCEPT !.argv = Append(@, a)]
<1>1. /\ phase = "parse" /\ i < Len(tokens) /\ cmds' = [cmds EXCEPT ![K] = c]
      /\ ~TooManyArgs
      /\ heap' = With(heap, a, Block(i + 1, 0)) /\ i' = i + 1
      /\ UNCHANGED <<phase, tokens, next, line, fails, lost>>
  BY DEF AddArgument, Turn, SetCmd
<1>2. /\ K \in Nat \ {0} /\ K \in 1 .. K /\ cmds \in Seq(Commands) /\ cmd \in Commands
      /\ argv \in Seq(Nat) /\ Len(argv) \in Nat
      /\ i \in Nat /\ Len(tokens) \in Nat
      /\ \A k \in 1 .. K : Len(cmds[k].argv) <= MAX_ARGS - 1
  BY <1>1, LastCommand
<1>3. a \in Nat
  BY FreshAddress DEF LineInv, LineShape
<1> HIDE DEF a
<1>4. /\ c \in Commands /\ c.argv = Append(argv, a)
      /\ c.input = cmd.input /\ c.output = cmd.output
  <2> DEFINE w == Append(argv, a)
  <2>1. w \in Seq(Nat)
    BY <1>2, <1>3
  <2>2. c = [cmd EXCEPT !.argv = w]
    OBVIOUS
  <2> HIDE DEF w, c
  <2>3. c \in Commands /\ c.argv = w /\ c.input = cmd.input /\ c.output = cmd.output
    BY <1>2, <2>1, <2>2 DEF Commands
  <2> QED
    BY <2>3 DEF w
<1> HIDE DEF c
<1>5. /\ cmds' \in Seq(Commands) /\ Len(cmds') = K /\ cmds'[K] = c
      /\ \A l \in 1 .. K : l # K => cmds'[l] = cmds[l]
  BY <1>1, <1>2, <1>4
<1>6. /\ x.cmd = K /\ x.field = "argv" /\ x.arg = Len(argv) + 1 /\ x \in Place
  BY <1>2 DEF ArgumentPlace, Place
<1> HIDE DEF x
<1>7. /\ Len(c.argv) = Len(argv) + 1 /\ c.argv[Len(argv) + 1] = a
      /\ \A j \in 1 .. Len(argv) : c.argv[j] = argv[j]
  BY <1>2, <1>3, <1>4
<1>8. Puts(x, a)
  <2>1. cmds[x.cmd] = cmd /\ cmds'[x.cmd] = c
    BY <1>5, <1>6 DEF cmd
  <2>2. /\ Len(argv) <= Len(c.argv) /\ Len(c.argv) <= Len(argv) + 1
        /\ x.arg \in 1 .. Len(c.argv) /\ x.arg = Len(c.argv)
    BY <1>2, <1>6, <1>7
  <2> QED
    BY <1>2, <1>3, <1>4, <1>5, <1>6, <1>7, <2>1, <2>2 DEF Puts
<1>9. x \notin Places
  BY <1>2, <1>6 DEF Places, PlacesOf, cmd
<1>10. heap' = Without(With(heap, a, Block(i + 1, 0)), {})
  <2> DEFINE h == With(heap, a, Block(i + 1, 0))
  <2>1. h = [e \in DOMAIN h |-> h[e]] /\ DOMAIN h \ {} = DOMAIN h
    BY DEF With
  <2> HIDE DEF h
  <2>2. Without(h, {}) = h
    BY <2>1 DEF Without
  <2> QED
    BY <1>1, <2>2 DEF h
<1>11. \A k \in 1 .. K : Len(cmds'[k].argv) <= MAX_ARGS - 1
  <2>1. Len(c.argv) <= MAX_ARGS - 1
    BY <1>1, <1>2, <1>7, LimitsAssumption DEF TooManyArgs
  <2> QED
    BY <1>2, <1>5, <2>1
<1>12. Block(i + 1, 0) \in Blocks
  BY <1>2 DEF Block, Blocks
<1>13. next' \in Nat /\ i' \in 0 .. Len(tokens)
  BY <1>1, <1>2 DEF LineInv, TypeOK
<1> QED
  BY <1>1, <1>8, <1>9, <1>10, <1>11, <1>12, <1>13 DEF PutsBlock, a, x

FilePlace(type) ==
  [cmd |-> Len(cmds), arg |-> 0,
   field |-> IF type = "REDIRECT_IN" THEN "input" ELSE "output"]

(* A redirection stores its file name.                                     *)
LEMMA RedirectPuts ==
  ASSUME LineInv, NEW type \in Redirects, Redirect(type)
  PROVE  /\ PutsBlock(FilePlace(type), Block(i + 2, 0))
         /\ cmds'[Len(cmds)].background = cmd.background
         /\ cmds'[Len(cmds)].append = IF type = "REDIRECT_IN" THEN cmd.append
                                      ELSE type = "REDIRECT_APPEND"
<1> DEFINE K == Len(cmds)
           x == FilePlace(type)
           a == Address(heap)
           old == IF type = "REDIRECT_IN" THEN cmd.input ELSE cmd.output
           c == IF type = "REDIRECT_IN" THEN [cmd EXCEPT !.input = a]
                ELSE [cmd EXCEPT !.output = a,
                                 !.append = (type = "REDIRECT_APPEND")]
<1>1. /\ phase = "parse" /\ i + 1 < Len(tokens) /\ cmds' = [cmds EXCEPT ![K] = c]
      /\ heap' = Without(With(heap, a, Block(i + 2, 0)), {old}) /\ i' = i + 2
      /\ UNCHANGED <<phase, tokens, next, line, fails, lost>>
  BY DEF Redirect, Turn, HasTarget, SetCmd, set_string
<1>2. /\ K \in Nat \ {0} /\ K \in 1 .. K /\ cmds \in Seq(Commands) /\ cmd \in Commands
      /\ i \in Nat /\ Len(tokens) \in Nat
      /\ \A k \in 1 .. K : Len(cmds[k].argv) <= MAX_ARGS - 1
  BY <1>1, LastCommand
<1>3. a \in Nat
  BY FreshAddress DEF LineInv, LineShape
<1> HIDE DEF a
<1>4. /\ c \in Commands /\ c.argv = cmd.argv /\ c.background = cmd.background
      /\ IF type = "REDIRECT_IN"
         THEN c.input = a /\ c.output = cmd.output /\ c.append = cmd.append
         ELSE /\ c.output = a /\ c.input = cmd.input
              /\ c.append = (type = "REDIRECT_APPEND")
  <2>1. CASE type = "REDIRECT_IN"
    BY <1>2, <1>3, <2>1 DEF Commands, Pointers
  <2>2. CASE type # "REDIRECT_IN"
    BY <1>2, <1>3, <2>2 DEF Commands, Pointers
  <2> QED
    BY <2>1, <2>2
<1> HIDE DEF c
<1>5. /\ cmds' \in Seq(Commands) /\ Len(cmds') = K /\ cmds'[K] = c
      /\ \A l \in 1 .. K : l # K => cmds'[l] = cmds[l]
  BY <1>1, <1>2, <1>4
<1>6. /\ x.cmd = K /\ x.arg = 0 /\ x \in Place
      /\ x.field = IF type = "REDIRECT_IN" THEN "input" ELSE "output"
  BY <1>2 DEF FilePlace, Place
<1> HIDE DEF x
<1>7. Puts(x, a)
  <2>1. cmds[x.cmd] = cmd /\ cmds'[x.cmd] = c
    BY <1>5, <1>6 DEF cmd
  <2> QED
    BY <1>2, <1>3, <1>4, <1>5, <1>6, <2>1 DEF Puts
<1>8. /\ x \in Places <=> old # NULL
      /\ x \in Places => Pointer(x) = old
  <2>1. cmds[K] = cmd /\ cmd["input"] = cmd.input /\ cmd["output"] = cmd.output
    BY <1>2 DEF cmd, Commands
  <2>2. x \in Places <=> x \in PlacesOf(K)
    BY <1>2, <1>6 DEF Places, PlacesOf
  <2>3. x \in PlacesOf(K) <=> old # NULL
    BY <1>6, <2>1 DEF PlacesOf
  <2>4. Pointer(x) = old
    BY <1>6, <2>1 DEF Pointer
  <2> QED
    BY <2>2, <2>3, <2>4
<1>9. heap' = Without(With(heap, a, Block(i + 2, 0)),
                      IF x \in Places THEN {Pointer(x)} ELSE {})
  <2> DEFINE h == With(heap, a, Block(i + 2, 0))
  <2>1. NULL \notin DOMAIN h
    BY <1>3, NullAssumption DEF With, LineInv, LineShape
  <2> HIDE DEF h
  <2>2. Without(h, {NULL}) = Without(h, {})
    BY <2>1 DEF Without
  <2>3. heap' = Without(h, {old})
    BY <1>1 DEF h
  <2>4. heap' = Without(h, IF x \in Places THEN {Pointer(x)} ELSE {})
    BY <1>8, <2>2, <2>3
  <2> QED
    BY <2>4 DEF h
<1>10. \A k \in 1 .. K : Len(cmds'[k].argv) <= MAX_ARGS - 1
  <2>1. Len(c.argv) <= MAX_ARGS - 1
    BY <1>2, <1>4 DEF cmd
  <2> QED
    BY <1>2, <1>5, <2>1
<1>11. Block(i + 2, 0) \in Blocks
  BY <1>2 DEF Block, Blocks
<1>12. next' \in Nat /\ i' \in 0 .. Len(tokens)
  BY <1>1, <1>2 DEF LineInv, TypeOK
<1> QED
  BY <1>1, <1>4, <1>5, <1>7, <1>9, <1>10, <1>11, <1>12 DEF PutsBlock, a, x

(* The next string to expand is a string of the pipeline.                  *)
LEMMA NextPlace ==
  ASSUME LineInv, phase = "expand", ~AllExpanded, next <= Len(ToExpand)
  PROVE  /\ next + 1 \in 1 .. Len(ToExpand)
         /\ ToExpand[next+1] \in Places /\ ToExpand[next+1] \in Place
<1>1. ToExpand \in Seq(Place) /\ Range(ToExpand) = Places /\ next \in Nat
  BY ToExpandIsPlaces DEF LineInv, LineShape, TypeOK
<1>2. Len(ToExpand) \in Nat /\ DOMAIN ToExpand = 1 .. Len(ToExpand)
  BY <1>1
<1>3. next + 1 \in 1 .. Len(ToExpand)
  <2> DEFINE L == Len(ToExpand)
  <2>1. L \in Nat /\ next \in Nat /\ next <= L /\ next # L
    BY <1>1, <1>2 DEF AllExpanded
  <2> HIDE DEF L
  <2>2. next + 1 \in 1 .. L
    BY <2>1
  <2> QED
    BY <2>2 DEF L
<1> QED
  BY <1>1, <1>2, <1>3 DEF Range

(* Expansion stores the new text of a word in the same place.              *)
LEMMA ExpandPuts ==
  ASSUME LineInv, next <= Len(ToExpand), Expand
  PROVE  LET x == ToExpand[next+1]
             old == heap[Pointer(x)]
         IN  /\ PutsBlock(x, Block(old.token, old.times + 1)) /\ x \in Places
             /\ \A k \in 1 .. Len(cmds) :
                  /\ cmds'[k].append = cmds[k].append
                  /\ cmds'[k].background = cmds[k].background
                  /\ Len(cmds'[k].argv) = Len(cmds[k].argv)
<1> DEFINE x == ToExpand[next+1]
           old == heap[Pointer(x)]
           a == Address(heap)
           b == Block(old.token, old.times + 1)
           k == x.cmd
<1>1. /\ phase = "expand" /\ heap' = Without(With(heap, a, b), {Pointer(x)})
      /\ cmds' = IF x.field = "argv" THEN [cmds EXCEPT ![x.cmd].argv[x.arg] = a]
                 ELSE [cmds EXCEPT ![x.cmd][x.field] = a]
      /\ UNCHANGED <<phase, tokens, i, line, fails, lost>> /\ next' = next + 1
      /\ ~AllExpanded
  BY DEF Expand, Store
<1>2. x \in Places /\ x \in Place
  BY <1>1, NextPlace
<1> HIDE DEF x
<1>3. a \in Nat
  BY FreshAddress DEF LineInv, LineShape
<1> HIDE DEF a
<1>4. b \in Blocks
  <2>1. Pointer(x) \in DOMAIN heap
    BY <1>2, BlocksArePointers DEF LineInv, LineShape, Ownership
  <2>2. old \in Blocks
    BY <2>1 DEF LineInv, TypeOK, Blocks
  <2> HIDE DEF old
  <2> QED
    BY <2>2 DEF Block, Blocks
<1> HIDE DEF b, old
<1>5. /\ k \in 1 .. Len(cmds) /\ x \in PlacesOf(k) /\ cmds \in Seq(Commands)
      /\ cmds[k] \in Commands /\ x.field \in {"argv", "input", "output"}
      /\ Len(cmds) \in Nat
  BY <1>2 DEF Places, PlacesOf, LineInv, LineShape, Place
<1> DEFINE new == cmds'[k]
<1>6. /\ cmds' \in Seq(Commands) /\ Len(cmds') = Len(cmds)
      /\ \A l \in 1 .. Len(cmds) : l # k => cmds'[l] = cmds[l]
      /\ new.append = cmds[k].append /\ new.background = cmds[k].background
      /\ Len(new.argv) = Len(cmds[k].argv)
      /\ Puts(x, a)
  <2>1. CASE x.field = "argv"
    <3> DEFINE c == cmds[k]
               v == [c.argv EXCEPT ![x.arg] = a]
               d == [c EXCEPT !.argv = v]
    <3>1. x.arg \in 1 .. Len(c.argv) /\ c.argv \in Seq(Nat)
      BY <1>5, <2>1 DEF PlacesOf, Commands
    <3>2. cmds' = [cmds EXCEPT ![k] = d]
      BY <1>1, <2>1
    <3>3. /\ v \in Seq(Nat) /\ Len(v) = Len(c.argv) /\ v[x.arg] = a
          /\ \A j \in 1 .. Len(c.argv) : j # x.arg => v[j] = c.argv[j]
      BY <1>3, <3>1
    <3> HIDE DEF v
    <3>4. /\ d \in Commands /\ d.argv = v /\ d.input = c.input /\ d.output = c.output
          /\ d.append = c.append /\ d.background = c.background
      BY <1>5, <3>3 DEF Commands
    <3> HIDE DEF d
    <3>5. /\ cmds' \in Seq(Commands) /\ Len(cmds') = Len(cmds) /\ new = d
          /\ \A l \in 1 .. Len(cmds) : l # k => cmds'[l] = cmds[l]
      BY <1>5, <3>2, <3>4
    <3>6. Len(v) \in Nat
      BY <3>3
    <3>7. Puts(x, a)
      <4>1. /\ Len(c.argv) <= Len(new.argv) /\ Len(new.argv) <= Len(c.argv) + 1
            /\ ~ (Len(new.argv) > Len(c.argv)) /\ x.arg \in 1 .. Len(new.argv)
        BY <3>1, <3>3, <3>4, <3>5, <3>6
      <4> QED
        BY <1>2, <1>3, <1>5, <2>1, <3>3, <3>4, <3>5, <4>1 DEF Puts
    <3> QED
      BY <3>3, <3>4, <3>5, <3>7
  <2>2. CASE x.field \in {"input", "output"}
    <3> DEFINE c == cmds[k]
               d == [c EXCEPT ![x.field] = a]
    <3>1. cmds' = [cmds EXCEPT ![k] = d] /\ x.arg = 0
      BY <1>1, <1>5, <2>2 DEF PlacesOf
    <3>2. /\ d \in Commands /\ d.argv = c.argv
          /\ x.field = "input" => d.input = a /\ d.output = c.output
          /\ x.field = "output" => d.output = a /\ d.input = c.input
          /\ d.append = c.append /\ d.background = c.background
      BY <1>3, <1>5, <2>2 DEF Commands, Pointers
    <3> HIDE DEF d
    <3>3. /\ cmds' \in Seq(Commands) /\ Len(cmds') = Len(cmds) /\ new = d
          /\ \A l \in 1 .. Len(cmds) : l # k => cmds'[l] = cmds[l]
      BY <1>5, <3>1, <3>2
    <3> QED
      BY <1>2, <1>3, <1>5, <2>2, <3>1, <3>2, <3>3 DEF Puts
  <2> QED
    BY <1>5, <2>1, <2>2
<1>7. /\ \A l \in 1 .. Len(cmds) : Len(cmds'[l].argv) = Len(cmds[l].argv)
      /\ \A l \in 1 .. Len(cmds) : Len(cmds'[l].argv) <= MAX_ARGS - 1
  <2>1. \A l \in 1 .. Len(cmds) : Len(cmds[l].argv) <= MAX_ARGS - 1
    BY <1>5 DEF LineInv, TypeOK
  <2>2. ASSUME NEW l \in 1 .. Len(cmds) PROVE Len(cmds'[l].argv) = Len(cmds[l].argv)
    <3>1. CASE l = k
      BY <1>6, <3>1
    <3>2. CASE l # k
      BY <1>6, <3>2
    <3> QED
      BY <3>1, <3>2
  <2> QED
    BY <2>1, <2>2
<1>8. next' \in Nat /\ i' \in 0 .. Len(tokens)
  BY <1>1 DEF LineInv, TypeOK
<1>9. PutsBlock(x, b)
  BY <1>1, <1>2, <1>4, <1>6, <1>7, <1>8 DEF PutsBlock, a
<1> QED
  BY <1>2, <1>6, <1>7, <1>9 DEF x, b, old
-----------------------------------------------------------------------------
(* A pipe begins a command without strings.                                *)
LEMMA PipeOwns ==
  ASSUME LineInv, Pipe
  PROVE  /\ LineInv' /\ Len(cmds') = Len(cmds) + 1
         /\ cmds'[Len(cmds) + 1] = NoCommand
         /\ \A l \in 1 .. Len(cmds) : cmds'[l] = cmds[l]
         /\ Places' = Places /\ \A y \in Places : Pointer(y)' = Pointer(y)
<1> DEFINE K == Len(cmds)
<1>1. /\ phase = "parse" /\ i < Len(tokens) /\ cmds' = Append(cmds, NoCommand)
      /\ i' = i + 1 /\ ~PipeRefused
      /\ UNCHANGED <<phase, tokens, next, line, heap, fails, lost>>
  BY DEF Pipe, Turn
<1>2. /\ K \in Nat \ {0} /\ cmds \in Seq(Commands)
      /\ i \in Nat /\ Len(tokens) \in Nat
      /\ \A k \in 1 .. K : Len(cmds[k].argv) <= MAX_ARGS - 1
  BY <1>1, LastCommand
<1>3. NoCommand \in Commands /\ Len(NoCommand.argv) = 0
  BY DEF NoCommand, Commands, Pointers
<1>4. /\ cmds' \in Seq(Commands) /\ Len(cmds') = K + 1 /\ cmds'[K+1] = NoCommand
      /\ \A l \in 1 .. K : cmds'[l] = cmds[l]
  BY <1>1, <1>2, <1>3
<1>5. PICK n \in Nat : n = K
  BY <1>2
<1>6. Places' = Places
  <2>1. \A l \in 1 .. n : PlacesOf(l)' = PlacesOf(l)
    BY <1>4, <1>5 DEF PlacesOf
  <2>2. PlacesOf(n + 1)' = {}
    <3>1. /\ cmds'[n+1].input = NULL /\ cmds'[n+1].output = NULL
          /\ 1 .. Len(cmds'[n+1].argv) = {}
      BY <1>3, <1>4, <1>5 DEF NoCommand
    <3> QED
      BY <3>1 DEF PlacesOf, Place
  <2>3. 1 .. n + 1 = (1 .. n) \cup {n + 1}
    BY <1>5
  <2>4. Places' = UNION {PlacesOf(l)' : l \in 1 .. n + 1}
    BY <1>4, <1>5 DEF Places
  <2>5. Places = UNION {PlacesOf(l) : l \in 1 .. n}
    BY <1>5 DEF Places
  <2> QED
    BY <2>1, <2>2, <2>3, <2>4, <2>5
<1>7. \A y \in Places : Pointer(y)' = Pointer(y)
  BY <1>4 DEF Places, PlacesOf, Pointer
<1>8. Ownership'
  BY <1>1, <1>4, <1>6, <1>7, SamePlaces
<1>9. TypeOK'
  <2>1. Len(cmds') <= MAX_COMMANDS
    BY <1>1, <1>2, <1>4, LimitsAssumption DEF PipeRefused
  <2>2. \A k \in DOMAIN cmds' : cmds'[k] \in Commands /\ Len(cmds'[k].argv) <= MAX_ARGS - 1
    BY <1>2, <1>3, <1>4, LimitsAssumption
  <2> QED
    BY <1>1, <1>2, <2>1, <2>2 DEF LineInv, TypeOK, Commands
<1>10. LineShape'
  <2>1. cmds' # <<>>
    BY <1>2, <1>4
  <2> QED
    BY <1>1, <1>4, <2>1 DEF LineInv, LineShape
<1> QED
  BY <1>4, <1>6, <1>7, <1>8, <1>9, <1>10 DEF LineInv

(* An ampersand moves no pointer.                                          *)
LEMMA AmpersandOwns ==
  ASSUME LineInv, Ampersand
  PROVE  /\ LineInv' /\ Len(cmds') = Len(cmds)
         /\ Places' = Places /\ \A y \in Places : Pointer(y)' = Pointer(y)
         /\ \A l \in 1 .. Len(cmds) :
              /\ cmds'[l].argv = cmds[l].argv /\ cmds'[l].input = cmds[l].input
              /\ cmds'[l].output = cmds[l].output
              /\ cmds'[l].append = cmds[l].append
              /\ cmds'[l].background = (cmds[l].background \/ l = Len(cmds))
<1> DEFINE K == Len(cmds)
           c == [cmd EXCEPT !.background = TRUE]
<1>1. /\ phase = "parse" /\ i < Len(tokens) /\ cmds' = [cmds EXCEPT ![K] = c]
      /\ i' = i + 1 /\ UNCHANGED <<phase, tokens, next, line, heap, fails, lost>>
  BY DEF Ampersand, Turn, SetCmd
<1>2. /\ K \in Nat \ {0} /\ K \in 1 .. K /\ cmds \in Seq(Commands) /\ cmd \in Commands
      /\ i \in Nat /\ Len(tokens) \in Nat
      /\ \A k \in 1 .. K : Len(cmds[k].argv) <= MAX_ARGS - 1
  BY <1>1, LastCommand
<1>3. /\ c \in Commands /\ c.argv = cmd.argv /\ c.input = cmd.input
      /\ c.output = cmd.output /\ c.append = cmd.append /\ c.background = TRUE
  BY <1>2 DEF Commands
<1> HIDE DEF c
<1>4. /\ cmds' \in Seq(Commands) /\ Len(cmds') = K /\ cmds'[K] = c
      /\ \A l \in 1 .. K : l # K => cmds'[l] = cmds[l]
  BY <1>1, <1>2, <1>3
<1>5. ASSUME NEW l \in 1 .. K
      PROVE  /\ cmds'[l].argv = cmds[l].argv /\ cmds'[l].input = cmds[l].input
             /\ cmds'[l].output = cmds[l].output
             /\ cmds'[l].append = cmds[l].append
             /\ cmds'[l].background = (cmds[l].background \/ l = K)
  <2>1. CASE l = K
    BY <1>3, <1>4, <2>1 DEF cmd
  <2>2. CASE l # K
    <3>1. cmds[l] \in Commands
      BY <1>2
    <3>2. cmds[l].background \in BOOLEAN
      BY <3>1 DEF Commands
    <3> QED
      BY <1>4, <2>2, <3>2
  <2> QED
    BY <2>1, <2>2
<1>6. \A l \in 1 .. K : PlacesOf(l)' = PlacesOf(l)
  BY <1>5 DEF PlacesOf
<1>7. Places' = Places
  BY <1>4, <1>6 DEF Places
<1>8. ASSUME NEW y \in Places PROVE Pointer(y)' = Pointer(y)
  <2>1. /\ y.cmd \in 1 .. K /\ y.field \in {"argv", "input", "output"}
    BY DEF Places, PlacesOf, Place
  <2>2. /\ cmds[y.cmd] \in Commands /\ cmds'[y.cmd] \in Commands
    BY <1>2, <1>4, <2>1
  <2> QED
    BY <1>5, <2>1, <2>2 DEF Pointer, Commands
<1>9. Ownership'
  BY <1>1, <1>4, <1>7, <1>8, SamePlaces
<1>10. TypeOK'
  <2>1. \A k \in DOMAIN cmds' : cmds'[k] \in Commands /\ Len(cmds'[k].argv) <= MAX_ARGS - 1
    BY <1>2, <1>4, <1>5
  <2>2. Len(cmds') <= MAX_COMMANDS
    BY <1>4 DEF LineInv, TypeOK
  <2>3. i' \in 0 .. Len(tokens')
    BY <1>1, <1>2
  <2> QED
    BY <1>1, <2>1, <2>2, <2>3 DEF LineInv, TypeOK, Commands
<1>11. LineShape'
  <2>1. cmds' # <<>>
    BY <1>2, <1>4
  <2> QED
    BY <1>1, <1>4, <2>1 DEF LineInv, LineShape
<1> QED
  BY <1>4, <1>5, <1>7, <1>8, <1>9, <1>10, <1>11 DEF LineInv

(* After a line nothing is held; what stays is what parse errors have left. *)
LEMMA ForgetOwns ==
  ASSUME LineInv, NEW p \in {"read", "exited"}, Forget(p),
         lost' \subseteq Nat, DOMAIN heap' = lost',
         DOMAIN heap' \subseteq DOMAIN heap,
         \A e \in DOMAIN heap' : heap'[e] = heap[e]
  PROVE  LineInv'
<1>1. /\ phase' = p /\ tokens' = <<>> /\ cmds' = <<>> /\ line' = NULL /\ i' = 0
      /\ next' = 0 /\ fails' = fails
  BY DEF Forget
<1>2. /\ Places' = {} /\ PipelineBlocks' = {} /\ cmds' \in Seq(Commands)
      /\ TokenBlocks' = {} /\ LineBlock' = {}
  <2>1. Places' = {} /\ PipelineBlocks' = {} /\ cmds' \in Seq(Commands)
    BY <1>1, EmptyPipelineNext
  <2>2. TokenBlocks' = {} /\ LineBlock' = {}
    BY <1>1 DEF TokenBlocks, LineBlock
  <2> QED
    BY <2>1, <2>2
<1>3. IsFiniteSet(DOMAIN heap')
  BY FS_Subset DEF LineInv, LineShape
<1>4. TypeOK'
  <2>1. /\ tokens' \in Seq([type : TokenTypes, value : Pointers])
        /\ Len(tokens') = 0 /\ Len(cmds') = 0 /\ DOMAIN cmds' = {}
    BY <1>1
  <2>2. \A e \in DOMAIN heap' : heap'[e] \in [token : Nat, times : Nat]
    BY DEF LineInv, TypeOK
  <2>3. phase' \in Phases /\ line' \in Pointers /\ fails' \in 0 .. Failures
    BY <1>1 DEF LineInv, TypeOK, Phases, Pointers
  <2> QED
    BY <1>1, <2>1, <2>2, <2>3, LimitsAssumption DEF TypeOK
<1>5. LineShape'
  BY <1>1, <1>2, <1>3 DEF LineShape
<1>6. Ownership'
  BY <1>1, <1>2 DEF Ownership
<1> QED
  BY <1>4, <1>5, <1>6 DEF LineInv

(* The line, the tokens and the pipeline are freed once each.              *)
LEMMA ReleaseOwns == LineInv /\ Release => LineInv'
<1> SUFFICES ASSUME LineInv, Release PROVE LineInv'
  OBVIOUS
<1> DEFINE S == PipelineBlocks \cup TokenBlocks \cup {line}
<1>1. heap' = Without(heap, S) /\ lost' = lost
  BY DEF Release
<1>2. PICK p \in {"read", "exited"} : Forget(p)
  BY DEF Release
<1>3. S \cap lost = {} /\ DOMAIN heap \ S = lost /\ lost \subseteq Nat
  <2>1. lost \subseteq Nat /\ NULL \notin lost
    BY NullAssumption DEF LineInv, TypeOK
  <2>2. S \cap lost = {}
    BY <2>1 DEF LineInv, Ownership, LineBlock
  <2> QED
    BY <2>1, <2>2 DEF LineInv, Ownership, LineBlock
<1> HIDE DEF S
<1>4. DOMAIN heap' = DOMAIN heap \ S /\ \A e \in DOMAIN heap' : heap'[e] = heap[e]
  BY <1>1 DEF Without
<1> QED
  BY <1>1, <1>2, <1>3, <1>4, ForgetOwns

(* A line that is refused frees what was built of it.                      *)
LEMMA ParseErrorOwns == LineInv /\ ParseError => LineInv'
<1> SUFFICES ASSUME LineInv, ParseError PROVE LineInv'
  OBVIOUS
<1> DEFINE S == TokenBlocks \cup {line}
<1>1. heap' = Without(heap, S) /\ lost' = lost \cup PipelineBlocks /\ Forget("read")
  BY DEF ParseError
<1>2. lost' \subseteq Nat
  BY <1>1, BlocksArePointers DEF LineInv, LineShape, TypeOK
<1>3. DOMAIN heap \ S = lost'
  <2>1. NULL \notin lost'
    BY <1>2, NullAssumption
  <2>2. S \cap lost' = {}
    BY <1>1, <2>1 DEF LineInv, Ownership, LineBlock
  <2> QED
    BY <1>1, <2>2 DEF LineInv, Ownership, LineBlock
<1> HIDE DEF S
<1>4. DOMAIN heap' = DOMAIN heap \ S /\ \A e \in DOMAIN heap' : heap'[e] = heap[e]
  BY <1>1 DEF Without
<1> QED
  BY <1>1, <1>2, <1>3, <1>4, ForgetOwns
-----------------------------------------------------------------------------
(* The number of strings that have been expanded is one of theirs.         *)
Progress == phase = "expand" => next <= Len(ToExpand)

(* The steps that leave the memory as it is.                               *)
Moves ==
  \/ WordFails \/ CopyFails \/ RedirectFails \/ RedirectCrashes \/ PipeFails
  \/ Parsed \/ ExpandFails \/ Expanded \/ Run

(* The steps that allocate and free nothing.                               *)
LEMMA MovesFrame ==
  ASSUME LineInv, Moves
  PROVE  /\ LineInv' /\ UNCHANGED <<tokens, i, cmds, line, heap, lost>>
         /\ next' = IF Parsed THEN 0 ELSE next
<1>1. UNCHANGED <<tokens, i, cmds, line, heap, lost>>
  BY DEF Moves, WordFails, CopyFails, RedirectFails, RedirectCrashes,
         PipeFails, ParseFails, Parsed, ExpandFails, Expanded, Run
<1>2. phase \in {"parse", "expand", "run"}
  BY DEF Moves, WordFails, CopyFails, RedirectFails, RedirectCrashes,
         PipeFails, Turn, Parsed, ExpandFails, Expanded, Run
<1>3. phase' \in {"error", "crashed", "expand", "expand_error", "run", "exit", "free"}
  BY DEF Moves, WordFails, CopyFails, RedirectFails, RedirectCrashes,
         PipeFails, ParseFails, Parsed, ExpandFails, Expanded, Run
<1>4. next' = IF Parsed THEN 0 ELSE next
  BY DEF Moves, WordFails, CopyFails, RedirectFails, RedirectCrashes,
         PipeFails, ParseFails, Parsed, ExpandFails, Expanded, Run
<1>5. fails' = fails \/ (fails > 0 /\ fails' = fails - 1)
  BY DEF Moves, WordFails, CopyFails, RedirectFails, RedirectCrashes, MayFail,
         PipeFails, ParseFails, Parsed, ExpandFails, Expanded, Run
<1>6. fails' \in 0 .. Failures /\ next' \in Nat /\ i' \in 0 .. Len(tokens)
  BY <1>1, <1>4, <1>5, LimitsAssumption DEF LineInv, TypeOK
<1>7. LineInv'
  BY <1>1, <1>2, <1>3, <1>6, MemoryKept DEF Phases
<1> QED
  BY <1>1, <1>4, <1>7

(* Every step keeps each block with its one owner.                         *)
LEMMA LineStep == LineInv /\ Progress /\ [Next]_vars => LineInv'
<1> SUFFICES ASSUME LineInv, Progress, [Next]_vars PROVE LineInv'
  OBVIOUS
<1>1. CASE Moves
  BY <1>1, MovesFrame
<1>2. CASE ReadLine
  BY <1>2, ReadLineOwns
<1>3. CASE EndOfInput
  BY <1>3, EndOfInputOwns
<1>4. CASE \E type \in TokenTypes : Collect(type)
  BY <1>4, CollectOwns
<1>5. CASE AddArgument
  BY <1>5, AddArgumentPuts, PutsBlockOwns
<1>6. CASE \E type \in Redirects : Redirect(type)
  BY <1>6, RedirectPuts, PutsBlockOwns
<1>7. CASE Pipe
  BY <1>7, PipeOwns
<1>8. CASE Ampersand
  BY <1>8, AmpersandOwns
<1>9. CASE Expand
  <2>1. next <= Len(ToExpand)
    BY <1>9 DEF Expand, Progress
  <2> QED
    BY <1>9, <2>1, ExpandPuts, PutsBlockOwns
<1>10. CASE Release
  BY <1>10, ReleaseOwns
<1>11. CASE ParseError
  BY <1>11, ParseErrorOwns
<1>12. CASE UNCHANGED vars
  <2>1. Places' = Places /\ \A y \in Places : Pointer(y)' = Pointer(y)
    BY <1>12 DEF Places, PlacesOf, Pointer, vars
  <2>2. cmds' \in Seq(Commands) /\ UNCHANGED <<tokens, line, heap, lost>>
    BY <1>12 DEF LineInv, LineShape, vars
  <2>3. Ownership'
    BY <2>1, <2>2, SamePlaces
  <2>4. TypeOK' /\ LineShape'
    BY <1>12 DEF LineInv, TypeOK, LineShape, vars
  <2> QED
    BY <2>3, <2>4 DEF LineInv
<1> QED
  BY <1>1, <1>2, <1>3, <1>4, <1>5, <1>6, <1>7, <1>8, <1>9, <1>10, <1>11, <1>12
  DEF Next, Work, Parse, Moves
-----------------------------------------------------------------------------
(* How the room for the words of a command is added up.                    *)
LEMMA WordsTurns ==
  ASSUME NEW argv \in Seq(Nat)
  PROVE  \E F : /\ F[0] = 0 /\ F[Len(argv)] = Words(argv)
                /\ \A k \in 1 .. Len(argv) : F[k] = F[k-1] + argv[k] + 1
<1> DEFINE N == Len(argv)
           Def(f) == f = [k \in 0 .. N |-> IF k = 0 THEN 0 ELSE f[k-1] + argv[k] + 1]
           F == CHOOSE f : Def(f)
           step == [k \in 1 .. N |-> [v \in Nat |-> v + argv[k] + 1]]
<1>1. N \in Nat
  BY SMT, Z3
<1>2. Words(argv) = F[N]
  BY DEF Words, Loop
<1>3. \A k \in 1 .. N : argv[k] \in Nat
  BY SMT, Z3
<1>4. step \in [1 .. N -> [Nat -> Nat]]
  BY SMT, Z3, <1>3
<1> HIDE DEF F, N
<1>5. PICK f \in [0 .. N -> Nat] : LoopDef(f, N, 0, step)
  <2>1. 0 \in Nat
    BY SMT, Z3
  <2> HIDE DEF step
  <2> QED BY <1>1, <1>4, <2>1, LoopExists
<1>6. ASSUME NEW k \in 0 .. N
      PROVE  f[k] = IF k = 0 THEN 0 ELSE f[k-1] + argv[k] + 1
  <2>1. k # 0 => k \in 1 .. N /\ f[k-1] \in Nat
    BY SMT, Z3, <1>1, <1>5
  <2>2. f[k] = IF k = 0 THEN 0 ELSE step[k][f[k-1]]
    BY <1>5 DEF LoopDef
  <2> QED BY <2>1, <2>2
<1>7. Def(f)
  BY SMT, Z3, <1>5, <1>6
<1>8. Def(F)
  <2> HIDE DEF Def
  <2> QED BY <1>7 DEF F
<1>9. F[0] = 0 /\ \A k \in 1 .. N : F[k] = F[k-1] + argv[k] + 1
  <2>1. 0 \in 0 .. N /\ \A k \in 1 .. N : k \in 0 .. N /\ k # 0
    BY SMT, Z3, <1>1
  <2> QED BY <1>8, <2>1
<1> QED
  BY <1>2, <1>9 DEF N

(* How the words of a command are put behind a text.                       *)
LEMMA CatTurns ==
  ASSUME NEW argv \in Seq(Nat), NEW t \in Nat
  PROVE  \E F : /\ F[0] = t /\ F[Len(argv)] = CatWords(t, argv)
                /\ \A k \in 1 .. Len(argv) : F[k] = CatWord(F[k-1], argv[k])
<1> DEFINE N == Len(argv)
           Def(f) == f = [k \in 0 .. N |-> IF k = 0 THEN t ELSE CatWord(f[k-1], argv[k])]
           F == CHOOSE f : Def(f)
           step == [k \in 1 .. N |-> [v \in Nat |-> CatWord(v, argv[k])]]
<1>1. N \in Nat
  BY SMT, Z3
<1>2. CatWords(t, argv) = F[N]
  BY DEF CatWords, Loop
<1>3. \A k \in 1 .. N, v \in Nat : CatWord(v, argv[k]) \in Nat
  BY SMT, Z3 DEF CatWord
<1>4. step \in [1 .. N -> [Nat -> Nat]]
  BY <1>3
<1> HIDE DEF F, N
<1>5. PICK f \in [0 .. N -> Nat] : LoopDef(f, N, t, step)
  <2>1. t \in Nat
    BY SMT, Z3
  <2> HIDE DEF step
  <2> QED BY <1>1, <1>4, <2>1, LoopExists
<1>6. ASSUME NEW k \in 0 .. N
      PROVE  f[k] = IF k = 0 THEN t ELSE CatWord(f[k-1], argv[k])
  <2>1. k # 0 => k \in 1 .. N /\ f[k-1] \in Nat
    BY SMT, Z3, <1>1, <1>5
  <2>2. f[k] = IF k = 0 THEN t ELSE step[k][f[k-1]]
    BY <1>5 DEF LoopDef
  <2> QED BY <2>1, <2>2
<1>7. Def(f)
  BY SMT, Z3, <1>5, <1>6
<1>8. Def(F)
  <2> HIDE DEF Def
  <2> QED BY <1>7 DEF F
<1>9. F[0] = t /\ \A k \in 1 .. N : F[k] = CatWord(F[k-1], argv[k])
  <2>1. 0 \in 0 .. N /\ \A k \in 1 .. N : k \in 0 .. N /\ k # 0
    BY SMT, Z3, <1>1
  <2> QED BY <1>8, <2>1
<1> QED
  BY <1>2, <1>9 DEF N

(* The words of a command take no more than the room counted for them.     *)
LEMMA WordsFit ==
  ASSUME NEW argv \in Seq(Nat), NEW t \in Nat
  PROVE  /\ Words(argv) \in Nat /\ CatWords(t, argv) \in Nat
         /\ CatWords(t, argv) <= t + Words(argv)
<1> DEFINE N == Len(argv)
<1>1. N \in Nat /\ \A k \in 1 .. N : argv[k] \in Nat
  OBVIOUS
<1>2. PICK W : /\ W[0] = 0 /\ W[N] = Words(argv)
               /\ \A k \in 1 .. N : W[k] = W[k-1] + argv[k] + 1
  BY WordsTurns
<1>3. PICK C : /\ C[0] = t /\ C[N] = CatWords(t, argv)
               /\ \A k \in 1 .. N : C[k] = CatWord(C[k-1], argv[k])
  BY CatTurns
<1> DEFINE Good(k) == W[k] \in Nat /\ C[k] \in Nat /\ C[k] <= t + W[k]
           G == {k \in 0 .. N : Good(k)}
<1>4. 0 \in G
  BY <1>1, <1>2, <1>3
<1>5. ASSUME NEW k \in 0 .. N, k < N, k \in G PROVE k + 1 \in G
  <2>1. k + 1 \in 1 .. N /\ (k + 1) - 1 = k /\ argv[k + 1] \in Nat
    BY <1>1, <1>5
  <2>2. /\ W[k + 1] = W[k] + argv[k + 1] + 1
        /\ C[k + 1] = CatWord(C[k], argv[k + 1])
    BY <1>2, <1>3, <2>1
  <2>3. Good(k)
    BY <1>5
  <2>4. \A w, c, a \in Nat : c <= t + w =>
          CatWord(c, a) \in Nat /\ CatWord(c, a) <= t + (w + a + 1)
    BY DEF CatWord
  <2>5. PICK w, c, a \in Nat : w = W[k] /\ c = C[k] /\ a = argv[k + 1]
    BY <2>1, <2>3
  <2>6. /\ CatWord(c, a) \in Nat /\ CatWord(c, a) <= t + (w + a + 1)
        /\ W[k + 1] = w + a + 1 /\ C[k + 1] = CatWord(c, a)
    BY <2>2, <2>3, <2>4, <2>5
  <2>7. Good(k + 1)
    BY <2>6
  <2> QED BY <2>1, <2>7
<1> HIDE DEF G
<1>6. N \in G
  <2>1. Inductive(G, N)
    BY <1>4, <1>5 DEF Inductive
  <2> QED BY <1>1, <2>1, UpTo
<1> QED
  BY <1>2, <1>3, <1>6 DEF G

(* How the room for the commands of a pipeline is added up.                *)
LEMMA RoomTurns ==
  ASSUME NEW pipeline \in Seq(Seq(Nat))
  PROVE  \E F : /\ F[0] = 0 /\ F[Len(pipeline)] = Room(pipeline)
                /\ \A k \in 1 .. Len(pipeline) : F[k] = F[k-1] + Words(pipeline[k])
<1> DEFINE N == Len(pipeline)
           Def(f) == f = [k \in 0 .. N |-> IF k = 0 THEN 0 ELSE f[k-1] + Words(pipeline[k])]
           F == CHOOSE f : Def(f)
           step == [k \in 1 .. N |-> [v \in Nat |-> v + Words(pipeline[k])]]
<1>1. N \in Nat
  BY SMT, Z3
<1>2. Room(pipeline) = F[N]
  BY DEF Room, Loop
<1>3. \A k \in 1 .. N : Words(pipeline[k]) \in Nat
  <2>1. \A k \in 1 .. N : pipeline[k] \in Seq(Nat)
    BY SMT, Z3
  <2> QED BY <2>1, WordsFit
<1>4. step \in [1 .. N -> [Nat -> Nat]]
  BY <1>3
<1> HIDE DEF F, N
<1>5. PICK f \in [0 .. N -> Nat] : LoopDef(f, N, 0, step)
  <2>1. 0 \in Nat
    BY SMT, Z3
  <2> HIDE DEF step
  <2> QED BY <1>1, <1>4, <2>1, LoopExists
<1>6. ASSUME NEW k \in 0 .. N
      PROVE  f[k] = IF k = 0 THEN 0 ELSE f[k-1] + Words(pipeline[k])
  <2>1. k # 0 => k \in 1 .. N /\ f[k-1] \in Nat
    BY SMT, Z3, <1>1, <1>5
  <2>2. f[k] = IF k = 0 THEN 0 ELSE step[k][f[k-1]]
    BY <1>5 DEF LoopDef
  <2> QED BY <2>1, <2>2
<1>7. Def(f)
  BY SMT, Z3, <1>5, <1>6
<1>8. Def(F)
  <2> HIDE DEF Def
  <2> QED BY <1>7 DEF F
<1>9. F[0] = 0 /\ \A k \in 1 .. N : F[k] = F[k-1] + Words(pipeline[k])
  <2>1. 0 \in 0 .. N /\ \A k \in 1 .. N : k \in 0 .. N /\ k # 0
    BY SMT, Z3, <1>1
  <2> QED BY <1>8, <2>1
<1> QED
  BY <1>2, <1>9 DEF N

(* How the text of a pipeline is put together.                             *)
LEMMA TextTurns ==
  ASSUME NEW pipeline \in Seq(Seq(Nat))
  PROVE  \E F : /\ F[0] = 0 /\ F[Len(pipeline)] = JobText(pipeline)
                /\ \A k \in 1 .. Len(pipeline) : F[k] = CatCommand(F[k-1], pipeline, k)
<1> DEFINE N == Len(pipeline)
           Def(f) == f = [k \in 0 .. N |-> IF k = 0 THEN 0 ELSE CatCommand(f[k-1], pipeline, k)]
           F == CHOOSE f : Def(f)
           step == [k \in 1 .. N |-> [v \in Nat |-> CatCommand(v, pipeline, k)]]
<1>1. N \in Nat
  BY SMT, Z3
<1>2. JobText(pipeline) = F[N]
  BY DEF JobText, Loop
<1>3. ASSUME NEW k \in 1 .. N, NEW v \in Nat PROVE CatCommand(v, pipeline, k) \in Nat
  <2>1. pipeline[k] \in Seq(Nat)
    BY SMT, Z3
  <2>2. PICK c \in Nat : c = CatWords(v, pipeline[k])
    BY <2>1, WordsFit
  <2>3. CatCommand(v, pipeline, k) = c + 3 \/ CatCommand(v, pipeline, k) = c + 0
    BY <2>2 DEF CatCommand
  <2> QED BY SMT, Z3, <2>3
<1>4. step \in [1 .. N -> [Nat -> Nat]]
  BY <1>3
<1> HIDE DEF F, N
<1>5. PICK f \in [0 .. N -> Nat] : LoopDef(f, N, 0, step)
  <2>1. 0 \in Nat
    BY SMT, Z3
  <2> HIDE DEF step
  <2> QED BY <1>1, <1>4, <2>1, LoopExists
<1>6. ASSUME NEW k \in 0 .. N
      PROVE  f[k] = IF k = 0 THEN 0 ELSE CatCommand(f[k-1], pipeline, k)
  <2>1. k # 0 => k \in 1 .. N /\ f[k-1] \in Nat
    BY SMT, Z3, <1>1, <1>5
  <2>2. f[k] = IF k = 0 THEN 0 ELSE step[k][f[k-1]]
    BY <1>5 DEF LoopDef
  <2> QED BY <2>1, <2>2
<1>7. Def(f)
  BY SMT, Z3, <1>5, <1>6
<1>8. Def(F)
  <2> HIDE DEF Def
  <2> QED BY <1>7 DEF F
<1>9. F[0] = 0 /\ \A k \in 1 .. N : F[k] = CatCommand(F[k-1], pipeline, k)
  <2>1. 0 \in 0 .. N /\ \A k \in 1 .. N : k \in 0 .. N /\ k # 0
    BY SMT, Z3, <1>1
  <2> QED BY <1>8, <2>1
<1> QED
  BY <1>2, <1>9 DEF N

(* The text of every pipeline, with its NUL, fits the block that           *)
(* build_command_string allocates for it, whatever is empty.               *)
LEMMA TextFits ==
  ASSUME NEW pipeline \in Seq(Seq(Nat)), pipeline # <<>>, NEW background \in BOOLEAN
  PROVE  build_command_string(pipeline, background) + 1 <= Size(pipeline, background)
<1> DEFINE N == Len(pipeline)
<1>1. N \in Nat \ {0} /\ \A k \in 1 .. N : pipeline[k] \in Seq(Nat)
  OBVIOUS
<1>2. PICK R : /\ R[0] = 0 /\ R[N] = Room(pipeline)
               /\ \A k \in 1 .. N : R[k] = R[k-1] + Words(pipeline[k])
  BY RoomTurns
<1>3. PICK T : /\ T[0] = 0 /\ T[N] = JobText(pipeline)
               /\ \A k \in 1 .. N : T[k] = CatCommand(T[k-1], pipeline, k)
  BY TextTurns
<1> DEFINE Seps(k) == 3 * (IF k < N THEN k ELSE N - 1)
           Good(k) == /\ R[k] \in Nat /\ T[k] \in Nat
                      /\ T[k] <= R[k] + Seps(k)
           G == {k \in 0 .. N : Good(k)}
<1>4. 0 \in G
  <2>1. 0 \in 0 .. N /\ Seps(0) \in Nat
    BY SMT, Z3, <1>1
  <2> HIDE DEF Seps
  <2> QED BY SMT, Z3, <1>2, <1>3, <2>1
<1>5. ASSUME NEW k \in 0 .. N, k < N, k \in G PROVE k + 1 \in G
  <2>1. k + 1 \in 1 .. N /\ (k + 1) - 1 = k /\ k + 1 \in 0 .. N
    BY <1>1, <1>5
  <2>2. PICK t \in Nat : t = T[k]
    BY <1>5
  <2>3. PICK r \in Nat : r = R[k]
    BY <1>5
  <2>4. PICK w \in Nat : w = Words(pipeline[k + 1])
    BY <1>1, <2>1, WordsFit
  <2>5. PICK c \in Nat : c = CatWords(t, pipeline[k + 1]) /\ c <= t + w
    BY <1>1, <2>1, <2>4, WordsFit
  <2>6. t <= r + 3 * k
    BY <1>5, <2>2, <2>3
  <2>7. R[k + 1] = r + w
    BY <1>2, <2>1, <2>3, <2>4
  <2>8. T[k + 1] = c + (IF k + 1 < N THEN 3 ELSE 0)
    BY <1>3, <2>1, <2>2, <2>5 DEF CatCommand
  <2>9. Good(k + 1)
    <3>1. CASE k + 1 < N
      <4>1. R[k + 1] = r + w /\ T[k + 1] = c + 3 /\ Seps(k + 1) = 3 * (k + 1)
        BY <2>7, <2>8, <3>1
      <4>2. c + 3 <= (r + w) + 3 * (k + 1)
        BY <2>5, <2>6
      <4> HIDE DEF Seps
      <4> QED BY <4>1, <4>2
    <3>2. CASE k + 1 = N
      <4>1. R[k + 1] = r + w /\ T[k + 1] = c /\ Seps(k + 1) = 3 * k
        <5>1. ~(k + 1 < N) /\ N - 1 = k
          BY <1>1, <3>2
        <5>2. T[k + 1] = c + 0
          BY <2>8, <5>1
        <5>3. Seps(k + 1) = 3 * k
          BY <5>1
        <5> QED BY <2>7, <5>2, <5>3
      <4>2. c <= (r + w) + 3 * k
        BY <2>5, <2>6
      <4> HIDE DEF Seps
      <4> QED BY <4>1, <4>2
    <3> QED BY <1>1, <2>1, <3>1, <3>2
  <2> QED BY <2>1, <2>9
<1> HIDE DEF G
<1>6. Good(N)
  <2>1. Inductive(G, N)
    BY <1>4, <1>5 DEF Inductive
  <2>2. N \in G
    BY <1>1, <2>1, UpTo
  <2> QED BY <2>2 DEF G
<1>7. build_command_string(pipeline, background) =
        JobText(pipeline) + (IF background THEN 2 ELSE 0)
  BY DEF build_command_string
<1>8. Size(pipeline, background) =
        1 + Room(pipeline) + 3 * (Len(pipeline) - 1) + (IF background THEN 3 ELSE 0)
  BY DEF Size
<1> QED
  BY <1>1, <1>2, <1>3, <1>6, <1>7, <1>8

(* How the text of a single command is put together.                       *)
LEMMA CommandTurns ==
  ASSUME NEW argv \in Seq(Nat)
  PROVE  \E F : /\ F[0] = 0 /\ F[Len(argv)] + 2 = command_string(argv)
                /\ \A k \in 1 .. Len(argv) :
                     F[k] = F[k-1] + (IF k > 1 THEN 1 ELSE 0) + argv[k]
<1> DEFINE N == Len(argv)
           Def(f) == f = [k \in 0 .. N |-> IF k = 0 THEN 0
                            ELSE f[k-1] + (IF k > 1 THEN 1 ELSE 0) + argv[k]]
           F == CHOOSE f : Def(f)
           step == [k \in 1 .. N |->
                      [v \in Nat |-> v + (IF k > 1 THEN 1 ELSE 0) + argv[k]]]
<1>1. N \in Nat
  BY SMT, Z3
<1>2. command_string(argv) = F[N] + 2
  BY DEF command_string, Loop
<1>3. \A k \in 1 .. N : argv[k] \in Nat
  BY SMT, Z3
<1>4. step \in [1 .. N -> [Nat -> Nat]]
  <2>1. ASSUME NEW k \in 1 .. N, NEW v \in Nat
        PROVE  v + (IF k > 1 THEN 1 ELSE 0) + argv[k] \in Nat
    BY SMT, Z3, <1>3
  <2> QED BY <2>1
<1> HIDE DEF F, N
<1>5. PICK f \in [0 .. N -> Nat] : LoopDef(f, N, 0, step)
  <2>1. 0 \in Nat
    BY SMT, Z3
  <2> HIDE DEF step
  <2> QED BY <1>1, <1>4, <2>1, LoopExists
<1>6. ASSUME NEW k \in 0 .. N
      PROVE  f[k] = IF k = 0 THEN 0
                    ELSE f[k-1] + (IF k > 1 THEN 1 ELSE 0) + argv[k]
  <2>1. k # 0 => k \in 1 .. N /\ f[k-1] \in Nat
    BY SMT, Z3, <1>1, <1>5
  <2>2. f[k] = IF k = 0 THEN 0 ELSE step[k][f[k-1]]
    BY <1>5 DEF LoopDef
  <2> QED BY <2>1, <2>2
<1>7. Def(f)
  BY SMT, Z3, <1>5, <1>6
<1>8. Def(F)
  <2> HIDE DEF Def
  <2> QED BY <1>7 DEF F
<1>9. /\ F[0] = 0
      /\ \A k \in 1 .. N : F[k] = F[k-1] + (IF k > 1 THEN 1 ELSE 0) + argv[k]
  <2>1. 0 \in 0 .. N /\ \A k \in 1 .. N : k \in 0 .. N /\ k # 0
    BY SMT, Z3, <1>1
  <2> QED BY <1>8, <2>1
<1> QED
  BY <1>2, <1>9 DEF N

(* It is argv[0], the words behind it, each with a blank, and " &".        *)
LEMMA CommandLength ==
  ASSUME NEW argv \in Seq(Nat), argv # <<>>
  PROVE  /\ argv[1] \in Nat /\ Words(Tail(argv)) \in Nat
         /\ command_string(argv) = argv[1] + Words(Tail(argv)) + 2
<1> DEFINE N == Len(argv)
           rest == Tail(argv)
<1>1. /\ N \in Nat \ {0} /\ rest \in Seq(Nat) /\ Len(rest) = N - 1
      /\ \A k \in 1 .. N : argv[k] \in Nat
      /\ \A k \in 1 .. N - 1 : rest[k] = argv[k + 1]
  BY SMT, Z3
<1> HIDE DEF rest
<1>2. PICK W : /\ W[0] = 0 /\ W[N - 1] = Words(rest)
               /\ \A k \in 1 .. N - 1 : W[k] = W[k-1] + rest[k] + 1
  <2>1. \E W : /\ W[0] = 0 /\ W[Len(rest)] = Words(rest)
               /\ \A k \in 1 .. Len(rest) : W[k] = W[k-1] + rest[k] + 1
    BY <1>1, WordsTurns
  <2> QED BY <1>1, <2>1
<1>3. PICK F : /\ F[0] = 0 /\ F[N] + 2 = command_string(argv)
               /\ \A k \in 1 .. N : F[k] = F[k-1] + (IF k > 1 THEN 1 ELSE 0) + argv[k]
  BY CommandTurns
<1> HIDE DEF N
<1> DEFINE Good(k) == W[k] \in Nat /\ F[k + 1] = argv[1] + W[k]
           G == {k \in 0 .. N - 1 : Good(k)}
<1>4. argv[1] \in Nat
  BY SMT, Z3, <1>1
<1>5. 0 \in G
  <2>1. 0 \in 0 .. N - 1 /\ 1 \in 1 .. N /\ 0 + 1 = 1 /\ 1 - 1 = 0 /\ ~(1 > 1)
    BY SMT, Z3, <1>1
  <2>2. F[1] = 0 + 0 + argv[1]
    BY <1>3, <2>1
  <2>3. F[1] = argv[1] + 0 /\ 0 \in Nat
    BY SMT, Z3, <1>4, <2>2
  <2> QED BY <1>2, <2>1, <2>3
<1>6. ASSUME NEW k \in 0 .. N - 1, k < N - 1, k \in G PROVE k + 1 \in G
  <2>1. /\ k + 1 \in 1 .. N - 1 /\ (k + 1) - 1 = k /\ k + 1 \in 0 .. N - 1
        /\ (k + 1) + 1 \in 1 .. N /\ ((k + 1) + 1) - 1 = k + 1
        /\ (k + 1) + 1 > 1
    BY SMT, Z3, <1>1, <1>6
  <2>2. PICK w \in Nat : w = W[k] /\ F[k + 1] = argv[1] + w
    BY <1>6
  <2>3. PICK a \in Nat : a = argv[(k + 1) + 1]
    BY <1>1, <2>1
  <2>4. W[k + 1] = w + a + 1
    BY <1>1, <1>2, <2>1, <2>2, <2>3
  <2>5. F[(k + 1) + 1] = (argv[1] + w) + 1 + a
    BY <1>3, <2>1, <2>2, <2>3
  <2>6. w + a + 1 \in Nat /\ (argv[1] + w) + 1 + a = argv[1] + (w + a + 1)
    BY SMT, Z3, <1>4
  <2>7. Good(k + 1)
    BY <2>4, <2>5, <2>6
  <2> QED BY <2>1, <2>7
<1> HIDE DEF G
<1>7. Good(N - 1)
  <2>1. N - 1 \in Nat
    BY SMT, Z3, <1>1
  <2>2. Inductive(G, N - 1)
    BY <1>5, <1>6 DEF Inductive
  <2>3. N - 1 \in G
    BY <2>1, <2>2, UpTo
  <2> QED BY <2>3 DEF G
<1>8. PICK w \in Nat : w = Words(rest) /\ F[N] = argv[1] + w
  <2>1. (N - 1) + 1 = N
    BY SMT, Z3, <1>1
  <2> QED BY <1>2, <1>7, <2>1
<1> QED
  BY <1>3, <1>4, <1>8 DEF rest

-----------------------------------------------------------------------------
(* The loops of expand.c.  A search ends in the text.                      *)
LEMMA FirstFromInText ==
  ASSUME NEW t, Len(t) \in Nat, NEW a \in Nat, a <= Len(t), NEW Stop
  PROVE  FirstFrom(t, a, Stop) \in a .. Len(t)
<1> DEFINE S == {q \in a .. Len(t) : q = Len(t) \/ t[q+1] \in Stop}
<1>1. S \in SUBSET Nat /\ Len(t) \in S
  BY SMT, Z3
<1>2. Min(S) \in S
  BY <1>1, MinIsLeast
<1> QED
  BY <1>2 DEF FirstFrom

ExpandStates(input) == [i : 0 .. Len(input), out : Seq(TextChars)]

(* NUL is the end of a text and never in it.                               *)
LEMMA NulIsNoText ==
  /\ "NUL" \notin TextChars /\ "$" \in TextChars /\ "NUL" # "}" /\ "NUL" # "{"
  /\ "{" \notin NameStart
  BY SMT, Z3 DEF TextChars, NameChars, NameStart

(* What At returns.                                                        *)
LEMMA AtText ==
  ASSUME NEW input \in Seq(TextChars), NEW k \in Nat
  PROVE  /\ At(input, k) # "NUL" <=> k < Len(input)
         /\ k < Len(input) => At(input, k) \in TextChars
<1>1. k < Len(input) => At(input, k) \in TextChars
  BY SMT, Z3 DEF At
<1>2. ~(k < Len(input)) => At(input, k) = "NUL"
  BY DEF At
<1> QED
  BY <1>1, <1>2, NulIsNoText

(* Places behind a $ and its `{' are in the text.                          *)
LEMMA BraceArithmetic ==
  /\ \A a, n \in Nat : a + 1 < n => a + 2 \in Nat /\ a + 2 <= n
  /\ \A a, n \in Nat : \A b \in a + 2 .. n :
          b \in Nat /\ (b < n => b + 1 \in a + 1 .. n)
  BY SMT, Z3

(* A turn of expand_string appends characters and gets further, until it   *)
(* meets the NUL.                                                          *)
LEMMA ExpandTurnMoves ==
  ASSUME NEW input \in Seq(TextChars), NEW s \in ExpandStates(input)
  PROVE  /\ ExpandTurn(input, s) \in ExpandStates(input)
         /\ s.i = Len(input) => ExpandTurn(input, s) = s
         /\ s.i # Len(input) => ExpandTurn(input, s).i >= s.i + 1
<1> DEFINE N == Len(input)
           c == At(input, s.i)
           d == At(input, s.i + 1)
           brace == FirstFrom(input, s.i + 2, {"}"})
           end == NameEnd(input, s.i + 1)
           braced == d = "{" /\ At(input, brace) = "}"
           put(chars, k) == [i |-> k, out |-> s.out \o chars]
           v == getenv(SubSeq(input, s.i + 3, brace))
           w == getenv(SubSeq(input, s.i + 2, end))
           T == ExpandTurn(input, s)
<1>1. T = CASE c = "NUL" -> s
            [] c \notin {"$", "NUL"} -> put(<<c>>, s.i + 1)
            [] c = "$" /\ braced -> put(v, brace + 1)
            [] c = "$" /\ d \in NameStart -> put(w, end)
            [] c = "$" /\ ~braced /\ d \notin NameStart -> put(<<"$">>, s.i + 1)
  BY DEF ExpandTurn
<1>2. s.i \in 0 .. N /\ s.i \in Nat /\ s.out \in Seq(TextChars) /\ N \in Nat
      /\ s.i + 1 \in Nat
  BY SMT, Z3 DEF ExpandStates
<1>3. c # "NUL" <=> s.i < N
  BY <1>2, AtText
<1>4. s.i < N => c \in TextChars
  BY <1>2, AtText
<1>5. d # "NUL" <=> s.i + 1 < N
  BY <1>2, AtText
<1>6. ASSUME NEW chars \in Seq(TextChars), NEW k \in s.i + 1 .. N
      PROVE  put(chars, k) \in ExpandStates(input) /\ put(chars, k).i >= s.i + 1
  <2>1. s.out \o chars \in Seq(TextChars)
    BY SMT, Z3, <1>2
  <2>2. k \in 0 .. N /\ k >= s.i + 1
    BY SMT, Z3, <1>2
  <2> QED
    BY <2>1, <2>2 DEF ExpandStates
<1>7. v \in Seq(TextChars) /\ w \in Seq(TextChars)
  <2>1. \A name : getenv(name) \in Seq(TextChars)
    BY SMT, Z3, ExpandAssumption DEF getenv
  <2> QED
    BY <2>1
<1>8. braced => brace + 1 \in s.i + 1 .. N
  <2> SUFFICES ASSUME braced PROVE brace + 1 \in s.i + 1 .. N
    OBVIOUS
  <2>1. d = "{" /\ At(input, brace) = "}"
    OBVIOUS
  <2>2. s.i + 1 < N
    BY <1>5, <2>1, NulIsNoText
  <2>3. s.i + 2 \in Nat /\ s.i + 2 <= N
    BY <1>2, <2>2, BraceArithmetic
  <2>4. brace \in s.i + 2 .. N
    BY <1>2, <2>3, FirstFromInText
  <2> HIDE DEF brace, N
  <2>5. brace \in Nat /\ (brace < N => brace + 1 \in s.i + 1 .. N)
    BY <1>2, <2>4, BraceArithmetic
  <2>6. brace < N
    BY <2>1, <2>5, AtText, NulIsNoText DEF N
  <2> QED
    BY <2>5, <2>6
<1>9. s.i < N => s.i + 1 \in s.i + 1 .. N /\ end \in s.i + 1 .. N
  <2> SUFFICES ASSUME s.i < N PROVE s.i + 1 \in s.i + 1 .. N /\ end \in s.i + 1 .. N
    OBVIOUS
  <2>1. s.i + 1 <= N /\ s.i + 1 \in s.i + 1 .. N
    BY SMT, Z3, <1>2
  <2>2. end \in s.i + 1 .. N
    BY <1>2, <2>1, FirstFromInText DEF NameEnd
  <2> QED
    BY <2>1, <2>2
<1>10. <<"$">> \in Seq(TextChars) /\ (s.i < N => <<c>> \in Seq(TextChars))
  <2>1. \A x \in TextChars : <<x>> \in Seq(TextChars)
    BY SMT, Z3
  <2> QED
    BY <1>4, <2>1, NulIsNoText
<1> HIDE DEF put, v, w, brace, end, T, c, d
<1>11. CASE s.i = N
  <2>1. ~(s.i < N)
    BY SMT, Z3, <1>2, <1>11
  <2>2. c = "NUL" /\ c # "$"
    BY <1>3, <2>1
  <2>3. T = s
    BY SMT, Z3, <1>1, <2>2
  <2> QED
    BY <1>11, <2>3 DEF T
<1>12. CASE s.i # N
  <2>1. s.i < N /\ c # "NUL"
    BY SMT, Z3, <1>2, <1>3, <1>12
  <2>2. \E chars \in Seq(TextChars), k \in s.i + 1 .. N : T = put(chars, k)
    <3>1. CASE c # "$"
      <4>1. T = put(<<c>>, s.i + 1)
        BY <1>1, <2>1, <3>1
      <4> QED
        BY <1>9, <1>10, <2>1, <4>1
    <3>2. CASE c = "$" /\ braced
      <4>1. d \notin NameStart
        BY <3>2, NulIsNoText
      <4>2. T = put(v, brace + 1)
        BY <1>1, <3>2, <4>1
      <4> QED
        BY <1>7, <1>8, <3>2, <4>2
    <3>3. CASE c = "$" /\ d \in NameStart
      <4>1. ~braced
        BY <3>3, NulIsNoText
      <4>2. T = put(w, end)
        BY <1>1, <3>3, <4>1
      <4> QED
        BY <1>7, <1>9, <2>1, <4>2
    <3>4. CASE c = "$" /\ ~braced /\ d \notin NameStart
      <4>1. T = put(<<"$">>, s.i + 1)
        BY <1>1, <3>4
      <4> QED
        BY <1>9, <1>10, <2>1, <4>1
    <3> QED
      BY <3>1, <3>2, <3>3, <3>4
  <2>3. T \in ExpandStates(input) /\ T.i >= s.i + 1
    BY <1>6, <2>2
  <2> QED
    BY <1>12, <2>3 DEF T
<1> QED
  BY <1>11, <1>12

(* As many turns as the text has characters take expand_string to its end. *)
LEMMA ExpandEnds ==
  ASSUME NEW input \in Seq(TextChars)
  PROVE  \E s \in ExpandStates(input) : s.i = Len(input) /\ expand_string(input) = s.out
<1> DEFINE N == Len(input)
           V == ExpandStates(input)
           x == [i |-> 0, out |-> <<>>]
           Def(f) == f = [k \in 0 .. N |-> IF k = 0 THEN x ELSE ExpandTurn(input, f[k-1])]
           F == CHOOSE f : Def(f)
           step == [k \in 1 .. N |-> [s \in V |-> ExpandTurn(input, s)]]
           G == {m \in 0 .. N : F[m] \in V /\ (F[m].i = N \/ F[m].i >= m)}
<1>1. N \in Nat
  BY SMT, Z3
<1>2. expand_string(input) = F[N].out
  BY DEF expand_string, Loop
<1>3. x \in V /\ x.i = 0
  BY SMT, Z3, <1>1 DEF ExpandStates
<1>4. step \in [1 .. N -> [V -> V]]
  BY ExpandTurnMoves
<1>5. \A s \in V : s.i \in 0 .. N
  BY DEF ExpandStates
<1>6. \A s \in V : /\ ExpandTurn(input, s) \in V
                   /\ s.i = N => ExpandTurn(input, s) = s
                   /\ s.i # N => ExpandTurn(input, s).i >= s.i + 1
  BY ExpandTurnMoves
<1> HIDE DEF F, N, V, x, G
<1>7. PICK f \in [0 .. N -> V] : LoopDef(f, N, x, step)
  <2> HIDE DEF step
  <2> QED
    BY <1>1, <1>3, <1>4, LoopExists
<1>8. ASSUME NEW k \in 0 .. N
      PROVE  f[k] = IF k = 0 THEN x ELSE ExpandTurn(input, f[k-1])
  <2>1. k # 0 => k \in 1 .. N /\ f[k-1] \in V
    BY SMT, Z3, <1>1, <1>7
  <2>2. f[k] = IF k = 0 THEN x ELSE step[k][f[k-1]]
    BY <1>7 DEF LoopDef
  <2> QED
    BY <2>1, <2>2
<1>9. Def(f)
  BY SMT, Z3, <1>7, <1>8
<1>10. Def(F)
  <2> HIDE DEF Def
  <2> QED
    BY <1>9 DEF F
<1>11. F[0] = x /\ \A k \in 1 .. N : F[k] = ExpandTurn(input, F[k-1])
  <2>1. 0 \in 0 .. N /\ \A k \in 1 .. N : k \in 0 .. N /\ k # 0
    BY SMT, Z3, <1>1
  <2> QED
    BY <1>10, <2>1
<1> HIDE DEF Def, step
<1>12. 0 \in G
  <2>1. 0 \in 0 .. N /\ x.i >= 0
    BY SMT, Z3, <1>1, <1>3
  <2> QED
    BY <1>3, <1>11, <2>1 DEF G
<1>13. ASSUME NEW m \in 0 .. N, m < N, m \in G PROVE m + 1 \in G
  <2>1. PICK c \in 1 .. N : c = m + 1 /\ c - 1 = m /\ c \in 0 .. N
    BY SMT, Z3, <1>1, <1>13
  <2>2. F[m] \in V /\ (F[m].i = N \/ F[m].i >= m)
    BY <1>13 DEF G
  <2>3. F[c] = ExpandTurn(input, F[m])
    BY <1>11, <2>1
  <2>4. /\ F[c] \in V
        /\ F[m].i = N => F[c] = F[m]
        /\ F[m].i # N => F[c].i >= F[m].i + 1
    BY <1>6, <2>2, <2>3
  <2>5. F[c].i \in 0 .. N /\ F[m].i \in 0 .. N
    BY <1>5, <2>2, <2>4
  <2>6. F[m].i # N => F[c].i >= c
    BY SMT, Z3, <1>1, <2>1, <2>2, <2>4, <2>5
  <2>7. c \in G
    BY <2>1, <2>2, <2>4, <2>6 DEF G
  <2> QED
    BY <2>1, <2>7
<1>14. N \in G
  <2>1. Inductive(G, N)
    BY <1>12, <1>13 DEF Inductive
  <2> QED
    BY <1>1, <2>1, UpTo
<1>15. F[N] \in V /\ (F[N].i = N \/ F[N].i >= N)
  BY <1>14 DEF G
<1>16. F[N].i = N
  BY SMT, Z3, <1>1, <1>5, <1>15
<1> QED
  BY <1>2, <1>15, <1>16 DEF V, N

(* Buffers with room for the NUL behind their text.                        *)
Buffers ==
  {b \in [length : Nat, capacity : Nat, overrun : {FALSE}] : b.length < b.capacity}

(* append_char leaves room for the NUL.                                    *)
LEMMA AppendFits ==
  ASSUME NEW b \in Buffers, NEW ch
  PROVE  append_char(b, ch) \in Buffers
<1>1. b.length \in Nat /\ b.capacity \in Nat /\ b.length < b.capacity /\ b.overrun = FALSE
  BY DEF Buffers
<1>2. PICK n, m \in Nat : n = b.length /\ m = b.capacity
  BY <1>1
<1> DEFINE more == IF n + 1 >= m THEN 2 * m ELSE m
<1>3. more \in Nat /\ n + 1 \in Nat /\ n + 1 < more /\ ~(n + 1 >= more)
  BY SMT, Z3, <1>1, <1>2
<1>4. append_char(b, ch) = [length |-> n + 1, capacity |-> more,
                            overrun |-> b.overrun \/ n + 1 >= more]
  BY <1>2 DEF append_char
<1> HIDE DEF more
<1>5. append_char(b, ch) = [length |-> n + 1, capacity |-> more, overrun |-> FALSE]
  BY <1>1, <1>3, <1>4
<1> QED
  BY <1>3, <1>5 DEF Buffers

(* However many characters are appended.                                   *)
LEMMA AppendTextFits ==
  ASSUME NEW b \in Buffers, NEW chars \in Seq(TextChars)
  PROVE  append_text(b, chars) \in Buffers
<1> DEFINE N == Len(chars)
           Def(f) == f = [k \in 0 .. N |-> IF k = 0 THEN b ELSE append_char(f[k-1], chars[k])]
           F == CHOOSE f : Def(f)
           step == [k \in 1 .. N |-> [v \in Buffers |-> append_char(v, chars[k])]]
<1>1. N \in Nat
  BY SMT, Z3
<1>2. append_text(b, chars) = F[N]
  BY DEF append_text, Loop
<1>3. step \in [1 .. N -> [Buffers -> Buffers]]
  BY AppendFits
<1> HIDE DEF F, N
<1>4. PICK f \in [0 .. N -> Buffers] : LoopDef(f, N, b, step)
  <2> HIDE DEF step
  <2> QED
    BY <1>1, <1>3, LoopExists
<1>5. ASSUME NEW k \in 0 .. N
      PROVE  f[k] = IF k = 0 THEN b ELSE append_char(f[k-1], chars[k])
  <2>1. k # 0 => k \in 1 .. N /\ f[k-1] \in Buffers
    BY SMT, Z3, <1>1, <1>4
  <2>2. f[k] = IF k = 0 THEN b ELSE step[k][f[k-1]]
    BY <1>4 DEF LoopDef
  <2> QED
    BY <2>1, <2>2
<1>6. Def(f)
  BY SMT, Z3, <1>4, <1>5
<1>7. Def(F)
  <2> HIDE DEF Def
  <2> QED
    BY <1>6 DEF F
<1>8. ASSUME NEW k \in 0 .. N
      PROVE  F[k] = IF k = 0 THEN b ELSE append_char(F[k-1], chars[k])
  BY <1>7
<1> DEFINE G == {m \in 0 .. N : F[m] \in Buffers}
<1> HIDE DEF Def, step
<1>9. 0 \in G
  <2>1. 0 \in 0 .. N
    BY SMT, Z3, <1>1
  <2> QED
    BY <1>8, <2>1
<1>10. ASSUME NEW m \in 0 .. N, m < N, m \in G PROVE m + 1 \in G
  <2>1. PICK c \in 0 .. N : c = m + 1 /\ c - 1 = m /\ c # 0
    BY SMT, Z3, <1>1, <1>10
  <2>2. F[c] = append_char(F[m], chars[c])
    BY <1>8, <2>1
  <2>3. F[c] \in Buffers
    BY <1>10, <2>2, AppendFits
  <2> QED
    BY <2>1, <2>3
<1> HIDE DEF G
<1>11. N \in G
  <2>1. Inductive(G, N)
    BY <1>9, <1>10 DEF Inductive
  <2>2. N \in 0 .. N
    BY SMT, Z3, <1>1
  <2> QED
    BY <1>1, <2>1, <2>2, UpTo
<1> QED
  BY <1>2, <1>11 DEF G

(* Whatever the string and the values of the variables, and whatever the   *)
(* size of the first buffer, expand_string never writes behind its buffer: *)
(* append_char doubles it in time for the NUL.                             *)
THEOREM BufferNeverOverrun ==
  ASSUME NEW input \in Seq(TextChars)
  PROVE  ~append_text(NewBuffer, expand_string(input)).overrun
<1>1. NewBuffer \in Buffers
  BY SMT, Z3, ExpandAssumption DEF NewBuffer, Buffers
<1>2. expand_string(input) \in Seq(TextChars)
  BY ExpandEnds DEF ExpandStates
<1>3. append_text(NewBuffer, expand_string(input)) \in Buffers
  BY <1>1, <1>2, AppendTextFits
<1> QED
  BY <1>3 DEF Buffers

-----------------------------------------------------------------------------
(* What a search finds: the first place whose character stops it, told by  *)
(* that character or by the ones before it.                                *)
LEMMA SearchFinds ==
  ASSUME NEW t, NEW N \in Nat, N = Len(t), NEW a \in Nat, a <= N, NEW Stop,
         NEW q, q = FirstFrom(t, a, Stop)
  PROVE  /\ q \in a .. N
         /\ q # N => t[q+1] \in Stop
         /\ \A b \in a + 1 .. N :
              t[b] \in Stop /\ (\A k \in a + 1 .. b - 1 : t[k] \notin Stop)
                <=> b = q + 1
         /\ \A b \in a .. N :
              (\A k \in a + 1 .. b : t[k] \notin Stop) /\ (b = N \/ t[b+1] \in Stop)
                <=> b = q
<1> DEFINE S == {m \in a .. N : m = N \/ t[m+1] \in Stop}
<1>1. S \in SUBSET Nat /\ N \in S
  BY SMT, Z3
<1>2. q = Min(S)
  BY DEF FirstFrom
<1> HIDE DEF S
<1>3. q \in S /\ \A m \in S : q <= m
  <2>1. S # {}
    BY <1>1
  <2> QED
    BY <1>1, <1>2, <2>1, MinIsLeast
<1> USE DEF S
<1>4. q \in a .. N /\ (q # N => t[q+1] \in Stop)
  BY <1>3
<1>5. q \in Nat /\ a <= q /\ q <= N
  BY SMT, Z3, <1>4
<1>6. ASSUME NEW k \in a + 1 .. N, k <= q PROVE t[k] \notin Stop
  <2>1. k - 1 \in a .. N /\ (k - 1) + 1 = k /\ ~(q <= k - 1)
    BY SMT, Z3, <1>5, <1>6
  <2> QED
    BY <1>3, <2>1
<1>7. \A b \in a + 1 .. N :
        t[b] \in Stop /\ (\A k \in a + 1 .. b - 1 : t[k] \notin Stop) <=> b = q + 1
  <2> TAKE b \in a + 1 .. N
  <2>1. ASSUME t[b] \in Stop, \A k \in a + 1 .. b - 1 : t[k] \notin Stop PROVE b = q + 1
    <3>1. ~(b <= q)
      BY <1>6, <2>1
    <3>2. b # q + 1 => q # N /\ q + 1 \in a + 1 .. b - 1
      BY SMT, Z3, <1>5, <3>1
    <3> QED
      BY <1>4, <2>1, <3>2
  <2>2. ASSUME b = q + 1
        PROVE  t[b] \in Stop /\ (\A k \in a + 1 .. b - 1 : t[k] \notin Stop)
    <3>1. q # N /\ \A k \in a + 1 .. b - 1 : k \in a + 1 .. N /\ k <= q
      BY SMT, Z3, <1>5, <2>2
    <3> QED
      BY <1>4, <1>6, <2>2, <3>1
  <2> QED
    BY <2>1, <2>2
<1>8. \A b \in a .. N :
        (\A k \in a + 1 .. b : t[k] \notin Stop) /\ (b = N \/ t[b+1] \in Stop) <=> b = q
  <2> TAKE b \in a .. N
  <2>1. ASSUME \A k \in a + 1 .. b : t[k] \notin Stop, b = N \/ t[b+1] \in Stop
        PROVE  b = q
    <3>1. b \in S
      BY <2>1
    <3>2. q <= b
      BY <1>3, <3>1
    <3>3. b # q => q # N /\ q + 1 \in a + 1 .. b
      BY SMT, Z3, <1>5, <3>2
    <3> QED
      BY <1>4, <2>1, <3>3
  <2>2. ASSUME b = q
        PROVE  (\A k \in a + 1 .. b : t[k] \notin Stop) /\ (b = N \/ t[b+1] \in Stop)
    <3>1. \A k \in a + 1 .. b : k \in a + 1 .. N /\ k <= q
      BY SMT, Z3, <1>5, <2>2
    <3> QED
      BY <1>4, <1>6, <2>2, <3>1
  <2> QED
    BY <2>1, <2>2
<1> QED
  BY <1>4, <1>7, <1>8

(* Places behind the place a of a text.                                    *)
LEMMA PlacesBehind ==
  ASSUME NEW a \in Nat, NEW N \in Nat, a < N, NEW b \in a + 1 .. N
  PROVE  /\ a + 1 \in Nat /\ a + 2 \in Nat /\ a + 1 <= N
         /\ a + 1 < N <=> a + 2 <= N
         /\ a + 1 < N => \/ b = a + 1
                        \/ b = a + 2
                        \/ b \in a + 3 .. N
         /\ ~(a + 1 < N) => b = a + 1
         /\ b >= a + 3 <=> b \in a + 3 .. N
         /\ b >= a + 2 <=> b \in a + 2 .. N
         /\ b >= a + 2 => a + 1 < N
         /\ b >= a + 3 => a + 1 < N
         /\ (a + 1) + 1 = a + 2 /\ (a + 2) + 1 = a + 3
         /\ b \in a + 2 .. N => b \in a + 1 .. N
         /\ b \in Nat /\ (b < N <=> b # N)
  BY SMT, Z3

(* A search that starts two places behind a.                               *)
LEMMA SearchBehind ==
  ASSUME NEW t, NEW N \in Nat, N = Len(t), NEW a \in Nat, a + 1 < N, NEW Stop,
         NEW q, q = FirstFrom(t, a + 2, Stop), NEW b \in a + 1 .. N
  PROVE  /\ \A y \in a + 3 .. N :
              t[y] \in Stop /\ (\A k \in a + 3 .. y - 1 : t[k] \notin Stop)
                <=> y = q + 1
         /\ q < N => t[q+1] \in Stop
         /\ b = q + 1 => b \in a + 3 .. N
         /\ b \in a + 3 .. N /\ b = q + 1 => q < N
<1>1. PICK c \in Nat : c = a + 2 /\ c <= N /\ c + 1 = a + 3
  BY SMT, Z3
<1>2. /\ q \in c .. N
      /\ q # N => t[q+1] \in Stop
      /\ \A y \in c + 1 .. N :
           t[y] \in Stop /\ (\A k \in c + 1 .. y - 1 : t[k] \notin Stop) <=> y = q + 1
  BY <1>1, SearchFinds
<1>3. q < N => q # N
  BY SMT, Z3, <1>1, <1>2
<1>4. b = q + 1 => b \in c + 1 .. N /\ q < N
  BY SMT, Z3, <1>1, <1>2
<1> QED
  BY <1>1, <1>2, <1>3, <1>4

(* The braces by name.                                                     *)
LBrace == "{"
RBrace == "}"
ClosesAt(input, a) == FirstFrom(input, a + 2, {RBrace})

LEMMA BracesApart ==
  /\ LBrace # "NUL" /\ RBrace # "NUL" /\ LBrace \notin NameStart
  BY DEF LBrace, RBrace, NameStart

LEMMA BracedMeans ==
  ASSUME NEW t, NEW a, NEW b
  PROVE  Braced(t, a, b) <=>
           /\ b >= a + 3 /\ t[a+1] = "$" /\ t[a+2] = LBrace /\ t[b] = RBrace
           /\ \A k \in a+3 .. b-1 : t[k] # RBrace
  BY DEF Braced, LBrace, RBrace

(* The braced references are the ones expand_string looks for.             *)
LEMMA BracedIs ==
  ASSUME NEW input \in Seq(TextChars), NEW a \in Nat, NEW N \in Nat, N = Len(input), a < N,
         NEW brace, brace = ClosesAt(input, a), NEW b \in a + 1 .. N
  PROVE  Braced(input, a, b) <=>
           At(input, a) = "$" /\ At(input, a + 1) = LBrace /\ At(input, brace) = RBrace
             /\ b = brace + 1
<1>1. At(input, a) = input[a+1] /\ (a + 1 < N => At(input, a + 1) = input[a+2])
  <2>1. (a + 1) + 1 = a + 2
    BY PlacesBehind
  <2> QED
    BY <2>1 DEF At
<1>2. CASE ~(a + 1 < N)
  <2>1. At(input, a + 1) = "NUL"
    BY <1>2 DEF At
  <2>2. ~(b >= a + 3)
    BY <1>2, PlacesBehind
  <2> QED
    BY <2>1, <2>2, BracesApart, BracedMeans
<1>3. CASE a + 1 < N
  <2>2. /\ \A y \in a + 3 .. N :
             input[y] \in {RBrace} /\ (\A k \in a + 3 .. y - 1 : input[k] \notin {RBrace})
               <=> y = brace + 1
        /\ brace < N => input[brace+1] \in {RBrace}
        /\ b = brace + 1 => b \in a + 3 .. N
        /\ b \in a + 3 .. N /\ b = brace + 1 => brace < N
    BY <1>3, SearchBehind DEF ClosesAt
  <2>3. At(input, brace) = RBrace <=> brace < N
    BY <2>2, BracesApart DEF At
  <2>4. Braced(input, a, b) <=>
          /\ b \in a + 3 .. N /\ input[a+1] = "$" /\ input[a+2] = LBrace
          /\ input[b] \in {RBrace} /\ \A k \in a + 3 .. b - 1 : input[k] \notin {RBrace}
    BY PlacesBehind, BracedMeans
  <2> QED
    BY <1>1, <1>3, <2>2, <2>3, <2>4
<1> QED
  BY <1>2, <1>3

(* And so are the named ones.                                              *)
LEMMA NamedIs ==
  ASSUME NEW input \in Seq(TextChars), NEW a \in Nat, NEW N \in Nat, N = Len(input), a < N,
         NEW end, end = NameEnd(input, a + 1), NEW b \in a + 1 .. N
  PROVE  Named(input, a, b) <=>
           At(input, a) = "$" /\ At(input, a + 1) \in NameStart /\ b = end
<1> DEFINE Stop == TextChars \ NameChars
<1>1. At(input, a) = input[a+1] /\ (a + 1 < N => At(input, a + 1) = input[a+2])
  <2>1. (a + 1) + 1 = a + 2
    BY PlacesBehind
  <2> QED
    BY <2>1 DEF At
<1>2. "NUL" \notin NameStart /\ "NUL" \notin NameChars /\ NameStart \subseteq NameChars
  BY DEF NameStart, NameChars
<1>3. a + 1 \in Nat /\ a + 1 <= N /\ (a + 1) + 1 = a + 2
  BY PlacesBehind
<1>4. end = FirstFrom(input, a + 1, Stop)
  BY DEF NameEnd
<1> HIDE DEF Stop
<1>5. /\ end \in a + 1 .. N
      /\ end # N => input[end+1] \in Stop
      /\ \A y \in a + 1 .. N :
           (\A k \in a + 2 .. y : input[k] \notin Stop) /\ (y = N \/ input[y+1] \in Stop)
             <=> y = end
  BY <1>3, <1>4, SearchFinds
<1>6. \A k \in 1 .. N : input[k] \in TextChars
  BY SMT, Z3
<1>7. \A k \in a + 2 .. b : input[k] \notin Stop <=> input[k] \in NameChars
  <2>1. \A k \in a + 2 .. b : k \in 1 .. N
    BY SMT, Z3
  <2> QED
    BY <1>6, <2>1 DEF Stop
<1>8. At(input, b) \notin NameChars <=> b = N \/ input[b+1] \in Stop
  <2>1. b # N => b + 1 \in 1 .. N /\ b < N
    BY SMT, Z3
  <2>2. b # N => At(input, b) = input[b+1] /\ input[b+1] \in TextChars
    BY <1>6, <2>1 DEF At
  <2>3. b = N => At(input, b) = "NUL"
    <3>1. b = N => ~(b < N)
      BY SMT, Z3
    <3> QED
      BY <3>1 DEF At
  <2> QED
    BY <1>2, <2>2, <2>3 DEF Stop
<1>9. At(input, a + 1) \in NameStart => a + 1 < N /\ end # a + 1
  <2>1. At(input, a + 1) \in NameStart => a + 1 < N
    BY <1>2 DEF At
  <2>2. end = a + 1 /\ end # N => input[a+2] \in Stop
    BY <1>3, <1>5
  <2>3. a + 1 < N => a + 1 # N
    BY SMT, Z3
  <2> QED
    BY <1>1, <1>2, <2>1, <2>2, <2>3 DEF Stop
<1>10. b >= a + 2 <=> b # a + 1
  BY SMT, Z3
<1>11. Named(input, a, b) <=>
         /\ b # a + 1 /\ input[a+1] = "$" /\ input[a+2] \in NameStart
         /\ \A k \in a + 2 .. b : input[k] \notin Stop
         /\ b = N \/ input[b+1] \in Stop
  BY <1>7, <1>8, <1>10 DEF Named
<1>12. b # a + 1 => a + 1 < N
  BY <1>10, PlacesBehind
<1> QED
  BY <1>1, <1>5, <1>9, <1>11, <1>12

(* A piece of one character.                                               *)
LEMMA OneCharacter ==
  ASSUME NEW t, NEW a \in Nat, Len(t) \in Nat, a < Len(t), t \in Seq(TextChars)
  PROVE  SubSeq(t, a + 1, a + 1) = <<t[a+1]>>
<1>1. PICK m \in 1 .. Len(t) : m = a + 1
  BY SMT, Z3
<1>2. SubSeq(t, m, m) \in Seq(TextChars)
  BY SMT, Z3
<1>3. Len(SubSeq(t, m, m)) = 1
  BY SMT, Z3
<1>4. SubSeq(t, m, m)[1] = t[m]
  BY SMT, Z3
<1>5. \A x \in Seq(TextChars) : Len(x) = 1 => x = <<x[1]>>
  BY SMT, Z3
<1> QED
  BY <1>1, <1>2, <1>3, <1>4, <1>5

TurnGives(input, s, chars, k) ==
  ExpandTurn(input, s).i = k /\ ExpandTurn(input, s).out = s.out \o chars

(* The turns of expand_string, case by case.                               *)
LEMMA ExpandTurnIs ==
  ASSUME NEW input, NEW s, NEW brace, NEW end,
         brace = ClosesAt(input, s.i), end = NameEnd(input, s.i + 1),
         At(input, s.i) # "NUL"
  PROVE  /\ At(input, s.i) # "$" => TurnGives(input, s, <<At(input, s.i)>>, s.i + 1)
         /\ At(input, s.i) = "$" /\ At(input, s.i + 1) = LBrace /\ At(input, brace) = RBrace =>
              TurnGives(input, s, getenv(SubSeq(input, s.i + 3, brace)), brace + 1)
         /\ At(input, s.i) = "$" /\ At(input, s.i + 1) \in NameStart =>
              TurnGives(input, s, getenv(SubSeq(input, s.i + 2, end)), end)
         /\ /\ At(input, s.i) = "$" /\ At(input, s.i + 1) \notin NameStart
            /\ ~(At(input, s.i + 1) = LBrace /\ At(input, brace) = RBrace)
            => TurnGives(input, s, <<"$">>, s.i + 1)
<1> DEFINE c == At(input, s.i)
           d == At(input, s.i + 1)
           braced == d = LBrace /\ At(input, brace) = RBrace
           put(chars, k) == [i |-> k, out |-> s.out \o chars]
           v == getenv(SubSeq(input, s.i + 3, brace))
           w == getenv(SubSeq(input, s.i + 2, end))
           T == ExpandTurn(input, s)
<1>1. T = CASE c = "NUL" -> s
            [] c \notin {"$", "NUL"} -> put(<<c>>, s.i + 1)
            [] c = "$" /\ braced -> put(v, brace + 1)
            [] c = "$" /\ d \in NameStart -> put(w, end)
            [] c = "$" /\ ~braced /\ d \notin NameStart -> put(<<"$">>, s.i + 1)
  BY DEF ExpandTurn, ClosesAt, LBrace, RBrace
<1>2. ASSUME NEW chars, NEW k, T = put(chars, k) PROVE TurnGives(input, s, chars, k)
  BY <1>2 DEF TurnGives
<1>3. d = LBrace => d \notin NameStart
  BY BracesApart
<1> HIDE DEF put, v, w, T, c, d
<1>4. c # "NUL"
  BY DEF c
<1>5. c # "$" => T = put(<<c>>, s.i + 1)
  BY <1>1, <1>4
<1>6. c = "$" /\ braced => T = put(v, brace + 1)
  BY <1>1, <1>3, <1>4
<1>7. c = "$" /\ d \in NameStart => T = put(w, end)
  BY <1>1, <1>3, <1>4
<1>8. c = "$" /\ ~braced /\ d \notin NameStart => T = put(<<"$">>, s.i + 1)
  BY <1>1, <1>4
<1> QED
  BY <1>2, <1>5, <1>6, <1>7, <1>8 DEF T, c, d, v, w

(* For strings of any length: each turn of expand_string takes the one     *)
(* reference or character that starts where it is, and appends its value;  *)
(* there is no other way to read on from there.                            *)
THEOREM ExpandsTheReference ==
  ASSUME NEW input \in Seq(TextChars), NEW s \in ExpandStates(input), s.i # Len(input)
  PROVE  LET T == ExpandTurn(input, s)
         IN  /\ T.i \in s.i + 1 .. Len(input)
             /\ \A b \in s.i + 1 .. Len(input) : Reference(input, s.i, b) <=> b = T.i
             /\ T.out = s.out \o Value(input, s.i, T.i)
<1> DEFINE N == Len(input)
           T == ExpandTurn(input, s)
<1>1. PICK a \in Nat : a = s.i /\ a < N /\ a # N
  BY SMT, Z3 DEF ExpandStates
<1>2. N \in Nat /\ a + 1 \in a + 1 .. N /\ \A b \in a + 1 .. N : b = a + 1 \/ b \in a + 2 .. N
  BY SMT, Z3, <1>1
<1>3. T.i \in a + 1 .. N
  <2>1. T \in ExpandStates(input) /\ T.i >= a + 1
    BY <1>1, ExpandTurnMoves
  <2>2. T.i \in 0 .. N
    BY <2>1 DEF ExpandStates
  <2> HIDE DEF T
  <2> QED
    BY SMT, Z3, <1>1, <1>2, <2>1, <2>2
<1> DEFINE brace == ClosesAt(input, a)
           end == NameEnd(input, a + 1)
           c == At(input, a)
           d == At(input, a + 1)
           braced == d = LBrace /\ At(input, brace) = RBrace
<1>4. \A b \in a + 1 .. N : Braced(input, a, b) <=> c = "$" /\ braced /\ b = brace + 1
  <2> HIDE DEF N
  <2> TAKE b \in a + 1 .. N
  <2>1. N = Len(input) /\ brace = ClosesAt(input, a)
    BY DEF N
  <2> HIDE DEF brace
  <2>2. Braced(input, a, b) <=>
          At(input, a) = "$" /\ At(input, a + 1) = LBrace /\ At(input, brace) = RBrace
            /\ b = brace + 1
    <3>1. a < N /\ N \in Nat
      BY <1>1, <1>2
    <3> HIDE DEF c, d, end, T, braced
    <3> QED
      BY <2>1, <3>1, BracedIs
  <2> QED
    BY <2>2
<1>5. \A b \in a + 1 .. N : Named(input, a, b) <=> c = "$" /\ d \in NameStart /\ b = end
  BY <1>1, <1>2, NamedIs
<1>6. c # "NUL" /\ c = input[a+1]
  <2>1. c # "NUL"
    BY <1>1, AtText
  <2> QED
    BY <1>1, <2>1 DEF At
<1>7. /\ c # "$" => T.i = a + 1 /\ T.out = s.out \o <<c>>
      /\ c = "$" /\ braced =>
           T.i = brace + 1 /\ T.out = s.out \o getenv(SubSeq(input, a + 3, brace))
      /\ c = "$" /\ d \in NameStart =>
           T.i = end /\ T.out = s.out \o getenv(SubSeq(input, a + 2, end))
      /\ c = "$" /\ ~braced /\ d \notin NameStart => T.i = a + 1 /\ T.out = s.out \o <<"$">>
  <2>1. At(input, s.i) # "NUL" /\ c = At(input, s.i) /\ d = At(input, s.i + 1)
    BY <1>1, <1>6
  <2>2. brace = ClosesAt(input, s.i) /\ end = NameEnd(input, s.i + 1)
    BY <1>1
  <2> HIDE DEF brace, end, c, d, T
  <2>3. c # "$" => TurnGives(input, s, <<c>>, s.i + 1)
    BY <2>1, <2>2, ExpandTurnIs
  <2>4. c = "$" /\ braced => TurnGives(input, s, getenv(SubSeq(input, s.i + 3, brace)), brace + 1)
    BY <2>1, <2>2, ExpandTurnIs
  <2>5. c = "$" /\ d \in NameStart => TurnGives(input, s, getenv(SubSeq(input, s.i + 2, end)), end)
    BY <2>1, <2>2, ExpandTurnIs
  <2>6. c = "$" /\ ~braced /\ d \notin NameStart => TurnGives(input, s, <<"$">>, s.i + 1)
    BY <2>1, <2>2, ExpandTurnIs
  <2> QED
    BY <1>1, <2>3, <2>4, <2>5, <2>6 DEF TurnGives, T
<1>8. braced => d \notin NameStart
  BY BracesApart
<1> HIDE DEF T, brace, end, c, d, N, braced
<1>9. \A b \in a + 1 .. N : Single(input, a, b) <=>
        b = a + 1 /\ (c = "$" => ~braced /\ d \notin NameStart)
  <2>1. c = "$" /\ braced => brace + 1 \in a + 2 .. N /\ brace + 1 \in a + 1 .. N
    <3>1. c = "$" /\ braced => T.i = brace + 1 /\ Braced(input, a, brace + 1)
      BY <1>3, <1>4, <1>7
    <3>2. \A b \in a + 1 .. N : b >= a + 3 => b \in a + 2 .. N
      BY SMT, Z3, <1>2
    <3>3. Braced(input, a, brace + 1) => brace + 1 >= a + 3
      BY BracedMeans
    <3> QED
      BY <1>3, <3>1, <3>2, <3>3
  <2>2. c = "$" /\ d \in NameStart => end \in a + 2 .. N /\ end \in a + 1 .. N
    <3>1. c = "$" /\ d \in NameStart => T.i = end /\ Named(input, a, end)
      BY <1>3, <1>5, <1>7
    <3>2. \A b \in a + 1 .. N : b >= a + 2 => b \in a + 2 .. N
      BY SMT, Z3, <1>2
    <3>3. Named(input, a, end) => end >= a + 2
      BY DEF Named
    <3> QED
      BY <1>3, <3>1, <3>2, <3>3
  <2>3. \A e \in a + 2 .. N : e \in a + 1 .. N
    BY SMT, Z3, <1>1
  <2>4. (\A e \in a + 2 .. N : ~Braced(input, a, e) /\ ~Named(input, a, e))
          <=> (c = "$" => ~braced /\ d \notin NameStart)
    BY <1>4, <1>5, <2>1, <2>2, <2>3
  <2> QED
    BY <1>6, <2>4 DEF Single, N
<1>10. \A b \in a + 1 .. N : Reference(input, a, b) <=> b = T.i
  <2> TAKE b \in a + 1 .. N
  <2>1. Reference(input, a, b) <=>
          \/ c = "$" /\ braced /\ b = brace + 1
          \/ c = "$" /\ d \in NameStart /\ b = end
          \/ b = a + 1 /\ (c = "$" => ~braced /\ d \notin NameStart)
    BY <1>4, <1>5, <1>9 DEF Reference
  <2> QED
    BY <1>7, <1>8, <2>1
<1>11. c = "$" /\ braced => brace \in Nat
  <2>1. d = LBrace => a + 1 < N
    BY <1>1, BracesApart DEF At, N, d
  <2>2. a + 1 < N => a + 2 \in Nat /\ a + 2 <= N /\ \A q \in a + 2 .. N : q \in Nat
    BY SMT, Z3, <1>1, <1>2
  <2>3. a + 1 < N => brace \in a + 2 .. N
    BY <1>2, <2>2, FirstFromInText DEF N, brace, ClosesAt
  <2> QED
    BY <2>1, <2>2, <2>3 DEF braced
<1>12. T.out = s.out \o Value(input, a, T.i)
  <2>1. Value(input, a, T.i) = CASE Braced(input, a, T.i) -> getenv(SubSeq(input, a + 3, T.i - 1))
          [] Named(input, a, T.i) -> getenv(SubSeq(input, a + 2, T.i))
          [] OTHER -> SubSeq(input, a + 1, T.i)
    BY DEF Value
  <2>2. CASE c = "$" /\ braced
    <3>1. Braced(input, a, T.i) /\ ~Named(input, a, T.i)
      BY <1>3, <1>4, <1>5, <1>7, <1>8, <2>2
    <3>2. T.i = brace + 1 /\ brace \in Nat
      BY <1>7, <1>11, <2>2
    <3>3. T.i - 1 = brace
      BY SMT, Z3, <3>2
    <3> QED
      BY <1>7, <2>1, <2>2, <3>1, <3>3
  <2>3. CASE c = "$" /\ d \in NameStart
    <3>1. ~Braced(input, a, T.i) /\ Named(input, a, T.i)
      BY <1>3, <1>4, <1>5, <1>7, <1>8, <2>3
    <3> QED
      BY <1>7, <2>1, <2>3, <3>1
  <2>4. CASE ~(c = "$" /\ braced) /\ ~(c = "$" /\ d \in NameStart)
    <3>1. ~Braced(input, a, T.i) /\ ~Named(input, a, T.i)
      BY <1>3, <1>4, <1>5, <2>4
    <3>2. SubSeq(input, a + 1, a + 1) = <<input[a+1]>>
      BY <1>1, OneCharacter DEF N
    <3>3. T.i = a + 1 /\ T.out = s.out \o <<c>>
      BY <1>7, <2>4
    <3> QED
      BY <1>6, <2>1, <3>1, <3>2, <3>3
  <2> QED
    BY <2>2, <2>3, <2>4
<1> QED
  BY <1>1, <1>3, <1>10, <1>12 DEF T, N

-----------------------------------------------------------------------------
(* The lexer.  White space by name, and the kinds of characters.           *)
Blank == " "

LEMMA KindsApart ==
  /\ "NUL" \notin LexChars
  /\ Quotes \cap {Blank, "|", "&", "<", ">", "NUL"} = {}
  /\ WordChars \cap {Blank, "|", "&", "<", ">", "NUL"} = {} /\ WordChars \cap Quotes = {}
  /\ LexChars = {Blank, "|", "&", "<", ">"} \cup Quotes \cup WordChars
  /\ Blank \notin {"|", "&", "<", ">", "NUL"}
  BY DEF LexChars, Quotes, WordChars, Blank

LEMMA LexemeMeans ==
  ASSUME NEW t, NEW a, NEW b
  PROVE  Lexeme(t, a, b) <=>
           \/ b = a + 1 /\ t[a+1] \in {Blank, "|", "&", "<"}
           \/ b = a + 1 /\ t[a+1] = ">" /\ Next1(t, b) # ">"
           \/ b = a + 2 /\ t[a+1] = ">" /\ t[b] = ">"
           \/ /\ t[a+1] \in Quotes
              /\ \A k \in a+2 .. b-1 : t[k] # t[a+1]
              /\ (b > a + 1 /\ t[b] = t[a+1]) \/ b = Len(t)
           \/ Plain(t, a, b) /\ Next1(t, b) \notin WordChars
  BY DEF Lexeme, Blank

(* A word starts with a character of a word.                               *)
LEMMA PlainStarts ==
  ASSUME NEW t, NEW a \in Nat, NEW N \in Nat, NEW b \in a + 1 .. N, Plain(t, a, b)
  PROVE  t[a+1] \in WordChars
<1>1. a + 1 \in a + 1 .. b
  BY SMT, Z3
<1> QED
  BY <1>1 DEF Plain

(* Lexemes of one character.                                               *)
LEMMA LexemeOfOne ==
  ASSUME NEW t \in Seq(LexChars), NEW a \in Nat, NEW N \in Nat, N = Len(t), a < N,
         t[a+1] \in {Blank, "|", "&", "<"}, NEW b \in a + 1 .. N
  PROVE  Lexeme(t, a, b) <=> b = a + 1
<1>1. t[a+1] # ">" /\ t[a+1] \notin Quotes /\ t[a+1] \notin WordChars
  BY KindsApart
<1> QED
  BY <1>1, LexemeMeans, PlainStarts

(* `>' and `>>'.                                                           *)
LEMMA LexemeOfGreater ==
  ASSUME NEW t \in Seq(LexChars), NEW a \in Nat, NEW N \in Nat, N = Len(t), a < N,
         t[a+1] = ">", NEW b \in a + 1 .. N
  PROVE  /\ lexer_peek(t, a + 1) = ">" => a + 2 \in a + 1 .. N
         /\ Lexeme(t, a, b) <=> b = IF lexer_peek(t, a + 1) = ">" THEN a + 2 ELSE a + 1
<1>1. t[a+1] \notin Quotes /\ t[a+1] \notin WordChars /\ t[a+1] \notin {Blank, "|", "&", "<"}
  BY KindsApart
<1>2. Lexeme(t, a, b) <=> \/ b = a + 1 /\ Next1(t, a + 1) # ">"
                          \/ b = a + 2 /\ t[a+2] = ">"
  BY <1>1, LexemeMeans, PlainStarts
<1>3. /\ a + 1 < N <=> ~(a + 1 >= N)
      /\ a + 1 < N => a + 2 \in a + 1 .. N
      /\ b = a + 2 => a + 1 < N
      /\ a + 1 # a + 2 /\ (a + 1) + 1 = a + 2
  BY SMT, Z3
<1>4. Next1(t, a + 1) = lexer_peek(t, a + 1)
  BY <1>3 DEF Next1, lexer_peek
<1>5. a + 1 < N => lexer_peek(t, a + 1) = t[a+2]
  BY <1>3 DEF lexer_peek
<1>6. ~(a + 1 < N) => lexer_peek(t, a + 1) # ">"
  BY <1>3 DEF lexer_peek
<1> QED
  BY <1>2, <1>3, <1>4, <1>5, <1>6

(* Words.                                                                  *)
LEMMA LexemeOfWord ==
  ASSUME NEW t \in Seq(LexChars), NEW a \in Nat, NEW N \in Nat, N = Len(t), a < N,
         t[a+1] \in WordChars, NEW b \in a + 1 .. N,
         NEW end, end = FirstFrom(t, a, Breaks)
  PROVE  /\ end \in a + 1 .. N
         /\ Lexeme(t, a, b) <=> b = end
<1>1. t[a+1] \notin Quotes /\ t[a+1] # ">" /\ t[a+1] \notin {Blank, "|", "&", "<"}
      /\ "NUL" \notin WordChars
  BY KindsApart
<1>2. Lexeme(t, a, b) <=> Plain(t, a, b) /\ Next1(t, b) \notin WordChars
  BY <1>1, LexemeMeans
<1>3. \A k \in 1 .. N : t[k] \in WordChars <=> t[k] \notin Breaks
  <2>1. \A k \in 1 .. N : t[k] \in LexChars
    BY SMT, Z3
  <2> QED
    BY <2>1, KindsApart DEF Breaks
<1>4. a <= N
  BY SMT, Z3
<1>5. /\ end \in a .. N
      /\ end # N => t[end+1] \in Breaks
      /\ \A y \in a .. N :
           (\A k \in a + 1 .. y : t[k] \notin Breaks) /\ (y = N \/ t[y+1] \in Breaks)
             <=> y = end
  BY <1>4, SearchFinds
<1>6. /\ b \in a .. N /\ a + 1 \in 1 .. N /\ a # N
      /\ \A k \in a + 1 .. b : k \in 1 .. N
      /\ b # N => b < N /\ b + 1 \in 1 .. N
      /\ b = N => ~(b < N)
      /\ end \in a .. N /\ end # a => end \in a + 1 .. N
  BY SMT, Z3
<1>7. end # a
  BY <1>3, <1>5, <1>6
<1>8. Plain(t, a, b) <=> \A k \in a + 1 .. b : t[k] \notin Breaks
  BY <1>3, <1>6 DEF Plain
<1>9. Next1(t, b) \notin WordChars <=> b = N \/ t[b+1] \in Breaks
  BY <1>1, <1>3, <1>6 DEF Next1
<1> QED
  BY <1>2, <1>5, <1>6, <1>7, <1>8, <1>9

(* Strings in quotes: they end behind the next quote of the same kind, or  *)
(* at the end of the line.                                                 *)
LEMMA LexemeOfQuote ==
  ASSUME NEW t \in Seq(LexChars), NEW a \in Nat, NEW N \in Nat, N = Len(t), a < N,
         t[a+1] \in Quotes, NEW b \in a + 1 .. N,
         NEW end, end = FirstFrom(t, a + 1, {t[a+1]})
  PROVE  /\ end \in a + 1 .. N
         /\ lexer_peek(t, end) = t[a+1] => end + 1 \in a + 2 .. N /\ t[end+1] = t[a+1]
         /\ lexer_peek(t, end) # t[a+1] => end = N /\ ~(N > a + 1 /\ t[N] = t[a+1])
         /\ Lexeme(t, a, b) <=>
              b = IF lexer_peek(t, end) = t[a+1] THEN end + 1 ELSE end
<1> DEFINE c == t[a+1]
<1>1. c \notin WordChars /\ c # ">" /\ c \notin {Blank, "|", "&", "<"} /\ c # "NUL"
  BY KindsApart
<1>2. Lexeme(t, a, b) <=> /\ \A k \in a+2 .. b-1 : t[k] # c
                          /\ (b > a + 1 /\ t[b] = c) \/ b = N
  BY <1>1, LexemeMeans, PlainStarts
<1> HIDE DEF c
<1>3. PICK m \in Nat : m = a + 1 /\ m <= N /\ m + 1 = a + 2
  BY SMT, Z3
<1>4. /\ end \in m .. N
      /\ end # N => t[end+1] \in {c}
      /\ \A y \in m + 1 .. N :
           t[y] \in {c} /\ (\A k \in m + 1 .. y - 1 : t[k] \notin {c}) <=> y = end + 1
      /\ \A y \in m .. N :
           (\A k \in m + 1 .. y : t[k] \notin {c}) /\ (y = N \/ t[y+1] \in {c}) <=> y = end
  <2>1. end = FirstFrom(t, m, {c})
    BY <1>3 DEF c
  <2> DEFINE Stop == {c}
  <2> HIDE DEF Stop
  <2>2. end = FirstFrom(t, m, Stop)
    BY <2>1 DEF Stop
  <2>3. end \in m .. N /\ (end # N => t[end+1] \in Stop)
    BY <1>3, <2>2, SearchFinds
  <2>4. \A y \in m + 1 .. N :
          t[y] \in Stop /\ (\A k \in m + 1 .. y - 1 : t[k] \notin Stop) <=> y = end + 1
    BY <1>3, <2>2, SearchFinds
  <2>5. \A y \in m .. N :
          (\A k \in m + 1 .. y : t[k] \notin Stop) /\ (y = N \/ t[y+1] \in Stop) <=> y = end
    BY <1>3, <2>2, SearchFinds
  <2> QED
    BY <2>3, <2>4, <2>5 DEF Stop
<1>5. /\ end >= N <=> end = N
      /\ end # N => end + 1 \in m + 1 .. N
      /\ N > a + 1 => N \in m + 1 .. N
      /\ N + 1 \notin m .. N /\ N \in m .. N
      /\ b \in m .. N /\ (b > a + 1 <=> b \in m + 1 .. N)
      /\ \A k \in m + 1 .. N : k = N \/ k \in m + 1 .. N - 1
      /\ \A k \in m + 1 .. N - 1 : k \in m + 1 .. N
      /\ end + 1 \in Int /\ end \in Int
  BY SMT, Z3, <1>3, <1>4
<1>6. lexer_peek(t, end) = c <=> end # N
  BY <1>1, <1>4, <1>5 DEF lexer_peek
<1>7. end = N => \A k \in m + 1 .. N : t[k] # c
  BY <1>4, <1>5
<1>8. end = N => ~(N > a + 1 /\ t[N] = c)
  BY <1>5, <1>7
<1>9. Lexeme(t, a, b) => b = IF end # N THEN end + 1 ELSE end
  <2> SUFFICES ASSUME Lexeme(t, a, b) PROVE b = IF end # N THEN end + 1 ELSE end
    OBVIOUS
  <2>1. CASE b > a + 1 /\ t[b] = c
    <3>1. b = end + 1
      BY <1>2, <1>3, <1>4, <1>5, <2>1
    <3>2. end # N
      BY <1>5, <3>1
    <3> QED
      BY <3>1, <3>2
  <2>2. CASE b = N /\ ~(b > a + 1 /\ t[b] = c)
    <3>1. \A k \in m + 1 .. N : t[k] # c
      BY <1>2, <1>3, <1>5, <2>2
    <3>2. end = N
      BY <1>4, <1>5, <3>1
    <3> QED
      BY <2>2, <3>2
  <2> QED
    BY <1>2, <2>1, <2>2
<1>10. ASSUME b = IF end # N THEN end + 1 ELSE end PROVE Lexeme(t, a, b)
  <2>1. CASE end # N
    BY <1>2, <1>3, <1>4, <1>5, <1>10, <2>1
  <2>2. CASE end = N
    <3>1. b = N
      BY <1>10, <2>2
    <3> QED
      BY <1>2, <1>3, <1>5, <1>7, <2>2, <3>1
  <2> QED
    BY <2>1, <2>2
<1> QED
  BY <1>3, <1>4, <1>5, <1>6, <1>8, <1>9, <1>10 DEF c

(* What a lexeme reads as.                                                 *)
LEMMA ReadsMeans ==
  ASSUME NEW t, NEW a, NEW b, NEW c, c = t[a+1]
  PROVE  /\ c = Blank => Reads(t, a, b) = <<>>
         /\ c = "|" => Reads(t, a, b) = <<[type |-> "PIPE", value |-> <<>>]>>
         /\ c = "&" => Reads(t, a, b) = <<[type |-> "AMPERSAND", value |-> <<>>]>>
         /\ c = "<" => Reads(t, a, b) = <<[type |-> "REDIRECT_IN", value |-> <<>>]>>
         /\ c = ">" => Reads(t, a, b) =
              IF b = a + 1 THEN <<[type |-> "REDIRECT_OUT", value |-> <<>>]>>
              ELSE <<[type |-> "REDIRECT_APPEND", value |-> <<>>]>>
         /\ c \in Quotes => Reads(t, a, b) =
              <<[type |-> "WORD", value |->
                   SubSeq(t, a + 2, IF b > a + 1 /\ t[b] = c THEN b - 1 ELSE b)]>>
         /\ c \in WordChars =>
              Reads(t, a, b) = <<[type |-> "WORD", value |-> SubSeq(t, a + 1, b)]>>
<1> DEFINE is(type) == <<[type |-> type, value |-> <<>>]>>
           word(x, y) == <<[type |-> "WORD", value |-> SubSeq(t, x, y)]>>
           out == IF b = a + 1 THEN is("REDIRECT_OUT") ELSE is("REDIRECT_APPEND")
           quoted == word(a + 2, IF b > a + 1 /\ t[b] = c THEN b - 1 ELSE b)
           plain == word(a + 1, b)
           R == Reads(t, a, b)
<1>1. R = CASE c = Blank -> <<>>
            [] c = "|" -> is("PIPE")
            [] c = "&" -> is("AMPERSAND")
            [] c = "<" -> is("REDIRECT_IN")
            [] c = ">" -> out
            [] c \in Quotes -> quoted
            [] OTHER -> plain
  BY DEF Reads, Blank
<1> HIDE DEF is, word, out, quoted, plain, R
<1>2. c = Blank => R = <<>>
  BY <1>1, KindsApart
<1>3. c = "|" => R = is("PIPE")
  BY <1>1, KindsApart
<1>4. c = "&" => R = is("AMPERSAND")
  BY <1>1, KindsApart
<1>5. c = "<" => R = is("REDIRECT_IN")
  BY <1>1, KindsApart
<1>6. c = ">" => R = out
  BY <1>1, KindsApart
<1>7. c \in Quotes => R = quoted
  BY <1>1, KindsApart
<1>8. c \in WordChars => R = plain
  BY <1>1, KindsApart
<1> QED
  BY <1>2, <1>3, <1>4, <1>5, <1>6, <1>7, <1>8 DEF is, word, out, quoted, plain, R

(* The tokens of the lexer, case by case.                                  *)
LEMMA TokenMeans ==
  ASSUME NEW t, NEW from, NEW pos, pos = lexer_skip_whitespace(t, from),
         NEW c, c = lexer_peek(t, pos), NEW tok, tok = lexer_next_token(t, from)
  PROVE  /\ c = "NUL" => tok = Token("END", <<>>, pos)
         /\ c = "|" => tok = Token("PIPE", <<>>, pos + 1)
         /\ c = "&" => tok = Token("AMPERSAND", <<>>, pos + 1)
         /\ c = "<" => tok = Token("REDIRECT_IN", <<>>, pos + 1)
         /\ c = ">" /\ lexer_peek(t, pos + 1) = ">" =>
              tok = Token("REDIRECT_APPEND", <<>>, pos + 2)
         /\ c = ">" /\ lexer_peek(t, pos + 1) # ">" =>
              tok = Token("REDIRECT_OUT", <<>>, pos + 1)
         /\ c \in Quotes => tok = Quoted(t, pos)
         /\ c \in WordChars => tok = Word(t, pos)
<1> DEFINE n == lexer_peek(t, pos + 1)
<1>1. tok = CASE c = "NUL" -> Token("END", <<>>, pos)
              [] c = "|" -> Token("PIPE", <<>>, pos + 1)
              [] c = "&" -> Token("AMPERSAND", <<>>, pos + 1)
              [] c = "<" -> Token("REDIRECT_IN", <<>>, pos + 1)
              [] c = ">" /\ n = ">" -> Token("REDIRECT_APPEND", <<>>, pos + 2)
              [] c = ">" /\ n # ">" -> Token("REDIRECT_OUT", <<>>, pos + 1)
              [] c \in Quotes -> Quoted(t, pos)
              [] c \in WordChars -> Word(t, pos)
  BY DEF lexer_next_token
<1> HIDE DEF n
<1>2. c = "NUL" => tok = Token("END", <<>>, pos)
  BY <1>1, KindsApart
<1>3. c = "|" => tok = Token("PIPE", <<>>, pos + 1)
  BY <1>1, KindsApart
<1>4. c = "&" => tok = Token("AMPERSAND", <<>>, pos + 1)
  BY <1>1, KindsApart
<1>5. c = "<" => tok = Token("REDIRECT_IN", <<>>, pos + 1)
  BY <1>1, KindsApart
<1>6. c = ">" /\ n = ">" => tok = Token("REDIRECT_APPEND", <<>>, pos + 2)
  BY <1>1, KindsApart
<1>7. c = ">" /\ n # ">" => tok = Token("REDIRECT_OUT", <<>>, pos + 1)
  BY <1>1, KindsApart
<1>8. c \in Quotes => tok = Quoted(t, pos)
  BY <1>1, KindsApart
<1>9. c \in WordChars => tok = Word(t, pos)
  BY <1>1, KindsApart
<1> QED
  BY <1>2, <1>3, <1>4, <1>5, <1>6, <1>7, <1>8, <1>9 DEF n

(* The lexer skips the blanks and nothing else.                            *)
LEMMA SkipsBlanks ==
  ASSUME NEW t \in Seq(LexChars), NEW N \in Nat, N = Len(t), NEW from \in 0 .. N,
         NEW pos, pos = lexer_skip_whitespace(t, from)
  PROVE  /\ pos \in from .. N
         /\ pos # N => lexer_peek(t, pos) = t[pos+1] /\ t[pos+1] \in LexChars \ {Blank}
         /\ pos = N => lexer_peek(t, pos) = "NUL"
         /\ \A a \in from .. pos - 1 : t[a+1] = Blank
<1> DEFINE Stop == LexChars \ {Blank}
<1>1. pos = FirstFrom(t, from, Stop)
  BY DEF lexer_skip_whitespace, Blank
<1> HIDE DEF Stop
<1>2. from \in Nat /\ from <= N
  BY SMT, Z3
<1>3. pos \in from .. N /\ (pos # N => t[pos+1] \in Stop)
  BY <1>1, <1>2, SearchFinds
<1>4. \A k \in from + 1 .. pos : t[k] \notin Stop
  BY <1>1, <1>2, <1>3, SearchFinds
<1>5. /\ pos >= N <=> pos = N
      /\ \A a \in from .. pos - 1 : a + 1 \in from + 1 .. pos /\ a + 1 \in 1 .. N
  BY SMT, Z3, <1>2, <1>3
<1>6. \A k \in 1 .. N : t[k] \in LexChars
  BY SMT, Z3
<1>7. \A a \in from .. pos - 1 : t[a+1] = Blank
  BY <1>4, <1>5, <1>6 DEF Stop
<1> QED
  BY <1>3, <1>5, <1>7 DEF lexer_peek, Stop

(* For lines of any length: from wherever it is, lexer_next_token skips    *)
(* blanks, each a lexeme that means nothing, and returns the token of the  *)
(* one lexeme that starts behind them, and the place where it ends; or END *)
(* when nothing is left.                                                   *)
THEOREM LexesTheLexeme ==
  ASSUME NEW t \in Seq(LexChars), NEW from \in 0 .. Len(t)
  PROVE  LET pos == lexer_skip_whitespace(t, from)
             tok == lexer_next_token(t, from)
         IN  /\ \A a \in from .. pos - 1 :
                  /\ \A b \in a + 1 .. Len(t) : Lexeme(t, a, b) <=> b = a + 1
                  /\ Reads(t, a, a + 1) = <<>>
             /\ tok.type = "END" <=> pos = Len(t)
             /\ pos # Len(t) =>
                  /\ tok.pos \in pos + 1 .. Len(t)
                  /\ \A b \in pos + 1 .. Len(t) : Lexeme(t, pos, b) <=> b = tok.pos
                  /\ Reads(t, pos, tok.pos) = <<[type |-> tok.type, value |-> tok.value]>>
<1> DEFINE N == Len(t)
           pos == lexer_skip_whitespace(t, from)
           tok == lexer_next_token(t, from)
           c == lexer_peek(t, pos)
           Takes(b) == /\ tok.pos = b /\ b \in pos + 1 .. N /\ tok.type # "END"
                       /\ \A e \in pos + 1 .. N : Lexeme(t, pos, e) <=> e = b
                       /\ Reads(t, pos, b) = <<[type |-> tok.type, value |-> tok.value]>>
<1>1. N \in Nat /\ N = Len(t) /\ from \in Nat
  BY SMT, Z3
<1>2. /\ pos \in from .. N
      /\ pos # N => c = t[pos+1] /\ t[pos+1] \in LexChars \ {Blank}
      /\ pos = N => c = "NUL"
      /\ \A a \in from .. pos - 1 : t[a+1] = Blank
  BY <1>1, SkipsBlanks
<1>3. /\ c = "NUL" => tok = Token("END", <<>>, pos)
      /\ c = "|" => tok = Token("PIPE", <<>>, pos + 1)
      /\ c = "&" => tok = Token("AMPERSAND", <<>>, pos + 1)
      /\ c = "<" => tok = Token("REDIRECT_IN", <<>>, pos + 1)
      /\ c = ">" /\ lexer_peek(t, pos + 1) = ">" => tok = Token("REDIRECT_APPEND", <<>>, pos + 2)
      /\ c = ">" /\ lexer_peek(t, pos + 1) # ">" => tok = Token("REDIRECT_OUT", <<>>, pos + 1)
      /\ c \in Quotes => tok = Quoted(t, pos)
      /\ c \in WordChars => tok = Word(t, pos)
  BY TokenMeans
<1> HIDE DEF N, pos, tok, c
<1>4. /\ pos \in Nat
      /\ pos # N => pos < N /\ pos + 1 \in pos + 1 .. N
      /\ \A a \in from .. pos - 1 : a \in Nat /\ a < N /\ a + 1 \in a + 1 .. N
  BY SMT, Z3, <1>1, <1>2
<1>5. ASSUME NEW a \in from .. pos - 1
      PROVE  (\A b \in a + 1 .. N : Lexeme(t, a, b) <=> b = a + 1) /\ Reads(t, a, a + 1) = <<>>
  BY <1>1, <1>2, <1>4, LexemeOfOne, ReadsMeans
<1>6. ASSUME pos # N, NEW type, type # "END", NEW value, NEW b \in pos + 1 .. N,
             tok = Token(type, value, b),
             \A e \in pos + 1 .. N : Lexeme(t, pos, e) <=> e = b,
             Reads(t, pos, b) = <<[type |-> type, value |-> value]>>
      PROVE  Takes(b)
  <2>1. tok.pos = b /\ tok.type = type /\ tok.value = value
    BY <1>6 DEF Token
  <2> QED
    BY <1>6, <2>1
<1> HIDE DEF Takes
<1>7. ASSUME pos # N PROVE \E b : Takes(b)
  <2>1. c = t[pos+1] /\ c \in LexChars \ {Blank} /\ pos < N /\ pos + 1 \in pos + 1 .. N
    BY <1>2, <1>4, <1>7
  <2>2. CASE c \in {"|", "&", "<"}
    <3>1. \A e \in pos + 1 .. N : Lexeme(t, pos, e) <=> e = pos + 1
      BY <1>1, <1>4, <2>1, <2>2, LexemeOfOne
    <3>2. CASE c = "|"
      BY <1>3, <1>6, <1>7, <2>1, <3>1, <3>2, ReadsMeans
    <3>3. CASE c = "&"
      BY <1>3, <1>6, <1>7, <2>1, <3>1, <3>3, ReadsMeans
    <3>4. CASE c = "<"
      BY <1>3, <1>6, <1>7, <2>1, <3>1, <3>4, ReadsMeans
    <3> QED
      BY <2>2, <3>2, <3>3, <3>4
  <2>3. CASE c = ">"
    <3> DEFINE b == IF lexer_peek(t, pos + 1) = ">" THEN pos + 2 ELSE pos + 1
    <3>1. /\ b \in pos + 1 .. N
          /\ \A e \in pos + 1 .. N : Lexeme(t, pos, e) <=> e = b
      BY <1>1, <1>4, <2>1, <2>3, LexemeOfGreater
    <3>2. pos + 2 # pos + 1
      BY SMT, Z3, <1>4
    <3>3. CASE lexer_peek(t, pos + 1) = ">"
      <4>1. b = pos + 2 /\ b # pos + 1
        BY <3>2, <3>3
      <4> HIDE DEF b
      <4>2. tok = Token("REDIRECT_APPEND", <<>>, b)
        BY <1>3, <2>3, <3>3, <4>1
      <4>3. Reads(t, pos, b) = <<[type |-> "REDIRECT_APPEND", value |-> <<>>]>>
        BY <2>1, <2>3, <4>1, ReadsMeans
      <4> QED
        BY <1>6, <1>7, <3>1, <4>2, <4>3
    <3>4. CASE lexer_peek(t, pos + 1) # ">"
      <4>1. b = pos + 1
        BY <3>4
      <4> HIDE DEF b
      <4>2. tok = Token("REDIRECT_OUT", <<>>, b)
        BY <1>3, <2>3, <3>4, <4>1
      <4>3. Reads(t, pos, b) = <<[type |-> "REDIRECT_OUT", value |-> <<>>]>>
        BY <2>1, <2>3, <4>1, ReadsMeans
      <4> QED
        BY <1>6, <1>7, <3>1, <4>2, <4>3
    <3> QED
      BY <3>3, <3>4
  <2>4. CASE c \in Quotes
    <3> DEFINE end == FirstFrom(t, pos + 1, {c})
               closed == lexer_peek(t, end) = c
               b == IF closed THEN end + 1 ELSE end
               value == SubSeq(t, pos + 2, end)
    <3>1. tok = Token("WORD", value, b)
      BY <1>3, <2>1, <2>4 DEF Quoted
    <3>2. /\ end \in pos + 1 .. N
          /\ closed => end + 1 \in pos + 2 .. N /\ t[end+1] = c
          /\ ~closed => end = N /\ ~(N > pos + 1 /\ t[N] = c)
          /\ \A e \in pos + 1 .. N : Lexeme(t, pos, e) <=> e = b
      BY <1>1, <1>4, <2>1, <2>4, LexemeOfQuote
    <3>3. Reads(t, pos, b) =
            <<[type |-> "WORD", value |->
                 SubSeq(t, pos + 2, IF b > pos + 1 /\ t[b] = c THEN b - 1 ELSE b)]>>
      <4> HIDE DEF end, closed, b
      <4> QED
        BY <2>1, <2>4, ReadsMeans
    <3> HIDE DEF end, closed
    <3>4. /\ end + 1 \in pos + 2 .. N => /\ end + 1 \in pos + 1 .. N /\ end + 1 > pos + 1
                                         /\ (end + 1) - 1 = end
      BY SMT, Z3, <1>1, <1>4, <3>2
    <3>5. b \in pos + 1 .. N
      BY <3>2, <3>4
    <3>6. (IF b > pos + 1 /\ t[b] = c THEN b - 1 ELSE b) = end
      BY <3>2, <3>4
    <3> HIDE DEF b
    <3>7. Reads(t, pos, b) = <<[type |-> "WORD", value |-> value]>>
      BY <3>3, <3>6
    <3> HIDE DEF value
    <3> QED
      BY <1>6, <1>7, <3>1, <3>2, <3>5, <3>7
  <2>5. CASE c \in WordChars
    <3> DEFINE end == FirstFrom(t, pos, Breaks)
               value == SubSeq(t, pos + 1, end)
    <3>1. tok = Token("WORD", value, end)
      BY <1>3, <2>5 DEF Word
    <3>2. /\ end \in pos + 1 .. N
          /\ \A e \in pos + 1 .. N : Lexeme(t, pos, e) <=> e = end
      BY <1>1, <1>4, <2>1, <2>5, LexemeOfWord
    <3>3. Reads(t, pos, end) = <<[type |-> "WORD", value |-> value]>>
      BY <2>1, <2>5, ReadsMeans
    <3> HIDE DEF end, value
    <3> QED
      BY <1>6, <1>7, <3>1, <3>2, <3>3
  <2> QED
    BY <2>1, <2>2, <2>3, <2>4, <2>5, KindsApart
<1>8. pos = N => tok.type = "END"
  BY <1>2, <1>3 DEF Token
<1>9. pos # N => /\ tok.type # "END" /\ tok.pos \in pos + 1 .. N
                 /\ \A b \in pos + 1 .. N : Lexeme(t, pos, b) <=> b = tok.pos
                 /\ Reads(t, pos, tok.pos) = <<[type |-> tok.type, value |-> tok.value]>>
  BY <1>7 DEF Takes
<1> QED
  BY <1>5, <1>8, <1>9 DEF N, pos, tok
=============================================================================
