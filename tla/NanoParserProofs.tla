-------------------------- MODULE NanoParserProofs --------------------------
(***************************************************************************)
(* Proofs about the command lines of the NanoBoot shell: the line is what  *)
(* its keys leave on the screen, and nothing written for it leaves an      *)
(* array.                                                                  *)
(***************************************************************************)
EXTENDS NanoParser, FiniteSetTheorems, WellFoundedInduction, TLAPS

(* SMT takes a step first, except where a step names Zenon first.  A step  *)
(* that runs out of time is tried a second time.                           *)
USE SMT, Zenon, Z3, ZenonT(20)

-----------------------------------------------------------------------------
(* The line editor.  The definitions of NanoParser, for any keys t.        *)
Keys == Chars \cup {"BS"}

Seen(t, K, a, b) == Cardinality({k \in a .. b : t[k] \in K})

Taken(t, k) == \E m \in k+1 .. Len(t) : Seen(t, {"BS"}, k+1, m) > Seen(t, Chars, k+1, m)

Left(t) == {k \in DOMAIN t : t[k] # "BS" /\ ~Taken(t, k)}

(* A number is a count.                                                    *)
LEMMA SeenType ==
  ASSUME NEW t, NEW K, NEW a \in Nat, NEW b \in Nat
  PROVE  /\ IsFiniteSet({k \in a .. b : t[k] \in K})
         /\ Seen(t, K, a, b) \in Nat
<1>1. IsFiniteSet(a .. b)
  BY FS_Interval
<1>2. IsFiniteSet({k \in a .. b : t[k] \in K})
  BY <1>1, FS_Subset
<1> QED
  BY <1>2, FS_CardinalityType DEF Seen

(* A key that follows changes no count of the keys before it.              *)
LEMMA SeenBefore ==
  ASSUME NEW t \in Seq(Keys), NEW c \in Keys, NEW K, NEW a \in Nat \ {0}, NEW b \in 0 .. Len(t)
  PROVE  Seen(Append(t, c), K, a, b) = Seen(t, K, a, b)
<1>1. \A k \in a .. b : Append(t, c)[k] = t[k]
  OBVIOUS
<1>2. {k \in a .. b : Append(t, c)[k] \in K} = {k \in a .. b : t[k] \in K}
  BY <1>1
<1> QED
  BY <1>2 DEF Seen

(* And adds one to the count of its kind.                                  *)
LEMMA SeenNext ==
  ASSUME NEW t \in Seq(Keys), NEW c \in Keys, NEW K, NEW a \in 1 .. Len(t) + 1
  PROVE  Seen(Append(t, c), K, a, Len(t) + 1)
           = Seen(t, K, a, Len(t)) + (IF c \in K THEN 1 ELSE 0)
<1> DEFINE n == Len(t)
           A == {k \in a .. n : t[k] \in K}
           B == {k \in a .. n + 1 : Append(t, c)[k] \in K}
<1>1. n \in Nat /\ a \in Nat
  OBVIOUS
<1>2. IsFiniteSet(A)
  BY <1>1, SeenType
<1>3. Append(t, c)[n + 1] = c /\ \A k \in a .. n : Append(t, c)[k] = t[k]
  OBVIOUS
<1>4. B = IF c \in K THEN A \cup {n + 1} ELSE A
  BY <1>1, <1>3
<1>5. n + 1 \notin A
  BY <1>1
<1>6. Cardinality(A \cup {n + 1}) = Cardinality(A) + 1
  BY <1>2, <1>5, FS_AddElement
<1>7. Cardinality(A) \in Nat
  BY <1>2, FS_CardinalityType
<1> HIDE DEF A, B
<1>8. Cardinality(B) = Cardinality(A) + (IF c \in K THEN 1 ELSE 0)
  BY <1>4, <1>6, <1>7
<1> QED
  BY <1>8 DEF Seen, A, B

(* After one more key, an earlier one has been taken back if it was before *)
(* or if this one takes it.                                                *)
LEMMA TakenNext ==
  ASSUME NEW t \in Seq(Keys), NEW c \in Keys, NEW k \in 1 .. Len(t)
  PROVE  Taken(Append(t, c), k) <=>
           \/ Taken(t, k)
           \/ Seen(Append(t, c), {"BS"}, k+1, Len(t) + 1)
                > Seen(Append(t, c), Chars, k+1, Len(t) + 1)
<1> DEFINE n == Len(t)
           u == Append(t, c)
           More(s, m) == Seen(s, {"BS"}, k+1, m) > Seen(s, Chars, k+1, m)
<1>1. n \in Nat /\ Len(u) = n + 1 /\ k + 1 \in Nat \ {0}
  OBVIOUS
<1>2. \A m \in k+1 .. n : More(u, m) <=> More(t, m)
  BY <1>1, SeenBefore
<1>3. \A m : m \in k+1 .. n + 1 <=> m \in k+1 .. n \/ m = n + 1
  BY <1>1
<1> HIDE DEF More
<1>4. (\E m \in k+1 .. n + 1 : More(u, m)) <=> (\E m \in k+1 .. n : More(t, m)) \/ More(u, n + 1)
  BY <1>2, <1>3, Zenon, SMT
<1> QED
  BY <1>1, <1>4 DEF Taken, More

(* A character is left, with all that were.                                *)
LEMMA LeftAfterChar ==
  ASSUME NEW t \in Seq(Keys), NEW c \in Chars
  PROVE  Left(Append(t, c)) = Left(t) \cup {Len(t) + 1}
<1> DEFINE n == Len(t)
           u == Append(t, c)
<1>1. n \in Nat /\ DOMAIN u = (1 .. n) \cup {n + 1} /\ DOMAIN t = 1 .. n /\ Len(u) = n + 1
  OBVIOUS
<1>2. "BS" \notin Chars
  BY DEF Chars, Ends, Quotes, OpType
<1>3. c \in Keys /\ c # "BS" /\ u[n + 1] = c /\ \A k \in 1 .. n : u[k] = t[k]
  BY <1>2 DEF Keys
<1>4. ~Taken(u, n + 1)
  BY <1>1 DEF Taken
<1>5. ASSUME NEW k \in 1 .. n PROVE Taken(u, k) <=> Taken(t, k)
  <2>1. k + 1 \in Nat /\ k + 1 \in 1 .. n + 1
    BY <1>1
  <2>2. /\ Seen(u, {"BS"}, k+1, n + 1) = Seen(t, {"BS"}, k+1, n)
        /\ Seen(u, Chars, k+1, n + 1) = Seen(t, Chars, k+1, n) + 1
    <3>1. Seen(t, {"BS"}, k+1, n) \in Nat
      BY <1>1, <2>1, SeenType
    <3> QED
      BY <1>3, <2>1, <3>1, SeenNext
  <2>3. Seen(t, {"BS"}, k+1, n) \in Nat /\ Seen(t, Chars, k+1, n) \in Nat
    BY <1>1, <2>1, SeenType
  <2>4. Seen(t, {"BS"}, k+1, n) > Seen(t, Chars, k+1, n) => Taken(t, k)
    <3>1. k = n => Seen(t, {"BS"}, k+1, n) = 0 /\ Seen(t, Chars, k+1, n) = 0
      <4> SUFFICES ASSUME k = n PROVE \A K : Seen(t, K, k+1, n) = 0
        OBVIOUS
      <4>1. \A K : {j \in k+1 .. n : t[j] \in K} = {}
        BY <1>1
      <4> QED
        BY <4>1, FS_EmptySet DEF Seen
    <3>2. k # n => n \in k+1 .. n
      <4>1. n \in Nat /\ k \in 1 .. n
        BY <1>1
      <4> HIDE DEF n
      <4> QED
        BY <4>1
    <3> QED
      BY <3>1, <3>2 DEF Taken
  <2> QED
    BY <1>3, <2>2, <2>3, <2>4, TakenNext
<1> QED
  BY <1>1, <1>3, <1>4, <1>5 DEF Left

(* A backspace takes those back that no later key stands in for.           *)
LEMMA LeftAfterBackspace ==
  ASSUME NEW t \in Seq(Keys)
  PROVE  Left(Append(t, "BS"))
           = {k \in Left(t) : Seen(t, {"BS"}, k+1, Len(t)) < Seen(t, Chars, k+1, Len(t))}
<1> DEFINE n == Len(t)
           u == Append(t, "BS")
<1>1. n \in Nat /\ DOMAIN u = (1 .. n) \cup {n + 1} /\ DOMAIN t = 1 .. n /\ Len(u) = n + 1
  OBVIOUS
<1>2. "BS" \notin Chars
  BY DEF Chars, Ends, Quotes, OpType
<1>3. "BS" \in Keys /\ u[n + 1] = "BS" /\ \A k \in 1 .. n : u[k] = t[k]
  BY DEF Keys
<1>4. ASSUME NEW k \in 1 .. n
      PROVE  Taken(u, k) <=> Taken(t, k) \/ ~(Seen(t, {"BS"}, k+1, n) < Seen(t, Chars, k+1, n))
  <2>1. k + 1 \in Nat /\ k + 1 \in 1 .. n + 1
    BY <1>1
  <2>2. Seen(t, {"BS"}, k+1, n) \in Nat /\ Seen(t, Chars, k+1, n) \in Nat
    BY <1>1, <2>1, SeenType
  <2>3. /\ Seen(u, {"BS"}, k+1, n + 1) = Seen(t, {"BS"}, k+1, n) + 1
        /\ Seen(u, Chars, k+1, n + 1) = Seen(t, Chars, k+1, n)
    BY <1>2, <1>3, <2>1, <2>2, SeenNext
  <2> QED
    BY <1>3, <2>2, <2>3, TakenNext
<1> QED
  BY <1>1, <1>3, <1>4 DEF Left

-----------------------------------------------------------------------------
(* Where a number is in a set of numbers: how many are up to it, and how   *)
(* many above.                                                             *)
Rank(S, k) == Cardinality({j \in S : j <= k})

Above(S, k) == Cardinality({j \in S : j > k})

(* Every non-empty set of numbers has a least one.                         *)
LEMMA LeastNumber ==
  ASSUME NEW S, S \subseteq Nat, S # {}
  PROVE  \E x \in S : \A y \in S : x <= y
<1>1. IsWellFoundedOn(OpToRel(<, Nat), Nat)
  BY NatLessThanWellFounded
<1>2. PICK x \in S : \A y \in S : <<y, x>> \notin OpToRel(<, Nat)
  BY <1>1, WFMin
<1>3. \A y \in S : ~(y < x)
  BY <1>2 DEF OpToRel
<1> QED
  BY <1>3

(* And one with a bound a greatest.                                        *)
LEMMA GreatestNumber ==
  ASSUME NEW n \in Nat, NEW S \in SUBSET (1 .. n), S # {}
  PROVE  \E x \in S : \A y \in S : y <= x
<1> DEFINE T == {m \in Nat : n - m \in S}
<1>1. PICK s : s \in S
  OBVIOUS
<1>2. s \in 1 .. n /\ n - s \in Nat /\ n - (n - s) = s
  BY <1>1
<1>3. T # {} /\ T \subseteq Nat
  BY <1>1, <1>2
<1>4. PICK m \in T : \A k \in T : m <= k
  BY <1>3, LeastNumber
<1>5. n - m \in S
  BY <1>4
<1>6. ASSUME NEW y \in S PROVE y <= n - m
  <2>1. n - y \in Nat /\ n - (n - y) = y /\ m \in Nat
    BY <1>4
  <2>2. m <= n - y
    BY <1>4, <2>1
  <2> QED
    BY <2>1, <2>2
<1> QED
  BY <1>5, <1>6

(* Subsets of an interval are finite, and so are the parts counted above.  *)
LEMMA PartsFinite ==
  ASSUME NEW n \in Nat, NEW S \in SUBSET (1 .. n), NEW k
  PROVE  /\ IsFiniteSet(S) /\ Cardinality(S) \in Nat
         /\ IsFiniteSet({j \in S : j <= k}) /\ Rank(S, k) \in Nat /\ Rank(S, k) <= Cardinality(S)
         /\ IsFiniteSet({j \in S : j > k}) /\ Above(S, k) \in Nat
<1>1. IsFiniteSet(1 .. n)
  BY FS_Interval
<1>2. IsFiniteSet(S)
  BY <1>1, FS_Subset
<1>3. IsFiniteSet({j \in S : j <= k}) /\ Rank(S, k) <= Cardinality(S)
  BY <1>2, FS_Subset DEF Rank
<1>4. IsFiniteSet({j \in S : j > k})
  BY <1>2, FS_Subset
<1> QED
  BY <1>2, <1>3, <1>4, FS_CardinalityType DEF Rank, Above

(* A number above all others comes last.                                   *)
LEMMA AddTop ==
  ASSUME NEW n \in Nat, NEW S \in SUBSET (1 .. n)
  PROVE  /\ Cardinality(S \cup {n + 1}) = Cardinality(S) + 1
         /\ Rank(S \cup {n + 1}, n + 1) = Cardinality(S) + 1
         /\ Above(S \cup {n + 1}, n + 1) = 0
         /\ \A k \in S : /\ Rank(S \cup {n + 1}, k) = Rank(S, k)
                         /\ Above(S \cup {n + 1}, k) = Above(S, k) + 1
<1> DEFINE U == S \cup {n + 1}
<1>1. n + 1 \notin S
  OBVIOUS
<1>2. Cardinality(U) = Cardinality(S) + 1
  BY <1>1, PartsFinite, FS_AddElement
<1>3. {j \in U : j <= n + 1} = U /\ {j \in U : j > n + 1} = {}
  <2>1. \A j \in U : j <= n + 1 /\ ~(j > n + 1)
    OBVIOUS
  <2> HIDE DEF U
  <2> QED
    BY <2>1, Zenon, SMT
<1>4. Rank(U, n + 1) = Cardinality(U) /\ Above(U, n + 1) = 0
  BY <1>3, FS_EmptySet DEF Rank, Above
<1>5. ASSUME NEW k \in S PROVE Rank(U, k) = Rank(S, k) /\ Above(U, k) = Above(S, k) + 1
  <2>1. {j \in U : j <= k} = {j \in S : j <= k}
    OBVIOUS
  <2>2. {j \in U : j > k} = {j \in S : j > k} \cup {n + 1}
    OBVIOUS
  <2>3. Cardinality({j \in S : j > k} \cup {n + 1}) = Cardinality({j \in S : j > k}) + 1
    BY <1>1, PartsFinite, FS_AddElement
  <2> QED
    BY <2>1, <2>2, <2>3 DEF Rank, Above
<1> QED
  BY <1>2, <1>4, <1>5

(* Without the greatest number: those that have one above them.            *)
LEMMA DropTop ==
  ASSUME NEW n \in Nat, NEW S \in SUBSET (1 .. n), S # {},
         NEW U, U = {k \in S : Above(S, k) > 0}
  PROVE  /\ Cardinality(U) = Cardinality(S) - 1
         /\ \A k \in U : /\ Rank(U, k) = Rank(S, k)
                         /\ Rank(U, k) \in 1 .. Cardinality(U)
                         /\ Above(U, k) = Above(S, k) - 1
<1>1. PICK x \in S : \A y \in S : y <= x
  BY GreatestNumber
<1>2. U = S \ {x}
  <2>1. {j \in S : j > x} = {}
    <3>1. \A j \in S : ~(j > x)
      BY <1>1
    <3> QED
      BY <3>1, Zenon, SMT
  <2>2. Above(S, x) = 0
    BY <2>1, FS_EmptySet DEF Above
  <2>3. ASSUME NEW k \in S, k # x PROVE Above(S, k) > 0
    <3>1. x \in {j \in S : j > k}
      BY <1>1, <2>3
    <3>2. Above(S, k) # 0
      BY <3>1, PartsFinite, FS_EmptySet DEF Above
    <3>3. Above(S, k) \in Nat
      BY PartsFinite
    <3> QED
      BY <3>2, <3>3
  <2>4. ~(Above(S, x) > 0)
    BY <2>2
  <2>5. \A k : k \in U <=> k \in S /\ k # x
    BY <2>3, <2>4, Zenon, SMT
  <2> QED
    BY <2>5
<1>3. Cardinality(U) = Cardinality(S) - 1
  BY <1>2, PartsFinite, FS_RemoveElement
<1>4. ASSUME NEW k \in U
      PROVE  /\ Rank(U, k) = Rank(S, k)
             /\ Rank(U, k) \in 1 .. Cardinality(U)
             /\ Above(U, k) = Above(S, k) - 1
  <2>1. k \in S /\ k < x /\ U \in SUBSET (1 .. n)
    <3>1. k \in S /\ k # x /\ U \subseteq S
      BY <1>2
    <3>2. k \in Nat /\ x \in Nat /\ k <= x
      BY <1>1, <3>1
    <3>3. k < x
      BY <3>1, <3>2
    <3> QED
      BY <3>1, <3>3
  <2>2. {j \in U : j <= k} = {j \in S : j <= k}
    BY <1>2, <2>1
  <2>3. k \in {j \in U : j <= k}
    BY <2>1
  <2>4. Rank(U, k) # 0
    BY <2>1, <2>3, PartsFinite, FS_EmptySet DEF Rank
  <2>5. Rank(U, k) \in Nat /\ Rank(U, k) <= Cardinality(U) /\ Cardinality(U) \in Nat
    BY <2>1, PartsFinite
  <2>6. {j \in U : j > k} = {j \in S : j > k} \ {x} /\ x \in {j \in S : j > k}
    BY <1>2, <2>1
  <2>7. Cardinality({j \in S : j > k} \ {x}) = Cardinality({j \in S : j > k}) - 1
    BY <2>6, PartsFinite, FS_RemoveElement
  <2>8. Rank(U, k) = Rank(S, k) /\ Above(U, k) = Above(S, k) - 1
    BY <2>2, <2>6, <2>7 DEF Rank, Above
  <2> QED
    BY <2>4, <2>5, <2>8
<1> QED
  BY <1>3, <1>4

-----------------------------------------------------------------------------
(* The line l is what the keys t leave, and each character left has as     *)
(* many characters without a backspace after it as others left above it.   *)
Edited(l, t) ==
  /\ Len(l) = Cardinality(Left(t))
  /\ \A k \in Left(t) :
       /\ l[Rank(Left(t), k)] = t[k]
       /\ Seen(t, Chars, k+1, Len(t))
            = Seen(t, {"BS"}, k+1, Len(t)) + Above(Left(t), k)

(* What is left is among the keys.                                         *)
LEMMA LeftPlaces ==
  ASSUME NEW t \in Seq(Keys)
  PROVE  /\ Len(t) \in Nat /\ Left(t) \in SUBSET (1 .. Len(t))
         /\ \A k \in Left(t) :
              /\ k + 1 \in Nat /\ k + 1 \in 1 .. Len(t) + 1
              /\ \A K : Seen(t, K, k+1, Len(t)) \in Nat
<1>1. Len(t) \in Nat /\ Left(t) \in SUBSET (1 .. Len(t))
  BY DEF Left
<1>2. \A k \in 1 .. Len(t) : k + 1 \in Nat /\ k + 1 \in 1 .. Len(t) + 1
  BY <1>1
<1> QED
  BY <1>1, <1>2, SeenType

(* A character goes to the end of the line.                                *)
LEMMA EditedChar ==
  ASSUME NEW t \in Seq(Keys), NEW l \in Seq(Chars), Edited(l, t), NEW c \in Chars
  PROVE  Edited(Append(l, c), Append(t, c))
<1> DEFINE n == Len(t)
           S == Left(t)
           u == Append(t, c)
           U == S \cup {n + 1}
<1>1. "BS" \notin Chars /\ c \in Keys /\ c \notin {"BS"}
  BY DEF Chars, Ends, Quotes, OpType, Keys
<1>2. Left(u) = U
  BY LeftAfterChar
<1>3. n \in Nat /\ S \in SUBSET (1 .. n) /\ Len(u) = n + 1 /\ u[n + 1] = c
      /\ Len(l) = Cardinality(S) /\ Len(l) \in Nat
  BY LeftPlaces DEF Edited
<1>4. Len(Append(l, c)) = Cardinality(U)
  <2>1. Cardinality(U) = Cardinality(S) + 1
    BY <1>3, AddTop
  <2>2. Len(Append(l, c)) = Len(l) + 1
    OBVIOUS
  <2> QED
    BY <1>3, <2>1, <2>2, Zenon, SMT
<1>5. ASSUME NEW k \in S
      PROVE  /\ Append(l, c)[Rank(U, k)] = u[k]
             /\ Seen(u, Chars, k+1, n + 1) = Seen(u, {"BS"}, k+1, n + 1) + Above(U, k)
  <2>1. Rank(U, k) = Rank(S, k) /\ Above(U, k) = Above(S, k) + 1
    BY <1>3, AddTop
  <2>2. Rank(S, k) \in 1 .. Len(l)
    <3>1. k \in {j \in S : j <= k}
      BY <1>3
    <3>2. Rank(S, k) # 0
      BY <1>3, <3>1, PartsFinite, FS_EmptySet DEF Rank
    <3>3. Rank(S, k) \in Nat /\ Rank(S, k) <= Cardinality(S)
      BY <1>3, PartsFinite
    <3> HIDE DEF S
    <3> QED
      BY <1>3, <3>2, <3>3
  <2>3. l[Rank(S, k)] = t[k]
    BY DEF Edited
  <2>4. Append(l, c)[Rank(S, k)] = t[k] /\ u[k] = t[k]
    BY <1>3, <2>2, <2>3
  <2>5. Seen(t, Chars, k+1, n) = Seen(t, {"BS"}, k+1, n) + Above(S, k)
    BY DEF Edited
  <2>6. Seen(t, {"BS"}, k+1, n) \in Nat /\ Seen(t, Chars, k+1, n) \in Nat /\ Above(S, k) \in Nat
        /\ k + 1 \in 1 .. n + 1
    BY <1>3, LeftPlaces, PartsFinite
  <2>7. /\ Seen(u, Chars, k+1, n + 1) = Seen(t, Chars, k+1, n) + 1
        /\ Seen(u, {"BS"}, k+1, n + 1) = Seen(t, {"BS"}, k+1, n)
    <3>1. /\ Seen(u, Chars, k+1, n + 1) = Seen(t, Chars, k+1, n) + (IF c \in Chars THEN 1 ELSE 0)
          /\ Seen(u, {"BS"}, k+1, n + 1)
               = Seen(t, {"BS"}, k+1, n) + (IF c \in {"BS"} THEN 1 ELSE 0)
      BY <1>1, <2>6, SeenNext
    <3> QED
      BY <1>1, <2>6, <3>1
  <2> HIDE DEF S, U, u, n
  <2> QED
    BY <2>1, <2>4, <2>5, <2>6, <2>7
<1>6. /\ Append(l, c)[Rank(U, n + 1)] = u[n + 1]
      /\ Seen(u, Chars, n + 2, n + 1) = Seen(u, {"BS"}, n + 2, n + 1) + Above(U, n + 1)
  <2>1. Rank(U, n + 1) = Len(l) + 1 /\ Above(U, n + 1) = 0
    BY <1>3, AddTop
  <2>2. Append(l, c)[Len(l) + 1] = c
    OBVIOUS
  <2>3. \A K : {j \in n + 2 .. n + 1 : u[j] \in K} = {}
    BY <1>3
  <2>4. \A K : Seen(u, K, n + 2, n + 1) = 0
    BY <2>3, FS_EmptySet DEF Seen
  <2> QED
    BY <1>3, <2>1, <2>2, <2>4
<1>7. (n + 1) + 1 = n + 2
  BY <1>3
<1> HIDE DEF S, U, u
<1>8. \A k \in U : /\ Append(l, c)[Rank(U, k)] = u[k]
                  /\ Seen(u, Chars, k+1, n + 1) = Seen(u, {"BS"}, k+1, n + 1) + Above(U, k)
  BY <1>5, <1>6, <1>7 DEF U
<1> QED
  BY <1>2, <1>3, <1>4, <1>8 DEF Edited, u

(* A backspace takes the last character of the line, if there is one.      *)
LEMMA EditedBackspace ==
  ASSUME NEW t \in Seq(Keys), NEW l \in Seq(Chars), Edited(l, t)
  PROVE  Edited(IF l # <<>> THEN SubSeq(l, 1, Len(l) - 1) ELSE l, Append(t, "BS"))
<1> DEFINE n == Len(t)
           S == Left(t)
           u == Append(t, "BS")
           U == {k \in S : Above(S, k) > 0}
<1>1. "BS" \notin Chars /\ "BS" \in Keys
  BY DEF Chars, Ends, Quotes, OpType, Keys
<1>2. n \in Nat /\ S \in SUBSET (1 .. n) /\ Len(u) = n + 1
      /\ Len(l) = Cardinality(S) /\ Len(l) \in Nat
  BY LeftPlaces DEF Edited
<1>3. ASSUME NEW k \in S
      PROVE  /\ Seen(t, Chars, k+1, n) = Seen(t, {"BS"}, k+1, n) + Above(S, k)
             /\ Seen(t, {"BS"}, k+1, n) \in Nat /\ Above(S, k) \in Nat
             /\ k + 1 \in 1 .. n + 1 /\ u[k] = t[k] /\ l[Rank(S, k)] = t[k]
  <2>1. Seen(t, {"BS"}, k+1, n) \in Nat /\ k + 1 \in 1 .. n + 1
    BY LeftPlaces
  <2>2. Above(S, k) \in Nat
    BY <1>2, PartsFinite
  <2>3. u[k] = t[k]
    BY <1>2
  <2>4. /\ Seen(t, Chars, k+1, n) = Seen(t, {"BS"}, k+1, n) + Above(S, k)
        /\ l[Rank(S, k)] = t[k]
    BY DEF Edited
  <2> QED
    BY <2>1, <2>2, <2>3, <2>4
<1>4. Left(u) = U
  <2>1. Left(u) = {k \in S : Seen(t, {"BS"}, k+1, n) < Seen(t, Chars, k+1, n)}
    BY LeftAfterBackspace
  <2>2. \A k \in S : Seen(t, {"BS"}, k+1, n) < Seen(t, Chars, k+1, n) <=> Above(S, k) > 0
    <3> HIDE DEF S, n
    <3> QED
      BY <1>3
  <2> QED
    BY <2>1, <2>2, Zenon, SMT
<1>5. CASE S = {}
  <2>1. U = {} /\ Cardinality(U) = 0 /\ Cardinality(S) = 0
    BY <1>5, FS_EmptySet
  <2>2. l = <<>>
    BY <1>2, <2>1
  <2> HIDE DEF U
  <2> QED
    BY <1>4, <2>1, <2>2 DEF Edited
<1>6. CASE S # {}
  <2>1. /\ Cardinality(U) = Cardinality(S) - 1
        /\ \A k \in U : /\ Rank(U, k) = Rank(S, k)
                        /\ Rank(U, k) \in 1 .. Cardinality(U)
                        /\ Above(U, k) = Above(S, k) - 1
    BY <1>2, <1>6, DropTop
  <2>2. Cardinality(S) # 0
    BY <1>2, <1>6, PartsFinite, FS_EmptySet
  <2>3. l # <<>> /\ Len(l) - 1 \in Nat
    BY <1>2, <2>2
  <2> DEFINE f == SubSeq(l, 1, Len(l) - 1)
  <2>4. Len(f) = Len(l) - 1 /\ \A j \in 1 .. Len(l) - 1 : f[j] = l[j]
    <3>1. PICK m \in Nat : m = Len(l) - 1
      BY <2>3
    <3>2. m <= Len(l)
      BY <3>1
    <3>3. Len(SubSeq(l, 1, m)) = m /\ \A j \in 1 .. m : SubSeq(l, 1, m)[j] = l[j]
      BY <3>2
    <3> QED
      BY <3>1, <3>3
  <2>5. Len(f) = Cardinality(U)
    BY <1>2, <2>1, <2>4
  <2>6. ASSUME NEW k \in U
        PROVE  /\ f[Rank(U, k)] = u[k]
               /\ Seen(u, Chars, k+1, n + 1) = Seen(u, {"BS"}, k+1, n + 1) + Above(U, k)
    <3>1. k \in S
      OBVIOUS
    <3>2. f[Rank(U, k)] = u[k]
      BY <1>2, <1>3, <2>1, <2>4, <2>5, <3>1
    <3>3. /\ Seen(u, Chars, k+1, n + 1) = Seen(t, Chars, k+1, n) + (IF "BS" \in Chars THEN 1 ELSE 0)
          /\ Seen(u, {"BS"}, k+1, n + 1)
               = Seen(t, {"BS"}, k+1, n) + (IF "BS" \in {"BS"} THEN 1 ELSE 0)
      BY <1>1, <1>3, <3>1, SeenNext
    <3>4. Above(U, k) = Above(S, k) - 1
      BY <2>1
    <3> HIDE DEF S, U, u, n, f
    <3>5. /\ Seen(t, Chars, k+1, n) = Seen(t, {"BS"}, k+1, n) + Above(S, k)
          /\ Seen(t, {"BS"}, k+1, n) \in Nat /\ Above(S, k) \in Nat
      BY <1>3, <3>1
    <3> QED
      BY <1>1, <3>2, <3>3, <3>4, <3>5
  <2> HIDE DEF S, U, f
  <2>7. Edited(f, u)
    BY <1>2, <1>4, <2>5, <2>6 DEF Edited
  <2> QED
    BY <2>3, <2>7 DEF f
<1> QED
  BY <1>5, <1>6

-----------------------------------------------------------------------------
(* At the prompt nothing is typed and nothing is left.                     *)
LEMMA NothingTyped == <<>> \in Seq(Keys) /\ <<>> \in Seq(Chars) /\ Edited(<<>>, <<>>)
<1>1. Left(<<>>) = {}
  BY DEF Left
<1>2. Cardinality({}) = 0
  BY FS_EmptySet
<1> QED
  BY <1>1, <1>2 DEF Edited

(* The invariant of the line editor.                                       *)
EditInv == typed \in Seq(Keys) /\ line \in Seq(Chars) /\ Edited(line, typed)

(* Every step keeps it: a key adds to the line or takes from its end, and  *)
(* a new prompt starts from nothing.                                       *)
LEMMA EditStep == EditInv /\ [Next]_vars => EditInv'
<1> SUFFICES ASSUME EditInv, [Next]_vars PROVE EditInv'
  OBVIOUS
<1> USE DEF EditInv
<1>1. ASSUME NEW c \in Chars, Press(c) PROVE EditInv'
  <2>1. line' = Append(line, c) /\ typed' = Append(typed, c)
    BY <1>1 DEF Press
  <2>2. c \in Keys
    BY DEF Keys
  <2>3. line' \in Seq(Chars) /\ typed' \in Seq(Keys)
    BY <2>1, <2>2
  <2>4. Edited(line', typed')
    BY <2>1, EditedChar
  <2> QED
    BY <2>3, <2>4 DEF Edited
<1>2. CASE Backspace
  <2> DEFINE f == IF line # <<>> THEN SubSeq(line, 1, Len(line) - 1) ELSE line
  <2>1. line' = f /\ typed' = Append(typed, "BS")
    BY <1>2 DEF Backspace
  <2>2. "BS" \in Keys
    BY DEF Keys
  <2>3. typed' \in Seq(Keys)
    BY <2>1, <2>2
  <2>4. f \in Seq(Chars)
    OBVIOUS
  <2>5. Edited(f, Append(typed, "BS"))
    BY EditedBackspace
  <2> HIDE DEF f
  <2>6. Edited(line', typed')
    BY <2>1, <2>5
  <2> QED
    BY <2>1, <2>3, <2>4, <2>6
<1>3. CASE Enter
  BY <1>3 DEF Enter
<1>4. CASE Prompt
  <2>1. line' = <<>> /\ typed' = <<>>
    BY <1>4 DEF Prompt
  <2> QED
    BY <2>1, NothingTyped
<1>5. CASE UNCHANGED vars
  BY <1>5 DEF vars
<1> QED
  BY <1>1, <1>2, <1>3, <1>4, <1>5 DEF Next

(* The line main() hands to tokenize is the text the user sees, for lines  *)
(* and sequences of keys of any length.                                    *)
THEOREM LineIsAsEdited == Spec => []LineAsEdited
<1>1. Init => EditInv
  BY NothingTyped DEF Init, EditInv
<1>2. EditInv => LineAsEdited
  BY DEF EditInv, Edited, LineAsEdited, Kept, TakenBack, HowMany, Left, Taken, Seen, Rank
<1> QED
  BY <1>1, <1>2, EditStep, PTL DEF Spec

-----------------------------------------------------------------------------
(* Loops whose turns map a set V to itself.                                *)
LoopDef(f, N, x, step) == f = [k \in 0 .. N |-> IF k = 0 THEN x ELSE step[f[k-1]]]

(* What holds at 0 and passes from each number to the next holds up to N.  *)
LEMMA CountingUp ==
  ASSUME NEW N \in Nat, NEW G, 0 \in G, \A m \in 0 .. N : m < N /\ m \in G => m + 1 \in G
  PROVE  N \in G
<1> DEFINE B == {m \in 0 .. N : m \notin G}
<1> SUFFICES ASSUME N \notin G PROVE FALSE
  OBVIOUS
<1>1. B \subseteq Nat /\ B # {}
  OBVIOUS
<1>2. PICK b \in B : \A y \in B : b <= y
  BY <1>1, LeastNumber
<1>3. b \in 0 .. N /\ b \notin G /\ b # 0 /\ b - 1 \in 0 .. N /\ b - 1 < N /\ (b - 1) + 1 = b
  BY <1>2
<1>4. b - 1 \in G
  BY <1>2, <1>3
<1> QED
  BY <1>3, <1>4

(* Such a loop is a function of the number of its turns.                   *)
LEMMA LoopExists ==
  ASSUME NEW V, NEW N \in Nat, NEW x \in V, NEW step \in [V -> V]
  PROVE  \E f \in [0 .. N -> V] : LoopDef(f, N, x, step)
<1> DEFINE Fits(f, m) == /\ f \in [0 .. m -> V] /\ f[0] = x
                         /\ \A k \in 1 .. m : f[k] = step[f[k-1]]
           G == {m \in 0 .. N : \E f : Fits(f, m)}
<1>1. 0 \in G
  <2>1. Fits([k \in 0 .. 0 |-> x], 0)
    OBVIOUS
  <2> HIDE DEF Fits
  <2> QED
    BY <2>1
<1>2. ASSUME NEW m \in 0 .. N, m < N, m \in G PROVE m + 1 \in G
  <2>1. PICK f : Fits(f, m)
    BY <1>2
  <2>2. PICK c \in Nat : c = m + 1
    BY <1>2
  <2>3. m \in 0 .. m /\ c - 1 = m /\ c \in 0 .. N
    BY <1>2, <2>2
  <2> DEFINE g == [k \in 0 .. c |-> IF k = c THEN step[f[m]] ELSE f[k]]
  <2>4. step[f[m]] \in V
    BY <2>1, <2>3
  <2>5. \A k \in 0 .. c : k # c => k \in 0 .. m
    BY <1>2, <2>2
  <2>6. g \in [0 .. c -> V] /\ g[0] = x
    BY <2>1, <2>2, <2>4, <2>5
  <2>7. ASSUME NEW k \in 1 .. c PROVE g[k] = step[g[k-1]]
    <3>1. k \in 0 .. c /\ k - 1 \in 0 .. c /\ k - 1 # c /\ (k # c => k \in 1 .. m)
      BY <1>2, <2>2
    <3>2. g[k-1] = f[k-1] /\ (k # c => g[k] = f[k]) /\ (k = c => g[k] = step[f[m]])
      BY <3>1
    <3> HIDE DEF g
    <3> QED
      BY <2>1, <2>3, <3>1, <3>2
  <2>8. Fits(g, c)
    BY <2>6, <2>7
  <2> HIDE DEF Fits, g
  <2> QED
    BY <2>2, <2>3, <2>8
<1> HIDE DEF G
<1>3. N \in G
  BY <1>1, <1>2, CountingUp
<1>4. PICK f : Fits(f, N)
  BY <1>3 DEF G
<1>5. \A k \in 0 .. N : f[k] = IF k = 0 THEN x ELSE step[f[k-1]]
  BY <1>4
<1>6. LoopDef(f, N, x, step)
  BY <1>4, <1>5 DEF LoopDef
<1> QED
  BY <1>4, <1>6

(* What it computes is in V.  If each turn gets further until the loop is  *)
(* done, N turns get N further or finish it.                               *)
LEMMA LoopEnds ==
  ASSUME NEW V, NEW N \in Nat, NEW F, F[0] \in V, NEW at \in [V -> Int], NEW Done,
         \A k \in 1 .. N : F[k-1] \in V =>
           /\ F[k] \in V
           /\ F[k-1] \in Done => F[k] \in Done
           /\ F[k] \in Done \/ at[F[k]] >= at[F[k-1]] + 1
  PROVE  /\ F[N] \in V
         /\ F[N] \in Done \/ at[F[N]] >= at[F[0]] + N
<1> DEFINE G == {m \in 0 .. N : F[m] \in V /\ (F[m] \in Done \/ at[F[m]] >= at[F[0]] + m)}
<1>1. 0 \in G
  OBVIOUS
<1>2. ASSUME NEW m \in 0 .. N, m < N, m \in G PROVE m + 1 \in G
  <2>1. PICK c \in 1 .. N : c = m + 1 /\ c - 1 = m /\ c \in 0 .. N
    BY <1>2
  <2>2. /\ F[c] \in V /\ F[m] \in V
        /\ F[m] \in Done => F[c] \in Done
        /\ F[c] \in Done \/ at[F[c]] >= at[F[m]] + 1
        /\ F[m] \in Done \/ at[F[m]] >= at[F[0]] + m
    BY <1>2, <2>1
  <2>3. at[F[c]] \in Int /\ at[F[m]] \in Int /\ at[F[0]] \in Int
    BY <2>2
  <2>4. F[c] \in Done \/ at[F[c]] >= at[F[0]] + c
    BY <2>1, <2>2, <2>3
  <2> QED
    BY <2>1, <2>2, <2>4
<1> HIDE DEF G
<1>3. N \in G
  BY <1>1, <1>2, CountingUp
<1> QED
  BY <1>3 DEF G

-----------------------------------------------------------------------------
(* What the arrays of the shell can hold.                                  *)
Vals == {v \in Seq(Chars) : Len(v) <= MAX_TOKEN_LEN - 1}

WordStates(text, start) ==
  [p : start .. Len(text), val : Vals, in_quote : Quotes \cup {"none"}]

(* Where each loop stops.                                                  *)
WordDone(text, start) ==
  {w \in WordStates(text, start) :
     w.p = Len(text) \/ (w.in_quote = "none" /\ text[w.p+1] \in Ends)}

Types == {"WORD", "PIPE", "REDIR_IN", "REDIR_OUT", "REDIR_APPEND", "AMPERSAND"}

Tokens == [type : Types, val : Vals]

TokenLists == {ts \in Seq(Tokens) : Len(ts) <= MAX_TOKENS - 1}

LineStates(text) == [p : 0 .. Len(text), tokens : TokenLists, ok : BOOLEAN]

LineDone(text) == {s \in LineStates(text) : s.p = Len(text) \/ ~s.ok}

Commands ==
  [argv : {a \in Seq(Vals) : Len(a) <= MAX_ARGS - 1}, redir_in : Vals, redir_out : Vals,
   append : BOOLEAN, background : BOOLEAN, has_pipe : BOOLEAN]

CommandStates == [i : Nat \ {0}, cmd : Commands, ok : BOOLEAN]

CommandDone(tokens) == {s \in CommandStates : s.i > Len(tokens) \/ ~s.ok}

(* The limits, one by one.                                                 *)
LEMMA Limits ==
  /\ MAX_LINE \in Nat /\ MAX_LINE >= 2
  /\ MAX_TOKENS \in Nat /\ MAX_TOKENS >= 1
  /\ MAX_TOKEN_LEN \in Nat /\ MAX_TOKEN_LEN >= 3
  /\ MAX_ARGS \in Nat /\ MAX_ARGS >= 1
  BY LimitsAssumption

(* A turn of the loop over a word keeps the word within val[], and reads a *)
(* character unless the word has ended.                                    *)
LEMMA WordTurnFits ==
  ASSUME NEW text \in Seq(Chars), NEW start \in Nat, NEW w \in WordStates(text, start)
  PROVE  /\ WordTurn(text, w) \in WordStates(text, start)
         /\ w \in WordDone(text, start) => WordTurn(text, w) = w
         /\ w \notin WordDone(text, start) => WordTurn(text, w).p = w.p + 1
<1> DEFINE c == text[w.p+1]
           V == WordStates(text, start)
           val == IF Len(w.val) < MAX_TOKEN_LEN - 1 THEN Append(w.val, c) ELSE w.val
<1>1. w.p \in start .. Len(text) /\ w.val \in Vals /\ w.in_quote \in Quotes \cup {"none"}
      /\ Len(text) \in Nat
  BY DEF WordStates
<1>2. w \in WordDone(text, start) <=> w.p = Len(text) \/ (w.in_quote = "none" /\ c \in Ends)
  BY DEF WordDone
<1>3. SUFFICES ASSUME w.p # Len(text), ~(w.in_quote = "none" /\ c \in Ends)
               PROVE  WordTurn(text, w) \in V /\ WordTurn(text, w).p = w.p + 1
  BY <1>2 DEF WordTurn
<1>4. w.p + 1 \in start .. Len(text) /\ c \in Chars
  BY <1>1, <1>3
<1>5. val \in Vals
  <2>1. CASE Len(w.val) < MAX_TOKEN_LEN - 1
    <3>1. Append(w.val, c) \in Seq(Chars) /\ Len(Append(w.val, c)) = Len(w.val) + 1
      BY <1>1, <1>4 DEF Vals
    <3> QED
      BY <1>1, <2>1, <3>1, Limits DEF Vals
  <2>2. CASE ~(Len(w.val) < MAX_TOKEN_LEN - 1)
    BY <1>1, <2>2
  <2> QED
    BY <2>1, <2>2
<1> HIDE DEF val
<1>6. \/ c \in Quotes /\ WordTurn(text, w) = [w EXCEPT !.p = @ + 1, !.in_quote = c]
      \/ WordTurn(text, w) = [w EXCEPT !.p = @ + 1, !.in_quote = "none"]
      \/ WordTurn(text, w) = [w EXCEPT !.p = @ + 1, !.val = val]
  BY <1>3 DEF WordTurn, val
<1>7. /\ c \in Quotes => [w EXCEPT !.p = @ + 1, !.in_quote = c] \in V
      /\ [w EXCEPT !.p = @ + 1, !.in_quote = "none"] \in V
      /\ [w EXCEPT !.p = @ + 1, !.val = val] \in V
  BY <1>4, <1>5 DEF WordStates
<1>8. /\ [w EXCEPT !.p = @ + 1, !.in_quote = c].p = w.p + 1
      /\ [w EXCEPT !.p = @ + 1, !.in_quote = "none"].p = w.p + 1
      /\ [w EXCEPT !.p = @ + 1, !.val = val].p = w.p + 1
  BY DEF WordStates
<1> QED
  BY <1>6, <1>7, <1>8

(* So the loop ends within the text, with a word that fits.                *)
LEMMA ScanWordFits ==
  ASSUME NEW text \in Seq(Chars), NEW start \in 0 .. Len(text)
  PROVE  ScanWord(text, start) \in WordDone(text, start)
<1> DEFINE V == WordStates(text, start)
           Done == WordDone(text, start)
           N == Len(text) - start
           x == [p |-> start, val |-> <<>>, in_quote |-> "none"]
           step == [w \in V |-> WordTurn(text, w)]
           at == [w \in V |-> w.p]
           Def(f) == f = [k \in 0 .. N |-> IF k = 0 THEN x ELSE WordTurn(text, f[k-1])]
           F == CHOOSE f : Def(f)
<1>1. N \in Nat /\ start \in Nat /\ Len(text) \in Nat
  OBVIOUS
<1>2. x \in V /\ x.p = start
  BY <1>1, Limits DEF WordStates, Vals
<1>3. step \in [V -> V]
  BY <1>1, WordTurnFits
<1>4. ScanWord(text, start) = F[N]
  BY DEF ScanWord, Loop
<1>5. at \in [V -> Int]
  BY <1>1 DEF WordStates
<1>6. \A w \in V : at[w] = w.p
  OBVIOUS
<1> HIDE DEF V, Done, N, x, F, at
<1>7. PICK f \in [0 .. N -> V] : LoopDef(f, N, x, step)
  <2> HIDE DEF step
  <2> QED
    BY <1>1, <1>2, <1>3, LoopExists
<1>8. ASSUME NEW k \in 0 .. N PROVE f[k] = IF k = 0 THEN x ELSE WordTurn(text, f[k-1])
  <2>1. k # 0 => f[k-1] \in V
    BY <1>1, <1>7
  <2> QED
    BY <1>7, <2>1 DEF LoopDef
<1>9. Def(f)
  BY <1>7, <1>8
<1>10. Def(F)
  <2> HIDE DEF Def
  <2> QED
    BY <1>9 DEF F
<1>11. F[0] = x /\ \A k \in 1 .. N : F[k] = WordTurn(text, F[k-1])
  <2>1. 0 \in 0 .. N /\ \A k \in 1 .. N : k \in 0 .. N /\ k # 0
    BY <1>1
  <2> QED
    BY <1>10, <2>1
<1>12. ASSUME NEW k \in 1 .. N, F[k-1] \in V
       PROVE  /\ F[k] \in V
              /\ F[k-1] \in Done => F[k] \in Done
              /\ F[k] \in Done \/ at[F[k]] >= at[F[k-1]] + 1
  <2> DEFINE w == F[k-1]
  <2>1. F[k] = WordTurn(text, w)
    BY <1>11
  <2> HIDE DEF w
  <2>2. w \in V
    BY <1>12 DEF w
  <2>3. /\ F[k] \in V
        /\ w \in Done => F[k] = w
        /\ w \notin Done => F[k].p = w.p + 1
    BY <1>1, <2>1, <2>2, WordTurnFits DEF V, Done
  <2>4. w \notin Done => at[F[k]] >= at[w] + 1
    BY <1>5, <1>6, <2>2, <2>3
  <2> QED
    BY <2>3, <2>4 DEF w
<1>13. F[N] \in V /\ (F[N] \in Done \/ at[F[N]] >= at[F[0]] + N)
  <2>1. F[0] \in V
    BY <1>2, <1>11
  <2> HIDE DEF Def, step
  <2> QED
    BY <1>1, <1>5, <1>12, <2>1, LoopEnds
<1>14. at[F[N]] >= at[F[0]] + N => F[N].p = Len(text)
  <2>1. at[F[N]] = F[N].p /\ at[F[0]] = start
    BY <1>2, <1>6, <1>11, <1>13
  <2>2. F[N].p \in start .. Len(text)
    BY <1>13 DEF V, WordStates
  <2> QED
    BY <1>1, <2>1, <2>2 DEF N
<1> QED
  BY <1>4, <1>13, <1>14 DEF V, Done, WordDone

(* A token that is added has a place, because the loop keeps one for END;  *)
(* and each turn gets further in the line, or fails.                       *)
LEMMA TokenTurnFits ==
  ASSUME NEW text \in Seq(Chars), NEW s \in LineStates(text)
  PROVE  /\ TokenTurn(text, s) \in LineStates(text)
         /\ s \in LineDone(text) => TokenTurn(text, s) = s
         /\ \/ TokenTurn(text, s) \in LineDone(text)
            \/ TokenTurn(text, s).p >= s.p + 1
<1> DEFINE c == text[s.p+1]
           Further(y) ==
             y \in LineStates(text) /\ (~y.ok \/ y.p >= s.p + 1)
           word == ScanWord(text, s.p)
           add(type, val, q) ==
             [s EXCEPT !.p = q, !.tokens = Append(@, [type |-> type, val |-> val])]
<1>1. s.p \in 0 .. Len(text) /\ s.tokens \in TokenLists /\ s.ok \in BOOLEAN
  BY DEF LineStates
<1>2. SUFFICES ASSUME s.p # Len(text), s.ok PROVE Further(TokenTurn(text, s))
  BY DEF TokenTurn, LineDone
<1>3. s.p + 1 \in 0 .. Len(text) /\ c \in Chars /\ s.p \in Nat
  BY <1>1, <1>2
<1>4. word.p \in 0 .. Len(text) /\ word.val \in Vals /\ (c \notin Ends => word.p >= s.p + 1)
  <2>1. word \in WordDone(text, s.p)
    BY <1>1, ScanWordFits
  <2> HIDE DEF word
  <2>2. word.p \in s.p .. Len(text) /\ word.val \in Vals
        /\ (word.p = Len(text) \/ text[word.p+1] \in Ends)
    BY <2>1 DEF WordDone, WordStates
  <2>3. c \notin Ends => word.p # s.p
    BY <1>2, <2>2
  <2> QED
    BY <1>1, <2>2, <2>3
<1> HIDE DEF word
<1>5. Further([s EXCEPT !.p = @ + 1]) /\ Further([s EXCEPT !.ok = FALSE])
  <2>1. [s EXCEPT !.p = @ + 1] \in LineStates(text) /\ [s EXCEPT !.ok = FALSE] \in LineStates(text)
    BY <1>3 DEF LineStates
  <2>2. [s EXCEPT !.p = @ + 1].p = s.p + 1 /\ ~[s EXCEPT !.ok = FALSE].ok
    BY DEF LineStates
  <2>3. [s EXCEPT !.p = @ + 1].p >= s.p + 1
    BY <1>3, <2>2
  <2> QED
    BY <2>1, <2>2, <2>3
<1>6. ASSUME NEW type \in Types, NEW val \in Vals, NEW q \in 0 .. Len(text),
             q >= s.p + 1, ~TooMany(Len(s.tokens))
      PROVE  Further(add(type, val, q))
  <2> DEFINE t == [type |-> type, val |-> val]
  <2>1. t \in Tokens
    BY DEF Tokens
  <2> HIDE DEF t
  <2>2. Append(s.tokens, t) \in Seq(Tokens)
        /\ Len(Append(s.tokens, t)) = Len(s.tokens) + 1 /\ Len(s.tokens) \in Nat
    BY <1>1, <2>1 DEF TokenLists
  <2>3. Append(s.tokens, t) \in TokenLists
    BY <1>6, <2>2, Limits DEF TokenLists, TooMany
  <2> QED
    BY <1>6, <2>3 DEF LineStates, t
<1>a. s.p + 1 >= s.p + 1 /\ s.p + 2 >= s.p + 1
  BY <1>3
<1> HIDE DEF Further
<1>7. <<">">> \in Vals /\ <<">", ">">> \in Vals /\ <<c>> \in Vals
  <2>1. ">" \in Chars
    BY DEF Chars, Ends, OpType
  <2> QED
    BY <1>3, <2>1, Limits DEF Vals
<1>8. c \in DOMAIN OpType => OpType[c] \in Types
  BY DEF OpType, Types
<1>9. CASE c = " "
  <2>1. c # ">" /\ c \notin DOMAIN OpType /\ c \in Ends
    BY <1>9 DEF OpType, Ends
  <2>2. TokenTurn(text, s) = [s EXCEPT !.p = @ + 1]
    BY <1>2, <1>9, <2>1 DEF TokenTurn
  <2> QED
    BY <1>5, <2>2
<1>10. CASE c # " " /\ TooMany(Len(s.tokens))
  <2>1. TokenTurn(text, s) = [s EXCEPT !.ok = FALSE]
    BY <1>2, <1>10 DEF TokenTurn
  <2> QED
    BY <1>5, <2>1
<1>11. CASE c = ">" /\ ~TooMany(Len(s.tokens))
  <2>1. TokenTurn(text, s) =
          IF s.p + 1 < Len(text) /\ text[s.p+2] = ">"
          THEN add("REDIR_APPEND", <<">", ">">>, s.p + 2) ELSE add("REDIR_OUT", <<">">>, s.p + 1)
    <3>1. c # " " /\ c \in Ends
      BY <1>11 DEF OpType, Ends
    <3> QED
      BY <1>2, <1>11, <3>1 DEF TokenTurn
  <2>2. s.p + 1 < Len(text) => s.p + 2 \in 0 .. Len(text)
    BY <1>1
  <2>3. "REDIR_APPEND" \in Types /\ "REDIR_OUT" \in Types
    BY DEF Types
  <2> HIDE DEF add
  <2> QED
    BY <1>a, <1>3, <1>6, <1>7, <1>11, <2>1, <2>2, <2>3
<1>12. CASE c \in DOMAIN OpType \ {">"} /\ ~TooMany(Len(s.tokens))
  <2>1. c # " " /\ c \in Ends
    BY <1>12 DEF OpType, Ends
  <2>2. TokenTurn(text, s) = add(OpType[c], <<c>>, s.p + 1)
    BY <1>2, <1>12, <2>1 DEF TokenTurn
  <2> HIDE DEF add
  <2> QED
    BY <1>a, <1>3, <1>6, <1>7, <1>8, <1>12, <2>2
<1>13. CASE c \notin Ends /\ ~TooMany(Len(s.tokens))
  <2>1. c # " " /\ c # ">" /\ c \notin DOMAIN OpType
    BY <1>13 DEF OpType, Ends
  <2>2. TokenTurn(text, s) = IF word.in_quote # "none" THEN [s EXCEPT !.ok = FALSE]
                             ELSE add("WORD", word.val, word.p)
    BY <1>2, <1>13, <2>1 DEF TokenTurn, word
  <2>3. "WORD" \in Types
    BY DEF Types
  <2> HIDE DEF add
  <2> QED
    BY <1>4, <1>5, <1>6, <1>13, <2>2, <2>3
<1> QED
  BY <1>9, <1>10, <1>11, <1>12, <1>13 DEF Ends

(* The loop ends, and no line has more tokens, or longer ones, than the    *)
(* arrays hold.                                                            *)
LEMMA TokenizeFits ==
  ASSUME NEW text \in Seq(Chars)
  PROVE  tokenize(text) \in LineDone(text)
<1> DEFINE V == LineStates(text)
           Done == LineDone(text)
           N == Len(text)
           x == [p |-> 0, tokens |-> <<>>, ok |-> TRUE]
           step == [s \in V |-> TokenTurn(text, s)]
           at == [s \in V |-> s.p]
           Def(f) == f = [k \in 0 .. N |-> IF k = 0 THEN x ELSE TokenTurn(text, f[k-1])]
           F == CHOOSE f : Def(f)
<1>1. N \in Nat
  OBVIOUS
<1>2. x \in V /\ x.p = 0
  BY Limits DEF LineStates, TokenLists
<1>3. step \in [V -> V]
  BY TokenTurnFits
<1>4. tokenize(text) = F[N]
  BY DEF tokenize, Loop
<1>5. at \in [V -> Int]
  BY <1>1 DEF LineStates
<1>6. \A s \in V : at[s] = s.p
  OBVIOUS
<1> HIDE DEF V, Done, N, x, F, at
<1>7. PICK f \in [0 .. N -> V] : LoopDef(f, N, x, step)
  <2> HIDE DEF step
  <2> QED
    BY <1>1, <1>2, <1>3, LoopExists
<1>8. ASSUME NEW k \in 0 .. N PROVE f[k] = IF k = 0 THEN x ELSE TokenTurn(text, f[k-1])
  <2>1. k # 0 => f[k-1] \in V
    BY <1>1, <1>7
  <2> QED
    BY <1>7, <2>1 DEF LoopDef
<1>9. Def(f)
  BY <1>7, <1>8
<1>10. Def(F)
  <2> HIDE DEF Def
  <2> QED
    BY <1>9 DEF F
<1>11. F[0] = x /\ \A k \in 1 .. N : F[k] = TokenTurn(text, F[k-1])
  <2>1. 0 \in 0 .. N /\ \A k \in 1 .. N : k \in 0 .. N /\ k # 0
    BY <1>1
  <2> QED
    BY <1>10, <2>1
<1>12. ASSUME NEW k \in 1 .. N, F[k-1] \in V
       PROVE  /\ F[k] \in V
              /\ F[k-1] \in Done => F[k] \in Done
              /\ F[k] \in Done \/ at[F[k]] >= at[F[k-1]] + 1
  <2> DEFINE s == F[k-1]
  <2>1. F[k] = TokenTurn(text, s)
    BY <1>11
  <2> HIDE DEF s
  <2>2. s \in V
    BY <1>12 DEF s
  <2>3. /\ F[k] \in V
        /\ s \in Done => F[k] = s
        /\ F[k] \in Done \/ F[k].p >= s.p + 1
    BY <2>1, <2>2, TokenTurnFits DEF V, Done
  <2>4. F[k] \in Done \/ at[F[k]] >= at[s] + 1
    BY <1>6, <2>2, <2>3
  <2> QED
    BY <2>3, <2>4 DEF s
<1>13. F[N] \in V /\ (F[N] \in Done \/ at[F[N]] >= at[F[0]] + N)
  <2>1. F[0] \in V
    BY <1>2, <1>11
  <2> HIDE DEF Def, step
  <2> QED
    BY <1>1, <1>5, <1>12, <2>1, LoopEnds
<1>14. at[F[N]] >= at[F[0]] + N => F[N].p = Len(text)
  <2>1. at[F[N]] = F[N].p /\ at[F[0]] = 0
    BY <1>2, <1>6, <1>11, <1>13
  <2>2. F[N].p \in 0 .. Len(text)
    BY <1>13 DEF V, LineStates
  <2> QED
    BY <1>1, <2>1, <2>2 DEF N
<1> QED
  BY <1>4, <1>13, <1>14 DEF V, Done, LineDone

(* An argument that is added leaves a place for NULL, and a file name is a *)
(* word; and each turn gets further in the list, or fails.                 *)
LEMMA ParseTurnFits ==
  ASSUME NEW tokens \in TokenLists, NEW s \in CommandStates
  PROVE  /\ ParseTurn(tokens, s) \in CommandStates
         /\ s \in CommandDone(tokens) => ParseTurn(tokens, s) = s
         /\ \/ ParseTurn(tokens, s) \in CommandDone(tokens)
            \/ ParseTurn(tokens, s).i >= s.i + 1
<1> DEFINE Further(y) == y \in CommandStates /\ (~y.ok \/ y.i >= s.i + 1)
           t == tokens[s.i]
           target == tokens[s.i+1].val
<1>1. s.i \in Nat \ {0} /\ s.cmd \in Commands /\ s.ok \in BOOLEAN /\ Len(tokens) \in Nat
  BY DEF CommandStates, TokenLists
<1>2. SUFFICES ASSUME ~(s.i > Len(tokens)), s.ok PROVE Further(ParseTurn(tokens, s))
  BY DEF ParseTurn, CommandDone
<1>3. s.i \in 1 .. Len(tokens) /\ s.i + 1 \in Nat \ {0} /\ s.i + 2 \in Nat \ {0}
  BY <1>1, <1>2
<1> HIDE DEF t
<1>4. t.type \in Types /\ t.val \in Vals
  <2>1. \A k \in 1 .. Len(tokens) : tokens[k] \in Tokens
    BY DEF TokenLists
  <2>2. t \in Tokens
    BY <1>3, <2>1 DEF t
  <2> QED
    BY <2>2 DEF Tokens
<1>5. WordAt(tokens, s.i + 1) \in BOOLEAN /\ (WordAt(tokens, s.i + 1) => target \in Vals)
  <2>1. WordAt(tokens, s.i + 1) \in BOOLEAN
    BY DEF WordAt
  <2>2. ASSUME WordAt(tokens, s.i + 1) PROVE target \in Vals
    <3>1. s.i + 1 \in 1 .. Len(tokens)
      BY <1>1, <1>3, <2>2 DEF WordAt
    <3>2. tokens[s.i + 1] \in Tokens
      BY <3>1 DEF TokenLists
    <3> QED
      BY <3>2 DEF Tokens, target
  <2> QED
    BY <2>1, <2>2
<1> HIDE DEF target
<1>6. Further([s EXCEPT !.ok = FALSE])
  BY DEF CommandStates
<1>7. CASE t.type = "WORD"
  <2>1. ParseTurn(tokens, s) =
          IF TooManyArgs(s.cmd) THEN [s EXCEPT !.ok = FALSE]
          ELSE [s EXCEPT !.i = @ + 1, !.cmd.argv = Append(@, t.val)]
    BY <1>2, <1>7 DEF ParseTurn, t, target
  <2>2. CASE ~TooManyArgs(s.cmd)
    <3>1. s.cmd.argv \in Seq(Vals) /\ Len(s.cmd.argv) \in Nat
      BY <1>1 DEF Commands
    <3>2. Append(s.cmd.argv, t.val) \in Seq(Vals)
          /\ Len(Append(s.cmd.argv, t.val)) = Len(s.cmd.argv) + 1
      BY <1>4, <3>1
    <3>3. Append(s.cmd.argv, t.val) \in {a \in Seq(Vals) : Len(a) <= MAX_ARGS - 1}
      BY <2>2, <3>1, <3>2, Limits DEF TooManyArgs
    <3>4. [s.cmd EXCEPT !.argv = Append(@, t.val)] \in Commands
      BY <1>1, <3>3 DEF Commands
    <3> DEFINE y == [s EXCEPT !.i = @ + 1, !.cmd.argv = Append(@, t.val)]
    <3>5. y \in CommandStates
      BY <1>3, <3>4 DEF CommandStates
    <3>6. y.i = s.i + 1
      BY DEF CommandStates
    <3>7. y.i >= s.i + 1
      BY <1>3, <3>6
    <3> HIDE DEF y
    <3> QED
      BY <2>1, <2>2, <3>5, <3>7 DEF y
  <2> QED
    BY <1>6, <2>1, <2>2
<1>8. CASE t.type = "REDIR_IN"
  <2>1. ParseTurn(tokens, s) =
          IF ~WordAt(tokens, s.i + 1) THEN [s EXCEPT !.ok = FALSE]
          ELSE [s EXCEPT !.i = @ + 2, !.cmd.redir_in = target]
    BY <1>2, <1>8 DEF ParseTurn, t, target
  <2>2. CASE WordAt(tokens, s.i + 1)
    <3>1. [s.cmd EXCEPT !.redir_in = target] \in Commands
      BY <1>1, <1>5, <2>2 DEF Commands
    <3> DEFINE y == [s EXCEPT !.i = @ + 2, !.cmd.redir_in = target]
    <3>2. y \in CommandStates
      BY <1>3, <3>1 DEF CommandStates
    <3>3. y.i = s.i + 2
      BY DEF CommandStates
    <3>4. y.i >= s.i + 1
      BY <1>3, <3>3
    <3> HIDE DEF y
    <3> QED
      BY <2>1, <2>2, <3>2, <3>4 DEF y
  <2> QED
    BY <1>6, <2>1, <2>2
<1>9. CASE t.type \in {"REDIR_OUT", "REDIR_APPEND"}
  <2> DEFINE append == t.type = "REDIR_APPEND"
  <2>1. ParseTurn(tokens, s) =
          IF ~WordAt(tokens, s.i + 1) THEN [s EXCEPT !.ok = FALSE]
          ELSE [s EXCEPT !.i = @ + 2, !.cmd.redir_out = target, !.cmd.append = append]
    BY <1>2, <1>9 DEF ParseTurn, t, target
  <2>2. append \in BOOLEAN
    OBVIOUS
  <2> HIDE DEF append
  <2>3. CASE WordAt(tokens, s.i + 1)
    <3>1. [s.cmd EXCEPT !.redir_out = target, !.append = append] \in Commands
      BY <1>1, <1>5, <2>2, <2>3 DEF Commands
    <3> DEFINE y == [s EXCEPT !.i = @ + 2, !.cmd.redir_out = target, !.cmd.append = append]
    <3>2. y \in CommandStates
      BY <1>3, <3>1 DEF CommandStates
    <3>3. y.i = s.i + 2
      BY DEF CommandStates
    <3>4. y.i >= s.i + 1
      BY <1>3, <3>3
    <3> HIDE DEF y
    <3> QED
      BY <2>1, <2>3, <3>2, <3>4 DEF y
  <2> QED
    BY <1>6, <2>1, <2>3
<1>10. CASE t.type = "PIPE"
  <2>1. ParseTurn(tokens, s) = [s EXCEPT !.i = @ + 1, !.cmd.has_pipe = TRUE,
                                         !.ok = WordAt(tokens, s.i + 1)]
    BY <1>2, <1>10 DEF ParseTurn, t, target
  <2>2. [s.cmd EXCEPT !.has_pipe = TRUE] \in Commands
    BY <1>1 DEF Commands
  <2> DEFINE y == [s EXCEPT !.i = @ + 1, !.cmd.has_pipe = TRUE, !.ok = WordAt(tokens, s.i + 1)]
  <2>3. y \in CommandStates
    BY <1>3, <1>5, <2>2 DEF CommandStates
  <2>4. y.i = s.i + 1
    BY DEF CommandStates
  <2>5. y.i >= s.i + 1
    BY <1>3, <2>4
  <2> HIDE DEF y
  <2> QED
    BY <2>1, <2>3, <2>5 DEF y
<1>11. CASE t.type = "AMPERSAND"
  <2> DEFINE last == s.i = Len(tokens)
  <2>1. ParseTurn(tokens, s) = [s EXCEPT !.i = @ + 1, !.cmd.background = TRUE, !.ok = last]
    BY <1>2, <1>11 DEF ParseTurn, t, target
  <2>2. [s.cmd EXCEPT !.background = TRUE] \in Commands /\ last \in BOOLEAN
    BY <1>1 DEF Commands
  <2> HIDE DEF last
  <2> DEFINE y == [s EXCEPT !.i = @ + 1, !.cmd.background = TRUE, !.ok = last]
  <2>3. y \in CommandStates
    BY <1>3, <2>2 DEF CommandStates
  <2>4. y.i = s.i + 1
    BY DEF CommandStates
  <2>5. y.i >= s.i + 1
    BY <1>3, <2>4
  <2> HIDE DEF y
  <2> QED
    BY <2>1, <2>3, <2>5 DEF y
<1> QED
  BY <1>4, <1>7, <1>8, <1>9, <1>10, <1>11 DEF Types

(* The loop of parse_command.                                              *)
Parsed(tokens) ==
  Loop(LAMBDA s, k : ParseTurn(tokens, s),
       [i |-> 1, cmd |-> NoCommand, ok |-> TRUE], Len(tokens))

(* It ends, and no list of tokens gives a command more than its arrays     *)
(* hold.                                                                   *)
LEMMA ParseFits ==
  ASSUME NEW tokens \in TokenLists
  PROVE  /\ Parsed(tokens) \in CommandDone(tokens)
         /\ parse_command(tokens).cmd = Parsed(tokens).cmd
         /\ parse_command(tokens).cmd \in Commands
<1> DEFINE V == CommandStates
           Done == CommandDone(tokens)
           N == Len(tokens)
           x == [i |-> 1, cmd |-> NoCommand, ok |-> TRUE]
           step == [s \in V |-> ParseTurn(tokens, s)]
           at == [s \in V |-> s.i]
           Def(f) == f = [k \in 0 .. N |-> IF k = 0 THEN x ELSE ParseTurn(tokens, f[k-1])]
           F == CHOOSE f : Def(f)
<1>1. N \in Nat
  BY DEF TokenLists
<1>2. x \in V /\ x.i = 1
  <2>1. <<>> \in Vals /\ <<>> \in {a \in Seq(Vals) : Len(a) <= MAX_ARGS - 1}
    BY Limits DEF Vals
  <2>2. NoCommand \in Commands
    BY <2>1 DEF NoCommand, Commands
  <2> QED
    BY <2>2 DEF CommandStates
<1>3. step \in [V -> V]
  BY ParseTurnFits
<1>4. Parsed(tokens) = F[N] /\ parse_command(tokens).cmd = Parsed(tokens).cmd
  BY DEF parse_command, Parsed, Loop
<1>5. at \in [V -> Int]
  BY DEF CommandStates
<1>6. \A s \in V : at[s] = s.i
  OBVIOUS
<1> HIDE DEF V, Done, N, x, F, at
<1>7. PICK f \in [0 .. N -> V] : LoopDef(f, N, x, step)
  <2> HIDE DEF step
  <2> QED
    BY <1>1, <1>2, <1>3, LoopExists
<1>8. ASSUME NEW k \in 0 .. N PROVE f[k] = IF k = 0 THEN x ELSE ParseTurn(tokens, f[k-1])
  <2>1. k # 0 => f[k-1] \in V
    BY <1>1, <1>7
  <2> QED
    BY <1>7, <2>1 DEF LoopDef
<1>9. Def(f)
  BY <1>7, <1>8
<1>10. Def(F)
  <2> HIDE DEF Def
  <2> QED
    BY <1>9 DEF F
<1>11. F[0] = x /\ \A k \in 1 .. N : F[k] = ParseTurn(tokens, F[k-1])
  <2>1. 0 \in 0 .. N /\ \A k \in 1 .. N : k \in 0 .. N /\ k # 0
    BY <1>1
  <2> QED
    BY <1>10, <2>1
<1>12. ASSUME NEW k \in 1 .. N, F[k-1] \in V
       PROVE  /\ F[k] \in V
              /\ F[k-1] \in Done => F[k] \in Done
              /\ F[k] \in Done \/ at[F[k]] >= at[F[k-1]] + 1
  <2> DEFINE s == F[k-1]
  <2>1. F[k] = ParseTurn(tokens, s)
    BY <1>11
  <2> HIDE DEF s
  <2>2. s \in V
    BY <1>12 DEF s
  <2>3. /\ F[k] \in V
        /\ s \in Done => F[k] = s
        /\ F[k] \in Done \/ F[k].i >= s.i + 1
    BY <2>1, <2>2, ParseTurnFits DEF V, Done
  <2>4. F[k] \in Done \/ at[F[k]] >= at[s] + 1
    BY <1>6, <2>2, <2>3
  <2> QED
    BY <2>3, <2>4 DEF s
<1>13. F[N] \in V /\ (F[N] \in Done \/ at[F[N]] >= at[F[0]] + N)
  <2>1. F[0] \in V
    BY <1>2, <1>11
  <2> HIDE DEF Def, step
  <2> QED
    BY <1>1, <1>5, <1>12, <2>1, LoopEnds
<1>14. F[N] \in Done
  <2>1. at[F[N]] = F[N].i /\ at[F[0]] = 1
    BY <1>2, <1>6, <1>11, <1>13
  <2>2. at[F[N]] >= at[F[0]] + N => F[N].i > Len(tokens)
    BY <1>1, <1>5, <1>13, <2>1 DEF N
  <2> QED
    BY <1>13, <2>2 DEF V, Done, CommandDone
<1> QED
  BY <1>4, <1>14 DEF Done, CommandDone, CommandStates

-----------------------------------------------------------------------------
(* A line that is still being read has room for another character.         *)
RoomInv ==
  /\ Len(line) <= MAX_LINE - 1
  /\ result = Reading => Len(line) < MAX_LINE - 1

(* main() is done with a line it has handled.                              *)
LEMMA HandledIsDone ==
  ASSUME NEW text
  PROVE  Handle(text) # Reading
<1>1. Error # Reading
  BY DEF Error, Reading
<1>2. ASSUME NEW cmd PROVE execute_command(cmd) # "reading"
  <2>1. execute_command(cmd) \in
          {"nothing", "no pipes", "no redirections", "no background", "run"}
    <3>1. CASE cmd.argv = <<>>
      BY <3>1 DEF execute_command
    <3>2. CASE cmd.argv # <<>> /\ cmd.has_pipe
      BY <3>2 DEF execute_command
    <3>3. CASE cmd.argv # <<>> /\ ~cmd.has_pipe
      BY <3>3 DEF execute_command
    <3> QED
      BY <3>1, <3>2, <3>3
  <2> QED
    BY <2>1
<1>3. ASSUME NEW cmd
      PROVE  [did |-> execute_command(cmd), argv |-> cmd.argv] # Reading
  BY <1>2 DEF Reading
<1> QED
  BY <1>1, <1>3 DEF Handle

(* The last character for which there is room ends the line.               *)
LEMMA RoomStep == EditInv /\ RoomInv /\ [Next]_vars => RoomInv'
<1> SUFFICES ASSUME EditInv, RoomInv, [Next]_vars PROVE RoomInv'
  OBVIOUS
<1> USE Limits DEF RoomInv
<1>1. line \in Seq(Chars) /\ Len(line) \in Nat
  BY DEF EditInv
<1>2. ASSUME NEW c \in Chars, Press(c) PROVE RoomInv'
  <2>1. result = Reading /\ line' = Append(line, c) /\ result' = Finished(line')
    BY <1>2 DEF Press
  <2>2. Len(line') = Len(line) + 1
    BY <1>1, <2>1
  <2>3. Len(line') = MAX_LINE - 1 => result' # Reading
    BY <2>1, HandledIsDone DEF Finished, Full
  <2> QED
    BY <1>1, <2>1, <2>2, <2>3
<1>3. CASE Backspace
  <2>1. result = Reading /\ result' = Reading
        /\ line' = (IF line # <<>> THEN SubSeq(line, 1, Len(line) - 1) ELSE line)
    BY <1>3 DEF Backspace
  <2>2. Len(line') \in Nat /\ Len(line') <= Len(line)
    <3>1. CASE line # <<>>
      <4>1. PICK m \in Nat : m = Len(line) - 1
        BY <1>1, <3>1
      <4>2. line' = SubSeq(line, 1, m) /\ m <= Len(line)
        BY <1>1, <2>1, <3>1, <4>1
      <4>3. Len(line') = m
        BY <1>1, <4>2
      <4> QED
        BY <1>1, <4>2, <4>3
    <3>2. CASE line = <<>>
      BY <1>1, <2>1, <3>2
    <3> QED
      BY <3>1, <3>2
  <2> QED
    BY <1>1, <2>1, <2>2
<1>4. CASE Enter
  BY <1>4, HandledIsDone DEF Enter
<1>5. CASE Prompt
  <2>1. line' = <<>>
    BY <1>5 DEF Prompt
  <2>2. Len(line') = 0
    BY <2>1
  <2> QED
    BY <2>2
<1>6. CASE UNCHANGED vars
  BY <1>6 DEF vars
<1> QED
  BY <1>2, <1>3, <1>4, <1>5, <1>6 DEF Next

(* No keys make the line editor, tokenize or parse_command leave an array, *)
(* for arrays of every size that holds an operator.                        *)
THEOREM ArraysAlwaysHold == Spec => []ArraysHold
<1>1. Init => EditInv /\ RoomInv
  BY NothingTyped, Limits DEF Init, EditInv, RoomInv
<1>2. EditInv /\ RoomInv => ArraysHold
  <2> SUFFICES ASSUME EditInv, RoomInv PROVE ArraysHold
    OBVIOUS
  <2> DEFINE t == tokenize(line)
             cmd == parse_command(t.tokens).cmd
  <2>1. t.tokens \in TokenLists
    BY TokenizeFits DEF EditInv, LineDone, LineStates
  <2>2. cmd \in Commands
    BY <2>1, ParseFits
  <2> HIDE DEF t, cmd
  <2>3. /\ Len(t.tokens) <= MAX_TOKENS - 1
        /\ \A k \in DOMAIN t.tokens : t.tokens[k] \in Tokens
    BY <2>1 DEF TokenLists
  <2>4. \A k \in DOMAIN t.tokens : Len(t.tokens[k].val) <= MAX_TOKEN_LEN - 1
    BY <2>3 DEF Tokens, Vals
  <2>5. /\ Len(cmd.argv) <= MAX_ARGS - 1
        /\ Len(cmd.redir_in) <= MAX_TOKEN_LEN - 1
        /\ Len(cmd.redir_out) <= MAX_TOKEN_LEN - 1
    BY <2>2 DEF Commands, Vals
  <2>6. Len(line) <= MAX_LINE - 1
    BY DEF RoomInv
  <2> QED
    BY <2>3, <2>4, <2>5, <2>6 DEF ArraysHold, t, cmd
<1> QED
  BY <1>1, <1>2, EditStep, RoomStep, PTL DEF Spec

(* The loops of tokenize and parse_command end, and without an error they  *)
(* have read the whole line and all its tokens.                            *)
THEOREM ReadToTheEnd ==
  \A text \in Seq(Chars) :
    LET t == tokenize(text)
        c == Parsed(t.tokens)
    IN  /\ t.ok => t.p = Len(text)
        /\ c.ok => c.i > Len(t.tokens)
<1> SUFFICES ASSUME NEW text \in Seq(Chars)
             PROVE  /\ tokenize(text).ok => tokenize(text).p = Len(text)
                    /\ Parsed(tokenize(text).tokens).ok =>
                         Parsed(tokenize(text).tokens).i > Len(tokenize(text).tokens)
  OBVIOUS
<1>1. tokenize(text) \in LineDone(text)
  BY TokenizeFits
<1>2. tokenize(text).tokens \in TokenLists
  BY <1>1 DEF LineDone, LineStates
<1>3. Parsed(tokenize(text).tokens) \in CommandDone(tokenize(text).tokens)
  BY <1>2, ParseFits
<1> QED
  BY <1>1, <1>3 DEF LineDone, CommandDone
=============================================================================
