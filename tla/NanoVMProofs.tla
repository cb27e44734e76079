---------------------------- MODULE NanoVMProofs ----------------------------
(***************************************************************************)
(* What the page tables of NanoVM map, for every pool, layout, number of   *)
(* slots and size of a table: a page table maps exactly what was asked     *)
(* for, with exactly the pages that this needs; a build fails only when    *)
(* the pool is too small; and vm.c as a whole implements PagePool.         *)
(***************************************************************************)
EXTENDS NanoVMTrees

(* Most steps are first-order logic, which Zenon settles; SMT, which has   *)
(* the arithmetic, takes the ones that name it and what Zenon leaves.  A   *)
(* step that runs out of time is tried a second time.                      *)
USE ZenonT(5), SMT, ZenonT(20), Z3

-----------------------------------------------------------------------------
(* The three indices of a page number.                                     *)
Indices(va) == <<vpn(va, 2), vpn(va, 1), vpn(va, 0)>>

(* Two addresses differ at some level of the tables.                       *)
LEMMA IndicesDiffer ==
  ASSUME NEW x \in 0 .. VpnLimit-1, NEW z \in 0 .. VpnLimit-1, Indices(x) = Indices(z)
  PROVE  x = z
<1> DEFINE F == FAN
           g == F * F
<1>1. /\ F \in Nat \ {0} /\ g \in Nat \ {0} /\ VpnLimit = g * F
      /\ g * F \in Nat
  BY SMT, Z3, VMAssumption DEF VpnLimit
<1>2. /\ vpn(x, 2) = vpn(z, 2) /\ vpn(x, 1) = vpn(z, 1) /\ vpn(x, 0) = vpn(z, 0)
  BY DEF Indices
<1>3. ASSUME NEW y \in 0 .. VpnLimit-1
      PROVE  y = F * (F * vpn(y, 2) + vpn(y, 1)) + vpn(y, 0)
  <2>1. y \in Nat /\ y < g * F
    BY SMT, Z3, <1>1
  <2>2. y = F * (y \div F) + (y % F) /\ y \div F \in Nat
    BY <1>1, <2>1, DivMod
  <2>3. /\ y \div F = F * ((y \div F) \div F) + ((y \div F) % F)
        /\ (y \div F) \div F \in Nat
    BY <1>1, <2>2, DivMod
  <2>4. (y \div F) \div F = y \div g
    BY <1>1, <2>1, DivTwice
  <2>5. y = g * (y \div g) + (y % g) /\ y \div g \in Nat /\ y % g \in Nat
    <3> HIDE DEF g
    <3> QED BY <1>1, <2>1, DivMod
  <2>6. y \div g < F
    <3> DEFINE q == y \div g
    <3> HIDE DEF g, F, q
    <3>1. CASE q >= F
      <4>1. g * F <= g * q
        BY SMT, Z3, <1>1, <2>5, <3>1, TimesGrows DEF q
      <4>2. g * q \in Int
        BY SMT, Z3, <1>1, <2>5 DEF q
      <4> QED BY SMT, Z3, <1>1, <2>1, <2>5, <4>1, <4>2 DEF q
    <3> QED BY SMT, Z3, <1>1, <2>5, <3>1 DEF q
  <2>7. (y \div g) % F = y \div g
    BY SMT, Z3, <1>1, <2>5, <2>6
  <2> QED BY SMT, Z3, <2>2, <2>3, <2>4, <2>7 DEF vpn
<1> HIDE DEF F
<1> QED
  BY <1>2, <1>3
-----------------------------------------------------------------------------
(* What a page table maps after its first k mappings, and the tables that  *)
(* the mappings M need below the root: A at the indices of the root, B at  *)
(* pairs of indices.                                                       *)

MappingOf(s, j) ==
  IF j < KernelMappings THEN KernelMapping(j) ELSE UserPage(s, j - KernelMappings)

Done(s, k) == {MappingOf(s, j) : j \in 0 .. k-1}

UserMaps == KernelMappings + UserMappings

Tops(M) == {vpn(m.va, 2) : m \in M}
Middles(M) == {<<vpn(m.va, 2), vpn(m.va, 1)>> : m \in M}

Middle(r, a) == pte[r][a].to
Bottom(r, a, b) == pte[Middle(r, a)][b].to

(* The root r has tables exactly at A and B, and entries exactly for M.    *)
Shaped(r, A, B, M) ==
  /\ \A a \in Index : Valid(pte[r][a]) <=> a \in A
  /\ \A a \in A, b \in Index : Valid(pte[Middle(r, a)][b]) <=> <<a, b>> \in B
  /\ \A a, b, c \in Index : <<a, b>> \in B =>
       LET e == pte[Bottom(r, a, b)][c]
       IN  IF Valid(e) THEN \E m \in M : Indices(m.va) = <<a, b, c>> /\ m.entry = e
           ELSE \A m \in M : Indices(m.va) # <<a, b, c>>

Maps(r, M) == Shaped(r, Tops(M), Middles(M), M)

(* No two entries lead to the same table.                                  *)
OneParent ==
  \A q, r \in Busy, j, k \in Index :
    /\ owner[q].level > 0 /\ owner[r].level > 0
    /\ Valid(pte[q][j]) /\ Valid(pte[r][k]) /\ pte[q][j].to = pte[r][k].to
    => q = r /\ j = k

InService ==
  /\ \A s \in Live : Maps(pagetable[s], Done(s, UserMaps))
  /\ kernel_pt # NULL /\ fn # "kernel_pagetable" =>
       Maps(kernel_pt, Done(KERNEL, KernelMappings))

(* The table under construction: mappages is at p, on the way of the page  *)
(* being mapped, whose tables are there as far as it has come.             *)
Here ==
  /\ n = Mappings => level = 2
  /\ level = 2 => p = pt
  /\ level = 1 => p = Middle(pt, vpn(Mapping.va, 2))
  /\ level = 0 => p = Bottom(pt, vpn(Mapping.va, 2), vpn(Mapping.va, 1))

TopsNow == Tops(Done(slot, n)) \cup
             (IF level < 2 THEN {vpn(Mapping.va, 2)} ELSE {})
MiddlesNow == Middles(Done(slot, n)) \cup
                (IF level < 1 THEN {<<vpn(Mapping.va, 2), vpn(Mapping.va, 1)>>} ELSE {})

InWork ==
  pt # NULL => /\ n <= Mappings /\ Here
               /\ Shaped(pt, TopsNow, MiddlesNow, Done(slot, n))

MapInv == OneParent /\ InService /\ InWork

(* The pages that are mapped have numbers that three levels translate.     *)
LEMMA MappingPlace ==
  ASSUME NEW s, NEW j \in 0 .. UserMaps-1
  PROVE  /\ MappingOf(s, j).va \in 0 .. VpnLimit-1
         /\ MappingOf(s, j) = [va |-> MappingOf(s, j).va,
                               entry |-> MappingOf(s, j).entry]
         /\ MappingOf(s, j).va =
              (IF j < KERNEL_PAGES THEN KERNEL_START + j
               ELSE IF j < KernelMappings THEN UART0
               ELSE IF j - KernelMappings < USER_IMAGE_PAGES
                    THEN USER_BASE + (j - KernelMappings)
               ELSE USER_STACK_TOP - 1)
<1> USE VMAssumption
<1>1. VpnLimit \in Nat
  BY SMT, Z3 DEF VpnLimit
<1>2. CASE j < KERNEL_PAGES
  <2>1. KERNEL_START + j \in KERNEL_START .. KERNEL_START + KERNEL_PAGES-1
    BY SMT, Z3, <1>2
  <2>2. KERNEL_START + j \in 0 .. VpnLimit-1
    BY <2>1, LayoutAssumption
  <2> QED BY SMT, Z3, <1>2, <2>2 DEF MappingOf, KernelMapping, KernelMappings
<1>3. CASE ~(j < KERNEL_PAGES) /\ j < KernelMappings
  <2>1. UART0 \in 0 .. VpnLimit-1
    BY LayoutAssumption
  <2> QED BY <1>3, <2>1 DEF MappingOf, KernelMapping, KernelMappings
<1>4. CASE ~(j < KernelMappings) /\ j - KernelMappings < USER_IMAGE_PAGES
  <2>1. USER_BASE + (j - KernelMappings) \in USER_BASE .. USER_BASE + USER_IMAGE_PAGES-1
    BY SMT, Z3, <1>4 DEF KernelMappings
  <2>2. USER_BASE + (j - KernelMappings) \in 0 .. VpnLimit-1
    BY <2>1, LayoutAssumption
  <2> QED BY SMT, Z3, <1>4, <2>2 DEF MappingOf, UserPage, KernelMappings
<1>5. CASE ~(j < KernelMappings) /\ ~(j - KernelMappings < USER_IMAGE_PAGES)
  <2>1. USER_STACK_TOP - 1 \in 0 .. VpnLimit-1
    BY LayoutAssumption
  <2> QED BY SMT, Z3, <1>5, <2>1 DEF MappingOf, UserPage, KernelMappings
<1> QED
  BY <1>2, <1>3, <1>4, <1>5 DEF KernelMappings

(* No page is mapped twice.                                                *)
LEMMA MappingsApart ==
  ASSUME NEW s, NEW j \in 0 .. UserMaps-1, NEW k \in 0 .. UserMaps-1, j < k
  PROVE  MappingOf(s, j).va # MappingOf(s, k).va
<1> USE VMAssumption
<1> DEFINE place(i) == IF i < KERNEL_PAGES THEN KERNEL_START + i
                       ELSE IF i < KernelMappings THEN UART0
                       ELSE IF i - KernelMappings < USER_IMAGE_PAGES
                            THEN USER_BASE + (i - KernelMappings)
                       ELSE USER_STACK_TOP - 1
           kernel == KERNEL_START .. KERNEL_START + KERNEL_PAGES-1
           image == USER_BASE .. USER_BASE + USER_IMAGE_PAGES-1
<1>1. MappingOf(s, j).va = place(j) /\ MappingOf(s, k).va = place(k)
  BY MappingPlace
<1>2. KernelMappings = KERNEL_PAGES + 1 /\ UserMaps = KERNEL_PAGES + 1 + USER_IMAGE_PAGES + 1
  BY SMT, Z3 DEF KernelMappings, UserMaps, UserMappings
<1>3. /\ UART0 \notin kernel /\ UART0 \notin image /\ UART0 # USER_STACK_TOP - 1
      /\ USER_STACK_TOP - 1 \notin kernel /\ USER_STACK_TOP - 1 \notin image
      /\ kernel \cap image = {}
  BY LayoutAssumption
<1>4. \A i \in 0 .. UserMaps-1 :
        /\ i < KERNEL_PAGES => place(i) \in kernel /\ place(i) = KERNEL_START + i
        /\ i = KERNEL_PAGES => place(i) = UART0
        /\ i > KERNEL_PAGES /\ i < UserMaps-1 =>
             place(i) \in image /\ place(i) = USER_BASE + (i - KernelMappings)
        /\ i = UserMaps-1 => place(i) = USER_STACK_TOP - 1
  BY SMT, Z3, <1>2
<1> HIDE DEF place, kernel, image
<1>5. place(j) # place(k)
  <2>1. CASE j < KERNEL_PAGES
    BY SMT, Z3, <1>2, <1>3, <1>4, <2>1
  <2>2. CASE j = KERNEL_PAGES
    BY SMT, Z3, <1>2, <1>3, <1>4, <2>2
  <2>3. CASE j > KERNEL_PAGES
    BY SMT, Z3, <1>2, <1>3, <1>4, <2>3
  <2> QED BY SMT, Z3, <2>1, <2>2, <2>3
<1> QED
  BY <1>1, <1>5
(* Tables at A below the root and at B below those.                        *)
Fits(A, B) == A \subseteq Index /\ B \subseteq A \X Index

(* The indices of the first k mappings are indices of tables.              *)
LEMMA DoneFits ==
  ASSUME NEW s, NEW k \in 0 .. UserMaps
  PROVE  /\ \A m \in Done(s, k) : m.va \in 0 .. VpnLimit-1 /\ m.va \in Nat
         /\ Fits(Tops(Done(s, k)), Middles(Done(s, k)))
<1>1. k \in Int /\ UserMaps \in Int
  BY SMT, Z3, VMAssumption DEF UserMaps, KernelMappings, UserMappings
<1>2. \A m \in Done(s, k) : m.va \in 0 .. VpnLimit-1
  <2> SUFFICES ASSUME NEW j \in 0 .. k-1 PROVE MappingOf(s, j).va \in 0 .. VpnLimit-1
    BY DEF Done
  <2>1. j \in 0 .. UserMaps-1
    BY SMT, Z3, <1>1
  <2> QED BY <2>1, MappingPlace
<1>3. \A m \in Done(s, k) : m.va \in Nat
  BY SMT, Z3, <1>2
<1>4. \A m \in Done(s, k) : vpn(m.va, 2) \in Index /\ vpn(m.va, 1) \in Index
  BY SMT, Z3, <1>3, VpnInTable
<1> QED
  BY SMT, Z3, <1>2, <1>3, <1>4 DEF Fits, Tops, Middles

(* One mapping more.                                                       *)
LEMMA DoneNext ==
  ASSUME NEW s, NEW k \in Nat
  PROVE  /\ Done(s, k + 1) = Done(s, k) \cup {MappingOf(s, k)}
         /\ Tops(Done(s, k + 1)) = Tops(Done(s, k)) \cup {vpn(MappingOf(s, k).va, 2)}
         /\ Middles(Done(s, k + 1)) = Middles(Done(s, k)) \cup
              {<<vpn(MappingOf(s, k).va, 2), vpn(MappingOf(s, k).va, 1)>>}
<1>1. 0 .. (k + 1) - 1 = (0 .. k-1) \cup {k}
  BY SMT, Z3
<1>2. Done(s, k + 1) = Done(s, k) \cup {MappingOf(s, k)}
  BY <1>1 DEF Done
<1> QED
  BY <1>2 DEF Tops, Middles

(* The first mappings are the kernel's, whoever asks for them.             *)
LEMMA KernelDone ==
  ASSUME NEW s, NEW t, NEW k \in 0 .. KernelMappings
  PROVE  Done(s, k) = Done(t, k)
<1>1. \A j \in 0 .. k-1 : MappingOf(s, j) = MappingOf(t, j)
  BY SMT, Z3, VMAssumption DEF MappingOf, KernelMappings
<1> QED
  BY <1>1 DEF Done

(* An entry of an upper table leads one level down in its address space.   *)
LEMMA EntryDown ==
  ASSUME TreeInv, NEW q \in Busy, owner[q].level # 0, NEW i \in Index,
         Valid(pte[q][i])
  PROVE  /\ pte[q][i].to \in Busy
         /\ owner[pte[q][i].to].space = owner[q].space
         /\ owner[pte[q][i].to].level = owner[q].level - 1
  BY DEF TreeInv, EntriesOK, IsTable

(* The tables of a page table in the shape A, B: they are pages of its own *)
(* address space, and all different.                                       *)
LEMMA ShapedTables ==
  ASSUME TreeInv, NEW r \in Busy, owner[r].level = 2,
         NEW A, NEW B, NEW M, Fits(A, B), Shaped(r, A, B, M)
  PROVE  /\ \A a \in A : /\ Middle(r, a) \in Busy
                         /\ owner[Middle(r, a)].space = owner[r].space
                         /\ owner[Middle(r, a)].level = 1
                         /\ Valid(pte[r][a])
         /\ \A a, b : <<a, b>> \in B =>
              /\ Bottom(r, a, b) \in Busy
              /\ owner[Bottom(r, a, b)].space = owner[r].space
              /\ owner[Bottom(r, a, b)].level = 0
              /\ Valid(pte[Middle(r, a)][b])
         /\ OneParent =>
              /\ \A a, x \in A : Middle(r, a) = Middle(r, x) => a = x
              /\ \A a, b, x, y : /\ <<a, b>> \in B /\ <<x, y>> \in B
                                 /\ Bottom(r, a, b) = Bottom(r, x, y)
                                 => a = x /\ b = y
<1>1. \A a \in A : /\ a \in Index
                   /\ Middle(r, a) \in Busy
                   /\ owner[Middle(r, a)].space = owner[r].space
                   /\ owner[Middle(r, a)].level = 1
                   /\ Valid(pte[r][a])
  <2> SUFFICES ASSUME NEW a \in A
               PROVE  /\ a \in Index
                      /\ Middle(r, a) \in Busy
                      /\ owner[Middle(r, a)].space = owner[r].space
                      /\ owner[Middle(r, a)].level = 1
                      /\ Valid(pte[r][a])
    OBVIOUS
  <2>1. a \in Index /\ Valid(pte[r][a])
    BY DEF Fits, Shaped
  <2> QED BY SMT, Z3, <2>1, EntryDown DEF Middle
<1>2. \A a, b : <<a, b>> \in B =>
        /\ a \in A /\ b \in Index
        /\ Bottom(r, a, b) \in Busy
        /\ owner[Bottom(r, a, b)].space = owner[r].space
        /\ owner[Bottom(r, a, b)].level = 0
        /\ Valid(pte[Middle(r, a)][b])
  <2> SUFFICES ASSUME NEW a, NEW b, <<a, b>> \in B
               PROVE  /\ a \in A /\ b \in Index
                      /\ Bottom(r, a, b) \in Busy
                      /\ owner[Bottom(r, a, b)].space = owner[r].space
                      /\ owner[Bottom(r, a, b)].level = 0
                      /\ Valid(pte[Middle(r, a)][b])
    OBVIOUS
  <2>1. a \in A /\ b \in Index
    BY DEF Fits
  <2>2. Valid(pte[Middle(r, a)][b])
    BY <2>1 DEF Shaped
  <2>3. /\ Middle(r, a) \in Busy /\ owner[Middle(r, a)].space = owner[r].space
        /\ owner[Middle(r, a)].level = 1
    BY <1>1, <2>1
  <2> QED BY SMT, Z3, <2>1, <2>2, <2>3, EntryDown DEF Bottom
<1>3. ASSUME OneParent, NEW a \in A, NEW x \in A, Middle(r, a) = Middle(r, x)
      PROVE  a = x
  BY SMT, Z3, <1>1, <1>3 DEF OneParent, Middle
<1>4. ASSUME OneParent, NEW a, NEW b, NEW x, NEW y, <<a, b>> \in B, <<x, y>> \in B,
             Bottom(r, a, b) = Bottom(r, x, y)
      PROVE  a = x /\ b = y
  <2>1. a \in A /\ x \in A /\ b \in Index /\ y \in Index
    BY <1>2, <1>4
  <2>2. Middle(r, a) = Middle(r, x) /\ b = y
    BY SMT, Z3, <1>1, <1>2, <1>4, <2>1 DEF OneParent, Bottom
  <2> QED BY <1>3, <1>4, <2>1, <2>2
<1> QED
  BY <1>1, <1>2, <1>3, <1>4

(* A page table keeps its shape while no page of its address space changes. *)
LEMMA ShapedKept ==
  ASSUME TreeInv, NEW r \in Busy, owner[r].level = 2,
         NEW A, NEW B, NEW M, Fits(A, B), Shaped(r, A, B, M),
         \A q \in Busy : owner[q].space = owner[r].space => pte'[q] = pte[q]
  PROVE  Shaped(r, A, B, M)'
<1>1. pte'[r] = pte[r]
  OBVIOUS
<1>2. \A a \in A : Middle(r, a)' = Middle(r, a) /\ pte'[Middle(r, a)] = pte[Middle(r, a)]
  BY <1>1, ShapedTables DEF Middle
<1>3. \A a, b : <<a, b>> \in B =>
        /\ a \in A /\ Bottom(r, a, b)' = Bottom(r, a, b)
        /\ pte'[Bottom(r, a, b)] = pte[Bottom(r, a, b)]
  <2> SUFFICES ASSUME NEW a, NEW b, <<a, b>> \in B
               PROVE  /\ a \in A /\ Bottom(r, a, b)' = Bottom(r, a, b)
                      /\ pte'[Bottom(r, a, b)] = pte[Bottom(r, a, b)]
    OBVIOUS
  <2>1. a \in A
    BY DEF Fits
  <2>2. Bottom(r, a, b)' = Bottom(r, a, b)
    BY <1>2, <2>1 DEF Bottom
  <2>3. Bottom(r, a, b) \in Busy /\ owner[Bottom(r, a, b)].space = owner[r].space
    BY SMT, Z3, ShapedTables
  <2> QED BY <2>1, <2>2, <2>3
<1>4. \A a \in Index : Valid(pte'[r][a]) <=> a \in A
  BY <1>1 DEF Shaped
<1>5. \A a \in A, b \in Index : Valid(pte'[Middle(r, a)'][b]) <=> <<a, b>> \in B
  <2> SUFFICES ASSUME NEW a \in A, NEW b \in Index
               PROVE  Valid(pte'[Middle(r, a)'][b]) <=> <<a, b>> \in B
    OBVIOUS
  <2>1. pte'[Middle(r, a)'][b] = pte[Middle(r, a)][b]
    BY <1>2
  <2> QED BY <2>1 DEF Shaped
<1>6. \A a, b, c \in Index : <<a, b>> \in B =>
        IF Valid(pte'[Bottom(r, a, b)'][c])
        THEN \E m \in M : Indices(m.va) = <<a, b, c>> /\ m.entry = pte'[Bottom(r, a, b)'][c]
        ELSE \A m \in M : Indices(m.va) # <<a, b, c>>
  <2> SUFFICES ASSUME NEW a \in Index, NEW b \in Index, NEW c \in Index, <<a, b>> \in B
               PROVE  IF Valid(pte'[Bottom(r, a, b)'][c])
                      THEN \E m \in M : /\ Indices(m.va) = <<a, b, c>>
                                        /\ m.entry = pte'[Bottom(r, a, b)'][c]
                      ELSE \A m \in M : Indices(m.va) # <<a, b, c>>
    OBVIOUS
  <2>1. pte'[Bottom(r, a, b)'][c] = pte[Bottom(r, a, b)][c]
    BY <1>3
  <2> QED BY SMT, Z3, <2>1 DEF Shaped
<1> QED
  BY <1>4, <1>5, <1>6 DEF Shaped, Valid
(* The page tables in service are roots, and their mappings fit.           *)
LEMMA ServiceRoots ==
  ASSUME TreeInv
  PROVE  /\ \A s \in Live : /\ s \in Slots /\ pagetable[s] \in Busy
                            /\ owner[pagetable[s]].space = s
                            /\ owner[pagetable[s]].level = 2
         /\ kernel_pt # NULL => /\ kernel_pt \in Busy
                                /\ owner[kernel_pt].space = KERNEL
                                /\ owner[kernel_pt].level = 2
         /\ pt # NULL => /\ pt \in Busy /\ p \in Busy
                         /\ owner[pt].space = Space /\ owner[pt].level = 2
                         /\ owner[p].space = Space /\ owner[p].level = level
         /\ UserMaps \in Nat /\ KernelMappings \in 0 .. UserMaps
         /\ \A s : /\ Fits(Tops(Done(s, UserMaps)), Middles(Done(s, UserMaps)))
                   /\ Fits(Tops(Done(s, KernelMappings)), Middles(Done(s, KernelMappings)))
<1>1. UserMaps \in Nat /\ KernelMappings \in 0 .. UserMaps /\ UserMaps \in 0 .. UserMaps
  BY SMT, Z3, VMAssumption DEF UserMaps, KernelMappings, UserMappings
<1>2. ASSUME NEW s \in Live
      PROVE  /\ s \in Slots /\ pagetable[s] \in Busy
             /\ owner[pagetable[s]].space = s /\ owner[pagetable[s]].level = 2
  <2>1. s \in Slots /\ pagetable[s] \in Busy
        /\ owner[pagetable[s]] = [space |-> s, level |-> 2]
    BY DEF TreeInv, RootsOK, Live
  <2> QED BY SMT, Z3, <2>1
<1>3. kernel_pt # NULL => /\ kernel_pt \in Busy /\ owner[kernel_pt].space = KERNEL
                          /\ owner[kernel_pt].level = 2
  BY SMT, Z3 DEF TreeInv, RootsOK
<1>4. pt # NULL => /\ pt \in Busy /\ p \in Busy
                   /\ owner[pt].space = Space /\ owner[pt].level = 2
                   /\ owner[p].space = Space /\ owner[p].level = level
  BY SMT, Z3 DEF TreeInv, RootsOK
<1> QED
  BY <1>1, <1>2, <1>3, <1>4, DoneFits

(* Work on a table under construction leaves those in service alone.       *)
LEMMA ServiceKept ==
  ASSUME TreeInv, InService, fn # "none", UNCHANGED <<fn, pagetable>>,
         kernel_pt' = kernel_pt \/ fn = "kernel_pagetable",
         \A q \in Busy : owner[q].space # Space => pte'[q] = pte[q]
  PROVE  InService'
<1> USE VMSentinels
<1>1. Live' = Live
  BY DEF Live
<1>2. \A s \in Live : s # Space
  BY SMT, Z3 DEF TreeInv, CallOK, TypeOK, Live, Space
<1>3. ASSUME NEW s \in Live PROVE Maps(pagetable[s], Done(s, UserMaps))'
  <2>1. PICK r : r = pagetable[s]
    OBVIOUS
  <2>2. pagetable'[s] = r /\ r \in Busy /\ owner[r].space = s /\ owner[r].level = 2
    BY <2>1, ServiceRoots
  <2>3. \A q \in Busy : owner[q].space = owner[r].space => pte'[q] = pte[q]
    BY <1>2, <2>2
  <2> DEFINE M == Done(s, UserMaps)
  <2>4. Shaped(r, Tops(M), Middles(M), M) /\ Fits(Tops(M), Middles(M))
    BY <2>1, ServiceRoots DEF InService, Maps
  <2> HIDE DEF M
  <2>5. Shaped(r, Tops(M), Middles(M), M)'
    BY <2>2, <2>3, <2>4, ShapedKept
  <2> QED BY <2>2, <2>5 DEF Maps, M
<1>4. ASSUME kernel_pt' # NULL, fn' # "kernel_pagetable"
      PROVE  Maps(kernel_pt, Done(KERNEL, KernelMappings))'
  <2>1. PICK r : r = kernel_pt
    OBVIOUS
  <2>2. kernel_pt' = r /\ r \in Busy /\ owner[r].space = KERNEL /\ owner[r].level = 2
        /\ Space # KERNEL
    BY <1>4, <2>1, ServiceRoots DEF TreeInv, TypeOK, Space
  <2>3. \A q \in Busy : owner[q].space = owner[r].space => pte'[q] = pte[q]
    BY <2>2
  <2> DEFINE M == Done(KERNEL, KernelMappings)
  <2>4. Shaped(r, Tops(M), Middles(M), M) /\ Fits(Tops(M), Middles(M))
    BY <1>4, <2>1, <2>2, ServiceRoots DEF InService, Maps
  <2> HIDE DEF M
  <2>5. Shaped(r, Tops(M), Middles(M), M)'
    BY <2>2, <2>3, <2>4, ShapedKept
  <2> QED BY <2>2, <2>5 DEF Maps, M
<1> QED
  BY <1>1, <1>3, <1>4 DEF InService

(* Where pt_pool does not change, no page table changes its shape.         *)
LEMMA ShapedSame ==
  ASSUME NEW r, NEW A, NEW B, NEW M, pte' = pte
  PROVE  Shaped(r, A, B, M)' <=> Shaped(r, A, B, M)
  BY DEF Shaped, Middle, Bottom, Valid

(* No table gets a second parent while no entry changes.                   *)
LEMMA OneParentSame ==
  ASSUME OneParent, UNCHANGED <<pte, owner>>, Busy' \subseteq Busy
  PROVE  OneParent'
  BY DEF OneParent, Valid
(* The shape of a page table whose entries of the last level are kept.     *)
LEMMA ShapedFrom ==
  ASSUME NEW r, NEW A, NEW A1, NEW B, NEW M, Shaped(r, A, B, M),
         \A a \in Index : Valid(pte'[r][a]) <=> a \in A1,
         \A a \in A1, b \in Index : Valid(pte'[Middle(r, a)'][b]) <=> <<a, b>> \in B,
         \A a, b, i \in Index : <<a, b>> \in B =>
           pte'[Bottom(r, a, b)'][i] = pte[Bottom(r, a, b)][i]
  PROVE  Shaped(r, A1, B, M)'
<1>1. \A a, b, i \in Index : <<a, b>> \in B =>
        IF Valid(pte'[Bottom(r, a, b)'][i])
        THEN \E m \in M : Indices(m.va) = <<a, b, i>> /\ m.entry = pte'[Bottom(r, a, b)'][i]
        ELSE \A m \in M : Indices(m.va) # <<a, b, i>>
  BY SMT, Z3 DEF Shaped
<1> QED
  BY <1>1 DEF Shaped, Valid
-----------------------------------------------------------------------------
(* Index j of the table t now leads to the empty table c; the other        *)
(* entries are as they were.                                               *)
Hung(c, t, j) ==
  /\ Valid(pte'[t][j]) /\ pte'[t][j].to = c
  /\ \A q \in Busy, i \in Index : q # t \/ i # j => pte'[q][i] = pte[q][i]
  /\ \A i \in Index : ~Valid(pte'[c][i])

(* mappages hangs an empty table c on index j of the root.                 *)
LEMMA NewTopShaped ==
  ASSUME TreeInv, NEW r \in Busy, owner[r].level = 2,
         NEW A, NEW B, NEW M, Fits(A, B), Shaped(r, A, B, M),
         NEW c, NEW j \in Index, j \notin A, Hung(c, r, j)
  PROVE  Shaped(r, A \cup {j}, B, M)'
<1> USE DEF Hung
<1>1. \A a \in Index : Valid(pte'[r][a]) <=> a \in A \cup {j}
  BY SMT, Z3 DEF Shaped
<1>2. \A a \in A : /\ a \in Index /\ a # j /\ Middle(r, a)' = Middle(r, a)
                   /\ Middle(r, a) \in Busy /\ Middle(r, a) # r
  BY SMT, Z3, ShapedTables DEF Middle, Fits
<1>3. Middle(r, j)' = c
  BY DEF Middle
<1>4. \A a, b : <<a, b>> \in B => a \in A /\ b \in Index
  BY DEF Fits
<1>5. \A a \in A \cup {j}, b \in Index :
        Valid(pte'[Middle(r, a)'][b]) <=> <<a, b>> \in B
  <2> SUFFICES ASSUME NEW a \in A \cup {j}, NEW b \in Index
               PROVE  Valid(pte'[Middle(r, a)'][b]) <=> <<a, b>> \in B
    OBVIOUS
  <2>1. CASE a = j
    BY <1>3, <1>4, <2>1
  <2>2. CASE a \in A
    <3>1. pte'[Middle(r, a)'][b] = pte[Middle(r, a)][b]
      BY <1>2, <2>2
    <3> QED BY <2>2, <3>1 DEF Shaped
  <2> QED BY <2>1, <2>2
<1>6. \A a, b, i \in Index : <<a, b>> \in B =>
        pte'[Bottom(r, a, b)'][i] = pte[Bottom(r, a, b)][i]
  <2> SUFFICES ASSUME NEW a \in Index, NEW b \in Index, NEW i \in Index, <<a, b>> \in B
               PROVE  pte'[Bottom(r, a, b)'][i] = pte[Bottom(r, a, b)][i]
    OBVIOUS
  <2>1. Bottom(r, a, b)' = Bottom(r, a, b)
    BY SMT, Z3, <1>2, <1>4 DEF Bottom
  <2>2. Bottom(r, a, b) \in Busy /\ owner[Bottom(r, a, b)].level = 0
    BY SMT, Z3, ShapedTables
  <2> QED BY SMT, Z3, <2>1, <2>2
<1> QED
  BY <1>1, <1>5, <1>6, ShapedFrom

(* The same below the root: at index j of the table of index x.            *)
LEMMA NewMiddleShaped ==
  ASSUME TreeInv, OneParent, NEW r \in Busy, owner[r].level = 2,
         NEW A, NEW B, NEW M, Fits(A, B), Shaped(r, A, B, M),
         \A m \in M : <<vpn(m.va, 2), vpn(m.va, 1)>> \in B,
         NEW c, NEW x \in A, NEW j \in Index, <<x, j>> \notin B,
         NEW t, t = Middle(r, x), Hung(c, t, j)
  PROVE  Shaped(r, A, B \cup {<<x, j>>}, M)'
<1> USE DEF Hung
<1>1. t \in Busy /\ t # r
  BY SMT, Z3, ShapedTables
<1>2. \A a \in A : /\ a \in Index /\ Middle(r, a)' = Middle(r, a)
                   /\ Middle(r, a) \in Busy
                   /\ Middle(r, a) = t <=> a = x
  BY SMT, Z3, <1>1, ShapedTables DEF Middle, Fits
<1>3. \A a \in Index : Valid(pte'[r][a]) <=> a \in A
  BY SMT, Z3, <1>1 DEF Shaped
<1>4. \A a, b : <<a, b>> \in B => a \in A /\ b \in Index
  BY DEF Fits
<1>5. \A a \in A, b \in Index :
        Valid(pte'[Middle(r, a)'][b]) <=> <<a, b>> \in B \cup {<<x, j>>}
  <2> SUFFICES ASSUME NEW a \in A, NEW b \in Index
               PROVE  Valid(pte'[Middle(r, a)'][b]) <=> <<a, b>> \in B \cup {<<x, j>>}
    OBVIOUS
  <2>1. CASE a = x /\ b = j
    BY <1>2, <2>1
  <2>2. CASE ~(a = x /\ b = j)
    <3>1. pte'[Middle(r, a)'][b] = pte[Middle(r, a)][b]
      BY SMT, Z3, <1>2, <2>2
    <3>2. Valid(pte[Middle(r, a)][b]) <=> <<a, b>> \in B
      BY DEF Shaped
    <3> QED BY <2>2, <3>1, <3>2
  <2> QED BY <2>1, <2>2
<1>6. \A a, b, i \in Index : <<a, b>> \in B =>
        pte'[Bottom(r, a, b)'][i] = pte[Bottom(r, a, b)][i]
  <2> SUFFICES ASSUME NEW a \in Index, NEW b \in Index, NEW i \in Index, <<a, b>> \in B
               PROVE  pte'[Bottom(r, a, b)'][i] = pte[Bottom(r, a, b)][i]
    OBVIOUS
  <2>1. a \in A /\ ~(a = x /\ b = j)
    BY <1>4
  <2>2. Bottom(r, a, b)' = Bottom(r, a, b)
    BY SMT, Z3, <1>2, <2>1 DEF Bottom
  <2>3. Bottom(r, a, b) \in Busy /\ owner[Bottom(r, a, b)].level = 0
    BY SMT, Z3, ShapedTables
  <2>4. owner[t].level = 1
    BY SMT, Z3, ShapedTables
  <2> QED BY SMT, Z3, <2>2, <2>3, <2>4
<1>7. Bottom(r, x, j)' = c
  BY <1>2 DEF Bottom
<1>8. \A i \in Index, m \in M : Indices(m.va) # <<x, j, i>>
  BY DEF Indices
<1>9. \A a, b, i \in Index : <<a, b>> \in B \cup {<<x, j>>} =>
        IF Valid(pte'[Bottom(r, a, b)'][i])
        THEN \E m \in M : Indices(m.va) = <<a, b, i>> /\ m.entry = pte'[Bottom(r, a, b)'][i]
        ELSE \A m \in M : Indices(m.va) # <<a, b, i>>
  <2> SUFFICES ASSUME NEW a \in Index, NEW b \in Index, NEW i \in Index,
                      <<a, b>> \in B \cup {<<x, j>>}
               PROVE  IF Valid(pte'[Bottom(r, a, b)'][i])
                      THEN \E m \in M : /\ Indices(m.va) = <<a, b, i>>
                                        /\ m.entry = pte'[Bottom(r, a, b)'][i]
                      ELSE \A m \in M : Indices(m.va) # <<a, b, i>>
    OBVIOUS
  <2>1. CASE <<a, b>> \in B
    <3>1. pte'[Bottom(r, a, b)'][i] = pte[Bottom(r, a, b)][i]
      BY <1>6, <2>1
    <3> QED BY SMT, Z3, <2>1, <3>1 DEF Shaped
  <2>2. CASE <<a, b>> = <<x, j>>
    <3>1. a = x /\ b = j
      BY <2>2
    <3>2. ~Valid(pte'[Bottom(r, a, b)'][i])
      BY <1>7, <3>1
    <3> QED BY <1>8, <3>1, <3>2
  <2> QED BY <2>1, <2>2
<1> QED
  BY <1>3, <1>5, <1>9 DEF Shaped, Valid
(* mappages enters the mapping x at index j of the last level.             *)
LEMMA NewLeafShaped ==
  ASSUME TreeInv, OneParent, NEW r \in Busy, owner[r].level = 2,
         NEW A, NEW B, NEW M, Fits(A, B), Shaped(r, A, B, M),
         NEW a0 \in Index, NEW b0 \in Index, <<a0, b0>> \in B, NEW j \in Index,
         NEW t, t = Bottom(r, a0, b0),
         NEW x, Indices(x.va) = <<a0, b0, j>>,
         Valid(pte'[t][j]), pte'[t][j] = x.entry,
         \A q \in Busy, i \in Index : q # t \/ i # j => pte'[q][i] = pte[q][i]
  PROVE  Shaped(r, A, B, M \cup {x})'
<1>1. t \in Busy /\ owner[t].level = 0
  BY SMT, Z3, ShapedTables
<1>2. \A a \in A : /\ a \in Index /\ Middle(r, a)' = Middle(r, a)
                   /\ Middle(r, a) \in Busy /\ Middle(r, a) # t
  BY SMT, Z3, <1>1, ShapedTables DEF Middle, Fits
<1>3. \A a \in Index : Valid(pte'[r][a]) <=> a \in A
  BY SMT, Z3, <1>1 DEF Shaped
<1>4. \A a, b : <<a, b>> \in B => a \in A /\ b \in Index
  BY DEF Fits
<1>5. \A a \in A, b \in Index : Valid(pte'[Middle(r, a)'][b]) <=> <<a, b>> \in B
  <2> SUFFICES ASSUME NEW a \in A, NEW b \in Index
               PROVE  Valid(pte'[Middle(r, a)'][b]) <=> <<a, b>> \in B
    OBVIOUS
  <2>1. pte'[Middle(r, a)'][b] = pte[Middle(r, a)][b]
    BY <1>2
  <2> QED BY <2>1 DEF Shaped
<1>6. \A a, b, i \in Index : <<a, b>> \in B =>
        IF Valid(pte'[Bottom(r, a, b)'][i])
        THEN \E m \in M \cup {x} :
               Indices(m.va) = <<a, b, i>> /\ m.entry = pte'[Bottom(r, a, b)'][i]
        ELSE \A m \in M \cup {x} : Indices(m.va) # <<a, b, i>>
  <2> SUFFICES ASSUME NEW a \in Index, NEW b \in Index, NEW i \in Index, <<a, b>> \in B
               PROVE  IF Valid(pte'[Bottom(r, a, b)'][i])
                      THEN \E m \in M \cup {x} : /\ Indices(m.va) = <<a, b, i>>
                                                 /\ m.entry = pte'[Bottom(r, a, b)'][i]
                      ELSE \A m \in M \cup {x} : Indices(m.va) # <<a, b, i>>
    OBVIOUS
  <2>1. Bottom(r, a, b)' = Bottom(r, a, b)
    BY SMT, Z3, <1>2, <1>4 DEF Bottom
  <2>2. Bottom(r, a, b) \in Busy /\ (Bottom(r, a, b) = t => a = a0 /\ b = b0)
    BY ShapedTables
  <2>3. CASE a = a0 /\ b = b0 /\ i = j
    BY <2>1, <2>3
  <2>4. CASE ~(a = a0 /\ b = b0 /\ i = j)
    <3>1. pte'[Bottom(r, a, b)'][i] = pte[Bottom(r, a, b)][i]
      BY <2>1, <2>2, <2>4
    <3>2. Indices(x.va) # <<a, b, i>>
      BY SMT, Z3, <2>4
    <3>3. IF Valid(pte[Bottom(r, a, b)][i])
          THEN \E m \in M : Indices(m.va) = <<a, b, i>> /\ m.entry = pte[Bottom(r, a, b)][i]
          ELSE \A m \in M : Indices(m.va) # <<a, b, i>>
      BY SMT, Z3 DEF Shaped
    <3> QED BY <3>1, <3>2, <3>3
  <2> QED BY <2>3, <2>4
<1> QED
  BY <1>3, <1>5, <1>6 DEF Shaped, Valid

(* A fresh page, empty, that at most one new entry leads to.               *)
LEMMA OneParentNew ==
  ASSUME TreeInv, OneParent, NEW c, c \notin Busy, Busy' = Busy \cup {c},
         \A q \in Busy : owner'[q] = owner[q],
         \A i \in Index : ~Valid(pte'[c][i]),
         NEW t, NEW j,
         \A q \in Busy, i \in Index : q # t \/ i # j => pte'[q][i] = pte[q][i],
         t \in Busy => pte'[t][j].to = c
  PROVE  OneParent'
<1> SUFFICES ASSUME NEW q \in Busy', NEW r \in Busy', NEW i \in Index, NEW k \in Index,
                    owner'[q].level > 0, owner'[r].level > 0,
                    Valid(pte'[q][i]), Valid(pte'[r][k]), pte'[q][i].to = pte'[r][k].to
             PROVE  q = r /\ i = k
  BY SMT, Z3 DEF OneParent, Valid
<1>1. q \in Busy /\ r \in Busy /\ owner[q].level > 0 /\ owner[r].level > 0
  OBVIOUS
<1>2. owner[q].level # 0 /\ owner[r].level # 0
  BY SMT, Z3, <1>1
<1>3. \A x \in Busy, y \in Index : owner[x].level # 0 /\ Valid(pte[x][y]) =>
        pte[x][y].to # c
  BY EntryDown
<1>4. CASE q = t /\ i = j
  <2>1. CASE r = t /\ k = j
    BY <1>4, <2>1
  <2>2. CASE ~(r = t /\ k = j)
    BY <1>1, <1>2, <1>3, <1>4, <2>2
  <2> QED BY <2>1, <2>2
<1>5. CASE ~(q = t /\ i = j)
  <2>1. CASE r = t /\ k = j
    BY SMT, Z3, <1>1, <1>2, <1>3, <1>5, <2>1
  <2>2. CASE ~(r = t /\ k = j)
    BY SMT, Z3, <1>1, <1>5, <2>2 DEF OneParent
  <2> QED BY <2>1, <2>2
<1> QED
  BY <1>4, <1>5

-----------------------------------------------------------------------------
(* mappages maps what it was asked for, as the n-th of the mappings.       *)
LEMMA MappingIs ==
  ASSUME TreeInv, Building
  PROVE  /\ Mapping = MappingOf(slot, n) /\ n \in 0 .. UserMaps-1
         /\ n + 1 <= Mappings /\ n <= Mappings /\ n # Mappings
         /\ n \in Nat /\ n \in 0 .. UserMaps
         /\ Mapping.va \in Nat /\ \A l \in 0 .. 2 : vpn(Mapping.va, l) \in Index
         /\ pt # NULL /\ fn # "none"
<1>1. /\ n \in 0 .. UserMaps-1 /\ n \in Nat /\ n \in 0 .. UserMaps
      /\ n + 1 <= Mappings /\ n <= Mappings /\ n # Mappings
  BY SMT, Z3, VMAssumption DEF TreeInv, TypeOK, Building, Mappings, UserMaps, KernelMappings,
                      UserMappings
<1>2. Mapping.va \in Nat
  BY MappingType DEF TreeInv
<1>3. pt # NULL /\ fn # "none"
  BY DEF TreeInv, CallOK, Building
<1> QED
  BY <1>1, <1>2, <1>3, VpnInTable DEF Mapping, MappingOf, UserMapping

(* TakeRoot starts with an empty root.                                     *)
LEMMA TakeRootMaps == TreeInv /\ MapInv /\ TakeRoot => MapInv'
<1> SUFFICES ASSUME TreeInv, MapInv, TakeRoot PROVE MapInv'
  OBVIOUS
<1>0. PICK c : c = FirstFree
  OBVIOUS
<1>1. c \in Pages /\ c \notin used /\ c # NULL
  BY <1>0, FirstFreeIsFree DEF TakeRoot
<1>2. /\ used' = used \cup {c} /\ lost' = lost /\ pte' = NewTable(c)
      /\ owner' = [owner EXCEPT ![c] = [space |-> Space, level |-> 2]]
      /\ fn # "none" /\ pt' = c /\ p' = c /\ level' = 2 /\ n' = 0
      /\ kernel_pt' = kernel_pt \/ fn = "kernel_pagetable"
      /\ UNCHANGED <<fn, slot, pagetable>>
  BY <1>0 DEF TakeRoot, Allocated
<1>3. Busy' = Busy \cup {c} /\ c \notin Busy
  BY <1>1, <1>2 DEF Busy, TreeInv, TypeOK
<1>4. /\ \A q \in Busy : owner'[q] = owner[q] /\ pte'[q] = pte[q]
      /\ \A i \in Index : ~Valid(pte'[c][i])
  BY <1>1, <1>2 DEF TreeInv, TypeOK, Busy, NewTable, Cleared, Invalid, Valid
<1>5. InService'
  BY <1>2, <1>4, ServiceKept DEF MapInv
<1>6. OneParent'
  <2>1. NULL \notin Busy
    BY VMSentinels DEF Busy, TreeInv, TypeOK
  <2> QED BY <1>3, <1>4, <2>1, OneParentNew DEF MapInv
<1>7. InWork'
  <2>1. Done(slot', 0) = {}
    BY SMT, Z3 DEF Done
  <2>2. Tops({}) = {} /\ Middles({}) = {}
    BY DEF Tops, Middles
  <2>3. TopsNow' = {} /\ MiddlesNow' = {} /\ Done(slot, n)' = {}
    BY SMT, Z3, <1>2, <2>1, <2>2 DEF TopsNow, MiddlesNow
  <2>4. Shaped(c, {}, {}, {})'
    BY <1>4 DEF Shaped, Valid
  <2>5. 0 <= Mappings' /\ 0 # Mappings'
    BY SMT, Z3, VMAssumption DEF Mappings, KernelMappings, UserMappings
  <2>6. n' <= Mappings' /\ Here'
    BY SMT, Z3, <1>2, <2>5 DEF Here
  <2>7. Shaped(pt, TopsNow, MiddlesNow, Done(slot, n))'
    BY <1>2, <2>3, <2>4 DEF Shaped
  <2> QED BY <2>6, <2>7 DEF InWork
<1> QED
  BY <1>5, <1>6, <1>7 DEF MapInv
(* The page table under construction, while mappages works on it.          *)
LEMMA WorkShape ==
  ASSUME TreeInv, MapInv, Building
  PROVE  /\ Fits(TopsNow, MiddlesNow)
         /\ Shaped(pt, TopsNow, MiddlesNow, Done(slot, n))
         /\ \A m \in Done(slot, n) : <<vpn(m.va, 2), vpn(m.va, 1)>> \in MiddlesNow
         /\ pt \in Busy /\ owner[pt].space = Space /\ owner[pt].level = 2
         /\ p \in Busy /\ owner[p].space = Space /\ owner[p].level = level
         /\ level \in 0 .. 2 /\ Here
<1>1. n \in 0 .. UserMaps /\ \A l \in 0 .. 2 : vpn(Mapping.va, l) \in Index
  BY MappingIs
<1>2. Fits(Tops(Done(slot, n)), Middles(Done(slot, n)))
  BY <1>1, DoneFits
<1>3. vpn(Mapping.va, 2) \in Index /\ vpn(Mapping.va, 1) \in Index
  BY SMT, Z3, <1>1
<1>4. level \in 0 .. 2
  BY DEF TreeInv, TypeOK
<1>5. Fits(TopsNow, MiddlesNow)
  BY SMT, Z3, <1>2, <1>3, <1>4 DEF Fits, TopsNow, MiddlesNow
<1>6. \A m \in Done(slot, n) : <<vpn(m.va, 2), vpn(m.va, 1)>> \in MiddlesNow
  BY DEF MiddlesNow, Middles
<1>7. pt # NULL
  BY DEF Building
<1> QED
  BY <1>4, <1>5, <1>6, <1>7, ServiceRoots DEF MapInv, InWork

(* Descend: the table was there for another page.                          *)
LEMMA DescendMaps == TreeInv /\ MapInv /\ Descend => MapInv'
<1> SUFFICES ASSUME TreeInv, MapInv, Descend PROVE MapInv'
  OBVIOUS
<1>1. /\ Building /\ level > 0 /\ Valid(Entry) /\ p' = Entry.to /\ level' = level - 1
      /\ UNCHANGED <<used, pte, owner, lost, fn, slot, pt, n, kernel_pt, pagetable>>
  BY DEF Descend, tree
<1>2. fn # "none" /\ pt # NULL /\ n <= Mappings /\ n # Mappings
  BY <1>1, MappingIs
<1>3. InService'
  BY <1>1, <1>2, ServiceKept DEF MapInv
<1>4. OneParent'
  BY <1>1, OneParentSame DEF MapInv, Busy
<1>5. PICK A, B, M, r : A = TopsNow /\ B = MiddlesNow /\ M = Done(slot, n) /\ r = pt
  OBVIOUS
<1>6. Mapping' = Mapping /\ Mappings' = Mappings /\ Done(slot, n)' = M
  BY <1>1, <1>5 DEF Mapping, Mappings, UserMapping, Done, MappingOf
<1>7. Shaped(r, A, B, M) /\ Shaped(r, A, B, M)'
  BY <1>1, <1>5, WorkShape, ShapedSame
<1>8. /\ level \in 1 .. 2 /\ Here /\ A \subseteq Index
      /\ vpn(Mapping.va, 2) \in Index /\ vpn(Mapping.va, 1) \in Index
  BY SMT, Z3, <1>1, <1>5, WorkShape, MappingIs DEF Fits
<1>9. TopsNow' = A /\ MiddlesNow' = B /\ Here'
  <2>1. CASE level = 2
    <3>1. p = r /\ Entry = pte[r][vpn(Mapping.va, 2)]
      BY <1>5, <1>8, <2>1 DEF Here, Entry
    <3>2. vpn(Mapping.va, 2) \in A
      BY <1>1, <1>7, <1>8, <3>1 DEF Shaped
    <3>3. TopsNow' = A
      BY SMT, Z3, <1>1, <1>5, <1>6, <2>1, <3>2 DEF TopsNow
    <3>4. MiddlesNow' = B
      BY SMT, Z3, <1>1, <1>5, <1>6, <2>1 DEF MiddlesNow
    <3>5. p' = Middle(pt, vpn(Mapping.va, 2))'
      BY <1>1, <1>5, <1>6, <3>1 DEF Middle
    <3>6. Here'
      BY SMT, Z3, <1>1, <1>2, <1>6, <2>1, <3>5 DEF Here
    <3> QED BY <3>3, <3>4, <3>6
  <2>2. CASE level = 1
    <3>1. p = Middle(r, vpn(Mapping.va, 2)) /\ Entry = pte[p][vpn(Mapping.va, 1)]
      BY <1>5, <1>8, <2>2 DEF Here, Entry
    <3>2. vpn(Mapping.va, 2) \in A
      BY SMT, Z3, <1>5, <2>2 DEF TopsNow
    <3>3. <<vpn(Mapping.va, 2), vpn(Mapping.va, 1)>> \in B
      BY <1>1, <1>7, <1>8, <3>1, <3>2 DEF Shaped
    <3>4. TopsNow' = A
      BY SMT, Z3, <1>1, <1>5, <1>6, <2>2 DEF TopsNow
    <3>5. MiddlesNow' = B
      BY SMT, Z3, <1>1, <1>5, <1>6, <2>2, <3>3 DEF MiddlesNow
    <3>6. p' = Bottom(pt, vpn(Mapping.va, 2), vpn(Mapping.va, 1))'
      BY <1>1, <1>5, <1>6, <3>1 DEF Bottom, Middle
    <3>7. Here'
      BY SMT, Z3, <1>1, <1>2, <1>6, <2>2, <3>6 DEF Here
    <3> QED BY <3>4, <3>5, <3>7
  <2> QED BY SMT, Z3, <1>8, <2>1, <2>2
<1>10. Shaped(pt, TopsNow, MiddlesNow, Done(slot, n))'
  BY <1>1, <1>5, <1>6, <1>7, <1>9 DEF Shaped
<1>11. InWork'
  BY <1>1, <1>2, <1>6, <1>9, <1>10 DEF InWork
<1> QED
  BY <1>3, <1>4, <1>11 DEF MapInv

(* AddTable: one table more, for the page being mapped.                    *)
LEMMA AddTableMaps == TreeInv /\ MapInv /\ AddTable => MapInv'
<1> SUFFICES ASSUME TreeInv, MapInv, AddTable PROVE MapInv'
  OBVIOUS
<1>0. PICK c, j, t : c = FirstFree /\ j = vpn(Mapping.va, level) /\ t = p
  OBVIOUS
<1>1. /\ Building /\ level > 0 /\ ~Valid(pte[t][j])
      /\ c \in Pages /\ c \notin used
      /\ used' = used \cup {c} /\ lost' = lost
      /\ pte' = [NewTable(c) EXCEPT ![t][j] = Table(c)]
      /\ owner' = [owner EXCEPT ![c] = [space |-> Space, level |-> level - 1]]
      /\ p' = c /\ level' = level - 1
      /\ UNCHANGED <<fn, slot, pt, n, kernel_pt, pagetable>>
  BY <1>0, FirstFreeIsFree DEF AddTable, Allocated, Entry
<1>2. fn # "none" /\ pt # NULL /\ n <= Mappings /\ n # Mappings
  BY <1>1, MappingIs
<1>3. PICK A, B, M, r : A = TopsNow /\ B = MiddlesNow /\ M = Done(slot, n) /\ r = pt
  OBVIOUS
<1>4. /\ Fits(A, B) /\ Shaped(r, A, B, M)
      /\ \A m \in M : <<vpn(m.va, 2), vpn(m.va, 1)>> \in B
      /\ r \in Busy /\ owner[r].level = 2
      /\ t \in Busy /\ owner[t].space = Space
      /\ level \in 1 .. 2 /\ Here
  BY SMT, Z3, <1>0, <1>1, <1>3, WorkShape
<1>5. j \in Index /\ vpn(Mapping.va, 2) \in Index /\ vpn(Mapping.va, 1) \in Index
  BY SMT, Z3, <1>0, <1>1, <1>4, MappingIs
<1>6. Busy' = Busy \cup {c} /\ c \notin Busy /\ t \in Pages /\ t # c
  BY <1>1, <1>4 DEF Busy, TreeInv, TypeOK
<1>7. /\ \A q \in Busy : owner'[q] = owner[q] /\ (q # t => pte'[q] = pte[q])
      /\ \A q \in Busy, i \in Index : q # t \/ i # j => pte'[q][i] = pte[q][i]
      /\ \A i \in Index : ~Valid(pte'[c][i])
      /\ pte'[t][j] = Table(c)
  <2>1. \A q \in Busy : q \in Pages /\ q # c
    BY <1>6 DEF Busy, TreeInv, TypeOK
  <2>2. /\ pte \in [Pages -> [Index -> Entries]]
        /\ owner \in [Pages -> [space : Spaces, level : 0 .. 2] \cup {NULL}]
    BY DEF TreeInv, TypeOK
  <2>3. \A i \in Index : ~Valid(pte'[c][i])
    BY <1>1, <1>6, <2>2 DEF NewTable, Cleared, Invalid, Valid
  <2>4. \A q \in Busy : owner'[q] = owner[q] /\ (q # t => pte'[q] = pte[q])
    BY <1>1, <2>1, <2>2 DEF NewTable
  <2>5. \A q \in Busy, i \in Index : q # t \/ i # j => pte'[q][i] = pte[q][i]
    BY <1>1, <2>1, <2>2 DEF NewTable
  <2>6. pte'[t][j] = Table(c)
    BY <1>1, <1>5, <1>6, <2>2 DEF NewTable
  <2> QED BY <2>3, <2>4, <2>5, <2>6
<1>8. InService'
  <2>1. \A q \in Busy : owner[q].space # Space => pte'[q] = pte[q]
    BY <1>4, <1>7
  <2> QED BY <1>1, <1>2, <2>1, ServiceKept DEF MapInv
<1>9. pte'[t][j].to = c /\ Valid(pte'[t][j])
  BY SMT, Z3, <1>7, VMSentinels DEF Table, Valid
<1>10. Hung(c, t, j)
  BY <1>7, <1>9 DEF Hung
<1>11. OneParent'
  BY SMT, Z3, <1>6, <1>7, <1>9, OneParentNew DEF MapInv
<1>12. Mapping' = Mapping /\ Mappings' = Mappings /\ Done(slot, n)' = M
  BY <1>1, <1>3 DEF Mapping, Mappings, UserMapping, Done, MappingOf
<1>13. Shaped(pt, TopsNow, MiddlesNow, Done(slot, n))' /\ Here'
  <2>1. CASE level = 2
    <3>1. t = r /\ j = vpn(Mapping.va, 2)
      BY <1>0, <1>3, <1>4, <2>1 DEF Here
    <3>2. j \notin A
      BY <1>1, <1>4, <1>5, <3>1 DEF Shaped
    <3>3. Shaped(r, A \cup {j}, B, M)'
      BY <1>4, <1>5, <1>10, <3>1, <3>2, NewTopShaped
    <3>4. TopsNow' = A \cup {j}
      BY SMT, Z3, <1>1, <1>3, <1>12, <2>1, <3>1 DEF TopsNow
    <3>5. MiddlesNow' = B
      BY SMT, Z3, <1>1, <1>3, <1>12, <2>1 DEF MiddlesNow
    <3>6. p' = Middle(pt, vpn(Mapping.va, 2))'
      BY <1>1, <1>3, <1>9, <1>12, <3>1 DEF Middle
    <3>7. Here'
      BY SMT, Z3, <1>1, <1>2, <1>12, <2>1, <3>6 DEF Here
    <3> QED BY SMT, Z3, <1>1, <1>3, <1>12, <3>3, <3>4, <3>5, <3>7 DEF Shaped
  <2>2. CASE level = 1
    <3>1. PICK x : x = vpn(Mapping.va, 2)
      OBVIOUS
    <3>2. t = Middle(r, x) /\ j = vpn(Mapping.va, 1) /\ x \in A
      BY SMT, Z3, <1>0, <1>3, <1>4, <2>2, <3>1 DEF Here, TopsNow
    <3>3. <<x, j>> \notin B
      BY <1>1, <1>4, <1>5, <3>2 DEF Shaped
    <3>4. Shaped(r, A, B \cup {<<x, j>>}, M)'
      BY <1>4, <1>5, <1>10, <3>2, <3>3, NewMiddleShaped DEF MapInv
    <3>5. TopsNow' = A
      BY SMT, Z3, <1>1, <1>3, <1>12, <2>2 DEF TopsNow
    <3>6. MiddlesNow' = B \cup {<<x, j>>}
      BY SMT, Z3, <1>1, <1>3, <1>12, <2>2, <3>1, <3>2 DEF MiddlesNow
    <3>7. r # t
      BY SMT, Z3, <1>4, <2>2, WorkShape, <1>0, <1>1
    <3>8. Middle(pt, vpn(Mapping.va, 2))' = t
      BY <1>1, <1>3, <1>4, <1>7, <1>12, <3>1, <3>2, <3>7 DEF Middle
    <3>9. p' = Bottom(pt, vpn(Mapping.va, 2), vpn(Mapping.va, 1))'
      BY <1>1, <1>9, <1>12, <3>2, <3>8 DEF Bottom
    <3>10. Here'
      BY SMT, Z3, <1>1, <1>2, <1>12, <2>2, <3>9 DEF Here
    <3> QED BY SMT, Z3, <1>1, <1>3, <1>12, <3>4, <3>5, <3>6, <3>10 DEF Shaped
  <2> QED BY SMT, Z3, <1>4, <2>1, <2>2
<1>14. InWork'
  BY <1>1, <1>2, <1>12, <1>13 DEF InWork
<1> QED
  BY <1>8, <1>11, <1>14 DEF MapInv
(* SetLeaf: the page is mapped, and mappages starts again at the root.     *)
LEMMA SetLeafMaps == TreeInv /\ MapInv /\ SetLeaf => MapInv'
<1> SUFFICES ASSUME TreeInv, MapInv, SetLeaf PROVE MapInv'
  OBVIOUS
<1>0. PICK t, x, a0, b0, j :
        /\ t = p /\ x = Mapping
        /\ a0 = vpn(Mapping.va, 2) /\ b0 = vpn(Mapping.va, 1) /\ j = vpn(Mapping.va, 0)
  OBVIOUS
<1>1. /\ Building /\ level = 0
      /\ pte' = [pte EXCEPT ![t][j] = x.entry]
      /\ p' = pt /\ level' = 2 /\ n' = n + 1
      /\ UNCHANGED <<used, owner, lost, fn, slot, pt, kernel_pt, pagetable>>
  BY <1>0 DEF SetLeaf
<1>2. /\ fn # "none" /\ pt # NULL /\ n + 1 <= Mappings /\ n \in Nat
      /\ x = MappingOf(slot, n) /\ Valid(x.entry)
      /\ a0 \in Index /\ b0 \in Index /\ j \in Index
  BY SMT, Z3, <1>0, <1>1, MappingIs, MappingType DEF TreeInv
<1>3. PICK A, B, M, r : A = TopsNow /\ B = MiddlesNow /\ M = Done(slot, n) /\ r = pt
  OBVIOUS
<1>4. /\ Fits(A, B) /\ Shaped(r, A, B, M)
      /\ r \in Busy /\ owner[r].level = 2
      /\ t \in Busy /\ owner[t].space = Space /\ owner[t].level = 0
      /\ Here
  BY <1>0, <1>1, <1>3, WorkShape
<1>5. /\ \A q \in Busy : q # t => pte'[q] = pte[q]
      /\ \A q \in Busy, i \in Index : q # t \/ i # j => pte'[q][i] = pte[q][i]
      /\ pte'[t][j] = x.entry
  <2>1. pte \in [Pages -> [Index -> Entries]] /\ Busy \subseteq Pages
    BY DEF TreeInv, TypeOK, Busy
  <2> QED BY <1>1, <1>2, <1>4, <2>1
<1>6. InService'
  <2>1. \A q \in Busy : owner[q].space # Space => pte'[q] = pte[q]
    BY <1>4, <1>5
  <2> QED BY <1>1, <1>2, <2>1, ServiceKept DEF MapInv
<1>7. OneParent'
  <2>1. Busy' = Busy /\ owner' = owner
    BY <1>1 DEF Busy
  <2>2. \A q \in Busy : owner[q].level > 0 => pte'[q] = pte[q]
    BY SMT, Z3, <1>4, <1>5
  <2> QED BY SMT, Z3, <2>1, <2>2 DEF MapInv, OneParent, Valid
<1>8. t = Bottom(r, a0, b0) /\ <<a0, b0>> \in B
  BY SMT, Z3, <1>0, <1>1, <1>3, <1>4 DEF Here, MiddlesNow
<1>9. Indices(x.va) = <<a0, b0, j>>
  BY <1>0 DEF Indices
<1>10. Shaped(r, A, B, M \cup {x})'
  <2>1. OneParent /\ Valid(pte'[t][j])
    BY <1>2, <1>5 DEF MapInv
  <2>2. \A q \in Busy, i \in Index : q # t \/ i # j => pte'[q][i] = pte[q][i]
    BY <1>5
  <2> QED BY SMT, Z3, <1>2, <1>4, <1>5, <1>8, <1>9, <2>1, <2>2, NewLeafShaped
<1>11. Done(slot, n)' = M \cup {x} /\ TopsNow' = A /\ MiddlesNow' = B
  <2>1. /\ Done(slot, n + 1) = M \cup {x}
        /\ Tops(Done(slot, n + 1)) = Tops(M) \cup {a0}
        /\ Middles(Done(slot, n + 1)) = Middles(M) \cup {<<a0, b0>>}
    BY SMT, Z3, <1>0, <1>2, <1>3, DoneNext
  <2>2. Done(slot, n)' = Done(slot, n + 1)
    BY <1>1 DEF Done, MappingOf
  <2>3. A = Tops(M) \cup {a0} /\ B = Middles(M) \cup {<<a0, b0>>}
    BY SMT, Z3, <1>0, <1>1, <1>3 DEF TopsNow, MiddlesNow
  <2>4. TopsNow' = Tops(Done(slot, n)') /\ MiddlesNow' = Middles(Done(slot, n)')
    BY SMT, Z3, <1>1 DEF TopsNow, MiddlesNow
  <2> QED BY <2>1, <2>2, <2>3, <2>4
<1>12. n' <= Mappings' /\ Here'
  BY SMT, Z3, <1>1, <1>2 DEF Here, Mappings
<1>13. Shaped(pt, TopsNow, MiddlesNow, Done(slot, n))'
  BY SMT, Z3, <1>1, <1>3, <1>10, <1>11 DEF Shaped
<1>14. InWork'
  BY <1>12, <1>13 DEF InWork
<1> QED
  BY <1>6, <1>7, <1>14 DEF MapInv

(* BuildDone: the table that goes into service has all its mappings.       *)
LEMMA BuildDoneMaps == TreeInv /\ MapInv /\ BuildDone => MapInv'
<1> SUFFICES ASSUME TreeInv, MapInv, BuildDone PROVE MapInv'
  OBVIOUS
<1>1. /\ fn # "kernel_pagetable" /\ pt # NULL /\ n = UserMaps /\ slot \in Slots
      /\ pagetable' = [pagetable EXCEPT ![slot] = pt] /\ fn' = "none" /\ pt' = NULL
      /\ UNCHANGED <<used, pte, owner, lost, kernel_pt>>
  BY DEF BuildDone, Return, tree, Mappings, UserMaps, TreeInv, TypeOK
<1>2. pagetable'[slot] = pt /\ \A s \in Slots \ {slot} : pagetable'[s] = pagetable[s]
  BY <1>1 DEF TreeInv, TypeOK
<1>3. PICK t, r, M : t = slot /\ r = pt /\ M = Done(slot, UserMaps)
  OBVIOUS
<1>4. Shaped(r, Tops(M), Middles(M), M)
  <2>1. level = 2
    BY <1>1 DEF MapInv, InWork, Here, Mappings, UserMaps
  <2>2. TopsNow = Tops(M) /\ MiddlesNow = Middles(M)
    BY SMT, Z3, <1>1, <1>3, <2>1 DEF TopsNow, MiddlesNow
  <2> QED BY <1>1, <1>3, <2>2 DEF MapInv, InWork
<1>5. ASSUME NEW s \in Live' PROVE Maps(pagetable[s], Done(s, UserMaps))'
  <2>1. CASE s = t
    <3>1. Shaped(r, Tops(M), Middles(M), M)'
      BY <1>1, <1>4, ShapedSame
    <3>2. M = Done(s, UserMaps) /\ pagetable'[s] = r
      BY <1>2, <1>3, <2>1
    <3> QED BY <3>1, <3>2 DEF Maps, Shaped
  <2>2. CASE s # t
    <3>1. s \in Live /\ pagetable'[s] = pagetable[s]
      BY <1>2, <1>3, <2>2 DEF Live
    <3>2. PICK q : q = pagetable[s]
      OBVIOUS
    <3>3. Maps(q, Done(s, UserMaps))'
      BY <1>1, <3>1, <3>2, ShapedSame DEF MapInv, InService, Maps
    <3> QED BY <3>1, <3>2, <3>3
  <2> QED BY <2>1, <2>2
<1>6. ASSUME kernel_pt' # NULL PROVE Maps(kernel_pt, Done(KERNEL, KernelMappings))'
  <2>1. PICK q : q = kernel_pt
    OBVIOUS
  <2>2. Maps(q, Done(KERNEL, KernelMappings))'
    BY <1>1, <1>6, <2>1, ShapedSame DEF MapInv, InService, Maps
  <2> QED BY <1>1, <2>1, <2>2
<1>7. InService'
  BY <1>5, <1>6 DEF InService
<1>8. OneParent' /\ InWork'
  BY <1>1, OneParentSame DEF MapInv, InWork, Busy
<1> QED
  BY <1>7, <1>8 DEF MapInv
(* The steps that write no entry and put no table into service.            *)
LEMMA ServiceSame ==
  ASSUME InService, pte' = pte,
         \A s \in Slots : pagetable'[s] = NULL \/ pagetable'[s] = pagetable[s],
         \/ kernel_pt' = NULL \/ fn' = "kernel_pagetable"
         \/ kernel_pt' = kernel_pt /\ fn # "kernel_pagetable"
  PROVE  InService'
<1>1. ASSUME NEW s \in Live' PROVE Maps(pagetable[s], Done(s, UserMaps))'
  <2>1. s \in Live /\ pagetable'[s] = pagetable[s]
    BY DEF Live
  <2>2. PICK q : q = pagetable[s]
    OBVIOUS
  <2>3. Maps(q, Done(s, UserMaps))'
    BY <2>1, <2>2, ShapedSame DEF InService, Maps
  <2> QED BY <2>1, <2>2, <2>3
<1>2. ASSUME kernel_pt' # NULL, fn' # "kernel_pagetable"
      PROVE  Maps(kernel_pt, Done(KERNEL, KernelMappings))'
  <2>1. PICK q : q = kernel_pt
    OBVIOUS
  <2>2. Maps(q, Done(KERNEL, KernelMappings))'
    BY <1>2, <2>1, ShapedSame DEF InService, Maps
  <2> QED BY <1>2, <2>1, <2>2
<1> QED
  BY <1>1, <1>2 DEF InService

(* Those of them that leave no table under construction.                   *)
LEMMA SameMaps ==
  ASSUME MapInv, UNCHANGED <<pte, owner>>, Busy' \subseteq Busy, pt' = NULL,
         \A s \in Slots : pagetable'[s] = NULL \/ pagetable'[s] = pagetable[s],
         \/ kernel_pt' = NULL \/ fn' = "kernel_pagetable"
         \/ kernel_pt' = kernel_pt /\ fn # "kernel_pagetable"
  PROVE  MapInv'
  BY ServiceSame, OneParentSame DEF MapInv, InWork

(* FirstExitDone: the kernel's page table goes into service.               *)
LEMMA FirstExitDoneMaps == TreeInv /\ MapInv /\ FirstExitDone => MapInv'
<1> SUFFICES ASSUME TreeInv, MapInv, FirstExitDone PROVE MapInv'
  OBVIOUS
<1>1. /\ fn = "kernel_pagetable" /\ pt # NULL /\ n = KernelMappings /\ slot \in Slots
      /\ pagetable' = [pagetable EXCEPT ![slot] = NULL] /\ fn' = "none" /\ pt' = NULL
      /\ kernel_pt = pt /\ used' \subseteq used
      /\ UNCHANGED <<pte, owner, lost, kernel_pt>>
  BY DEF FirstExitDone, DropOwnTable, Release, Gone, Return, Mappings, TreeInv, TypeOK,
         CallOK
<1>2. \A s \in Slots : pagetable'[s] = NULL \/ pagetable'[s] = pagetable[s]
  BY <1>1 DEF TreeInv, TypeOK
<1>3. PICK r, M : r = pt /\ M = Done(KERNEL, KernelMappings)
  OBVIOUS
<1>4. Shaped(r, Tops(M), Middles(M), M)
  <2>1. level = 2
    BY <1>1 DEF MapInv, InWork, Here, Mappings
  <2>2. KernelMappings \in 0 .. KernelMappings
    BY SMT, Z3, VMAssumption DEF KernelMappings
  <2>3. Done(slot, n) = M
    BY <1>1, <1>3, <2>2, KernelDone
  <2>4. TopsNow = Tops(M) /\ MiddlesNow = Middles(M)
    BY SMT, Z3, <2>1, <2>3 DEF TopsNow, MiddlesNow
  <2> QED BY <1>1, <1>3, <2>3, <2>4 DEF MapInv, InWork
<1>5. ASSUME NEW s \in Live' PROVE Maps(pagetable[s], Done(s, UserMaps))'
  <2>1. s \in Live /\ pagetable'[s] = pagetable[s]
    BY <1>2 DEF Live
  <2>2. PICK q : q = pagetable[s]
    OBVIOUS
  <2>3. Maps(q, Done(s, UserMaps))'
    BY <1>1, <2>1, <2>2, ShapedSame DEF MapInv, InService, Maps
  <2> QED BY <2>1, <2>2, <2>3
<1>6. Maps(kernel_pt, Done(KERNEL, KernelMappings))'
  <2>1. Shaped(r, Tops(M), Middles(M), M)'
    BY <1>1, <1>4, ShapedSame
  <2> QED BY <1>1, <1>3, <2>1 DEF Maps, Shaped
<1>7. InService'
  BY <1>5, <1>6 DEF InService
<1>8. OneParent' /\ InWork'
  BY <1>1, OneParentSame DEF MapInv, InWork, Busy
<1> QED
  BY <1>7, <1>8 DEF MapInv

(* Before the first call there is no page table.                           *)
LEMMA InitMaps == Init => MapInv
<1> SUFFICES ASSUME Init PROVE MapInv
  OBVIOUS
<1>1. used = {} /\ kernel_pt = NULL /\ pt = NULL /\ \A s \in Slots : pagetable[s] = NULL
  BY DEF Init
<1> QED
  BY <1>1 DEF MapInv, OneParent, InService, InWork, Busy, Live

(* Every step keeps the mappings of the page tables.                       *)
LEMMA MapStep == TreeInv /\ MapInv /\ [Next]_vars => MapInv'
<1> SUFFICES ASSUME TreeInv, MapInv, [Next]_vars PROVE MapInv'
  OBVIOUS
<1>1. CASE TakeRoot \/ Descend \/ AddTable \/ SetLeaf
  BY <1>1, TakeRootMaps, DescendMaps, AddTableMaps, SetLeafMaps
<1>2. CASE BuildDone \/ FirstExitDone
  BY <1>2, BuildDoneMaps, FirstExitDoneMaps
<1>3. CASE BuildFails
  <2>1. /\ UNCHANGED <<pte, owner>> /\ used' \subseteq used /\ lost' = lost /\ pt' = NULL
        /\ pagetable' = pagetable /\ kernel_pt' = kernel_pt /\ fn # "kernel_pagetable"
    BY <1>3 DEF BuildFails, Release, Return
  <2>2. Busy' \subseteq Busy
    BY <2>1 DEF Busy
  <2> QED BY <2>1, <2>2, SameMaps
<1>4. CASE Fork \/ FirstExit \/ Idle \/ \E s \in Slots : Switch(s)
  <2>1. /\ UNCHANGED <<used, pte, owner, lost, pagetable, kernel_pt>> /\ pt' = NULL
        /\ fn # "kernel_pagetable"
    BY <1>4 DEF Fork, FirstExit, Idle, Switch, tree, call, TreeInv, CallOK
  <2>2. Busy' \subseteq Busy
    BY <2>1 DEF Busy
  <2> QED BY <2>1, <2>2, SameMaps
<1>5. CASE LaterExit \/ FirstExitFails \/ \E s \in Slots : Reap(s)
  <2>1. /\ UNCHANGED <<pte, owner>> /\ used' \subseteq used /\ lost \subseteq lost'
        /\ pt' = NULL
        /\ \E s \in Slots : pagetable' = [pagetable EXCEPT ![s] = NULL]
        /\ kernel_pt' = NULL \/ (kernel_pt' = kernel_pt /\ fn # "kernel_pagetable")
    <3>1. CASE LaterExit
      BY <3>1 DEF LaterExit, DropOwnTable, Release, Gone, call, TreeInv, CallOK, TypeOK
    <3>2. CASE FirstExitFails
      BY <3>2 DEF FirstExitFails, Release, Gone, Return, TreeInv, TypeOK
    <3>3. CASE \E s \in Slots : Reap(s)
      BY <3>3 DEF Reap, Release, call, TreeInv, CallOK
    <3> QED BY <1>5, <3>1, <3>2, <3>3
  <2>2. Busy' \subseteq Busy
    BY <2>1 DEF Busy
  <2>3. \A s \in Slots : pagetable'[s] = NULL \/ pagetable'[s] = pagetable[s]
    BY <2>1 DEF TreeInv, TypeOK
  <2> QED BY <2>1, <2>2, <2>3, SameMaps
<1>6. CASE \/ \E va \in 0 .. VpnLimit : Store(va)
           \/ \E va \in 0 .. VpnLimit * PGSIZE, len \in 1 .. 2 * PGSIZE : CopyOut(va, len)
  <2>1. /\ UNCHANGED <<used, pte, owner, lost, pagetable, kernel_pt>> /\ pt' = NULL
        /\ fn # "kernel_pagetable"
    BY <1>6 DEF Store, CopyOut, tree, call, TreeInv, CallOK
  <2>2. Busy' \subseteq Busy
    BY <2>1 DEF Busy
  <2> QED BY <2>1, <2>2, SameMaps
<1>7. CASE UNCHANGED vars
  <2>1. UNCHANGED <<used, pte, owner, kernel_pt, pagetable, fn, slot, pt, p, level, n, lost>>
    BY <1>7 DEF vars, tree, call
  <2>2. OneParent'
    BY <2>1, OneParentSame DEF MapInv, Busy
  <2>3. InService'
    BY <2>1, ServiceSame DEF MapInv
  <2>4. Mapping' = Mapping /\ Mappings' = Mappings /\ Done(slot, n)' = Done(slot, n)
    BY <2>1 DEF Mapping, Mappings, UserMapping, Done, MappingOf
  <2>5. TopsNow' = TopsNow /\ MiddlesNow' = MiddlesNow /\ (Here' <=> Here)
    BY <2>1, <2>4 DEF TopsNow, MiddlesNow, Here, Middle, Bottom
  <2>6. PICK r, A, B, M : r = pt /\ A = TopsNow /\ B = MiddlesNow /\ M = Done(slot, n)
    OBVIOUS
  <2>7. Shaped(r, A, B, M)' <=> Shaped(r, A, B, M)
    BY <2>1, ShapedSame
  <2>8. r = pt' /\ A = TopsNow' /\ B = MiddlesNow' /\ M = Done(slot, n)'
    BY <2>1, <2>4, <2>5, <2>6
  <2>9. Shaped(pt, TopsNow, MiddlesNow, Done(slot, n))' <=> Shaped(r, A, B, M)'
    BY <2>8 DEF Shaped
  <2>10. InWork'
    BY <2>1, <2>4, <2>5, <2>6, <2>7, <2>9 DEF MapInv, InWork
  <2> QED BY <2>2, <2>3, <2>10 DEF MapInv
<1> QED
  BY <1>1, <1>2, <1>3, <1>4, <1>5, <1>6, <1>7 DEF Next

(* Every page table has the tables and entries of its mappings, exactly.   *)
THEOREM MapInvariant == Spec => [](TreeInv /\ MapInv)
<1>1. Init => TreeInv /\ MapInv
  BY InitTree, InitMaps
<1>2. (TreeInv /\ MapInv) /\ [Next]_vars => (TreeInv /\ MapInv)'
  BY TreeStep, MapStep
<1> QED
  BY <1>1, <1>2, PTL DEF Spec
(* The walk of a page table with the mappings M finds them, no others.     *)
LEMMA WalkExact ==
  ASSUME NEW r, NEW s, NEW k \in 0 .. UserMaps, Maps(r, Done(s, k)),
         NEW va \in 0 .. VpnLimit
  PROVE  IF Valid(walk_user_pte(r, va))
         THEN [va |-> va, entry |-> walk_user_pte(r, va)] \in Done(s, k)
         ELSE \A m \in Done(s, k) : m.va # va
<1> DEFINE M == Done(s, k)
           e == walk_user_pte(r, va)
           a == vpn(va, 2)
           b == vpn(va, 1)
           c == vpn(va, 0)
<1>1. VpnLimit \in Nat /\ va \in Nat
  BY SMT, Z3, VMAssumption DEF VpnLimit
<1>2. a \in Index /\ b \in Index /\ c \in Index
  BY SMT, Z3, <1>1, VpnInTable
<1>3. \A m \in M : m.va \in 0 .. VpnLimit-1 /\ m = [va |-> m.va, entry |-> m.entry]
  <2> SUFFICES ASSUME NEW j \in 0 .. k-1
               PROVE  /\ MappingOf(s, j).va \in 0 .. VpnLimit-1
                      /\ MappingOf(s, j) = [va |-> MappingOf(s, j).va,
                                            entry |-> MappingOf(s, j).entry]
    BY DEF Done
  <2>1. j \in 0 .. UserMaps-1
    BY SMT, Z3, VMAssumption DEF UserMaps, KernelMappings, UserMappings
  <2> QED BY <2>1, MappingPlace
<1>4. ~Valid(Invalid)
  BY DEF Valid, Invalid
<1>5. Shaped(r, Tops(M), Middles(M), M)
  BY DEF Maps
<1>6. CASE va >= VpnLimit
  <2>1. e = Invalid
    BY <1>6 DEF walk_user_pte
  <2>2. \A m \in M : m.va # va
    BY SMT, Z3, <1>1, <1>3, <1>6
  <2> QED BY <1>4, <2>1, <2>2
<1>7. CASE ~(va >= VpnLimit) /\ ~Valid(pte[r][a])
  <2>1. e = Invalid
    BY <1>7 DEF walk_user_pte
  <2>2. a \notin Tops(M)
    BY <1>2, <1>5, <1>7 DEF Shaped
  <2>3. \A m \in M : m.va # va
    BY <2>2 DEF Tops
  <2> QED BY <1>4, <2>1, <2>3
<1>8. CASE ~(va >= VpnLimit) /\ Valid(pte[r][a]) /\ ~Valid(pte[Middle(r, a)][b])
  <2>1. e = Invalid
    BY <1>8 DEF walk_user_pte, Middle
  <2>2. <<a, b>> \notin Middles(M)
    BY <1>2, <1>5, <1>8 DEF Shaped
  <2>3. \A m \in M : m.va # va
    BY <2>2 DEF Middles
  <2> QED BY <1>4, <2>1, <2>3
<1>9. CASE ~(va >= VpnLimit) /\ Valid(pte[r][a]) /\ Valid(pte[Middle(r, a)][b])
  <2>1. e = pte[Bottom(r, a, b)][c]
    BY <1>9 DEF walk_user_pte, Middle, Bottom
  <2>2. <<a, b>> \in Middles(M)
    BY <1>2, <1>5, <1>9 DEF Shaped
  <2>3. IF Valid(e) THEN \E m \in M : Indices(m.va) = <<a, b, c>> /\ m.entry = e
        ELSE \A m \in M : Indices(m.va) # <<a, b, c>>
    BY SMT, Z3, <1>2, <1>5, <2>1, <2>2 DEF Shaped
  <2>4. Indices(va) = <<a, b, c>> /\ va \in 0 .. VpnLimit-1
    BY SMT, Z3, <1>1, <1>9 DEF Indices
  <2> HIDE DEF e, a, b, c, M
  <2>5. CASE Valid(e)
    <3>1. PICK m \in M : Indices(m.va) = <<a, b, c>> /\ m.entry = e
      BY <2>3, <2>5
    <3>2. m.va = va
      BY <1>3, <2>4, <3>1, IndicesDiffer
    <3>3. [va |-> va, entry |-> e] \in M
      BY <1>3, <3>1, <3>2
    <3> QED BY <2>5, <3>3 DEF e, M
  <2>6. CASE ~Valid(e)
    <3>1. \A m \in M : m.va # va
      BY <2>3, <2>4, <2>6
    <3> QED BY <2>6, <3>1 DEF e, M
  <2> QED BY <2>5, <2>6
<1> QED
  BY <1>6, <1>7, <1>8, <1>9

(* What MapsExactly asks of an address space is what mappages maps there.  *)
LEMMA DoneIsAsked ==
  ASSUME NEW s
  PROVE  /\ Done(s, KernelMappings) = {KernelMapping(i) : i \in 0 .. KernelMappings-1}
         /\ Done(s, UserMaps) = {KernelMapping(i) : i \in 0 .. KernelMappings-1} \cup
                                {UserPage(s, i) : i \in 0 .. UserMappings-1}
<1> DEFINE K == {KernelMapping(i) : i \in 0 .. KernelMappings-1}
           U == {UserPage(s, i) : i \in 0 .. UserMappings-1}
<1>1. KernelMappings \in Nat /\ UserMappings \in Nat /\ UserMaps = KernelMappings + UserMappings
  BY SMT, Z3, VMAssumption DEF KernelMappings, UserMappings, UserMaps
<1>2. \A i \in 0 .. KernelMappings-1 : MappingOf(s, i) = KernelMapping(i)
  BY SMT, Z3, <1>1 DEF MappingOf
<1>3. \A i \in 0 .. UserMappings-1 :
        /\ KernelMappings + i \in 0 .. UserMaps-1
        /\ MappingOf(s, KernelMappings + i) = UserPage(s, i)
  <2> SUFFICES ASSUME NEW i \in 0 .. UserMappings-1
               PROVE  /\ KernelMappings + i \in 0 .. UserMaps-1
                      /\ MappingOf(s, KernelMappings + i) = UserPage(s, i)
    OBVIOUS
  <2>1. /\ KernelMappings + i \in 0 .. UserMaps-1
        /\ ~(KernelMappings + i < KernelMappings)
        /\ (KernelMappings + i) - KernelMappings = i
    BY SMT, Z3, <1>1
  <2> QED BY <2>1 DEF MappingOf
<1>4. \A j \in 0 .. UserMaps-1 : MappingOf(s, j) \in K \cup U
  <2> SUFFICES ASSUME NEW j \in 0 .. UserMaps-1 PROVE MappingOf(s, j) \in K \cup U
    OBVIOUS
  <2>1. CASE j < KernelMappings
    <3>1. j \in 0 .. KernelMappings-1
      BY SMT, Z3, <1>1, <2>1
    <3> QED BY <1>2, <3>1
  <2>2. CASE ~(j < KernelMappings)
    <3>1. j - KernelMappings \in 0 .. UserMappings-1
      BY SMT, Z3, <1>1, <2>2
    <3>2. MappingOf(s, j) = UserPage(s, j - KernelMappings)
      BY <2>2 DEF MappingOf
    <3> QED BY <3>1, <3>2
  <2> QED BY <2>1, <2>2
<1>5. Done(s, KernelMappings) = K
  BY <1>2 DEF Done
<1>6. 0 .. KernelMappings-1 \subseteq 0 .. UserMaps-1
  BY SMT, Z3, <1>1
<1>7. K \subseteq Done(s, UserMaps)
  BY <1>2, <1>6 DEF Done
<1>8. U \subseteq Done(s, UserMaps)
  BY <1>3 DEF Done
<1>9. Done(s, UserMaps) \subseteq K \cup U
  BY <1>4 DEF Done
<1> QED
  BY <1>5, <1>7, <1>8, <1>9

(* Every page table in service maps exactly what was asked for.            *)
THEOREM MapsExactlyHolds == Spec => []MapsExactly
<1>1. TreeInv /\ MapInv => MapsExactly
  <2> SUFFICES ASSUME TreeInv, MapInv, fn = "none" PROVE MapsExactly
    BY DEF MapsExactly
  <2> DEFINE Kernel == {KernelMapping(i) : i \in 0 .. KernelMappings-1}
             User(s) == {UserPage(s, i) : i \in 0 .. UserMappings-1}
             Asked(s) == Kernel \cup (IF s = KERNEL THEN {} ELSE User(s))
             Right(s, root) == \A va \in 0 .. VpnLimit :
               IF ~Valid(walk_user_pte(root, va)) THEN \A m \in Asked(s) : m.va # va
               ELSE [va |-> va, entry |-> walk_user_pte(root, va)] \in Asked(s)
  <2>1. UserMaps \in 0 .. UserMaps /\ KernelMappings \in 0 .. UserMaps
    BY SMT, Z3, ServiceRoots
  <2>2. ASSUME NEW s \in Live PROVE Right(s, pagetable[s])
    <3>1. s # KERNEL /\ Maps(pagetable[s], Done(s, UserMaps))
      BY VMSentinels DEF MapInv, InService, Live
    <3>2. Asked(s) = Done(s, UserMaps)
      BY <3>1, DoneIsAsked
    <3> HIDE DEF Asked
    <3> QED BY SMT, Z3, <2>1, <3>1, <3>2, WalkExact
  <2>3. ASSUME kernel_pt # NULL PROVE Right(KERNEL, kernel_pt)
    <3>1. Maps(kernel_pt, Done(KERNEL, KernelMappings))
      BY <2>3 DEF MapInv, InService
    <3>2. Asked(KERNEL) = Done(KERNEL, KernelMappings)
      BY DoneIsAsked
    <3> HIDE DEF Asked
    <3> QED BY SMT, Z3, <2>1, <3>1, <3>2, WalkExact
  <2> QED BY <2>2, <2>3 DEF MapsExactly
<1> QED
  BY <1>1, MapInvariant, PTL
-----------------------------------------------------------------------------
(* The number of pages of a page table with tables at A and B.             *)
Size(A, B) == 1 + Cardinality(A) + Cardinality(B)

(* A function that is one-to-one counts what it reaches.                   *)
LEMMA ImageCounted ==
  ASSUME NEW S, IsFiniteSet(S), NEW f, DOMAIN f = S,
         f = [x \in S |-> f[x]],
         \A x, y \in S : f[x] = f[y] => x = y
  PROVE  /\ IsFiniteSet({f[x] : x \in S})
         /\ Cardinality({f[x] : x \in S}) = Cardinality(S)
<1> DEFINE T == {f[x] : x \in S}
<1>1. f \in Bijection(S, T)
  BY DEF Bijection, Injection, Surjection, IsInjective
<1>2. ExistsBijection(S, T)
  BY <1>1 DEF ExistsBijection
<1> HIDE DEF T
<1>3. IsFiniteSet(T) /\ Cardinality(T) = Cardinality(S)
  BY <1>2, FS_Bijection
<1> QED
  BY <1>3 DEF T

(* Sets of indices are finite, and so is what is counted of them.          *)
LEMMA FitsFinite ==
  ASSUME NEW A, NEW B, Fits(A, B)
  PROVE  /\ IsFiniteSet(A) /\ IsFiniteSet(B)
         /\ Cardinality(A) \in Nat /\ Cardinality(B) \in Nat /\ Size(A, B) \in Nat
<1>1. IsFiniteSet(Index)
  <2>1. 0 \in Int /\ FAN-1 \in Int
    BY SMT, Z3, VMAssumption
  <2> QED BY <2>1, FS_Interval DEF Index
<1>2. IsFiniteSet(A)
  BY <1>1, FS_Subset DEF Fits
<1>3. IsFiniteSet(A \X Index)
  BY <1>1, <1>2, FS_Product
<1>4. IsFiniteSet(B)
  BY <1>3, FS_Subset DEF Fits
<1>5. Cardinality(A) \in Nat /\ Cardinality(B) \in Nat
  BY <1>2, <1>4, FS_CardinalityType
<1> QED
  BY SMT, Z3, <1>2, <1>4, <1>5 DEF Size

(* Fewer tables, fewer pages.                                              *)
LEMMA SizeGrows ==
  ASSUME NEW A, NEW B, NEW A1, NEW B1, Fits(A1, B1), A \subseteq A1, B \subseteq B1
  PROVE  /\ Size(A, B) <= Size(A1, B1)
         /\ A # A1 \/ B # B1 => Size(A, B) < Size(A1, B1)
<1>1. /\ IsFiniteSet(A1) /\ IsFiniteSet(B1)
      /\ Cardinality(A1) \in Nat /\ Cardinality(B1) \in Nat
  BY FitsFinite
<1>2. /\ IsFiniteSet(A) /\ Cardinality(A) <= Cardinality(A1)
      /\ Cardinality(A1) = Cardinality(A) => A1 = A
  BY <1>1, FS_Subset
<1>3. /\ IsFiniteSet(B) /\ Cardinality(B) <= Cardinality(B1)
      /\ Cardinality(B1) = Cardinality(B) => B1 = B
  BY <1>1, FS_Subset
<1>4. Cardinality(A) \in Nat /\ Cardinality(B) \in Nat
  BY <1>2, <1>3, FS_CardinalityType
<1> QED
  BY SMT, Z3, <1>1, <1>2, <1>3, <1>4 DEF Size

(* pt_destroy_level finds the tables at A and B, each once.                *)
LEMMA TreeSized ==
  ASSUME TreeInv, OneParent, NEW r \in Busy, owner[r].level = 2,
         NEW A, NEW B, NEW M, Fits(A, B), Shaped(r, A, B, M)
  PROVE  IsFiniteSet(Tree(r)) /\ Cardinality(Tree(r)) = Size(A, B)
<1>1. \A q \in Busy, i \in Index : owner[q].level # 0 /\ Valid(pte[q][i]) =>
        pte[q][i].perm = {}
  BY DEF TreeInv, EntriesOK, IsTable
<1>2. Tables(r) = {Middle(r, a) : a \in A}
  <2>1. {j \in Index : Valid(pte[r][j]) /\ pte[r][j].perm = {}} = A
    BY SMT, Z3, <1>1 DEF Shaped, Fits
  <2> QED BY <2>1 DEF Tables, Middle
<1>3. \A a \in A : Tables(Middle(r, a)) = {Bottom(r, a, b) : b \in {i \in Index : <<a, i>> \in B}}
  <2> SUFFICES ASSUME NEW a \in A
               PROVE  Tables(Middle(r, a)) =
                        {Bottom(r, a, b) : b \in {i \in Index : <<a, i>> \in B}}
    OBVIOUS
  <2>1. Middle(r, a) \in Busy /\ owner[Middle(r, a)].level # 0
    BY SMT, Z3, ShapedTables
  <2>2. \A i \in Index : (Valid(pte[Middle(r, a)][i]) /\ pte[Middle(r, a)][i].perm = {})
                           <=> <<a, i>> \in B
    BY <1>1, <2>1 DEF Shaped
  <2>3. {i \in Index : Valid(pte[Middle(r, a)][i]) /\ pte[Middle(r, a)][i].perm = {}}
          = {i \in Index : <<a, i>> \in B}
    BY <2>2
  <2> QED BY <2>3 DEF Tables, Bottom
<1> DEFINE f == [a \in A |-> Middle(r, a)]
           g == [x \in B |-> Bottom(r, x[1], x[2])]
           T1 == {f[a] : a \in A}
           T2 == {g[x] : x \in B}
<1>4. IsFiniteSet(A) /\ IsFiniteSet(B) /\ Cardinality(A) \in Nat /\ Cardinality(B) \in Nat
  BY FitsFinite
<1>5. \A x \in B : x = <<x[1], x[2]>> /\ x[1] \in A /\ x[2] \in Index
  BY SMT, Z3 DEF Fits
<1>6. \A a, x \in A : f[a] = f[x] => a = x
  BY ShapedTables
<1>7. \A x, y \in B : g[x] = g[y] => x = y
  <2> SUFFICES ASSUME NEW x \in B, NEW y \in B,
                      Bottom(r, x[1], x[2]) = Bottom(r, y[1], y[2])
               PROVE  x = y
    OBVIOUS
  <2>1. <<x[1], x[2]>> \in B /\ <<y[1], y[2]>> \in B
    BY <1>5
  <2>2. x[1] = y[1] /\ x[2] = y[2]
    BY SMT, Z3, <2>1, ShapedTables
  <2> QED BY <1>5, <2>2
<1>8. Tree(r) = {r} \cup T1 \cup T2
  <2>1. Tables(r) = T1
    BY <1>2
  <2>2. ASSUME NEW q \in Tables(r), NEW y \in Tables(q) PROVE y \in T2
    <3>1. PICK a \in A : q = Middle(r, a)
      BY <1>2, <2>2
    <3>2. PICK b \in Index : <<a, b>> \in B /\ y = Bottom(r, a, b)
      BY <1>3, <2>2, <3>1
    <3>3. g[<<a, b>>] = y
      BY <3>2
    <3> QED BY <3>2, <3>3
  <2>3. ASSUME NEW x \in B PROVE \E q \in Tables(r) : g[x] \in Tables(q)
    <3>1. x[1] \in A /\ x[2] \in Index /\ <<x[1], x[2]>> \in B /\ g[x] = Bottom(r, x[1], x[2])
      BY <1>5
    <3>2. g[x] \in Tables(Middle(r, x[1]))
      BY <1>3, <3>1
    <3> QED BY <1>2, <3>1, <3>2
  <2> HIDE DEF g, f
  <2>4. UNION {Tables(q) : q \in Tables(r)} = T2
    BY <2>2, <2>3
  <2> QED BY <2>1, <2>4 DEF Tree
<1>9. IsFiniteSet(T1) /\ Cardinality(T1) = Cardinality(A)
  <2>1. f = [a \in A |-> f[a]] /\ DOMAIN f = A
    OBVIOUS
  <2> HIDE DEF f
  <2> QED BY SMT, Z3, <1>4, <1>6, <2>1, ImageCounted
<1>10. IsFiniteSet(T2) /\ Cardinality(T2) = Cardinality(B)
  <2>1. g = [x \in B |-> g[x]] /\ DOMAIN g = B
    OBVIOUS
  <2> HIDE DEF g
  <2> QED BY SMT, Z3, <1>4, <1>7, <2>1, ImageCounted
<1>11. \A q \in T1 : owner[q].level = 1
  BY SMT, Z3, ShapedTables
<1>12. \A q \in T2 : owner[q].level = 0
  <2> SUFFICES ASSUME NEW x \in B PROVE owner[Bottom(r, x[1], x[2])].level = 0
    OBVIOUS
  <2>1. <<x[1], x[2]>> \in B
    BY <1>5
  <2> QED BY SMT, Z3, <2>1, ShapedTables
<1> HIDE DEF T1, T2
<1>13. T1 \cap T2 = {} /\ r \notin T1 \cup T2
  BY SMT, Z3, <1>11, <1>12
<1>14. IsFiniteSet(T1 \cup T2) /\ Cardinality(T1 \cup T2) = Cardinality(A) + Cardinality(B)
  <2>1. Cardinality(T1 \cap T2) = 0
    BY <1>13, FS_EmptySet
  <2>2. /\ IsFiniteSet(T1 \cup T2)
        /\ Cardinality(T1 \cup T2) = Cardinality(T1) + Cardinality(T2) - Cardinality(T1 \cap T2)
    BY <1>9, <1>10, FS_Union
  <2> QED BY SMT, Z3, <1>4, <1>9, <1>10, <2>1, <2>2
<1>15. Tree(r) = (T1 \cup T2) \cup {r}
  BY <1>8
<1> DEFINE T == T1 \cup T2
<1>16. r \notin T /\ IsFiniteSet(T) /\ Cardinality(T) = Cardinality(A) + Cardinality(B)
  BY <1>13, <1>14
<1> HIDE DEF T
<1>17. IsFiniteSet(T \cup {r}) /\ Cardinality(T \cup {r}) = Cardinality(T) + 1
  BY <1>16, FS_AddElement
<1>18. Tree(r) = T \cup {r}
  BY <1>15 DEF T
<1> QED
  BY SMT, Z3, <1>4, <1>16, <1>17, <1>18 DEF Size
(* UserPages and KernPages are the pages that the mappings need.           *)
LEMMA SizeOfSpaces ==
  ASSUME NEW s
  PROVE  /\ UserPages = Size(Tops(Done(s, UserMaps)), Middles(Done(s, UserMaps)))
         /\ KernPages = Size(Tops(Done(s, KernelMappings)), Middles(Done(s, KernelMappings)))
<1>1. \A i : UserPage(s, i).va = UserPage(0, i).va
  BY DEF UserPage
<1> DEFINE K == {KernelMapping(i) : i \in 0 .. KernelMappings-1}
           U == {UserPage(s, i) : i \in 0 .. UserMappings-1}
<1>2. KernelVas = {m.va : m \in K}
  BY DEF KernelVas
<1>3. UserVas = {m.va : m \in U}
  BY <1>1 DEF UserVas
<1>4. Done(s, KernelMappings) = K /\ Done(s, UserMaps) = K \cup U
  BY DoneIsAsked
<1> HIDE DEF K, U
<1>5. ASSUME NEW M, NEW V, V = {m.va : m \in M}
      PROVE  TreeSize(V) = Size(Tops(M), Middles(M))
  <2>1. {vpn(va, 2) : va \in V} = Tops(M)
    BY <1>5 DEF Tops
  <2>2. {<<vpn(va, 2), vpn(va, 1)>> : va \in V} = Middles(M)
    BY <1>5 DEF Middles
  <2> QED BY <2>1, <2>2 DEF TreeSize, Size
<1>6. KernelVas \cup UserVas = {m.va : m \in K \cup U}
  BY <1>2, <1>3
<1> QED
  BY <1>2, <1>4, <1>5, <1>6 DEF UserPages, KernPages

(* A page table in service has the pages its mappings need.                *)
LEMMA ServiceSized ==
  ASSUME TreeInv, MapInv
  PROVE  /\ \A s \in Live : /\ IsFiniteSet(Tree(pagetable[s]))
                            /\ Cardinality(Tree(pagetable[s])) = UserPages
         /\ kernel_pt # NULL /\ fn # "kernel_pagetable" =>
              /\ IsFiniteSet(Tree(kernel_pt))
              /\ Cardinality(Tree(kernel_pt)) = KernPages
         /\ UserPages \in Nat /\ KernPages \in Nat
         /\ UserPages >= 1 /\ KernPages >= 1
<1>1. ASSUME NEW s \in Live
      PROVE  IsFiniteSet(Tree(pagetable[s])) /\ Cardinality(Tree(pagetable[s])) = UserPages
  <2> DEFINE M == Done(s, UserMaps)
  <2>1. /\ pagetable[s] \in Busy /\ owner[pagetable[s]].level = 2
        /\ Fits(Tops(M), Middles(M))
    BY ServiceRoots
  <2>2. OneParent /\ Shaped(pagetable[s], Tops(M), Middles(M), M)
    BY DEF MapInv, InService, Maps
  <2>3. UserPages = Size(Tops(M), Middles(M))
    BY SizeOfSpaces
  <2> HIDE DEF M
  <2> QED BY <2>1, <2>2, <2>3, TreeSized
<1>2. ASSUME kernel_pt # NULL, fn # "kernel_pagetable"
      PROVE  IsFiniteSet(Tree(kernel_pt)) /\ Cardinality(Tree(kernel_pt)) = KernPages
  <2> DEFINE M == Done(KERNEL, KernelMappings)
  <2>1. kernel_pt \in Busy /\ owner[kernel_pt].level = 2 /\ Fits(Tops(M), Middles(M))
    BY <1>2, ServiceRoots
  <2>2. OneParent /\ Shaped(kernel_pt, Tops(M), Middles(M), M)
    BY <1>2 DEF MapInv, InService, Maps
  <2>3. KernPages = Size(Tops(M), Middles(M))
    BY SizeOfSpaces
  <2> HIDE DEF M
  <2> QED BY <2>1, <2>2, <2>3, TreeSized
<1>3. \A M : Fits(Tops(M), Middles(M)) =>
        Size(Tops(M), Middles(M)) \in Nat /\ Size(Tops(M), Middles(M)) >= 1
  BY SMT, Z3, FitsFinite DEF Size
<1>4. UserPages \in Nat /\ KernPages \in Nat /\ UserPages >= 1 /\ KernPages >= 1
  BY <1>3, ServiceRoots, SizeOfSpaces
<1> QED
  BY <1>1, <1>2, <1>4

(* While mappages works, the pages taken so far are those of the tables on *)
(* the way of what it has mapped, and no more than all mappings need.      *)
LEMMA WorkSized ==
  ASSUME TreeInv, MapInv, Building, NEW k \in {KernelMappings, UserMaps}, Mappings = k
  PROVE  /\ IsFiniteSet(Tree(pt)) /\ Cardinality(Tree(pt)) = Size(TopsNow, MiddlesNow)
         /\ TopsNow \subseteq Tops(Done(slot, k))
         /\ MiddlesNow \subseteq Middles(Done(slot, k))
         /\ Mapping \in Done(slot, k)
         /\ Fits(Tops(Done(slot, k)), Middles(Done(slot, k)))
<1>1. IsFiniteSet(Tree(pt)) /\ Cardinality(Tree(pt)) = Size(TopsNow, MiddlesNow)
  BY WorkShape, TreeSized DEF MapInv
<1>2. Mapping = MappingOf(slot, n) /\ n \in Nat /\ n + 1 <= k
  BY MappingIs
<1>3. k \in Nat
  BY SMT, Z3, ServiceRoots
<1>4. Mapping \in Done(slot, k)
  <2>1. n \in 0 .. k-1
    BY SMT, Z3, <1>2, <1>3
  <2> QED BY <1>2, <2>1 DEF Done
<1>5. Done(slot, n) \subseteq Done(slot, k)
  <2>1. 0 .. n-1 \subseteq 0 .. k-1
    BY SMT, Z3, <1>2, <1>3
  <2> QED BY <2>1 DEF Done
<1>6. TopsNow \subseteq Tops(Done(slot, k)) /\ MiddlesNow \subseteq Middles(Done(slot, k))
  BY <1>4, <1>5 DEF TopsNow, MiddlesNow, Tops, Middles
<1> QED
  BY <1>1, <1>4, <1>6, ServiceRoots
(* mappages never finds that the page it maps is mapped already.           *)
LEMMA NeverMappedTwice == TreeInv /\ MapInv => ~MappedTwice
<1> SUFFICES ASSUME TreeInv, MapInv, MappedTwice PROVE FALSE
  OBVIOUS
<1>1. Building /\ level = 0 /\ Valid(Entry)
  BY DEF MappedTwice
<1> DEFINE va == Mapping.va
           a == vpn(va, 2)
           b == vpn(va, 1)
           c == vpn(va, 0)
<1>2. /\ Mapping = MappingOf(slot, n) /\ n \in 0 .. UserMaps-1 /\ n \in 0 .. UserMaps
      /\ a \in Index /\ b \in Index /\ c \in Index
  BY SMT, Z3, <1>1, MappingIs
<1>3. /\ Shaped(pt, TopsNow, MiddlesNow, Done(slot, n)) /\ Here
  BY <1>1, WorkShape
<1>4. p = Bottom(pt, a, b) /\ <<a, b>> \in MiddlesNow /\ Entry = pte[p][c]
  BY SMT, Z3, <1>1, <1>3 DEF Here, MiddlesNow, Entry
<1>5. Valid(pte[Bottom(pt, a, b)][c])
  BY <1>1, <1>4
<1> HIDE DEF a, b, c
<1>6. \E m \in Done(slot, n) : Indices(m.va) = <<a, b, c>>
  BY <1>2, <1>3, <1>4, <1>5 DEF Shaped
<1>7. PICK m \in Done(slot, n) : Indices(m.va) = <<a, b, c>>
  BY <1>6
<1>8. PICK j \in 0 .. n-1 : m = MappingOf(slot, j)
  BY <1>7 DEF Done
<1>9. j \in 0 .. UserMaps-1 /\ j < n
  BY SMT, Z3, <1>2, ServiceRoots
<1>10. MappingOf(slot, j).va # va
  BY <1>2, <1>9, MappingsApart
<1>11. Indices(va) = <<a, b, c>>
  BY DEF Indices, a, b, c
<1>12. MappingOf(slot, j).va \in 0 .. VpnLimit-1 /\ va \in 0 .. VpnLimit-1
  BY <1>2, <1>9, MappingPlace
<1> QED
  BY <1>7, <1>8, <1>10, <1>11, <1>12, IndicesDiffer

(* A build fails when there is no free page and it still needs one.        *)
LEMMA FailsShort ==
  ASSUME TreeInv, MapInv, fn # "none", Fails
  PROVE  /\ FreePages = {} /\ Reserved \in Nat
         /\ Reserved < (IF fn = "kernel_pagetable" THEN KernPages ELSE UserPages)
         /\ pt # NULL => Reserved >= 1
<1>1. FreePages = {} /\ (pt = NULL \/ (Building /\ level > 0 /\ ~Valid(Entry)))
  BY NeverMappedTwice DEF Fails, OutOfPages
<1>2. CASE pt = NULL
  BY SMT, Z3, <1>1, <1>2, ServiceSized DEF Reserved
<1>3. CASE Building /\ level > 0 /\ ~Valid(Entry)
  <2>1. PICK k : k = Mappings
    OBVIOUS
  <2>2. k = (IF fn = "kernel_pagetable" THEN KernelMappings ELSE UserMaps)
    BY <2>1 DEF Mappings, UserMaps
  <2>3. k \in {KernelMappings, UserMaps}
    BY <2>2
  <2> DEFINE A == Tops(Done(slot, k))
             B == Middles(Done(slot, k))
             a == vpn(Mapping.va, 2)
             b == vpn(Mapping.va, 1)
  <2>4. /\ Cardinality(Tree(pt)) = Size(TopsNow, MiddlesNow)
        /\ TopsNow \subseteq A /\ MiddlesNow \subseteq B /\ Fits(A, B)
        /\ Mapping \in Done(slot, k)
    BY <1>3, <2>1, <2>3, WorkSized
  <2>5. a \in A /\ <<a, b>> \in B
    BY <2>4 DEF Tops, Middles
  <2>6. /\ Shaped(pt, TopsNow, MiddlesNow, Done(slot, n)) /\ Here /\ level \in 0 .. 2
        /\ Fits(TopsNow, MiddlesNow)
        /\ a \in Index /\ b \in Index /\ pt # NULL
    BY SMT, Z3, <1>3, WorkShape, MappingIs
  <2>7. TopsNow # A \/ MiddlesNow # B
    <3>1. CASE level = 2
      <4>1. Entry = pte[pt][a]
        BY <2>6, <3>1 DEF Here, Entry
      <4>2. a \notin TopsNow
        BY <1>3, <2>6, <4>1 DEF Shaped
      <4> QED BY <2>5, <4>2
    <3>2. CASE level = 1
      <4>1. Entry = pte[Middle(pt, a)][b] /\ a \in TopsNow
        BY SMT, Z3, <2>6, <3>2 DEF Here, Entry, TopsNow
      <4>2. <<a, b>> \notin MiddlesNow
        BY <1>3, <2>6, <4>1 DEF Shaped
      <4> QED BY <2>5, <4>2
    <3> QED BY SMT, Z3, <1>3, <2>6, <3>1, <3>2
  <2>8. Size(A, B) = (IF fn = "kernel_pagetable" THEN KernPages ELSE UserPages)
    BY <2>2, SizeOfSpaces
  <2> HIDE DEF A, B
  <2>9. Size(TopsNow, MiddlesNow) < Size(A, B)
    BY <2>4, <2>7, SizeGrows
  <2>10. /\ Cardinality(TopsNow) \in Nat /\ Cardinality(MiddlesNow) \in Nat
    BY <2>6, FitsFinite
  <2>11. Reserved = Size(TopsNow, MiddlesNow)
    BY <2>4, <2>6 DEF Reserved
  <2>12. Size(TopsNow, MiddlesNow) \in Nat /\ Size(TopsNow, MiddlesNow) >= 1
    BY SMT, Z3, <2>10 DEF Size
  <2> QED BY <1>1, <2>8, <2>9, <2>11, <2>12
<1> QED
  BY <1>1, <1>2, <1>3

(* vm_create_user and vm_clone_user fail only when the pool is too small   *)
(* for one more address space, counting what they had taken.               *)
THEOREM FailsOnlyWhenShortHolds == Spec => FailsOnlyWhenShort
<1>1. TreeInv /\ MapInv =>
        [BuildFails => Cardinality(FreePages) + Reserved < UserPages]_vars
  <2> SUFFICES ASSUME TreeInv, MapInv, BuildFails
               PROVE  Cardinality(FreePages) + Reserved < UserPages
    OBVIOUS
  <2>1. fn # "none" /\ fn # "kernel_pagetable" /\ Fails
    BY DEF BuildFails
  <2>2. FreePages = {} /\ Reserved \in Nat /\ Reserved < UserPages
    BY <2>1, FailsShort
  <2>3. Cardinality(FreePages) = 0
    BY <2>2, FS_EmptySet
  <2> QED BY SMT, Z3, <2>2, <2>3
<1> QED
  BY <1>1, MapInvariant, PTL DEF FailsOnlyWhenShort
-----------------------------------------------------------------------------
(* The pages that are free or in the page table under construction.        *)
Taken == IF pt = NULL THEN {} ELSE Tree(pt)
Spare == FreePages \cup Taken

(* The pool is finite.                                                     *)
LEMMA FreeFinite == IsFiniteSet(Pages) /\ IsFiniteSet(FreePages) /\ Cardinality(FreePages) \in Nat
<1>1. IsFiniteSet(Pages)
  BY SMT, Z3, VMAssumption, FS_Interval DEF Pages
<1>2. IsFiniteSet(FreePages)
  BY <1>1, FS_Difference DEF FreePages
<1> QED
  BY <1>1, <1>2, FS_CardinalityType

(* The pages taken are those of the address space being built, and each    *)
(* spare page is counted once.                                             *)
TakenAsOwned ==
  Taken = IF pt = NULL THEN {} ELSE {q \in Busy : owner[q].space = Space}
SpareOnce == /\ Cardinality(FreePages) + Reserved = Cardinality(Spare)
             /\ Cardinality(FreePages) \in Nat /\ Reserved \in Nat

(* What a build has taken is told by the owner of the pages.               *)
LEMMA TakenIs == TreeInv => TakenAsOwned
<1> SUFFICES ASSUME TreeInv, pt # NULL
             PROVE  Tree(pt) = {q \in Busy : owner[q].space = Space}
  BY DEF TakenAsOwned, Taken
<1>1. pt \in Busy /\ owner[pt].space = Space /\ owner[pt].level = 2
  BY ServiceRoots
<1> QED
  BY <1>1, TreeIsSpace

(* A page is free or taken, never both, so both add up.                    *)
LEMMA SpareCounted ==
  TreeInv => /\ SpareOnce
             /\ Taken \subseteq used /\ IsFiniteSet(Taken) /\ Reserved = Cardinality(Taken)
             /\ Reserved \in Nat
<1> SUFFICES ASSUME TreeInv
             PROVE  /\ SpareOnce
                    /\ Taken \subseteq used /\ IsFiniteSet(Taken)
                    /\ Reserved = Cardinality(Taken) /\ Reserved \in Nat
  OBVIOUS
<1>1. Taken \subseteq used
  BY TakenIs DEF TakenAsOwned, Busy
<1>2. used \subseteq Pages
  BY DEF TreeInv, TypeOK
<1>3. IsFiniteSet(Taken)
  BY <1>1, <1>2, FreeFinite, FS_Subset
<1>4. Reserved = Cardinality(Taken)
  BY FS_EmptySet DEF Reserved, Taken
<1>5. Reserved \in Nat
  BY <1>3, <1>4, FS_CardinalityType
<1>6. FreePages \cap Taken = {}
  BY <1>1 DEF FreePages
<1>7. Cardinality(FreePages \cap Taken) = 0
  BY <1>6, FS_EmptySet
<1>8. Cardinality(Spare) = Cardinality(FreePages) + Cardinality(Taken)
                             - Cardinality(FreePages \cap Taken)
  BY <1>3, FreeFinite, FS_Union DEF Spare
<1> QED
  BY SMT, Z3, <1>1, <1>3, <1>4, <1>5, <1>7, <1>8, FreeFinite DEF SpareOnce

(* The same after a step.                                                  *)
LEMMA SpareNext == TreeInv' => TakenAsOwned' /\ SpareOnce'
<1>1. TreeInv => TakenAsOwned /\ SpareOnce
  BY TakenIs, SpareCounted
<1> QED
  BY <1>1, PTL

(* pt_release: the pages of S are free again.                              *)
LEMMA FreeReleased ==
  ASSUME TreeInv, NEW S, S \subseteq used, used' = used \ S
  PROVE  /\ FreePages' = FreePages \cup S
         /\ IsFiniteSet(S) /\ Cardinality(S) \in Nat
         /\ Cardinality(FreePages') = Cardinality(FreePages) + Cardinality(S)
<1>1. used \subseteq Pages
  BY DEF TreeInv, TypeOK
<1>2. FreePages' = FreePages \cup S /\ FreePages \cap S = {}
  BY <1>1 DEF FreePages
<1>3. IsFiniteSet(S) /\ S \subseteq Pages
  BY <1>1, FreeFinite, FS_Subset
<1>4. Cardinality(S) \in Nat
  BY <1>3, FS_CardinalityType
<1>5. Cardinality(FreePages \cap S) = 0
  BY <1>2, FS_EmptySet
<1>6. Cardinality(FreePages \cup S) = Cardinality(FreePages) + Cardinality(S)
                                     - Cardinality(FreePages \cap S)
  BY <1>3, FreeFinite, FS_Union
<1> QED
  BY SMT, Z3, <1>2, <1>3, <1>4, <1>5, <1>6, FreeFinite

(* A page table that is complete has the pages its mappings need.          *)
LEMMA DoneSized ==
  ASSUME TreeInv, MapInv, pt # NULL, n = Mappings
  PROVE  Reserved = IF fn = "kernel_pagetable" THEN KernPages ELSE UserPages
<1> DEFINE M == Done(slot, n)
<1>1. n = (IF fn = "kernel_pagetable" THEN KernelMappings ELSE UserMaps)
  BY DEF Mappings, UserMaps
<1>2. level = 2
  BY DEF MapInv, InWork, Here
<1>3. TopsNow = Tops(M) /\ MiddlesNow = Middles(M)
  BY SMT, Z3, <1>2 DEF TopsNow, MiddlesNow
<1>4. Shaped(pt, Tops(M), Middles(M), M) /\ OneParent
  BY <1>3 DEF MapInv, InWork
<1>5. pt \in Busy /\ owner[pt].level = 2 /\ Fits(Tops(M), Middles(M))
  BY <1>1, ServiceRoots
<1>6. Size(Tops(M), Middles(M)) = IF fn = "kernel_pagetable" THEN KernPages ELSE UserPages
  BY <1>1, SizeOfSpaces
<1> HIDE DEF M
<1>7. Cardinality(Tree(pt)) = Size(Tops(M), Middles(M))
  BY <1>4, <1>5, TreeSized
<1> QED
  BY <1>6, <1>7 DEF Reserved

(* mappages moves pages from the free ones into the table it builds.       *)
LEMMA BuildKeepsSpare ==
  ASSUME TreeInv, TreeInv', TakeRoot \/ Descend \/ AddTable \/ SetLeaf
  PROVE  Spare' = Spare
<1>1. CASE TakeRoot
  <2>1. PICK c : c = FirstFree
    OBVIOUS
  <2>2. c \in Pages /\ c \notin used /\ c # NULL
    BY <1>1, <2>1, FirstFreeIsFree DEF TakeRoot
  <2>3. used' = used \cup {c} /\ pte' = NewTable(c) /\ pt = NULL /\ pt' = c
    BY <1>1, <2>1 DEF TakeRoot, Allocated
  <2>4. \A i \in Index : ~Valid(pte'[c][i])
    BY <2>2, <2>3 DEF NewTable, Cleared, Invalid, Valid, TreeInv, TypeOK
  <2>5. Tables(c)' = {}
    BY <2>4 DEF Tables, Valid
  <2>6. Tree(c)' = {c}
    BY <2>5 DEF Tree
  <2>7. Taken' = {c} /\ Taken = {}
    BY <2>2, <2>3, <2>6 DEF Taken, Tree, Tables
  <2> QED BY <2>2, <2>3, <2>7 DEF Spare, FreePages
<1>2. CASE Descend \/ SetLeaf
  <2>1. UNCHANGED <<used, owner, lost, fn, slot, pt>>
    BY <1>2 DEF Descend, SetLeaf, tree
  <2>2. Busy' = Busy /\ Space' = Space
    BY <2>1 DEF Busy, Space
  <2>3. Taken' = Taken
    BY <2>1, <2>2, TakenIs, SpareNext DEF TakenAsOwned
  <2> QED BY <2>1, <2>3 DEF Spare, FreePages
<1>3. CASE AddTable
  <2>1. PICK c : c = FirstFree
    OBVIOUS
  <2>2. c \in Pages /\ c \notin used
    BY <1>3, <2>1, FirstFreeIsFree DEF AddTable
  <2>3. /\ used' = used \cup {c} /\ pt # NULL
        /\ owner' = [owner EXCEPT ![c] = [space |-> Space, level |-> level - 1]]
        /\ UNCHANGED <<lost, fn, slot, pt>>
    BY <1>3, <2>1 DEF AddTable, Allocated, Building
  <2>4. Busy' = Busy \cup {c} /\ Space' = Space
    BY <2>2, <2>3 DEF Busy, Space, TreeInv, TypeOK
  <2>5. owner'[c].space = Space /\ \A q \in Busy : owner'[q] = owner[q]
    BY <2>2, <2>3 DEF Busy, TreeInv, TypeOK
  <2>6. Taken' = Taken \cup {c}
    BY <2>3, <2>4, <2>5, TakenIs, SpareNext DEF TakenAsOwned
  <2> QED BY <2>2, <2>3, <2>6 DEF Spare, FreePages
<1> QED
  BY <1>1, <1>2, <1>3
(* What Abstract puts for the variables of PagePool.                       *)
PoolTables ==
  Live \cup (IF fn = "vm_create_user" THEN {slot} ELSE {})
       \cup (IF kernel_pt # NULL /\ fn # "kernel_pagetable" THEN {KERNEL} ELSE {})
PoolFree == Cardinality(FreePages) + Reserved
              - (IF fn = "vm_create_user" THEN UserPages ELSE 0)

(* The steps that PagePool does not see.                                   *)
LEMMA PoolSame ==
  ASSUME TreeInv, MapInv, TreeInv', UNCHANGED <<fn, slot, pagetable>>,
         kernel_pt' = kernel_pt \/ fn = "kernel_pagetable", Spare' = Spare
  PROVE  PoolTables' = PoolTables /\ PoolFree' = PoolFree
<1>1. Live' = Live
  BY DEF Live
<1>2. PoolTables' = PoolTables
  BY <1>1 DEF PoolTables
<1>3. Cardinality(FreePages)' + Reserved' = Cardinality(FreePages) + Reserved
  BY SpareCounted, SpareNext DEF SpareOnce
<1>4. UserPages' = UserPages
  BY DEF UserPages, TreeSize, KernelVas, UserVas, KernelMapping, UserPage, Leaf, vpn,
         KernelMappings, UserMappings
<1>5. PoolFree' = PoolFree
  <2>1. UserPages \in Nat /\ fn' = fn
    BY ServiceSized
  <2>2. /\ Cardinality(FreePages) \in Nat /\ Reserved \in Nat
        /\ Cardinality(FreePages)' \in Nat /\ Reserved' \in Nat
    BY SpareCounted, SpareNext DEF SpareOnce
  <2> QED BY SMT, Z3, <1>3, <1>4, <2>1, <2>2 DEF PoolFree
<1> QED
  BY <1>2, <1>5

(* Where nothing is being built, the free pages of PagePool are free.      *)
LEMMA PoolIdle ==
  (TreeInv /\ fn = "none" => PoolFree = Cardinality(FreePages)
                             /\ PoolTables = Live \cup (IF kernel_pt # NULL THEN {KERNEL} ELSE {}))
<1> SUFFICES ASSUME TreeInv, fn = "none"
             PROVE  /\ PoolFree = Cardinality(FreePages)
                    /\ PoolTables = Live \cup (IF kernel_pt # NULL THEN {KERNEL} ELSE {})
  OBVIOUS
<1>1. pt = NULL
  BY DEF TreeInv, CallOK
<1>2. Reserved = 0
  BY <1>1 DEF Reserved
<1> QED
  BY SMT, Z3, <1>2, FreeFinite DEF PoolFree, PoolTables

(* The same after a step that ends a call.                                 *)
LEMMA PoolIdleNext ==
  TreeInv' /\ fn' = "none" =>
    /\ PoolFree' = Cardinality(FreePages')
    /\ PoolTables' = Live' \cup (IF kernel_pt' # NULL THEN {KERNEL} ELSE {})
<1> SUFFICES ASSUME TreeInv', fn' = "none"
             PROVE  /\ PoolFree' = Cardinality(FreePages')
                    /\ PoolTables' = Live' \cup (IF kernel_pt' # NULL THEN {KERNEL} ELSE {})
  OBVIOUS
<1>1. pt' = NULL
  BY DEF TreeInv, CallOK
<1>2. Reserved' = 0
  BY <1>1 DEF Reserved
<1>3. FreePages' \subseteq Pages
  BY DEF FreePages
<1>4. Cardinality(FreePages') \in Nat
  BY <1>3, FreeFinite, FS_Subset, FS_CardinalityType
<1> QED
  BY SMT, Z3, <1>2, <1>4 DEF PoolFree, PoolTables

(* BuildFails gives back what was taken.                                   *)
LEMMA BuildFailsPool ==
  ASSUME TreeInv, MapInv, TreeInv', BuildFails
  PROVE  \/ PoolTables' = PoolTables /\ PoolFree' = PoolFree
         \/ Abstract!Destroy(slot)
<1> USE VMSentinels
<1>1. /\ fn \in {"vm_create_user", "vm_clone_user"} /\ used' = used \ Taken
      /\ fn' = "none" /\ UNCHANGED <<kernel_pt, pagetable>>
      /\ slot \in Slots /\ slot \notin Live
  BY DEF BuildFails, Release, Return, Taken, TreeInv, TypeOK, CallOK, Live
<1>2. Cardinality(FreePages') = Cardinality(FreePages) + Reserved /\ Reserved \in Nat
  BY <1>1, SpareCounted, FreeReleased
<1>3. /\ PoolFree' = Cardinality(FreePages')
      /\ PoolTables' = Live \cup (IF kernel_pt # NULL THEN {KERNEL} ELSE {})
  BY <1>1, PoolIdleNext DEF Live
<1>4. UserPages \in Nat /\ Cardinality(FreePages) \in Nat
  BY ServiceSized, FreeFinite
<1>5. CASE fn = "vm_clone_user"
  BY SMT, Z3, <1>2, <1>3, <1>4, <1>5 DEF PoolTables, PoolFree
<1>6. CASE fn = "vm_create_user"
  <2>1. PoolTables' = PoolTables \ {slot} /\ slot \in PoolTables
    BY <1>1, <1>3, <1>6 DEF PoolTables
  <2>2. PoolFree' = PoolFree + UserPages
    BY SMT, Z3, <1>2, <1>3, <1>4, <1>6 DEF PoolFree
  <2> QED BY <2>1, <2>2 DEF Abstract!Destroy, PoolTables, PoolFree
<1> QED
  BY <1>1, <1>5, <1>6

(* BuildDone takes the pages of the new address space.                     *)
LEMMA BuildDonePool ==
  ASSUME TreeInv, MapInv, TreeInv', BuildDone
  PROVE  \/ PoolTables' = PoolTables /\ PoolFree' = PoolFree
         \/ Abstract!Clone(slot)
<1> USE VMSentinels
<1>1. /\ fn \in {"vm_create_user", "vm_clone_user"} /\ pt # NULL /\ n = Mappings
      /\ pagetable' = [pagetable EXCEPT ![slot] = pt]
      /\ fn' = "none" /\ UNCHANGED <<used, kernel_pt>>
      /\ slot \in Slots /\ slot \notin Live
  BY DEF BuildDone, Return, tree, TreeInv, TypeOK, CallOK, Live
<1>2. Live' = Live \cup {slot}
  BY SMT, Z3, <1>1 DEF Live, TreeInv, TypeOK
<1>3. Reserved = UserPages /\ FreePages' = FreePages
  BY <1>1, DoneSized DEF FreePages
<1>4. /\ PoolFree' = Cardinality(FreePages)
      /\ PoolTables' = Live \cup {slot} \cup (IF kernel_pt # NULL THEN {KERNEL} ELSE {})
  BY <1>1, <1>2, <1>3, PoolIdleNext
<1>5. UserPages \in Nat /\ Cardinality(FreePages) \in Nat
  BY ServiceSized, FreeFinite
<1>6. CASE fn = "vm_clone_user"
  <2>1. slot \notin PoolTables /\ PoolTables' = PoolTables \cup {slot}
    BY <1>1, <1>4, <1>6 DEF PoolTables
  <2>2. PoolFree >= UserPages /\ PoolFree' = PoolFree - UserPages
    BY SMT, Z3, <1>3, <1>4, <1>5, <1>6 DEF PoolFree
  <2> QED BY <2>1, <2>2 DEF Abstract!Clone, PoolTables, PoolFree
<1>7. CASE fn = "vm_create_user"
  BY SMT, Z3, <1>1, <1>3, <1>4, <1>5, <1>7 DEF PoolTables, PoolFree
<1> QED
  BY <1>1, <1>6, <1>7

(* Reap and LaterExit give back the pages of a process.                    *)
LEMMA DropPool ==
  ASSUME TreeInv, MapInv, TreeInv', fn = "none", fn' = "none",
         NEW t \in Live, Release(Tree(pagetable[t])),
         pagetable' = [pagetable EXCEPT ![t] = NULL], kernel_pt' = kernel_pt
  PROVE  Abstract!Destroy(t)
<1> USE VMSentinels
<1>1. t \in Slots /\ pagetable[t] # NULL
  BY DEF Live
<1>2. Live' = Live \ {t}
  BY <1>1 DEF Live, TreeInv, TypeOK
<1>3. Tree(pagetable[t]) \subseteq used /\ used' = used \ Tree(pagetable[t])
  BY <1>1, ProcessTree DEF Busy, Release
<1>4. Cardinality(FreePages') = Cardinality(FreePages) + UserPages
  BY <1>3, FreeReleased, ServiceSized
<1>5. PoolFree' = PoolFree + UserPages
  BY <1>4, PoolIdle, PoolIdleNext
<1>6. t \in PoolTables /\ PoolTables' = PoolTables \ {t}
  BY <1>1, <1>2, PoolIdle, PoolIdleNext
<1> QED
  BY <1>5, <1>6 DEF Abstract!Destroy, PoolTables, PoolFree
(* FirstExitDone: the kernel's table is complete, the process's own given  *)
(* back.                                                                   *)
LEMMA FirstExitDonePool ==
  ASSUME TreeInv, MapInv, TreeInv', FirstExitDone
  PROVE  Abstract!Leave(slot)
<1> USE VMSentinels
<1>1. /\ fn = "kernel_pagetable" /\ pt # NULL /\ n = Mappings
      /\ used' = used \ Tree(pagetable[slot])
      /\ pagetable' = [pagetable EXCEPT ![slot] = NULL]
      /\ fn' = "none" /\ kernel_pt' = kernel_pt
  BY DEF FirstExitDone, DropOwnTable, Release, Gone, Return
<1>2. slot \in Slots /\ pagetable[slot] # NULL /\ kernel_pt = pt /\ slot \in Live
  BY <1>1 DEF TreeInv, TypeOK, CallOK, Live
<1>3. Live' = Live \ {slot}
  BY <1>1, <1>2 DEF Live, TreeInv, TypeOK
<1>4. Tree(pagetable[slot]) \subseteq used
  BY <1>2, ProcessTree DEF Busy
<1>5. Cardinality(FreePages') = Cardinality(FreePages) + UserPages
  BY <1>1, <1>2, <1>4, FreeReleased, ServiceSized
<1>6. /\ Reserved = KernPages /\ UserPages \in Nat /\ KernPages \in Nat
      /\ Cardinality(FreePages) \in Nat
  BY <1>1, DoneSized, ServiceSized, FreeFinite
<1>7. slot \in PoolTables /\ KERNEL \notin PoolTables
      /\ PoolTables' = (PoolTables \ {slot}) \cup {KERNEL}
  <2>1. PoolTables = Live /\ KERNEL \notin Live
    BY <1>1 DEF PoolTables, Live
  <2>2. PoolTables' = Live' \cup {KERNEL}
    BY <1>1, <1>2, PoolIdleNext
  <2> QED BY <1>2, <1>3, <2>1, <2>2
<1>8. PoolFree = Cardinality(FreePages) + KernPages
  BY SMT, Z3, <1>1, <1>6 DEF PoolFree
<1>9. PoolFree' = Cardinality(FreePages')
  BY <1>1, PoolIdleNext
<1>10. PoolFree >= KernPages /\ PoolFree' = PoolFree - KernPages + UserPages
  BY SMT, Z3, <1>5, <1>6, <1>8, <1>9
<1> QED
  BY <1>7, <1>10 DEF Abstract!Leave, PoolTables, PoolFree

(* FirstExitFails: the process's own table and the root of the kernel's    *)
(* are given back.                                                         *)
LEMMA FirstExitFailsPool ==
  ASSUME TreeInv, MapInv, TreeInv', FirstExitFails
  PROVE  Abstract!LeaveShort(slot)
<1> USE VMSentinels
<1> DEFINE T == Tree(pagetable[slot])
           R == IF pt = NULL THEN {} ELSE {pt}
<1>1. /\ fn = "kernel_pagetable" /\ Fails
      /\ used' = used \ (T \cup {pt})
      /\ pagetable' = [pagetable EXCEPT ![slot] = NULL]
      /\ fn' = "none" /\ kernel_pt' = NULL
  BY DEF FirstExitFails, Release, Gone, Return
<1>2. slot \in Slots /\ pagetable[slot] # NULL /\ kernel_pt = pt /\ slot \in Live
  BY <1>1 DEF TreeInv, TypeOK, CallOK, Live
<1>3. Live' = Live \ {slot}
  BY <1>1, <1>2 DEF Live, TreeInv, TypeOK
<1>4. T = {q \in Busy : owner[q].space = slot}
  BY <1>2, ProcessTree
<1>5. pt # NULL => pt \in Busy /\ owner[pt].space = KERNEL
  BY <1>1, ServiceRoots DEF Space
<1>6. T \subseteq used /\ R \subseteq used /\ T \cap R = {}
  <2> HIDE DEF T
  <2> QED BY <1>2, <1>4, <1>5 DEF Busy
<1>7. used' = used \ (T \cup R)
  BY SMT, Z3, <1>1, <1>6 DEF TreeInv, TypeOK
<1>8. IsFiniteSet(T) /\ Cardinality(T) = UserPages /\ UserPages \in Nat
  BY <1>2, ServiceSized
<1>9. IsFiniteSet(R) /\ Cardinality(R) = IF pt = NULL THEN 0 ELSE 1
  BY FS_EmptySet, FS_Singleton
<1> HIDE DEF T, R
<1>10. Cardinality(T \cup R) = UserPages + Cardinality(R)
  <2>1. Cardinality(T \cap R) = 0
    BY <1>6, FS_EmptySet
  <2>2. Cardinality(T \cup R) = Cardinality(T) + Cardinality(R) - Cardinality(T \cap R)
    BY <1>8, <1>9, FS_Union
  <2> QED BY SMT, Z3, <1>8, <1>9, <2>1, <2>2
<1>11. /\ FreePages = {} /\ Reserved \in Nat /\ Reserved < KernPages
       /\ pt # NULL => Reserved >= 1
       /\ pt = NULL => Reserved = 0
  BY <1>1, FailsShort DEF Reserved
<1>12. Cardinality(FreePages) = 0
  BY <1>11, FS_EmptySet
<1>13. Cardinality(FreePages') = UserPages + Cardinality(R)
  <2> DEFINE S == T \cup R
  <2>1. S \subseteq used /\ used' = used \ S /\ Cardinality(S) = UserPages + Cardinality(R)
    BY <1>6, <1>7, <1>10
  <2> HIDE DEF S
  <2>2. Cardinality(FreePages') = Cardinality(FreePages) + Cardinality(S)
    BY <2>1, FreeReleased
  <2> QED BY SMT, Z3, <1>8, <1>9, <1>12, <2>1, <2>2
<1>14. PoolFree = Reserved
  BY SMT, Z3, <1>1, <1>11, <1>12 DEF PoolFree
<1>15. PoolFree' = Cardinality(FreePages') /\ PoolTables' = Live \ {slot}
  BY <1>1, <1>3, PoolIdleNext
<1>16. PoolTables = Live /\ KERNEL \notin Live
  BY <1>1 DEF PoolTables, Live
<1>17. slot \in PoolTables /\ KERNEL \notin PoolTables /\ PoolTables' = PoolTables \ {slot}
  BY <1>2, <1>15, <1>16
<1>18. PoolFree < KernPages /\ PoolFree' = (IF PoolFree = 0 THEN 0 ELSE 1) + UserPages
  BY SMT, Z3, <1>8, <1>9, <1>11, <1>13, <1>14, <1>15
<1> QED
  BY <1>17, <1>18 DEF Abstract!LeaveShort, PoolTables, PoolFree
(* A call that starts, a switch and a write take no page.                  *)
LEMMA IdlePool ==
  ASSUME TreeInv, UNCHANGED <<used, pagetable, kernel_pt, pt>>, fn = "none",
         \/ fn' \in {"none", "vm_clone_user"}
         \/ fn' = "kernel_pagetable" /\ kernel_pt = NULL
  PROVE  PoolTables' = PoolTables /\ PoolFree' = PoolFree
<1>1. pt = NULL /\ Live' = Live /\ FreePages' = FreePages
  BY DEF TreeInv, CallOK, Live, FreePages
<1>2. Reserved = 0 /\ Reserved' = 0
  BY <1>1 DEF Reserved
<1>3. PoolTables' = PoolTables
  BY <1>1 DEF PoolTables
<1>4. PoolFree' = PoolFree
  BY <1>1, <1>2 DEF PoolFree
<1> QED
  BY <1>3, <1>4

(* The first state of vm.c is the first one of PagePool: the call that     *)
(* main() makes counts as done.                                            *)
LEMMA InitPool == Init => PoolTables = {0} /\ PoolFree = PoolPages - UserPages
<1> SUFFICES ASSUME Init PROVE PoolTables = {0} /\ PoolFree = PoolPages - UserPages
  OBVIOUS
<1>1. TreeInv /\ MapInv
  BY InitTree, InitMaps
<1>2. Live = {} /\ FreePages = Pages /\ Reserved = 0
  BY DEF Init, Live, FreePages, Reserved
<1>3. Cardinality(Pages) = PoolPages
  <2>1. Cardinality(0 .. PoolPages-1) = IF 0 > PoolPages-1 THEN 0 ELSE PoolPages-1 - 0 + 1
    BY SMT, Z3, VMAssumption, FS_Interval
  <2> QED BY SMT, Z3, <2>1, VMAssumption DEF Pages
<1>4. UserPages \in Nat
  BY <1>1, ServiceSized
<1>5. fn = "vm_create_user" /\ slot = 0 /\ kernel_pt = NULL
  BY DEF Init
<1>6. PoolTables = {0}
  BY <1>2, <1>5 DEF PoolTables
<1>7. PoolFree = PoolPages - UserPages
  BY SMT, Z3, <1>2, <1>3, <1>4, <1>5, VMAssumption DEF PoolFree
<1> QED
  BY <1>6, <1>7

(* Every step of vm.c is one of PagePool, or changes nothing there.        *)
LEMMA PoolStep ==
  TreeInv /\ MapInv /\ TreeInv' /\ [Next]_vars =>
    \/ PoolTables' = PoolTables /\ PoolFree' = PoolFree
    \/ Abstract!Next
<1> SUFFICES ASSUME TreeInv, MapInv, TreeInv', [Next]_vars
             PROVE  \/ PoolTables' = PoolTables /\ PoolFree' = PoolFree
                    \/ Abstract!Next
  OBVIOUS
<1> DEFINE Same == PoolTables' = PoolTables /\ PoolFree' = PoolFree
           Write == \/ \E va \in 0 .. VpnLimit : Store(va)
                    \/ \E va \in 0 .. VpnLimit * PGSIZE, len \in 1 .. 2 * PGSIZE :
                         CopyOut(va, len)
<1>1. slot \in Slots /\ Live \subseteq Slots
  BY DEF TreeInv, TypeOK, Live
<1>2. CASE TakeRoot \/ Descend \/ AddTable \/ SetLeaf
  <2>1. /\ UNCHANGED <<fn, slot, pagetable>>
        /\ kernel_pt' = kernel_pt \/ fn = "kernel_pagetable"
    BY <1>2 DEF TakeRoot, Descend, AddTable, SetLeaf
  <2> QED BY <1>2, <2>1, BuildKeepsSpare, PoolSame
<1>3. CASE BuildFails
  BY <1>1, <1>3, BuildFailsPool DEF Abstract!Next
<1>4. CASE BuildDone
  BY <1>1, <1>4, BuildDonePool DEF Abstract!Next
<1>5. CASE Fork \/ FirstExit \/ Idle \/ \E s \in Slots : Switch(s)
  <2>1. /\ UNCHANGED <<used, pagetable, kernel_pt, pt>> /\ fn = "none"
        /\ \/ fn' \in {"none", "vm_clone_user"}
           \/ fn' = "kernel_pagetable" /\ kernel_pt = NULL
    BY <1>5 DEF Fork, FirstExit, Idle, Switch, tree, call
  <2> QED BY <2>1, IdlePool
<1>6. CASE Write
  <2>1. UNCHANGED <<used, pagetable, kernel_pt, pt, fn>> /\ fn = "none"
    BY <1>6 DEF Store, CopyOut, tree, call
  <2> QED BY <2>1, IdlePool
<1>7. CASE FirstExitDone
  BY <1>1, <1>7, FirstExitDonePool DEF Abstract!Next
<1>8. CASE FirstExitFails
  BY <1>1, <1>8, FirstExitFailsPool DEF Abstract!Next
<1>9. CASE LaterExit
  <2>1. /\ fn = "none" /\ fn' = "none" /\ current \in Live
        /\ Release(Tree(pagetable[current]))
        /\ pagetable' = [pagetable EXCEPT ![current] = NULL] /\ kernel_pt' = kernel_pt
    BY <1>9 DEF LaterExit, DropOwnTable, Gone, call, TreeInv, TypeOK, CallOK, Live
  <2>2. Abstract!Destroy(current)
    BY <2>1, DropPool
  <2> QED BY <1>1, <2>1, <2>2 DEF Abstract!Next
<1>10. CASE \E s \in Slots : Reap(s)
  <2>1. PICK s \in Slots : Reap(s)
    BY <1>10
  <2>2. /\ fn = "none" /\ fn' = "none" /\ s \in Live /\ Release(Tree(pagetable[s]))
        /\ pagetable' = [pagetable EXCEPT ![s] = NULL] /\ kernel_pt' = kernel_pt
    BY <2>1 DEF Reap, call
  <2>3. Abstract!Destroy(s)
    BY <2>2, DropPool
  <2> QED BY <2>1, <2>3 DEF Abstract!Next
<1>11. CASE UNCHANGED vars
  <2>1. UNCHANGED <<used, pte, owner, kernel_pt, pagetable, fn, slot, pt>>
    BY <1>11 DEF vars, tree, call
  <2>2. Spare' = Spare
    BY SMT, Z3, <2>1 DEF Spare, FreePages, Taken, Tree, Tables
  <2> QED BY <2>1, <2>2, PoolSame
<1> QED
  BY <1>2, <1>3, <1>4, <1>5, <1>6, <1>7, <1>8, <1>9, <1>10, <1>11 DEF Next

(* vm.c implements PagePool: a page table takes exactly the pages that its *)
(* shape needs or none, vm_destroy gives all of them back, and a           *)
(* kernel_pagetable that fails is the one loss.                            *)
THEOREM VMIsPagePool == Spec => ImplementsPagePool
<1>1. Init => Abstract!Init
  BY InitPool DEF Abstract!Init, PoolTables, PoolFree
<1>2. TreeInv /\ MapInv /\ TreeInv' /\ [Next]_vars =>
        [Abstract!Next]_<<PoolTables, PoolFree>>
  BY PoolStep
<1> QED
  BY <1>1, <1>2, MapInvariant, PTL
  DEF Spec, ImplementsPagePool, Abstract!Spec, PoolTables, PoolFree
=============================================================================
