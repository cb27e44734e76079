---------------------------- MODULE NanoVMTrees -----------------------------
(***************************************************************************)
(* The inductive invariant of the page tables of NanoVM, for every pool,   *)
(* layout, number of slots and size of a table: every operation keeps the  *)
(* page tables in order, whether it succeeds or runs out of pages.  So no  *)
(* page is in two page tables or lost without a trace, and a process       *)
(* reaches, and changes, only its own memory.  And what the copies to and  *)
(* from user space do, byte by byte.                                       *)
(***************************************************************************)
EXTENDS NanoVM, WellFoundedInduction, FiniteSetTheorems, TLAPS

(* Most steps are first-order logic, which Zenon settles; SMT, which has   *)
(* the arithmetic, takes the ones that name it and what Zenon leaves.  A   *)
(* step that runs out of time is tried a second time.                      *)
USE ZenonT(5), SMT, ZenonT(20), Z3

(* The pages that are in some page table.                                  *)
Busy == used \ lost

IsTable(q, i) ==
  /\ pte[q][i].in = POOL /\ pte[q][i].perm = {}
  /\ pte[q][i].to \in Busy
  /\ owner[pte[q][i].to].space = owner[q].space
  /\ owner[pte[q][i].to].level = owner[q].level - 1

IsLeaf(q, i) ==
  /\ pte[q][i].perm # {}
  /\ "U" \in pte[q][i].perm =>
       /\ pte[q][i].in = owner[q].space
       /\ pte[q][i].in \in Slots
       /\ pte[q][i].to \in 0 .. USER_TOTAL_PAGES-1

(* Entries of upper levels lead to tables of the same address space one    *)
(* level down, entries of the last level to its own memory.                *)
EntriesOK ==
  \A q \in Busy, i \in Index :
    Valid(pte[q][i]) => IF owner[q].level = 0 THEN IsLeaf(q, i) ELSE IsTable(q, i)

Owned == \A q \in Busy : owner[q] \in [space : Spaces, level : 0 .. 2]

(* Every table below a root hangs on one of its own address space.         *)
HasParent ==
  \A q \in Busy : owner[q].level < 2 =>
    \E r \in Busy, i \in Index :
      /\ Valid(pte[r][i]) /\ pte[r][i].to = q
      /\ owner[r].space = owner[q].space
      /\ owner[r].level = owner[q].level + 1

RootsOK ==
  /\ \A s \in Slots : pagetable[s] # NULL =>
       pagetable[s] \in Busy /\ owner[pagetable[s]] = [space |-> s, level |-> 2]
  /\ kernel_pt # NULL =>
       kernel_pt \in Busy /\ owner[kernel_pt] = [space |-> KERNEL, level |-> 2]
  /\ pt # NULL =>
       /\ pt \in Busy /\ owner[pt] = [space |-> Space, level |-> 2]
       /\ p \in Busy /\ owner[p] = [space |-> Space, level |-> level]
  /\ \A q \in Busy : owner[q].level = 2 => q \in Roots

(* What the callers of vm.c see to.                                        *)
CallOK ==
  /\ fn = "none" => pt = NULL
  /\ fn \in {"vm_create_user", "vm_clone_user"} => pagetable[slot] = NULL
  /\ fn = "kernel_pagetable" =>
       kernel_pt = pt /\ current = slot /\ pagetable[slot] # NULL
  /\ current # NULL => pagetable[current] # NULL
  /\ SatpRooted

TreeInv == TypeOK /\ Owned /\ EntriesOK /\ HasParent /\ RootsOK /\ CallOK

-----------------------------------------------------------------------------
(* A non-empty set of naturals has a least element, and Least returns it.  *)
LEMMA LeastIsLeast ==
  ASSUME NEW S \in SUBSET Nat, S # {}
  PROVE  Least(S) \in S /\ \A y \in S : Least(S) <= y
<1>1. \E x \in S : \A y \in S : ~ (<<y, x>> \in OpToRel(<, Nat))
  BY NatLessThanWellFounded, WFMin
<1>2. \A x, y \in Nat : <<y, x>> \in OpToRel(<, Nat) <=> y < x
  BY DEF OpToRel
<1>3. PICK x \in S : \A y \in S : ~ (<<y, x>> \in OpToRel(<, Nat))
  BY <1>1
<1>4. \A y \in S : ~ (y < x)
  BY <1>2, <1>3
<1>5. \A y \in S : x <= y
  BY SMT, Z3, <1>4
<1> QED
  BY <1>5 DEF Least

(* pt_alloc returns a page that was free.                                  *)
LEMMA FirstFreeIsFree ==
  ASSUME FreePages # {}
  PROVE  FirstFree \in Pages /\ FirstFree \notin used /\ FirstFree # NULL
<1>1. FreePages \in SUBSET Nat
  BY SMT, Z3, VMAssumption DEF FreePages, Pages
<1>2. FirstFree \in FreePages
  BY <1>1, LeastIsLeast DEF FirstFree
<1> QED
  BY <1>2, VMSentinels DEF FreePages

(* The indices that vpn computes are inside a table.                       *)
LEMMA VpnInTable ==
  ASSUME NEW va \in Nat, NEW l \in 0 .. 2
  PROVE  vpn(va, l) \in Index
<1>1. \A a \in Nat : a % FAN \in Index
  BY SMT, Z3, VMAssumption DEF Index
<1>2. va \div FAN \in Nat
  BY SMT, Z3, VMAssumption
<1>3. FAN * FAN \in Nat \ {0}
  BY SMT, Z3, VMAssumption
<1>4. va \div (FAN * FAN) \in Nat
  BY SMT, Z3, <1>3
<1> QED
  BY <1>1, <1>2, <1>4 DEF vpn

(* The address and the entry of the page being mapped.                     *)
LEMMA MappingType ==
  ASSUME TypeOK, Building
  PROVE  /\ Mapping.va \in Nat
         /\ Mapping.entry \in Entries /\ Valid(Mapping.entry)
         /\ Mapping.entry.perm # {}
         /\ "U" \in Mapping.entry.perm =>
              /\ Mapping.entry.in = Space /\ Mapping.entry.in \in Slots
              /\ Mapping.entry.to \in 0 .. USER_TOTAL_PAGES-1
<1> USE VMAssumption, VMSentinels
<1>1. CASE n < KernelMappings
  <2> DEFINE va == IF n < KERNEL_PAGES THEN KERNEL_START + n ELSE UART0
             perm == IF n < KERNEL_PAGES THEN {"R", "W", "X"} ELSE {"R", "W"}
  <2>1. va \in Nat
    BY SMT, Z3 DEF TypeOK
  <2>2. perm \in SUBSET {"R", "W", "X", "U"} /\ perm # {} /\ "U" \notin perm
    OBVIOUS
  <2>3. /\ Mapping.va = va
        /\ Mapping.entry = [in |-> KERNEL, to |-> va, perm |-> perm]
    BY <1>1 DEF Mapping, KernelMapping, Leaf
  <2> HIDE DEF va, perm
  <2> QED
    BY SMT, Z3, <2>1, <2>2, <2>3 DEF Entries, Valid
<1>2. CASE ~(n < KernelMappings)
  <2>1. fn # "kernel_pagetable"
    BY <1>2 DEF Building, Mappings
  <2> DEFINE i == n - KernelMappings
             va == IF i < USER_IMAGE_PAGES THEN USER_BASE + i ELSE USER_STACK_TOP - 1
             k == IF i < USER_IMAGE_PAGES THEN i ELSE USER_TOTAL_PAGES - 1
             perm == IF i < USER_IMAGE_PAGES THEN {"R", "W", "X", "U"} ELSE {"R", "W", "U"}
  <2>2. va \in Nat /\ k \in 0 .. USER_TOTAL_PAGES-1 /\ k \in Nat
    BY SMT, Z3, <1>2 DEF TypeOK, KernelMappings
  <2>3. perm \in SUBSET {"R", "W", "X", "U"} /\ perm # {}
    OBVIOUS
  <2>4. /\ Mapping.va = va
        /\ Mapping.entry = [in |-> slot, to |-> k, perm |-> perm]
    BY <1>2 DEF Mapping, UserMapping, UserPage, Leaf
  <2>5. Space = slot /\ slot \in Slots /\ slot # NULL
    BY <2>1 DEF Space, TypeOK
  <2> HIDE DEF va, perm, k
  <2> QED
    BY SMT, Z3, <2>2, <2>3, <2>4, <2>5 DEF Entries, Valid
<1> QED
  BY <1>1, <1>2

(* An address space has one root.                                          *)
LEMMA UniqueRoot ==
  ASSUME TreeInv, NEW q \in Busy, NEW r \in Busy,
         owner[q].level = 2, owner[r].level = 2,
         owner[q].space = owner[r].space
  PROVE  q = r
<1> USE VMSentinels
<1>1. \A x \in Busy : owner[x].level = 2 =>
        \/ \E s \in Slots : x = pagetable[s] /\ x # NULL /\ owner[x].space = s
        \/ x = kernel_pt /\ x # NULL /\ owner[x].space = KERNEL
        \/ x = pt /\ x # NULL /\ owner[x].space = Space
  <2> SUFFICES ASSUME NEW x \in Busy, owner[x].level = 2
               PROVE  \/ \E s \in Slots : x = pagetable[s] /\ x # NULL /\ owner[x].space = s
                      \/ x = kernel_pt /\ x # NULL /\ owner[x].space = KERNEL
                      \/ x = pt /\ x # NULL /\ owner[x].space = Space
    OBVIOUS
  <2>1. x \in Roots
    BY DEF TreeInv, RootsOK
  <2>2. x # NULL /\ (x = kernel_pt \/ x = pt \/ \E s \in Slots : x = pagetable[s])
    BY <2>1 DEF Roots
  <2>3. CASE x = kernel_pt
    BY SMT, Z3, <2>2, <2>3 DEF TreeInv, RootsOK
  <2>4. CASE x = pt
    BY SMT, Z3, <2>2, <2>4 DEF TreeInv, RootsOK
  <2>5. CASE \E s \in Slots : x = pagetable[s]
    <3>1. PICK s \in Slots : x = pagetable[s]
      BY <2>5
    <3>2. owner[x] = [space |-> s, level |-> 2]
      BY <2>2, <3>1 DEF TreeInv, RootsOK
    <3> QED BY SMT, Z3, <2>2, <3>1, <3>2
  <2> QED BY <2>2, <2>3, <2>4, <2>5
<1>2. /\ pt # NULL => fn # "none"
      /\ fn # "none" /\ fn # "kernel_pagetable" =>
           Space = slot /\ slot \in Slots /\ pagetable[slot] = NULL
      /\ fn = "kernel_pagetable" => Space = KERNEL /\ kernel_pt = pt
  BY DEF TreeInv, CallOK, TypeOK, Space
<1> QED
  BY SMT, Z3, <1>1, <1>2

(* pt_destroy_level from a root frees the pages of its address space, all  *)
(* of them and no other.                                                   *)
LEMMA TreeIsSpace ==
  ASSUME TreeInv, NEW r \in Busy, owner[r].level = 2
  PROVE  Tree(r) = {q \in Busy : owner[q].space = owner[r].space}
<1> DEFINE S == {q \in Busy : owner[q].space = owner[r].space}
<1>1. \A q \in Busy : \A x \in Tables(q) : owner[q].level # 0 =>
        /\ x \in Busy /\ owner[x].space = owner[q].space
        /\ owner[x].level = owner[q].level - 1
  BY SMT, Z3 DEF Tables, TreeInv, EntriesOK, IsTable
<1>2. \A x \in Tables(r) : x \in S /\ owner[x].level = 1
  BY SMT, Z3, <1>1
<1>3. \A x \in Tables(r) : \A y \in Tables(x) : y \in S
  BY SMT, Z3, <1>1, <1>2
<1>4. Tree(r) \subseteq S
  BY <1>2, <1>3 DEF Tree
<1>5. \A q \in S : owner[q].level = 2 => q = r
  BY UniqueRoot
<1>6. \A q, x \in Busy, i \in Index :
        Valid(pte[x][i]) /\ pte[x][i].to = q /\ owner[x].level # 0 => q \in Tables(x)
  BY DEF Tables, TreeInv, EntriesOK, IsTable
<1>7. \A q \in S : owner[q].level = 1 => q \in Tables(r)
  <2> SUFFICES ASSUME NEW q \in S, owner[q].level = 1 PROVE q \in Tables(r)
    OBVIOUS
  <2>1. PICK x \in Busy, i \in Index :
          /\ Valid(pte[x][i]) /\ pte[x][i].to = q
          /\ owner[x].space = owner[q].space /\ owner[x].level = 2
    BY SMT, Z3 DEF TreeInv, HasParent
  <2>2. x = r
    BY <2>1, <1>5
  <2> QED BY SMT, Z3, <2>1, <2>2, <1>6
<1>8. \A q \in S : owner[q].level = 0 => \E x \in Tables(r) : q \in Tables(x)
  <2> SUFFICES ASSUME NEW q \in S, owner[q].level = 0
               PROVE  \E x \in Tables(r) : q \in Tables(x)
    OBVIOUS
  <2>1. PICK x \in Busy, i \in Index :
          /\ Valid(pte[x][i]) /\ pte[x][i].to = q
          /\ owner[x].space = owner[q].space /\ owner[x].level = 1
    BY SMT, Z3 DEF TreeInv, HasParent
  <2>2. x \in Tables(r)
    BY <2>1, <1>7
  <2> QED BY SMT, Z3, <2>1, <2>2, <1>6
<1>9. \A q \in S : owner[q].level \in 0 .. 2
  BY DEF TreeInv, Owned
<1>10. S \subseteq Tree(r)
  <2> SUFFICES ASSUME NEW q \in S PROVE q \in Tree(r)
    OBVIOUS
  <2>1. owner[q].level = 0 \/ owner[q].level = 1 \/ owner[q].level = 2
    BY SMT, Z3, <1>9
  <2> HIDE DEF S
  <2> QED BY <2>1, <1>5, <1>7, <1>8 DEF Tree
<1> QED
  BY <1>4, <1>10

-----------------------------------------------------------------------------
(* Giving back whole address spaces, or losing them, leaves the others     *)
(* whole.                                                                  *)
LEMMA DropSpaces ==
  ASSUME TreeInv, NEW X,
         Busy' = {q \in Busy : owner[q].space \notin X},
         UNCHANGED <<pte, owner>>
  PROVE  Owned' /\ EntriesOK' /\ HasParent'
<1>1. Owned'
  BY DEF TreeInv, Owned
<1>2. EntriesOK'
  <2> SUFFICES ASSUME NEW q \in Busy', NEW i \in Index, Valid(pte[q][i])
               PROVE  IF owner[q].level = 0 THEN IsLeaf(q, i)'
                      ELSE IsTable(q, i)'
    BY DEF EntriesOK
  <2>1. q \in Busy /\ owner[q].space \notin X
    OBVIOUS
  <2>2. IF owner[q].level = 0 THEN IsLeaf(q, i) ELSE IsTable(q, i)
    BY <2>1 DEF TreeInv, EntriesOK
  <2> QED
    BY <2>1, <2>2 DEF IsLeaf, IsTable
<1>3. HasParent'
  <2> SUFFICES ASSUME NEW q \in Busy', owner[q].level < 2
               PROVE  \E r \in Busy', i \in Index :
                        /\ Valid(pte[r][i]) /\ pte[r][i].to = q
                        /\ owner[r].space = owner[q].space
                        /\ owner[r].level = owner[q].level + 1
    BY SMT, Z3 DEF HasParent, Valid
  <2>1. q \in Busy /\ owner[q].space \notin X
    OBVIOUS
  <2>2. PICK r \in Busy, i \in Index :
          /\ Valid(pte[r][i]) /\ pte[r][i].to = q
          /\ owner[r].space = owner[q].space
          /\ owner[r].level = owner[q].level + 1
    BY <2>1 DEF TreeInv, HasParent
  <2>3. r \in Busy'
    BY <2>1, <2>2
  <2> QED BY <2>2, <2>3
<1> QED
  BY <1>1, <1>2, <1>3

(* A table of another address space, and its root, survive.                *)
LEMMA RootsSurvive ==
  ASSUME TreeInv, NEW X,
         Busy' = {q \in Busy : owner[q].space \notin X},
         UNCHANGED <<pte, owner>>
  PROVE  /\ \A s \in Slots \ X : pagetable[s] # NULL =>
              pagetable[s] \in Busy' /\ owner'[pagetable[s]] = [space |-> s, level |-> 2]
         /\ KERNEL \notin X /\ kernel_pt # NULL =>
              kernel_pt \in Busy' /\ owner'[kernel_pt] = [space |-> KERNEL, level |-> 2]
         /\ \A q \in Busy' : owner'[q].level = 2 => q \in Roots /\ owner[q].space \notin X
<1>1. \A s \in Slots \ X : pagetable[s] # NULL =>
        pagetable[s] \in Busy' /\ owner'[pagetable[s]] = [space |-> s, level |-> 2]
  BY SMT, Z3 DEF TreeInv, RootsOK
<1>2. KERNEL \notin X /\ kernel_pt # NULL =>
        kernel_pt \in Busy' /\ owner'[kernel_pt] = [space |-> KERNEL, level |-> 2]
  BY SMT, Z3 DEF TreeInv, RootsOK
<1> QED
  BY <1>1, <1>2 DEF TreeInv, RootsOK

(* A new root: TakeRoot.                                                   *)
LEMMA NewRoot ==
  ASSUME TreeInv, NEW c \in Pages, c \notin used, NEW x \in Spaces,
         used' = used \cup {c}, lost' = lost,
         pte' = NewTable(c),
         owner' = [owner EXCEPT ![c] = [space |-> x, level |-> 2]]
  PROVE  Owned' /\ EntriesOK' /\ HasParent' /\ Busy' = Busy \cup {c}
<1>1. Busy' = Busy \cup {c} /\ c \notin Busy
  BY DEF Busy, TreeInv, TypeOK
<1>2. /\ owner'[c] = [space |-> x, level |-> 2]
      /\ \A q \in Busy : owner'[q] = owner[q] /\ pte'[q] = pte[q]
      /\ \A i \in Index : ~Valid(pte'[c][i])
  BY <1>1 DEF TreeInv, TypeOK, Busy, NewTable, Cleared, Invalid, Valid
<1>3. Owned'
  BY SMT, Z3, <1>1, <1>2 DEF TreeInv, Owned
<1>4. EntriesOK'
  <2> SUFFICES ASSUME NEW q \in Busy', NEW i \in Index, Valid(pte'[q][i])
               PROVE  IF owner'[q].level = 0 THEN IsLeaf(q, i)' ELSE IsTable(q, i)'
    BY DEF EntriesOK, Valid
  <2>1. q \in Busy /\ Valid(pte[q][i])
    BY <1>1, <1>2
  <2>2. IF owner[q].level = 0 THEN IsLeaf(q, i) ELSE IsTable(q, i)
    BY <2>1 DEF TreeInv, EntriesOK
  <2> QED
    BY <1>1, <1>2, <2>1, <2>2 DEF IsLeaf, IsTable
<1>5. HasParent'
  <2> SUFFICES ASSUME NEW q \in Busy', owner'[q].level < 2
               PROVE  \E r \in Busy', i \in Index :
                        /\ Valid(pte'[r][i]) /\ pte'[r][i].to = q
                        /\ owner'[r].space = owner'[q].space
                        /\ owner'[r].level = owner'[q].level + 1
    BY DEF HasParent, Valid
  <2>1. q \in Busy
    BY SMT, Z3, <1>1, <1>2
  <2>2. PICK r \in Busy, i \in Index :
          /\ Valid(pte[r][i]) /\ pte[r][i].to = q
          /\ owner[r].space = owner[q].space
          /\ owner[r].level = owner[q].level + 1
    BY <1>2, <2>1 DEF TreeInv, HasParent
  <2> QED BY <1>1, <1>2, <2>1, <2>2
<1> QED
  BY <1>1, <1>3, <1>4, <1>5

(* A new table below another one: AddTable.                                *)
LEMMA NewChild ==
  ASSUME TreeInv, NEW c \in Pages, c \notin used,
         NEW r \in Busy, NEW j \in Index, ~Valid(pte[r][j]),
         owner[r].level > 0,
         used' = used \cup {c}, lost' = lost,
         pte' = [NewTable(c) EXCEPT ![r][j] = Table(c)],
         owner' = [owner EXCEPT ![c] = [space |-> owner[r].space,
                                        level |-> owner[r].level - 1]]
  PROVE  Owned' /\ EntriesOK' /\ HasParent' /\ Busy' = Busy \cup {c}
<1>1. Busy' = Busy \cup {c} /\ c \notin Busy /\ c # r /\ r \in Pages
  BY DEF Busy, TreeInv, TypeOK
<1>2. owner[r] \in [space : Spaces, level : 0 .. 2]
  BY DEF TreeInv, Owned
<1>3. /\ owner'[c] = [space |-> owner[r].space, level |-> owner[r].level - 1]
      /\ \A q \in Busy : owner'[q] = owner[q]
  BY <1>1 DEF TreeInv, TypeOK, Busy
<1>4. \A q \in Busy, i \in Index : q # r \/ i # j => pte'[q][i] = pte[q][i]
  BY <1>1 DEF TreeInv, TypeOK, Busy, NewTable
<1>5. \A i \in Index : ~Valid(pte'[c][i])
  BY <1>1 DEF TreeInv, TypeOK, NewTable, Cleared, Invalid, Valid
<1>6. pte'[r][j] = Table(c)
  BY <1>1 DEF TreeInv, TypeOK, NewTable
<1>7. Owned'
  BY SMT, Z3, <1>1, <1>2, <1>3 DEF TreeInv, Owned
<1>8. EntriesOK'
  <2> SUFFICES ASSUME NEW q \in Busy', NEW i \in Index, Valid(pte'[q][i])
               PROVE  IF owner'[q].level = 0 THEN IsLeaf(q, i)' ELSE IsTable(q, i)'
    BY DEF EntriesOK, Valid
  <2>1. q \in Busy
    BY <1>1, <1>5
  <2>2. CASE q = r /\ i = j
    <3>1. IsTable(q, i)'
      BY <2>2, <1>1, <1>2, <1>3, <1>6, SMT, Z3 DEF IsTable, Table
    <3> QED BY SMT, Z3, <3>1, <2>2, <1>3, <1>2
  <2>3. CASE ~(q = r /\ i = j)
    <3>1. pte'[q][i] = pte[q][i]
      BY <2>1, <2>3, <1>4
    <3>2. IF owner[q].level = 0 THEN IsLeaf(q, i) ELSE IsTable(q, i)
      BY <2>1, <3>1 DEF TreeInv, EntriesOK, Valid
    <3> QED BY SMT, Z3, <2>1, <3>1, <3>2, <1>1, <1>3 DEF IsLeaf, IsTable
  <2> QED BY <2>2, <2>3
<1>9. HasParent'
  <2> SUFFICES ASSUME NEW q \in Busy', owner'[q].level < 2
               PROVE  \E x \in Busy', i \in Index :
                        /\ Valid(pte'[x][i]) /\ pte'[x][i].to = q
                        /\ owner'[x].space = owner'[q].space
                        /\ owner'[x].level = owner'[q].level + 1
    BY DEF HasParent, Valid
  <2>1. CASE q = c
    <3>1. /\ Valid(pte'[r][j]) /\ pte'[r][j].to = q
          /\ owner'[r].space = owner'[q].space
          /\ owner'[r].level = owner'[q].level + 1
      BY SMT, Z3, <2>1, <1>1, <1>2, <1>3, <1>6, VMSentinels DEF Table, Valid
    <3> QED BY <3>1, <1>1
  <2>2. CASE q # c
    <3>1. q \in Busy
      BY <2>2, <1>1
    <3>2. PICK x \in Busy, i \in Index :
            /\ Valid(pte[x][i]) /\ pte[x][i].to = q
            /\ owner[x].space = owner[q].space
            /\ owner[x].level = owner[q].level + 1
      BY <3>1, <1>3 DEF TreeInv, HasParent
    <3>3. pte'[x][i] = pte[x][i]
      BY <3>2, <1>4
    <3> QED BY <1>1, <1>3, <3>1, <3>2, <3>3
  <2> QED BY <2>1, <2>2
<1> QED
  BY <1>1, <1>7, <1>8, <1>9

(* A new entry of the last level: SetLeaf.                                 *)
LEMMA NewLeaf ==
  ASSUME TreeInv, NEW r \in Busy, NEW j \in Index, ~Valid(pte[r][j]),
         owner[r].level = 0,
         NEW e \in Entries, e.perm # {},
         "U" \in e.perm => /\ e.in = owner[r].space /\ e.in \in Slots
                           /\ e.to \in 0 .. USER_TOTAL_PAGES-1,
         UNCHANGED <<used, lost, owner>>,
         pte' = [pte EXCEPT ![r][j] = e]
  PROVE  Owned' /\ EntriesOK' /\ HasParent' /\ Busy' = Busy
<1>1. Busy' = Busy /\ r \in Pages
  BY DEF Busy, TreeInv, TypeOK
<1>2. \A q \in Busy, i \in Index : q # r \/ i # j => pte'[q][i] = pte[q][i]
  BY <1>1 DEF TreeInv, TypeOK, Busy
<1>3. pte'[r][j] = e
  BY <1>1 DEF TreeInv, TypeOK
<1>4. Owned'
  BY <1>1 DEF TreeInv, Owned
<1>5. EntriesOK'
  <2> SUFFICES ASSUME NEW q \in Busy, NEW i \in Index, Valid(pte'[q][i])
               PROVE  IF owner[q].level = 0 THEN IsLeaf(q, i)' ELSE IsTable(q, i)'
    BY <1>1 DEF EntriesOK, Valid
  <2>1. CASE q = r /\ i = j
    BY <2>1, <1>3 DEF IsLeaf
  <2>2. CASE ~(q = r /\ i = j)
    <3>1. pte'[q][i] = pte[q][i]
      BY <2>2, <1>2
    <3>2. IF owner[q].level = 0 THEN IsLeaf(q, i) ELSE IsTable(q, i)
      BY <3>1 DEF TreeInv, EntriesOK, Valid
    <3> QED BY SMT, Z3, <3>1, <3>2, <1>1 DEF IsLeaf, IsTable
  <2> QED BY <2>1, <2>2
<1>6. HasParent'
  <2> SUFFICES ASSUME NEW q \in Busy, owner[q].level < 2
               PROVE  \E x \in Busy, i \in Index :
                        /\ Valid(pte'[x][i]) /\ pte'[x][i].to = q
                        /\ owner[x].space = owner[q].space
                        /\ owner[x].level = owner[q].level + 1
    BY SMT, Z3, <1>1 DEF HasParent, Valid
  <2>1. PICK x \in Busy, i \in Index :
          /\ Valid(pte[x][i]) /\ pte[x][i].to = q
          /\ owner[x].space = owner[q].space
          /\ owner[x].level = owner[q].level + 1
    BY DEF TreeInv, HasParent
  <2>2. pte'[x][i] = pte[x][i]
    BY <2>1, <1>2
  <2> QED BY <2>1, <2>2
<1> QED
  BY <1>1, <1>4, <1>5, <1>6

-----------------------------------------------------------------------------
(* A step that leaves the tables alone.                                    *)
LEMMA SameTables ==
  ASSUME TreeInv, UNCHANGED <<tree, lost>>
  PROVE  Owned' /\ EntriesOK' /\ HasParent' /\ Busy' = Busy
<1>1. Busy' = Busy /\ pte' = pte /\ owner' = owner
  BY DEF Busy, tree
<1>2. Owned'
  BY <1>1 DEF TreeInv, Owned
<1>3. EntriesOK'
  BY <1>1 DEF TreeInv, EntriesOK, IsLeaf, IsTable, Valid
<1>4. HasParent'
  BY <1>1 DEF TreeInv, HasParent, Valid
<1> QED
  BY <1>1, <1>2, <1>3, <1>4

-----------------------------------------------------------------------------
(* The state in which main() calls vm_create_user.                         *)
LEMMA InitTree == Init => TreeInv
<1> SUFFICES ASSUME Init PROVE TreeInv
  OBVIOUS
<1> USE VMAssumption, VMSentinels DEF Init
<1>1. Busy = {} /\ 0 \in Slots
  BY SMT, Z3 DEF Busy, Slots
<1>2. Cleared \in [Index -> Entries]
  BY DEF Cleared, Invalid, Entries
<1>3. TypeOK
  <2>1. pte \in [Pages -> [Index -> Entries]]
    BY <1>2
  <2>2. mem \in [Slots -> [0 .. USER_TOTAL_PAGES-1 -> {0, 1}]]
    OBVIOUS
  <2>3. owner \in [Pages -> [space : Spaces, level : 0 .. 2] \cup {NULL}]
    OBVIOUS
  <2>4. n \in 0 .. KernelMappings + UserMappings
    BY SMT, Z3 DEF KernelMappings, UserMappings
  <2> QED BY SMT, Z3, <1>1, <2>1, <2>2, <2>3, <2>4 DEF TypeOK
<1>4. Owned /\ EntriesOK /\ HasParent
  BY <1>1 DEF Owned, EntriesOK, HasParent
<1>5. RootsOK /\ CallOK
  BY <1>1 DEF RootsOK, CallOK, SatpRooted
<1> QED
  BY <1>3, <1>4, <1>5 DEF TreeInv

(* One lemma for each action: it keeps TreeInv.                            *)
LEMMA TakeRootTree == TreeInv /\ TakeRoot => TreeInv'
<1> SUFFICES ASSUME TreeInv, TakeRoot PROVE TreeInv'
  OBVIOUS
<1> USE VMAssumption, VMSentinels
<1> DEFINE c == FirstFree
<1>1. c \in Pages /\ c \notin used /\ c # NULL
  BY FirstFreeIsFree DEF TakeRoot
<1>2. Space \in Spaces /\ Space' = Space
  BY DEF Space, Spaces, TreeInv, TypeOK, TakeRoot
<1>3. /\ used' = used \cup {c} /\ lost' = lost /\ pte' = NewTable(c)
      /\ owner' = [owner EXCEPT ![c] = [space |-> Space, level |-> 2]]
  BY DEF TakeRoot, Allocated
<1>4. /\ fn # "none" /\ pt = NULL
      /\ pt' = c /\ p' = c /\ level' = 2 /\ n' = 0
      /\ kernel_pt' = IF fn = "kernel_pagetable" THEN c ELSE kernel_pt
      /\ UNCHANGED <<fn, slot, src, pagetable, satp, current, mem>>
  BY DEF TakeRoot
<1> HIDE DEF c
<1>5. Owned' /\ EntriesOK' /\ HasParent' /\ Busy' = Busy \cup {c}
  BY <1>1, <1>2, <1>3, NewRoot
<1>6. /\ \A q \in Busy : owner'[q] = owner[q]
      /\ owner'[c] = [space |-> Space, level |-> 2]
  BY <1>1, <1>3 DEF TreeInv, TypeOK, Busy
<1>7. TypeOK'
  <2>1. pte' \in [Pages -> [Index -> Entries]]
    BY <1>1, <1>3 DEF NewTable, Cleared, Invalid, Entries, TreeInv, TypeOK
  <2>2. owner' \in [Pages -> [space : Spaces, level : 0 .. 2] \cup {NULL}]
    BY SMT, Z3, <1>1, <1>2, <1>3 DEF TreeInv, TypeOK
  <2>3. n' \in 0 .. KernelMappings + UserMappings
    BY SMT, Z3, <1>4 DEF KernelMappings, UserMappings
  <2> QED BY SMT, Z3, <1>1, <1>3, <1>4, <2>1, <2>2, <2>3 DEF TreeInv, TypeOK
<1>8. RootsOK'
  <2>1. \A s \in Slots : pagetable[s] # NULL =>
          pagetable[s] \in Busy' /\ owner'[pagetable[s]] = [space |-> s, level |-> 2]
    BY <1>5, <1>6 DEF TreeInv, RootsOK
  <2>2. kernel_pt' # NULL =>
          kernel_pt' \in Busy' /\ owner'[kernel_pt'] = [space |-> KERNEL, level |-> 2]
    BY <1>4, <1>5, <1>6 DEF TreeInv, RootsOK, Space
  <2>3. \A q \in Busy' : owner'[q].level = 2 => q \in Roots'
    <3>1. \A q \in Busy : owner[q].level = 2 => q \in Roots
      BY DEF TreeInv, RootsOK
    <3>2. fn = "kernel_pagetable" => kernel_pt = NULL
      BY <1>4 DEF TreeInv, CallOK
    <3>3. Roots \subseteq Roots' /\ c \in Roots'
      BY <1>1, <1>4, <3>2 DEF Roots
    <3> QED BY <1>5, <1>6, <3>1, <3>3
  <2> QED BY <1>2, <1>4, <1>5, <1>6, <2>1, <2>2, <2>3 DEF RootsOK
<1>9. CallOK'
  BY <1>4 DEF TreeInv, CallOK, SatpRooted, Live
<1> QED
  BY <1>5, <1>7, <1>8, <1>9 DEF TreeInv

(* Descend finds a table of the same address space.                        *)
LEMMA DescendTree == TreeInv /\ Descend => TreeInv'
<1> SUFFICES ASSUME TreeInv, Descend PROVE TreeInv'
  OBVIOUS
<1> USE VMAssumption, VMSentinels
<1>1. Owned' /\ EntriesOK' /\ HasParent' /\ Busy' = Busy
  BY SameTables DEF Descend
<1>2. p \in Busy /\ owner[p] = [space |-> Space, level |-> level] /\ level \in 1 .. 2
  BY SMT, Z3 DEF Descend, Building, TreeInv, RootsOK, TypeOK
<1>3. vpn(Mapping.va, level) \in Index
  BY SMT, Z3, <1>2, MappingType, VpnInTable DEF Descend, TreeInv
<1>4. IsTable(p, vpn(Mapping.va, level))
  BY SMT, Z3, <1>2, <1>3 DEF Descend, Entry, TreeInv, EntriesOK
<1>5. /\ Entry.to \in Busy /\ owner[Entry.to].space = Space
      /\ owner[Entry.to].level = level - 1
  BY SMT, Z3, <1>2, <1>4 DEF IsTable, Entry
<1>6. owner[Entry.to] = [space |-> Space, level |-> level - 1]
  BY <1>5 DEF TreeInv, Owned
<1>7. Entry.to \in Pages
  BY <1>5 DEF Busy, TreeInv, TypeOK
<1>8. /\ p' = Entry.to /\ level' = level - 1 /\ Space' = Space /\ Roots' = Roots
      /\ UNCHANGED <<used, pte, owner, fn, slot, src, pt, n, kernel_pt,
                     pagetable, satp, current, mem, lost>>
  BY DEF Descend, tree, Space, Roots
<1>9. TypeOK'
  BY SMT, Z3, <1>2, <1>7, <1>8 DEF TreeInv, TypeOK
<1>10. RootsOK'
  BY <1>1, <1>5, <1>6, <1>8 DEF TreeInv, RootsOK
<1>11. CallOK'
  BY <1>8 DEF TreeInv, CallOK, SatpRooted, Live
<1> QED
  BY <1>1, <1>9, <1>10, <1>11 DEF TreeInv

(* AddTable hangs a fresh page on the table it has reached.                *)
LEMMA AddTableTree == TreeInv /\ AddTable => TreeInv'
<1> SUFFICES ASSUME TreeInv, AddTable PROVE TreeInv'
  OBVIOUS
<1> USE VMAssumption, VMSentinels
<1> DEFINE c == FirstFree
           j == vpn(Mapping.va, level)
<1>1. c \in Pages /\ c \notin used /\ c # NULL
  BY FirstFreeIsFree DEF AddTable
<1>2. p \in Busy /\ owner[p] = [space |-> Space, level |-> level] /\ level \in 1 .. 2
  BY SMT, Z3 DEF AddTable, Building, TreeInv, RootsOK, TypeOK
<1>3. j \in Index
  BY SMT, Z3, <1>2, MappingType, VpnInTable DEF AddTable, TreeInv
<1>4. /\ used' = used \cup {c} /\ lost' = lost
      /\ pte' = [NewTable(c) EXCEPT ![p][j] = Table(c)]
      /\ owner' = [owner EXCEPT ![c] = [space |-> Space, level |-> level - 1]]
      /\ ~Valid(pte[p][j])
  BY DEF AddTable, Allocated, Entry
<1>5. /\ p' = c /\ level' = level - 1 /\ Space' = Space /\ Roots' = Roots
      /\ pt # NULL
      /\ UNCHANGED <<fn, slot, src, pt, n, kernel_pt, pagetable, satp, current,
                     mem, lost>>
  BY DEF AddTable, Building, Space, Roots
<1> HIDE DEF c, j
<1>6. Owned' /\ EntriesOK' /\ HasParent' /\ Busy' = Busy \cup {c}
  <2>1. /\ owner[p].level > 0
        /\ owner' = [owner EXCEPT ![c] = [space |-> owner[p].space,
                                          level |-> owner[p].level - 1]]
    BY SMT, Z3, <1>2, <1>4
  <2> QED BY <1>1, <1>2, <1>3, <1>4, <2>1, NewChild
<1>7. Space \in Spaces
  BY DEF Space, Spaces, TreeInv, TypeOK
<1>8. /\ \A q \in Busy : owner'[q] = owner[q]
      /\ owner'[c] = [space |-> Space, level |-> level - 1]
  BY <1>1, <1>4 DEF TreeInv, TypeOK, Busy
<1>9. TypeOK'
  <2>1. p \in Pages /\ Table(c) \in Entries /\ Cleared \in [Index -> Entries]
    BY SMT, Z3, <1>1, <1>2 DEF Busy, TreeInv, TypeOK, Table, Entries, Cleared, Invalid, Pages
  <2>2. NewTable(c) \in [Pages -> [Index -> Entries]]
    BY <1>1, <2>1 DEF NewTable, TreeInv, TypeOK
  <2>3. pte' \in [Pages -> [Index -> Entries]]
    BY <1>3, <1>4, <2>1, <2>2
  <2>4. owner' \in [Pages -> [space : Spaces, level : 0 .. 2] \cup {NULL}]
    BY SMT, Z3, <1>1, <1>2, <1>4, <1>7 DEF TreeInv, TypeOK
  <2> QED BY SMT, Z3, <1>1, <1>2, <1>4, <1>5, <2>3, <2>4 DEF TreeInv, TypeOK
<1>10. RootsOK'
  <2>1. \A s \in Slots : pagetable[s] # NULL =>
          pagetable[s] \in Busy' /\ owner'[pagetable[s]] = [space |-> s, level |-> 2]
    BY <1>6, <1>8 DEF TreeInv, RootsOK
  <2>2. kernel_pt # NULL =>
          kernel_pt \in Busy' /\ owner'[kernel_pt] = [space |-> KERNEL, level |-> 2]
    BY <1>6, <1>8 DEF TreeInv, RootsOK
  <2>3. \A q \in Busy' : owner'[q].level = 2 => q \in Roots
    BY SMT, Z3, <1>2, <1>6, <1>8 DEF TreeInv, RootsOK
  <2>4. pt \in Busy' /\ owner'[pt] = [space |-> Space, level |-> 2]
    BY <1>5, <1>6, <1>8 DEF TreeInv, RootsOK
  <2> QED BY <1>5, <1>6, <1>8, <2>1, <2>2, <2>3, <2>4 DEF RootsOK
<1>11. CallOK'
  BY <1>5 DEF TreeInv, CallOK, SatpRooted, Live
<1> QED
  BY <1>6, <1>9, <1>10, <1>11 DEF TreeInv

(* The memory written when kernel_map is done is that of the slot being    *)
(* filled.                                                                 *)
LEMMA FilledMemory ==
  ASSUME TreeInv
  PROVE  /\ Filled \in [Slots -> [0 .. USER_TOTAL_PAGES-1 -> {0, 1}]]
         /\ \A s \in Slots : Filled[s] # mem[s] =>
              fn \in {"vm_create_user", "vm_clone_user"} /\ s = slot
<1> DEFINE zero == [k \in 0 .. USER_TOTAL_PAGES-1 |-> 0]
<1>1. /\ mem \in [Slots -> [0 .. USER_TOTAL_PAGES-1 -> {0, 1}]]
      /\ slot \in Slots /\ src \in Slots
      /\ zero \in [0 .. USER_TOTAL_PAGES-1 -> {0, 1}]
  BY DEF TreeInv, TypeOK
<1>2. CASE fn = "vm_create_user" /\ n = KernelMappings - 1
  <2>1. Filled = [mem EXCEPT ![slot] = zero]
    BY <1>2 DEF Filled
  <2> HIDE DEF zero
  <2> QED BY <1>1, <1>2, <2>1
<1>3. CASE fn = "vm_clone_user" /\ n = KernelMappings - 1
  <2>1. Filled = [mem EXCEPT ![slot] = mem[src]]
    BY <1>3 DEF Filled
  <2> QED BY <1>1, <1>3, <2>1
<1>4. CASE ~(fn = "vm_create_user" /\ n = KernelMappings - 1)
             /\ ~(fn = "vm_clone_user" /\ n = KernelMappings - 1)
  <2>1. Filled = mem
    BY <1>4 DEF Filled
  <2> QED BY <1>1, <2>1
<1> QED
  BY <1>2, <1>3, <1>4

(* SetLeaf enters a page of the slot, or of the kernel without U.          *)
LEMMA SetLeafTree == TreeInv /\ SetLeaf => TreeInv'
<1> SUFFICES ASSUME TreeInv, SetLeaf PROVE TreeInv'
  OBVIOUS
<1> USE VMAssumption, VMSentinels
<1> DEFINE j == vpn(Mapping.va, 0)
           e == Mapping.entry
<1>1. p \in Busy /\ owner[p] = [space |-> Space, level |-> 0]
  BY DEF SetLeaf, Building, TreeInv, RootsOK
<1>2. j \in Index
  BY SMT, Z3, MappingType, VpnInTable DEF SetLeaf, TreeInv
<1>3. /\ e \in Entries /\ e.perm # {}
      /\ "U" \in e.perm => /\ e.in = Space /\ e.in \in Slots
                            /\ e.to \in 0 .. USER_TOTAL_PAGES-1
  BY MappingType DEF SetLeaf, TreeInv
<1>4. /\ pte' = [pte EXCEPT ![p][j] = e] /\ ~Valid(pte[p][j])
      /\ UNCHANGED <<used, lost, owner>>
  BY DEF SetLeaf, Entry
<1>5. /\ p' = pt /\ level' = 2 /\ n' = n + 1 /\ mem' = Filled
      /\ Space' = Space /\ Roots' = Roots
      /\ pt # NULL /\ n < Mappings
      /\ UNCHANGED <<used, owner, fn, slot, src, pt, kernel_pt, pagetable, satp,
                     current, lost>>
  BY DEF SetLeaf, Building, Space, Roots
<1> HIDE DEF j, e
<1>6. Owned' /\ EntriesOK' /\ HasParent' /\ Busy' = Busy
  <2>1. /\ owner[p].level = 0
        /\ "U" \in e.perm => /\ e.in = owner[p].space /\ e.in \in Slots
                              /\ e.to \in 0 .. USER_TOTAL_PAGES-1
    BY SMT, Z3, <1>1, <1>3
  <2> QED BY <1>1, <1>2, <1>3, <1>4, <2>1, NewLeaf
<1>7. TypeOK'
  <2>1. pte' \in [Pages -> [Index -> Entries]]
    BY <1>1, <1>2, <1>3, <1>4 DEF TreeInv, TypeOK, Busy
  <2>2. n' \in 0 .. KernelMappings + UserMappings
    BY SMT, Z3, <1>5 DEF TreeInv, TypeOK, Mappings, KernelMappings, UserMappings
  <2>3. mem' \in [Slots -> [0 .. USER_TOTAL_PAGES-1 -> {0, 1}]]
    BY <1>5, FilledMemory
  <2> QED BY SMT, Z3, <1>5, <2>1, <2>2, <2>3 DEF TreeInv, TypeOK
<1>8. RootsOK'
  BY <1>5, <1>6 DEF TreeInv, RootsOK
<1>9. CallOK'
  BY <1>5 DEF TreeInv, CallOK, SatpRooted, Live
<1> QED
  BY <1>6, <1>7, <1>8, <1>9 DEF TreeInv

(* A build that fails gives back the whole unfinished tree.                *)
LEMMA BuildFailsTree == TreeInv /\ BuildFails => TreeInv'
<1> SUFFICES ASSUME TreeInv, BuildFails PROVE TreeInv'
  OBVIOUS
<1> USE VMAssumption, VMSentinels
<1>1. /\ fn # "none" /\ fn # "kernel_pagetable" /\ slot \in Slots
      /\ pagetable[slot] = NULL /\ Space = slot
      /\ used' = used \ (IF pt = NULL THEN {} ELSE Tree(pt))
      /\ fn' = "none" /\ level' = 0 /\ n' = 0 /\ pt' = NULL /\ p' = NULL
      /\ slot' \in Slots /\ src' \in Slots
      /\ UNCHANGED <<pte, owner, kernel_pt, pagetable, satp, current, mem, lost>>
  BY SMT, Z3 DEF BuildFails, Release, Return, TreeInv, CallOK, TypeOK, Space, Slots
<1> DEFINE X == IF pt = NULL THEN {} ELSE {slot}
<1>2. Busy' = {q \in Busy : owner[q].space \notin X}
  <2>1. CASE pt = NULL
    BY <1>1, <2>1 DEF Busy
  <2>2. CASE pt # NULL
    <3>1. pt \in Busy /\ owner[pt].level = 2 /\ owner[pt].space = slot
      BY SMT, Z3, <1>1, <2>2 DEF TreeInv, RootsOK
    <3>2. Tree(pt) = {q \in Busy : owner[q].space = slot}
      BY <3>1, TreeIsSpace
    <3> QED BY <1>1, <2>2, <3>2 DEF Busy
  <2> QED BY <2>1, <2>2
<1>3. Owned' /\ EntriesOK' /\ HasParent'
  BY <1>1, <1>2, DropSpaces
<1>4. lost' \subseteq used'
  <2>1. CASE pt = NULL
    BY <1>1, <2>1 DEF TreeInv, TypeOK
  <2>2. CASE pt # NULL
    <3>1. pt \in Busy /\ owner[pt].level = 2
      BY SMT, Z3, <1>1, <2>2 DEF TreeInv, RootsOK
    <3>2. Tree(pt) \subseteq Busy
      BY <3>1, TreeIsSpace
    <3> QED BY <1>1, <2>2, <3>2 DEF Busy, TreeInv, TypeOK
  <2> QED BY <2>1, <2>2
<1>5. TypeOK'
  BY SMT, Z3, <1>1, <1>4 DEF TreeInv, TypeOK, KernelMappings, UserMappings
<1>6. RootsOK'
  <2>1. KERNEL \notin X /\ (pt # NULL => slot \in X) /\ X \subseteq {slot}
    BY <1>1, SMT, Z3
  <2> HIDE DEF X
  <2>2. \A s \in Slots \ X : pagetable[s] # NULL =>
          pagetable[s] \in Busy' /\ owner'[pagetable[s]] = [space |-> s, level |-> 2]
    BY <1>1, <1>2, RootsSurvive
  <2>3. kernel_pt # NULL =>
          kernel_pt \in Busy' /\ owner'[kernel_pt] = [space |-> KERNEL, level |-> 2]
    BY <1>1, <1>2, <2>1, RootsSurvive
  <2>4. \A q \in Busy' : owner'[q].level = 2 => q \in Roots /\ owner[q].space \notin X
    BY <1>1, <1>2, RootsSurvive
  <2>5. pt # NULL => owner[pt].space \in X
    BY SMT, Z3, <1>1, <2>1 DEF TreeInv, RootsOK
  <2>6. \A q \in Busy' : owner'[q].level = 2 => q \in Roots'
    BY <1>1, <2>4, <2>5 DEF Roots
  <2>7. \A s \in Slots : pagetable[s] # NULL => s \notin X
    BY <1>1, <2>1
  <2> QED BY <1>1, <2>2, <2>3, <2>6, <2>7 DEF RootsOK
<1>7. CallOK'
  BY <1>1 DEF TreeInv, CallOK, SatpRooted, Live
<1> QED
  BY <1>3, <1>5, <1>6, <1>7 DEF TreeInv

(* BuildDone hands the root over to proc.c.                                *)
LEMMA BuildDoneTree == TreeInv /\ BuildDone => TreeInv'
<1> SUFFICES ASSUME TreeInv, BuildDone PROVE TreeInv'
  OBVIOUS
<1> USE VMAssumption, VMSentinels
<1>1. /\ fn # "none" /\ fn # "kernel_pagetable" /\ slot \in Slots /\ pt # NULL
      /\ pagetable[slot] = NULL /\ Space = slot
      /\ pagetable' = [pagetable EXCEPT ![slot] = pt]
      /\ IF fn = "vm_create_user" THEN current' = slot /\ satp' = pt
         ELSE current' = current /\ satp' = satp
      /\ fn' = "none" /\ level' = 0 /\ n' = 0 /\ pt' = NULL /\ p' = NULL
      /\ slot' \in Slots /\ src' \in Slots
      /\ UNCHANGED <<used, pte, owner, kernel_pt, mem, lost>>
  BY SMT, Z3 DEF BuildDone, Return, TreeInv, CallOK, TypeOK, Space, Slots, tree
<1>2. Owned' /\ EntriesOK' /\ HasParent' /\ Busy' = Busy
  BY <1>1, SameTables DEF tree
<1>3. /\ pt \in Busy /\ owner[pt] = [space |-> slot, level |-> 2]
      /\ pt \in Pages
      /\ pagetable'[slot] = pt
      /\ \A s \in Slots \ {slot} : pagetable'[s] = pagetable[s]
  BY <1>1 DEF TreeInv, RootsOK, TypeOK
<1>4. TypeOK'
  BY SMT, Z3, <1>1, <1>3 DEF TreeInv, TypeOK, KernelMappings, UserMappings
<1>5. RootsOK'
  <2>1. \A s \in Slots : pagetable'[s] # NULL =>
          pagetable'[s] \in Busy /\ owner[pagetable'[s]] = [space |-> s, level |-> 2]
    BY <1>3 DEF TreeInv, RootsOK
  <2>2. Roots \subseteq Roots'
    BY SMT, Z3, <1>1, <1>3 DEF Roots
  <2> QED BY <1>1, <1>2, <2>1, <2>2 DEF TreeInv, RootsOK
<1>6. CallOK'
  <2>1. current' # NULL => satp' = pagetable'[current'] /\ pagetable'[current'] # NULL
    BY <1>1, <1>3 DEF TreeInv, CallOK, SatpRooted, TypeOK
  <2>2. Live' = Live \cup {slot}
    BY <1>1, <1>3 DEF Live
  <2>3. kernel_pt # NULL => satp' \in {kernel_pt} \cup {pagetable'[s] : s \in Live'}
    BY SMT, Z3, <1>1, <1>3, <2>2 DEF TreeInv, CallOK, SatpRooted, Live
  <2> QED BY <1>1, <2>1, <2>3 DEF CallOK, SatpRooted
<1> QED
  BY <1>2, <1>4, <1>5, <1>6 DEF TreeInv
-----------------------------------------------------------------------------
(* Division with remainder, as shifts and masks of addresses use it.       *)
LEMMA DivMod ==
  ASSUME NEW d \in Nat \ {0}, NEW x \in Nat
  PROVE  /\ x = d * (x \div d) + (x % d)
         /\ x \div d \in Nat /\ x % d \in Nat /\ x % d < d
BY SMT, Z3

(* Multiplication is monotone.                                             *)
LEMMA TimesGrows ==
  ASSUME NEW d \in Nat, NEW x \in Int, NEW y \in Int, x <= y
  PROVE  d * x <= d * y
BY SMT, Z3

(* A quotient is determined by the number and a remainder below d.         *)
LEMMA DivModUnique ==
  ASSUME NEW d \in Nat \ {0}, NEW x \in Nat, NEW y \in Nat,
         NEW r \in Nat, r < d, NEW s \in Nat, s < d, d * x + r = d * y + s
  PROVE  x = y
<1>1. d * (x + 1) = d * x + d /\ d * (y + 1) = d * y + d
  BY SMT, Z3
<1>2. d * x \in Int /\ d * y \in Int
  BY SMT, Z3
<1>3. CASE x < y
  <2>1. d * (x + 1) <= d * y
    BY SMT, Z3, <1>3, TimesGrows
  <2> QED BY SMT, Z3, <1>1, <1>2, <2>1
<1>4. CASE y < x
  <2>1. d * (y + 1) <= d * x
    BY SMT, Z3, <1>4, TimesGrows
  <2> QED BY SMT, Z3, <1>1, <1>2, <2>1
<1> QED
  BY SMT, Z3, <1>3, <1>4

(* Two shifts by nine bits are one by eighteen.                            *)
LEMMA DivTwice ==
  ASSUME NEW d \in Nat \ {0}, NEW x \in Nat
  PROVE  x \div (d * d) = (x \div d) \div d
<1> DEFINE y == x \div d
           q == y \div d
           r == x % d
           s == y % d
           g == d * d
           t == d * s + r
<1>1. x = d * y + r /\ y \in Nat /\ r \in Nat /\ r < d
  BY DivMod
<1>2. y = d * q + s /\ q \in Nat /\ s \in Nat /\ s < d
  BY <1>1, DivMod
<1> HIDE DEF y, q, r, s
<1>3. x = g * q + t
  <2>1. d * y = d * (d * q) + d * s
    BY SMT, Z3, <1>2
  <2>2. d * (d * q) = (d * d) * q
    BY SMT, Z3, <1>2
  <2>3. d * y \in Int /\ d * s \in Int /\ (d * d) * q \in Int
    BY SMT, Z3, <1>1, <1>2
  <2> QED BY SMT, Z3, <1>1, <2>1, <2>2, <2>3
<1>4. g \in Nat \ {0} /\ t \in Nat /\ t < g
  <2>1. d * (s + 1) <= d * d
    BY SMT, Z3, <1>2, TimesGrows
  <2>2. d * (s + 1) = d * s + d /\ d * s \in Nat
    BY SMT, Z3, <1>2
  <2>3. g \in Nat \ {0}
    BY SMT, Z3
  <2> QED BY SMT, Z3, <1>1, <2>1, <2>2, <2>3
<1> HIDE DEF g, t
<1>5. x = g * (x \div g) + (x % g) /\ x \div g \in Nat /\ x % g \in Nat /\ x % g < g
  BY <1>4, DivMod
<1>6. x \div g = q
  BY <1>2, <1>3, <1>4, <1>5, DivModUnique
<1> QED
  BY <1>6 DEF g, q, y

(* A chunk of a copy stays in the page it starts in.                       *)
LEMMA ChunkInPage ==
  ASSUME NEW va \in Nat, NEW len \in Nat
  PROVE  /\ ChunkLen(va, len) \in 0 .. len /\ (len > 0 => ChunkLen(va, len) > 0)
         /\ \A k \in 0 .. ChunkLen(va, len) - 1 :
              /\ (va + k) \div PGSIZE = va \div PGSIZE
              /\ (va + k) % PGSIZE = (va % PGSIZE) + k
<1> DEFINE d == PGSIZE
           q == va \div d
           r == va % d
<1>1. d \in Nat \ {0}
  BY VMAssumption
<1>2. va = d * q + r /\ q \in Nat /\ r \in Nat /\ r < d
  BY <1>1, DivMod
<1>3. ChunkLen(va, len) = IF len < d - r THEN len ELSE d - r
  BY DEF ChunkLen
<1> HIDE DEF d, q, r
<1>4. ChunkLen(va, len) \in 0 .. len /\ (len > 0 => ChunkLen(va, len) > 0)
  BY SMT, Z3, <1>1, <1>2, <1>3
<1>5. ASSUME NEW k \in 0 .. ChunkLen(va, len) - 1
      PROVE  (va + k) \div d = q /\ (va + k) % d = r + k
  <2> DEFINE x == va + k
             s == r + k
  <2>1. x \in Nat /\ s \in Nat /\ s < d /\ d * q \in Nat
    BY SMT, Z3, <1>1, <1>2, <1>3
  <2>2. x = d * q + s
    BY SMT, Z3, <1>2, <2>1
  <2> HIDE DEF x, s
  <2>3. x = d * (x \div d) + (x % d) /\ x \div d \in Nat /\ x % d \in Nat /\ x % d < d
    BY <1>1, <2>1, DivMod
  <2>4. x \div d = q
    BY <1>1, <1>2, <2>1, <2>2, <2>3, DivModUnique
  <2>5. x % d = s
    BY SMT, Z3, <2>1, <2>2, <2>3, <2>4
  <2> QED BY <2>4, <2>5 DEF x, s
<1> QED
  BY <1>4, <1>5 DEF d, q, r

(* The pages between two addresses are those of the addresses between.     *)
LEMMA PagesBetween ==
  ASSUME NEW x \in Nat, NEW y \in Nat, x <= y
  PROVE  /\ x \div PGSIZE \in Nat /\ y \div PGSIZE \in Nat
         /\ x \div PGSIZE <= y \div PGSIZE
         /\ \A j \in x \div PGSIZE .. y \div PGSIZE : \E z \in x .. y : z \div PGSIZE = j
<1> DEFINE d == PGSIZE
           a == x \div d
           b == y \div d
<1>1. d \in Nat \ {0}
  BY VMAssumption
<1>2. /\ x = d * a + (x % d) /\ a \in Nat /\ x % d \in Nat /\ x % d < d
      /\ y = d * b + (y % d) /\ b \in Nat /\ y % d \in Nat /\ y % d < d
  BY <1>1, DivMod
<1> HIDE DEF d, a, b
<1>3. a <= b
  <2> SUFFICES ASSUME b < a PROVE FALSE
    BY SMT, Z3, <1>2
  <2>1. d * (b + 1) <= d * a
    BY SMT, Z3, <1>1, <1>2, TimesGrows
  <2>2. d * (b + 1) = d * b + d /\ d * b \in Nat /\ d * a \in Nat
    BY SMT, Z3, <1>1, <1>2
  <2> QED BY SMT, Z3, <1>1, <1>2, <2>1, <2>2
<1>4. ASSUME NEW j \in a .. b PROVE \E z \in x .. y : z \div d = j
  <2>1. CASE j = a
    BY SMT, Z3, <1>2, <2>1 DEF a
  <2>2. CASE j # a
    <3> DEFINE z == d * j
    <3>1. j \in Nat /\ a + 1 <= j /\ j <= b
      BY SMT, Z3, <1>2, <2>2
    <3>2. d * (a + 1) <= d * j /\ d * j <= d * b
      BY SMT, Z3, <1>1, <1>2, <3>1, TimesGrows
    <3>3. d * (a + 1) = d * a + d /\ d * a \in Nat /\ d * b \in Nat /\ z \in Nat
      BY SMT, Z3, <1>1, <1>2, <3>1
    <3>4. x <= z /\ z <= y
      BY SMT, Z3, <1>1, <1>2, <3>2, <3>3
    <3> HIDE DEF z
    <3>5. z = d * (z \div d) + (z % d) /\ z \div d \in Nat /\ z % d \in Nat /\ z % d < d
      BY <1>1, <3>3, DivMod
    <3>6. z = d * j + 0 /\ 0 < d
      BY SMT, Z3, <1>1, <3>1, <3>3 DEF z
    <3>7. z \div d = j
      BY <1>1, <3>1, <3>5, <3>6, DivModUnique
    <3> QED BY SMT, Z3, <3>3, <3>4, <3>7
  <2> QED BY <2>1, <2>2
<1> QED
  BY <1>2, <1>3, <1>4 DEF a, b, d

(* A set that holds 0 and goes on from each number below N to the next.    *)
CountsUp(G, N) == 0 \in G /\ \A k \in 0 .. N : k < N /\ k \in G => k + 1 \in G

(* Such a set holds all numbers up to N.                                   *)
LEMMA AllReached ==
  ASSUME NEW N \in Nat, NEW G, CountsUp(G, N)
  PROVE  \A k \in 0 .. N : k \in G
<1> DEFINE B == {k \in 0 .. N : k \notin G}
           b == Least(B)
<1> SUFFICES ASSUME B # {} PROVE FALSE
  OBVIOUS
<1>1. b \in B /\ \A y \in B : b <= y
  BY SMT, Z3, LeastIsLeast
<1> HIDE DEF b
<1>2. b # 0 /\ b - 1 \in 0 .. N /\ b - 1 < N
  BY SMT, Z3, <1>1 DEF CountsUp
<1>3. b - 1 \in G
  BY SMT, Z3, <1>1, <1>2
<1> QED
  BY SMT, Z3, <1>1, <1>2, <1>3 DEF CountsUp

(* One turn of the loop of copyin and copyout, where f has what the later  *)
(* turns do.                                                               *)
CopyTurn(root, start, total, f, left) ==
  LET va == start + (total - left)
      pa == translate_user(root, va \div PGSIZE)
      m == ChunkLen(va, left)
      rest == f[left - m]
  IN  CASE left = 0 -> [ok |-> TRUE, bytes |-> << >>]
        [] left > 0 /\ ~Valid(pa) -> [ok |-> FALSE, bytes |-> << >>]
        [] OTHER -> [ok |-> rest.ok, bytes |-> Chunk(pa, va % PGSIZE, m) \o rest.bytes]

(* A turn looks at what is left after it, which is less.                   *)
LEMMA CopyTurnSame ==
  ASSUME NEW root, NEW start \in Nat, NEW total \in Nat, NEW left \in 0 .. total,
         NEW f, NEW g, \A j \in 0 .. left-1 : f[j] = g[j]
  PROVE  CopyTurn(root, start, total, f, left) = CopyTurn(root, start, total, g, left)
<1> DEFINE va == start + (total - left)
           m == ChunkLen(va, left)
<1>1. va \in Nat /\ left \in Nat
  BY SMT, Z3
<1>2. m \in 0 .. left /\ (left > 0 => m > 0)
  BY <1>1, ChunkInPage
<1>3. left > 0 => f[left - m] = g[left - m]
  <2> HIDE DEF m
  <2> QED BY SMT, Z3, <1>1, <1>2
<1>4. CASE left = 0
  BY SMT, Z3, <1>4 DEF CopyTurn
<1>5. CASE left > 0
  <2> DEFINE pa == translate_user(root, va \div PGSIZE)
             x == f[left - m]
             y == g[left - m]
             C == Chunk(pa, va % PGSIZE, m)
  <2>1. CopyTurn(root, start, total, f, left) =
          IF ~Valid(pa) THEN [ok |-> FALSE, bytes |-> << >>]
          ELSE [ok |-> x.ok, bytes |-> C \o x.bytes]
    BY SMT, Z3, <1>5 DEF CopyTurn
  <2>2. CopyTurn(root, start, total, g, left) =
          IF ~Valid(pa) THEN [ok |-> FALSE, bytes |-> << >>]
          ELSE [ok |-> y.ok, bytes |-> C \o y.bytes]
    BY SMT, Z3, <1>5 DEF CopyTurn
  <2>3. x = y
    BY <1>3, <1>5
  <2> HIDE DEF pa, C, m, x, y
  <2>4. x.ok = y.ok /\ C \o x.bytes = C \o y.bytes
    BY <2>3
  <2> QED BY SMT, Z3, <2>1, <2>2, <2>4
<1> QED
  BY SMT, Z3, <1>1, <1>4, <1>5

(* The function that Copy defines by recursion exists, and Copy is what it *)
(* does for the whole length.                                              *)
LEMMA CopyDefined ==
  ASSUME NEW root, NEW start \in Nat, NEW total \in Nat
  PROVE  \E F : /\ \A left \in 0 .. total : F[left] = CopyTurn(root, start, total, F, left)
                /\ Copy(root, start, total) = F[total]
<1> DEFINE Turn(f, left) == CopyTurn(root, start, total, f, left)
           Does(f, k) == \A left \in 0 .. k : f[left] = Turn(f, left)
           G == {k \in 0 .. total : \E f : Does(f, k)}
<1>1. 0 \in G
  <2> DEFINE f == [left \in 0 .. 0 |-> Turn(<<>>, left)]
  <2>1. f[0] = Turn(<<>>, 0)
    BY SMT, Z3
  <2>2. Turn(<<>>, 0) = Turn(f, 0)
    BY SMT, Z3, CopyTurnSame
  <2> HIDE DEF f, Turn
  <2>3. Does(f, 0)
    BY SMT, Z3, <2>1, <2>2
  <2> HIDE DEF Does
  <2> QED BY SMT, Z3, <2>3
<1>2. ASSUME NEW k \in 0 .. total, k < total, k \in G PROVE k + 1 \in G
  <2>1. PICK f : Does(f, k)
    BY <1>2
  <2> DEFINE g == [left \in 0 .. k + 1 |-> IF left <= k THEN f[left] ELSE Turn(f, k + 1)]
  <2>2. \A left \in 0 .. k : g[left] = f[left]
    BY SMT, Z3, <1>2
  <2>3. g[k + 1] = Turn(f, k + 1)
    BY SMT, Z3, <1>2
  <2> HIDE DEF g
  <2>4. ASSUME NEW left \in 0 .. k + 1 PROVE Turn(g, left) = Turn(f, left)
    <3>1. left \in 0 .. total /\ \A j \in 0 .. left-1 : g[j] = f[j]
      BY SMT, Z3, <1>2, <2>2
    <3> QED BY SMT, Z3, <3>1, CopyTurnSame
  <2> HIDE DEF Turn
  <2>5. Does(g, k + 1)
    <3> SUFFICES ASSUME NEW left \in 0 .. k + 1 PROVE g[left] = Turn(g, left)
      OBVIOUS
    <3>1. left \in 0 .. k \/ left = k + 1
      BY SMT, Z3, <1>2
    <3> QED BY <2>1, <2>2, <2>3, <2>4, <3>1
  <2> HIDE DEF Does
  <2> QED BY SMT, Z3, <1>2, <2>5
<1> HIDE DEF Turn, G
<1>3. total \in G
  <2>1. CountsUp(G, total)
    BY <1>1, <1>2 DEF CountsUp
  <2> QED BY SMT, Z3, <2>1, AllReached
<1>4. PICK f : Does(f, total)
  BY <1>3 DEF G
<1> DEFINE Is(h) == h = [left \in 0 .. total |-> Turn(h, left)]
           F == CHOOSE h : Is(h)
<1>5. \E h : Is(h)
  <2> DEFINE h == [left \in 0 .. total |-> f[left]]
  <2>1. \A left \in 0 .. total : h[left] = f[left]
    OBVIOUS
  <2>2. ASSUME NEW left \in 0 .. total PROVE Turn(h, left) = f[left]
    <3>1. \A j \in 0 .. left-1 : h[j] = f[j]
      BY SMT, Z3
    <3> HIDE DEF h
    <3>2. Turn(h, left) = Turn(f, left)
      BY SMT, Z3, <3>1, CopyTurnSame DEF Turn
    <3> QED BY <1>4, <3>2
  <2>3. h = [left \in 0 .. total |-> Turn(h, left)]
    BY <2>2
  <2> QED BY <2>3
<1>6. Is(F)
  <2> HIDE DEF Is
  <2> QED BY <1>5
<1>7. Copy(root, start, total) = F[total]
  BY DEF Copy, CopyTurn, Turn
<1> HIDE DEF F
<1>8. \A left \in 0 .. total : F[left] = Turn(F, left)
  BY <1>6
<1> QED
  BY <1>7, <1>8 DEF Turn

(* The bytes of a stretch of user memory, and what it is for c to hold     *)
(* those up to the first that is not mapped.                               *)
Bytes(root, va, len) == [i \in 1 .. len |-> Byte(root, va + (i - 1))]

CopiedUpTo(root, va, len, c) ==
  \E L \in 0 .. len :
    /\ c.bytes = Bytes(root, va, L) /\ (c.ok <=> L = len)
    /\ \A j \in 0 .. L-1 : Mapped(root, va + j)
    /\ L < len => ~Mapped(root, va + L)

(* One stretch after the other.                                            *)
LEMMA BytesJoin ==
  ASSUME NEW root, NEW va \in Nat, NEW k \in Nat, NEW L \in Nat
  PROVE  Bytes(root, va, k) \o Bytes(root, va + k, L) = Bytes(root, va, k + L)
<1> DEFINE S == {Byte(root, x) : x \in Nat}
           u == Bytes(root, va, k)
           v == Bytes(root, va + k, L)
           w == Bytes(root, va, k + L)
<1>1. u \in Seq(S) /\ v \in Seq(S) /\ Len(u) = k /\ Len(v) = L
  <2>1. \A i \in 1 .. k : Byte(root, va + (i - 1)) \in S
    BY SMT, Z3
  <2>2. \A i \in 1 .. L : Byte(root, va + k + (i - 1)) \in S
    BY SMT, Z3
  <2> HIDE DEF S
  <2> QED BY SMT, Z3, <2>1, <2>2 DEF Bytes
<1>2. \A i \in 1 .. k : u[i] = Byte(root, va + (i - 1))
  BY DEF Bytes
<1>3. \A i \in 1 .. L : v[i] = Byte(root, va + k + (i - 1))
  BY DEF Bytes
<1>4. w = [i \in 1 .. k + L |-> Byte(root, va + (i - 1))]
  BY DEF Bytes
<1> HIDE DEF u, v, w, S
<1> DEFINE z == u \o v
<1>5. /\ z \in Seq(S) /\ Len(z) = k + L
      /\ \A i \in 1 .. k : z[i] = u[i]
      /\ \A i \in 1 .. L : z[k + i] = v[i]
  BY SMT, Z3, <1>1
<1> HIDE DEF z
<1>6. ASSUME NEW i \in 1 .. k + L PROVE z[i] = Byte(root, va + (i - 1))
  <2>1. CASE i <= k
    BY SMT, Z3, <1>2, <1>5, <2>1
  <2>2. CASE ~(i <= k)
    <3>1. i - k \in 1 .. L /\ va + k + (i - k - 1) = va + (i - 1) /\ k + (i - k) = i
      BY SMT, Z3, <2>2
    <3>2. z[k + (i - k)] = v[i - k] /\ v[i - k] = Byte(root, va + k + (i - k - 1))
      BY <1>3, <1>5, <3>1
    <3> QED BY <3>1, <3>2
  <2> QED BY <2>1, <2>2
<1>7. z = w
  <2>1. z = [i \in 1 .. k + L |-> z[i]]
    BY SMT, Z3, <1>5
  <2> QED BY <1>4, <1>6, <2>1
<1> QED
  BY <1>7 DEF u, v, w, z

(* Every turn of the loop copies up to the first byte that is not mapped.  *)
LEMMA CopyTurnCopies ==
  ASSUME NEW root, NEW start \in Nat, NEW total \in Nat, NEW left \in 0 .. total, NEW f,
         \A j \in 0 .. left-1 : CopiedUpTo(root, start + (total - j), j, f[j])
  PROVE  CopiedUpTo(root, start + (total - left), left, CopyTurn(root, start, total, f, left))
<1> DEFINE va == start + (total - left)
           m == ChunkLen(va, left)
           pa == translate_user(root, va \div PGSIZE)
           c == CopyTurn(root, start, total, f, left)
<1>1. va \in Nat /\ left \in Nat
  BY SMT, Z3
<1>2. CASE left = 0
  <2>1. c = [ok |-> TRUE, bytes |-> << >>]
    BY SMT, Z3, <1>2 DEF CopyTurn
  <2>2. Bytes(root, va, 0) = << >>
    BY SMT, Z3 DEF Bytes
  <2> HIDE DEF c, va
  <2>3. CopiedUpTo(root, va, left, c)
    BY SMT, Z3, <1>2, <2>1, <2>2 DEF CopiedUpTo
  <2> QED BY <2>3 DEF c, va
<1>3. CASE left > 0 /\ ~Valid(pa)
  <2>1. c = [ok |-> FALSE, bytes |-> << >>]
    BY SMT, Z3, <1>3 DEF CopyTurn
  <2>2. Bytes(root, va, 0) = << >>
    BY SMT, Z3 DEF Bytes
  <2>3. ~Mapped(root, va + 0)
    BY SMT, Z3, <1>1, <1>3 DEF Mapped
  <2> HIDE DEF c, va
  <2>4. CopiedUpTo(root, va, left, c)
    BY SMT, Z3, <1>1, <1>3, <2>1, <2>2, <2>3 DEF CopiedUpTo
  <2> QED BY <2>4 DEF c, va
<1>4. CASE left > 0 /\ Valid(pa)
  <2> DEFINE r == left - m
             rest == f[r]
             C == Chunk(pa, va % PGSIZE, m)
  <2>1. m \in 0 .. left /\ m > 0 /\ m \in Nat
    <3>1. m \in 0 .. left /\ (left > 0 => m > 0)
      BY <1>1, ChunkInPage
    <3> HIDE DEF m
    <3> QED BY SMT, Z3, <1>1, <1>4, <3>1
  <2>2. c = [ok |-> rest.ok, bytes |-> C \o rest.bytes]
    BY SMT, Z3, <1>4 DEF CopyTurn
  <2>3. \A k \in 0 .. m-1 : /\ (va + k) \div PGSIZE = va \div PGSIZE
                            /\ (va + k) % PGSIZE = (va % PGSIZE) + k
    BY <1>1, ChunkInPage
  <2>4. \A k \in 0 .. m-1 : /\ Mapped(root, va + k)
                            /\ Byte(root, va + k) = <<pa.in, pa.to, (va % PGSIZE) + k>>
    <3> SUFFICES ASSUME NEW k \in 0 .. m-1
                 PROVE  /\ Mapped(root, va + k)
                        /\ Byte(root, va + k) = <<pa.in, pa.to, (va % PGSIZE) + k>>
      OBVIOUS
    <3>1. /\ translate_user(root, (va + k) \div PGSIZE) = pa
          /\ (va + k) % PGSIZE = (va % PGSIZE) + k
      BY <2>3
    <3> HIDE DEF m, va, pa
    <3> QED BY <1>4, <3>1 DEF Mapped, Byte
  <2>5. r \in 0 .. left-1 /\ start + (total - r) = va + m
    <3> HIDE DEF m
    <3> QED BY SMT, Z3, <2>1
  <2> HIDE DEF m, va, pa, c, r
  <2>6. C = Bytes(root, va, m)
    <3>1. \A i \in 1 .. m : i - 1 \in 0 .. m-1
      BY SMT, Z3, <2>1
    <3>2. \A i \in 1 .. m : (va % PGSIZE) + i - 1 = (va % PGSIZE) + (i - 1)
      OBVIOUS
    <3>3. \A i \in 1 .. m : <<pa.in, pa.to, (va % PGSIZE) + i - 1>> = Byte(root, va + (i - 1))
      BY <2>4, <3>1, <3>2
    <3> QED BY <3>3 DEF Chunk, Bytes
  <2>7. CopiedUpTo(root, va + m, r, rest)
    BY <2>5
  <2>8. PICK L \in 0 .. r :
          /\ rest.bytes = Bytes(root, va + m, L) /\ (rest.ok <=> L = r)
          /\ \A j \in 0 .. L-1 : Mapped(root, va + m + j)
          /\ L < r => ~Mapped(root, va + m + L)
    BY <2>7 DEF CopiedUpTo
  <2>9. r \in Nat /\ L \in Nat /\ left = m + r /\ m + L \in 0 .. left
    BY SMT, Z3, <1>1, <2>1, <2>5 DEF r
  <2>10. c.bytes = Bytes(root, va, m + L) /\ (c.ok <=> m + L = left)
    <3>1. C \o rest.bytes = Bytes(root, va, m + L)
      <4>1. Bytes(root, va, m) \o Bytes(root, va + m, L) = Bytes(root, va, m + L)
        <5>1. va \in Nat /\ m \in Nat /\ L \in Nat
          BY <1>1, <2>1, <2>9
        <5> QED BY <5>1, BytesJoin
      <4> QED BY <2>6, <2>8, <4>1
    <3> HIDE DEF C, rest
    <3>2. c.bytes = C \o rest.bytes /\ c.ok = rest.ok
      BY <2>2
    <3>3. L = r <=> m + L = left
      BY SMT, Z3, <2>1, <2>9
    <3> QED BY <2>8, <3>1, <3>2, <3>3
  <2>11. ASSUME NEW j \in 0 .. (m + L) - 1 PROVE Mapped(root, va + j)
    <3>1. CASE j < m
      BY SMT, Z3, <2>1, <2>4, <2>9, <3>1
    <3>2. CASE ~(j < m)
      <4>1. j - m \in 0 .. L-1 /\ va + m + (j - m) = va + j
        BY SMT, Z3, <1>1, <2>1, <2>9, <3>2
      <4> QED BY <2>8, <4>1
    <3> QED BY <3>1, <3>2
  <2>12. m + L < left => ~Mapped(root, va + (m + L))
    <3>1. va + m + L = va + (m + L)
      BY SMT, Z3, <1>1, <2>1, <2>9
    <3> QED BY SMT, Z3, <2>1, <2>8, <2>9, <3>1
  <2>13. CopiedUpTo(root, va, left, c)
    <3>1. PICK K : K = m + L
      OBVIOUS
    <3>2. /\ K \in 0 .. left /\ c.bytes = Bytes(root, va, K) /\ (c.ok <=> K = left)
          /\ \A j \in 0 .. K-1 : Mapped(root, va + j)
          /\ K < left => ~Mapped(root, va + K)
      BY <2>9, <2>10, <2>11, <2>12, <3>1
    <3> QED BY <3>2 DEF CopiedUpTo
  <2> QED BY <2>13 DEF c, va
<1> QED
  BY SMT, Z3, <1>1, <1>2, <1>3, <1>4

(* copyin and copyout copy the bytes up to the first that is not mapped.   *)
LEMMA CopyCopies ==
  ASSUME NEW root, NEW va \in Nat, NEW len \in Nat
  PROVE  CopiedUpTo(root, va, len, Copy(root, va, len))
<1>1. PICK F : /\ \A left \in 0 .. len : F[left] = CopyTurn(root, va, len, F, left)
               /\ Copy(root, va, len) = F[len]
  BY CopyDefined
<1> DEFINE Good(j) == CopiedUpTo(root, va + (len - j), j, F[j])
           G == {k \in 0 .. len : \A j \in 0 .. k : Good(j)}
<1>2. ASSUME NEW k \in 0 .. len, \A j \in 0 .. k-1 : Good(j) PROVE Good(k)
  <2>1. CopiedUpTo(root, va + (len - k), k, CopyTurn(root, va, len, F, k))
    BY <1>2, CopyTurnCopies
  <2> QED BY <1>1, <2>1
<1> HIDE DEF Good
<1>3. 0 \in G
  <2>1. Good(0)
    BY SMT, Z3, <1>2
  <2> QED BY SMT, Z3, <2>1
<1>4. ASSUME NEW k \in 0 .. len, k < len, k \in G PROVE k + 1 \in G
  <2>1. k + 1 \in 0 .. len /\ \A j \in 0 .. (k + 1) - 1 : Good(j)
    BY SMT, Z3, <1>4
  <2>2. Good(k + 1)
    BY <1>2, <2>1
  <2>3. \A j \in 0 .. k + 1 : j \in 0 .. k \/ j = k + 1
    BY SMT, Z3, <1>4
  <2> QED BY <1>4, <2>1, <2>2, <2>3
<1> HIDE DEF G
<1>5. len \in G
  <2>1. CountsUp(G, len)
    BY <1>3, <1>4 DEF CountsUp
  <2> QED BY SMT, Z3, <2>1, AllReached
<1>6. Good(len)
  BY <1>5 DEF G
<1>7. va + (len - len) = va
  BY SMT, Z3
<1> QED
  BY <1>1, <1>6, <1>7 DEF Good

(* What the copy of a stretch has touched when it ends.                    *)
LEMMA CopyTouches ==
  ASSUME NEW root, NEW va \in Nat, NEW len \in Nat
  PROVE  LET c == Copy(root, va, len)
         IN  /\ c.ok <=> \A j \in 0 .. len-1 : Mapped(root, va + j)
             /\ \A i \in 1 .. Len(c.bytes) : c.bytes[i] = Byte(root, va + i - 1)
             /\ Len(c.bytes) < len => ~Mapped(root, va + Len(c.bytes))
             /\ Len(c.bytes) <= len /\ Len(c.bytes) \in Nat
             /\ len > 0 => {(va + i - 1) \div PGSIZE : i \in 1 .. Len(c.bytes)}
                              = Reached(root, va, len)
<1> DEFINE c == Copy(root, va, len)
           P(x) == x \div PGSIZE
<1>1. PICK L \in 0 .. len :
        /\ c.bytes = Bytes(root, va, L) /\ (c.ok <=> L = len)
        /\ \A j \in 0 .. L-1 : Mapped(root, va + j)
        /\ L < len => ~Mapped(root, va + L)
  BY CopyCopies DEF CopiedUpTo
<1>2. L \in Nat /\ L <= len
  BY SMT, Z3
<1> HIDE DEF c
<1>3. Len(c.bytes) = L /\ \A i \in 1 .. L : c.bytes[i] = Byte(root, va + (i - 1))
  <2>1. Len(Bytes(root, va, L)) = L
    BY SMT, Z3, <1>2 DEF Bytes
  <2>2. \A i \in 1 .. L : Bytes(root, va, L)[i] = Byte(root, va + (i - 1))
    BY DEF Bytes
  <2> QED BY <1>1, <2>1, <2>2
<1>4. c.ok <=> \A j \in 0 .. len-1 : Mapped(root, va + j)
  <2>1. CASE L = len
    BY <1>1, <2>1
  <2>2. CASE L < len
    <3>1. L \in 0 .. len-1
      BY SMT, Z3, <1>2, <2>2
    <3> QED BY <1>1, <2>2, <3>1
  <2> QED BY SMT, Z3, <1>2, <2>1, <2>2
<1>5. ASSUME len > 0
      PROVE  {P(va + (i - 1)) : i \in 1 .. L} = Reached(root, va, len)
  <2> DEFINE e == va + (len - 1)
  <2>1. e \in Nat /\ va <= e /\ va + len - 1 = e
    BY SMT, Z3, <1>5
  <2> HIDE DEF e
  <2>2. Reached(root, va, len) =
          {k \in P(va) .. P(e) : \A j \in P(va) .. k : Valid(translate_user(root, j))}
    BY <2>1 DEF Reached
  <2>3. ASSUME NEW i \in 1 .. L PROVE P(va + (i - 1)) \in Reached(root, va, len)
    <3> DEFINE y == va + (i - 1)
    <3>1. y \in Nat /\ va <= y /\ y <= e
      BY SMT, Z3, <1>2, <2>1 DEF e
    <3> HIDE DEF y
    <3>2. P(y) \in P(va) .. P(e)
      BY SMT, Z3, <2>1, <3>1, PagesBetween
    <3>3. ASSUME NEW j \in P(va) .. P(y) PROVE Valid(translate_user(root, j))
      <4>1. PICK x \in va .. y : P(x) = j
        BY SMT, Z3, <3>1, PagesBetween
      <4>2. x - va \in 0 .. L-1 /\ va + (x - va) = x
        BY SMT, Z3, <1>2, <3>1 DEF y
      <4>3. Mapped(root, x)
        BY <1>1, <4>2
      <4> QED BY <4>1, <4>3 DEF Mapped
    <3>4. P(y) \in Reached(root, va, len)
      BY <2>2, <3>2, <3>3
    <3> QED BY <3>4 DEF y
  <2>4. ASSUME NEW k \in Reached(root, va, len)
        PROVE  \E i \in 1 .. L : k = P(va + (i - 1))
    <3>1. k \in P(va) .. P(e) /\ \A j \in P(va) .. k : Valid(translate_user(root, j))
      BY <2>2
    <3>2. PICK x \in va .. e : P(x) = k
      BY SMT, Z3, <2>1, <3>1, PagesBetween
    <3>3. x \in Nat /\ va <= x /\ x <= e
      BY SMT, Z3, <2>1
    <3>4. x - va < L
      <4> SUFFICES ASSUME L <= x - va PROVE FALSE
        BY SMT, Z3, <1>2, <3>3
      <4>1. L < len /\ va + L \in Nat /\ va <= va + L /\ va + L <= x
        BY SMT, Z3, <1>2, <2>1, <3>3 DEF e
      <4>2. P(va) <= P(va + L) /\ P(va + L) <= P(x) /\ P(va + L) \in Nat /\ P(va) \in Nat
            /\ P(x) \in Nat
        BY <3>3, <4>1, PagesBetween
      <4>3. P(va + L) \in P(va) .. k
        BY SMT, Z3, <3>2, <4>2
      <4>4. Valid(translate_user(root, P(va + L)))
        BY <3>1, <4>3
      <4> QED BY <1>1, <4>1, <4>4 DEF Mapped
    <3>5. PICK i : i = (x - va) + 1
      OBVIOUS
    <3>6. i \in 1 .. L /\ va + (i - 1) = x
      BY SMT, Z3, <1>2, <3>3, <3>4, <3>5
    <3> QED BY <3>2, <3>6
  <2> QED BY <2>3, <2>4
<1>6. \A i \in 1 .. L : va + i - 1 = va + (i - 1)
  OBVIOUS
<1> QED
  BY <1>1, <1>2, <1>3, <1>4, <1>5, <1>6 DEF c

(* One turn of the loop of copyinstr, where f has what the later turns do. *)
ReadTurn(root, start, max, f, i) ==
  LET c == Copy(root, start + i, 1)
  IN  CASE i = max -> max
        [] i < max /\ ~c.ok -> -1
        [] OTHER -> IF mem[c.bytes[1][1]][c.bytes[1][2]] = 0 THEN i + 1
                    ELSE f[i + 1]

(* A turn looks at the one after it only.                                  *)
LEMMA ReadTurnSame ==
  ASSUME NEW root, NEW start \in Nat, NEW max \in Nat, NEW i \in 0 .. max, NEW f, NEW g,
         i < max => f[i + 1] = g[i + 1]
  PROVE  ReadTurn(root, start, max, f, i) = ReadTurn(root, start, max, g, i)
<1>1. CASE i = max
  BY <1>1 DEF ReadTurn
<1>2. CASE i < max
  BY <1>2 DEF ReadTurn
<1> QED
  BY SMT, Z3, <1>1, <1>2

(* The function that copyinstr defines by recursion exists.                *)
LEMMA ReadDefined ==
  ASSUME NEW root, NEW start \in Nat, NEW max \in Nat
  PROVE  \E F : /\ \A i \in 0 .. max : F[i] = ReadTurn(root, start, max, F, i)
                /\ copyinstr(root, start, max) = F[0]
<1> DEFINE Turn(f, i) == ReadTurn(root, start, max, f, i)
           Does(f, k) == \A i \in max - k .. max : f[i] = Turn(f, i)
           G == {k \in 0 .. max : \E f : Does(f, k)}
<1>1. ASSUME NEW i \in 0 .. max, NEW f, NEW g, i < max => f[i + 1] = g[i + 1]
      PROVE  Turn(f, i) = Turn(g, i)
  BY SMT, Z3, <1>1, ReadTurnSame
<1> HIDE DEF Turn
<1>2. 0 \in G
  <2> DEFINE f == [i \in max .. max |-> Turn(<<>>, i)]
  <2>1. f[max] = Turn(<<>>, max)
    BY SMT, Z3
  <2> HIDE DEF f
  <2>2. Turn(<<>>, max) = Turn(f, max)
    BY <1>1
  <2>3. max - 0 = max
    BY SMT, Z3
  <2>4. Does(f, 0)
    BY SMT, Z3, <2>1, <2>2, <2>3
  <2> HIDE DEF Does
  <2> QED BY SMT, Z3, <2>4
<1>3. ASSUME NEW k \in 0 .. max, k < max, k \in G PROVE k + 1 \in G
  <2>1. PICK f : Does(f, k)
    BY <1>3
  <2> DEFINE b == max - (k + 1)
             g == [i \in b .. max |-> IF i = b THEN Turn(f, b) ELSE f[i]]
  <2>2. b \in 0 .. max /\ b < max /\ b + 1 = max - k
    BY <1>3
  <2> HIDE DEF b
  <2>3. g[b] = Turn(f, b) /\ \A i \in b + 1 .. max : g[i] = f[i]
    BY <2>2
  <2> HIDE DEF g
  <2>4. Does(g, k + 1)
    <3> SUFFICES ASSUME NEW i \in b .. max PROVE g[i] = Turn(g, i)
      BY DEF b
    <3>1. CASE i = b
      <4>1. f[b + 1] = g[b + 1]
        BY <2>2, <2>3
      <4> QED BY <1>1, <2>2, <2>3, <3>1, <4>1
    <3>2. CASE i # b
      <4>1. i \in b + 1 .. max /\ i \in 0 .. max /\ (i < max => i + 1 \in b + 1 .. max)
        BY <2>2, <3>2
      <4>2. f[i] = Turn(f, i)
        BY <2>1, <2>2, <4>1
      <4>3. Turn(f, i) = Turn(g, i)
        BY <1>1, <2>3, <4>1
      <4> QED BY <2>3, <4>1, <4>2, <4>3
    <3> QED BY <3>1, <3>2
  <2> HIDE DEF Does
  <2> QED BY <1>3, <2>4
<1> HIDE DEF G
<1>4. max \in G
  <2>1. CountsUp(G, max)
    BY <1>2, <1>3 DEF CountsUp
  <2> QED BY <2>1, AllReached
<1>5. PICK f : \A i \in 0 .. max : f[i] = Turn(f, i)
  <2>1. PICK f : Does(f, max)
    BY <1>4 DEF G
  <2>2. max - max = 0
    OBVIOUS
  <2> QED BY <2>1, <2>2
<1> DEFINE Is(h) == h = [i \in 0 .. max |-> Turn(h, i)]
           F == CHOOSE h : Is(h)
<1>6. \E h : Is(h)
  <2> DEFINE h == [i \in 0 .. max |-> f[i]]
  <2>1. \A i \in 0 .. max : h[i] = f[i]
    OBVIOUS
  <2>2. ASSUME NEW i \in 0 .. max PROVE Turn(h, i) = f[i]
    <3> HIDE DEF h
    <3>1. i < max => h[i + 1] = f[i + 1]
      BY <2>1
    <3> QED BY <1>1, <1>5, <3>1
  <2>3. h = [i \in 0 .. max |-> Turn(h, i)]
    BY <2>2
  <2> QED BY <2>3
<1>7. Is(F)
  <2> HIDE DEF Is
  <2> QED BY <1>6
<1>8. copyinstr(root, start, max) = F[0]
  BY DEF copyinstr, ReadTurn, Turn
<1> HIDE DEF F
<1>9. \A i \in 0 .. max : F[i] = Turn(F, i)
  BY <1>7
<1> QED
  BY <1>8, <1>9 DEF Turn

(* The bytes a .. k-1 of a string can be read, and a NUL can only be the   *)
(* last of them.                                                           *)
ReadsFrom(root, va, a, k) ==
  /\ \A j \in a .. k-1 : Mapped(root, va + j)
  /\ \A j \in a .. k-2 : LET b == Byte(root, va + j) IN mem[b[1]][b[2]] # 0

(* copyinstr stops behind the first NUL, at the length it was given, or at *)
(* the first byte that is not mapped.                                      *)
LEMMA CopyinstrReads ==
  ASSUME NEW root, NEW va \in Nat, NEW len \in Nat
  PROVE  LET got == copyinstr(root, va, len)
         IN  /\ got >= 0 => ReadsFrom(root, va, 0, got)
             /\ got = -1 => \E i \in 1 .. len : /\ ReadsFrom(root, va, 0, i - 1)
                                               /\ ~Mapped(root, va + (i - 1))
<1>1. PICK F : /\ \A i \in 0 .. len : F[i] = ReadTurn(root, va, len, F, i)
               /\ copyinstr(root, va, len) = F[0]
  BY ReadDefined
<1> DEFINE Zero(x) == mem[Byte(root, x)[1]][Byte(root, x)[2]] = 0
           Good(i) == \/ F[i] \in i .. len /\ ReadsFrom(root, va, i, F[i])
                      \/ /\ F[i] = -1
                         /\ \E e \in i + 1 .. len : /\ ReadsFrom(root, va, i, e - 1)
                                                   /\ ~Mapped(root, va + (e - 1))
           G == {k \in 0 .. len : Good(len - k)}
<1>2. ASSUME NEW i \in 0 .. len
      PROVE  F[i] = IF i = len THEN len
                    ELSE IF ~Mapped(root, va + i) THEN -1
                    ELSE IF Zero(va + i) THEN i + 1 ELSE F[i + 1]
  <2> DEFINE c == Copy(root, va + i, 1)
  <2>1. PICK x \in Nat : x = va + i
    OBVIOUS
  <2>2. PICK one \in Nat : one = 1
    OBVIOUS
  <2>3. /\ Copy(root, x, one).ok <=> \A j \in 0 .. one-1 : Mapped(root, x + j)
        /\ \A j \in 1 .. Len(Copy(root, x, one).bytes) :
             Copy(root, x, one).bytes[j] = Byte(root, x + j - 1)
        /\ Len(Copy(root, x, one).bytes) < one => ~Mapped(root, x + Len(Copy(root, x, one).bytes))
        /\ Len(Copy(root, x, one).bytes) <= one /\ Len(Copy(root, x, one).bytes) \in Nat
    BY CopyTouches
  <2>4. c = Copy(root, x, one)
    BY <2>1, <2>2
  <2> HIDE DEF c
  <2>5. /\ c.ok <=> \A j \in 0 .. one-1 : Mapped(root, x + j)
        /\ \A j \in 1 .. Len(c.bytes) : c.bytes[j] = Byte(root, x + j - 1)
        /\ Len(c.bytes) < one => ~Mapped(root, x + Len(c.bytes))
        /\ Len(c.bytes) <= one /\ Len(c.bytes) \in Nat
    BY <2>3, <2>4
  <2>6. x + 0 = x /\ x + 1 - 1 = x /\ 0 .. one-1 = {0}
    BY <2>2
  <2>7. c.ok <=> Mapped(root, va + i)
    BY <2>1, <2>5, <2>6
  <2>8. c.ok => c.bytes[1] = Byte(root, va + i)
    <3> SUFFICES ASSUME c.ok PROVE Len(c.bytes) = 1
      BY <2>1, <2>5, <2>6
    <3>1. Len(c.bytes) = 0 \/ Len(c.bytes) = 1
      <4>1. \A k \in Nat : k <= 1 => k = 0 \/ k = 1
        OBVIOUS
      <4>2. Len(c.bytes) \in Nat /\ Len(c.bytes) <= 1
        BY <2>2, <2>5
      <4> QED BY <4>1, <4>2
    <3>2. CASE Len(c.bytes) = 0
      <4>1. ~Mapped(root, x + 0)
        BY <2>2, <2>5, <3>2
      <4> QED BY <2>1, <2>6, <2>7, <4>1
    <3> QED BY <3>1, <3>2
  <2>9. F[i] = ReadTurn(root, va, len, F, i)
    BY <1>1
  <2>10. CASE i = len
    BY <2>9, <2>10 DEF ReadTurn
  <2>11. CASE i < len /\ ~c.ok
    BY <2>7, <2>9, <2>11 DEF ReadTurn, c
  <2>12. CASE i < len /\ c.ok
    <3>1. F[i] = IF mem[c.bytes[1][1]][c.bytes[1][2]] = 0 THEN i + 1 ELSE F[i + 1]
      BY <2>9, <2>12 DEF ReadTurn, c
    <3>2. mem[c.bytes[1][1]][c.bytes[1][2]] = mem[Byte(root, va + i)[1]][Byte(root, va + i)[2]]
      BY <2>8, <2>12
    <3> QED BY <2>7, <2>12, <3>1, <3>2
  <2> QED BY <2>10, <2>11, <2>12
<1>3. Good(len)
  <2>1. F[len] = len
    BY <1>2
  <2>2. ReadsFrom(root, va, len, len)
    BY DEF ReadsFrom
  <2> QED BY <2>1, <2>2
<1>4. ASSUME NEW i \in 0 .. len, i < len, Good(i + 1) PROVE Good(i)
  <2>1. i + 1 \in 0 .. len
    BY <1>4
  <2>2. F[i] = IF ~Mapped(root, va + i) THEN -1
               ELSE IF Zero(va + i) THEN i + 1 ELSE F[i + 1]
    BY <1>2, <1>4
  <2> HIDE DEF Zero
  <2>3. CASE ~Mapped(root, va + i)
    <3>1. PICK e : e = i + 1
      OBVIOUS
    <3>2. F[i] = -1 /\ e - 1 = i /\ e \in i + 1 .. len
      BY <1>4, <2>1, <2>2, <2>3, <3>1
    <3>3. ReadsFrom(root, va, i, i)
      BY DEF ReadsFrom
    <3> QED BY <2>3, <3>2, <3>3
  <2>4. CASE Mapped(root, va + i) /\ Zero(va + i)
    <3>1. F[i] = i + 1
      BY <2>2, <2>4
    <3>2. ReadsFrom(root, va, i, i + 1)
      <4>1. i .. (i + 1) - 1 = {i} /\ i .. (i + 1) - 2 = {}
        OBVIOUS
      <4> QED BY <2>4, <4>1 DEF ReadsFrom
    <3> QED BY <2>1, <3>1, <3>2
  <2>5. CASE Mapped(root, va + i) /\ ~Zero(va + i)
    <3>1. F[i] = F[i + 1]
      BY <2>2, <2>5
    <3>2. ASSUME NEW k \in Int, k >= i + 1 \/ k = i, ReadsFrom(root, va, i + 1, k)
          PROVE  ReadsFrom(root, va, i, k)
      <4>1. \A j \in i .. k-1 : j = i \/ j \in i + 1 .. k-1
        BY <3>2
      <4>2. \A j \in i .. k-2 : j = i \/ j \in i + 1 .. k-2
        BY <3>2
      <4> QED BY <2>5, <3>2, <4>1, <4>2 DEF ReadsFrom, Zero
    <3>3. CASE F[i + 1] \in i + 1 .. len /\ ReadsFrom(root, va, i + 1, F[i + 1])
      BY <3>1, <3>2, <3>3
    <3>4. CASE F[i + 1] = -1 /\ \E e \in (i + 1) + 1 .. len :
                 ReadsFrom(root, va, i + 1, e - 1) /\ ~Mapped(root, va + (e - 1))
      <4>1. PICK e \in (i + 1) + 1 .. len :
              ReadsFrom(root, va, i + 1, e - 1) /\ ~Mapped(root, va + (e - 1))
        BY <3>4
      <4>2. e - 1 \in Int /\ e - 1 >= i + 1 /\ e \in i + 1 .. len
        BY <1>4, <4>1
      <4>3. ReadsFrom(root, va, i, e - 1)
        BY <3>2, <4>1, <4>2
      <4> QED BY <3>1, <3>4, <4>1, <4>2, <4>3
    <3> QED BY <1>4, <3>3, <3>4
  <2> QED BY <2>3, <2>4, <2>5
<1> HIDE DEF Good
<1>5. 0 \in G
  <2>1. len - 0 = len
    OBVIOUS
  <2> QED BY <1>3, <2>1
<1>6. ASSUME NEW k \in 0 .. len, k < len, k \in G PROVE k + 1 \in G
  <2>1. PICK i : i = len - (k + 1)
    OBVIOUS
  <2>2. i \in 0 .. len /\ i < len /\ i + 1 = len - k
    BY <1>6, <2>1
  <2>3. Good(i)
    BY <1>4, <1>6, <2>2
  <2> QED BY <1>6, <2>1, <2>3
<1> HIDE DEF G
<1>7. len \in G
  <2>1. CountsUp(G, len)
    BY <1>5, <1>6 DEF CountsUp
  <2> QED BY <2>1, AllReached
<1>8. Good(0)
  <2>1. len - len = 0
    OBVIOUS
  <2> QED BY <1>7, <2>1 DEF G
<1> QED
  BY <1>1, <1>8 DEF Good

(* copyin, copyout and copyinstr do to a stretch of user memory what a     *)
(* loop over its bytes would, for every size of a page and every layout.   *)
THEOREM CopiesByteByByte == Spec => []CopyMatchesBytes
<1>1. CopyMatchesBytes
  <2> SUFFICES ASSUME NEW va \in 0 .. VpnLimit * PGSIZE, NEW len \in 0 .. 2 * PGSIZE
               PROVE  LET root == pagetable[current]
                          c == Copy(root, va, len)
                          got == copyinstr(root, va, len)
                          Reads(i) == /\ \A j \in 0 .. i-1 : Mapped(root, va + j)
                                      /\ \A j \in 0 .. i-2 :
                                           LET b == Byte(root, va + j) IN mem[b[1]][b[2]] # 0
                      IN  /\ c.ok <=> \A j \in 0 .. len-1 : Mapped(root, va + j)
                          /\ \A i \in 1 .. Len(c.bytes) : c.bytes[i] = Byte(root, va + i - 1)
                          /\ Len(c.bytes) < len => ~Mapped(root, va + Len(c.bytes))
                          /\ Len(c.bytes) <= len
                          /\ len > 0 => {(va + i - 1) \div PGSIZE : i \in 1 .. Len(c.bytes)}
                                           = Reached(root, va, len)
                          /\ got >= 0 => Reads(got)
                          /\ got = -1 => \E i \in 1 .. len :
                                           Reads(i-1) /\ ~Mapped(root, va + i - 1)
    BY DEF CopyMatchesBytes
  <2>1. va \in Nat /\ len \in Nat
    <3>1. VpnLimit * PGSIZE \in Nat /\ 2 * PGSIZE \in Nat
      BY VMAssumption DEF VpnLimit
    <3> QED BY <3>1
  <2>2. PICK root : root = pagetable[current]
    OBVIOUS
  <2>3. LET c == Copy(root, va, len)
        IN  /\ c.ok <=> \A j \in 0 .. len-1 : Mapped(root, va + j)
            /\ \A i \in 1 .. Len(c.bytes) : c.bytes[i] = Byte(root, va + i - 1)
            /\ Len(c.bytes) < len => ~Mapped(root, va + Len(c.bytes))
            /\ Len(c.bytes) <= len
            /\ len > 0 => {(va + i - 1) \div PGSIZE : i \in 1 .. Len(c.bytes)}
                             = Reached(root, va, len)
    BY <2>1, CopyTouches
  <2>4. LET got == copyinstr(root, va, len)
        IN  /\ got >= 0 => ReadsFrom(root, va, 0, got)
            /\ got = -1 => \E i \in 1 .. len : /\ ReadsFrom(root, va, 0, i - 1)
                                              /\ ~Mapped(root, va + (i - 1))
    BY <2>1, CopyinstrReads
  <2>5. \A i \in 1 .. len : va + i - 1 = va + (i - 1)
    BY <2>1
  <2> QED BY <2>2, <2>3, <2>4, <2>5 DEF ReadsFrom
<1> QED
  BY <1>1, PTL
-----------------------------------------------------------------------------
(* proc_wait, proc_exit and the failing kernel_pagetable remove the page   *)
(* table of slot t, and of the kernel too if it is to be lost.             *)
LEMMA DropTree ==
  ASSUME TreeInv, NEW t \in Slots, pagetable[t] # NULL,
         fn = "none" \/ fn = "kernel_pagetable",
         NEW X, X = {t} \/ X = {t, KERNEL},
         Busy' = {q \in Busy : owner[q].space \notin X},
         lost' \subseteq used', used' \subseteq used,
         UNCHANGED <<pte, owner, mem>>, slot' \in Slots, src' \in Slots,
         pagetable' = [pagetable EXCEPT ![t] = NULL],
         kernel_pt' = (IF KERNEL \in X THEN NULL ELSE kernel_pt),
         current' = NULL \/ (current' = current /\ current # t /\ satp' = satp),
         fn' = "none" /\ level' \in 0 .. 2 /\ n' \in 0 .. KernelMappings + UserMappings
           /\ pt' = NULL /\ p' \in Pages \cup {NULL},
         satp' \in Pages \cup {NULL},
         kernel_pt' # NULL =>
           \/ satp' = kernel_pt'
           \/ current # NULL /\ current # t /\ satp' = satp
  PROVE  TreeInv'
<1> USE VMAssumption, VMSentinels
<1>1. Owned' /\ EntriesOK' /\ HasParent'
  BY DropSpaces
<1>2. pagetable'[t] = NULL /\ \A s \in Slots \ {t} : pagetable'[s] = pagetable[s]
  BY DEF TreeInv, TypeOK
<1>3. TypeOK'
  <2>1. pagetable' \in [Slots -> Pages \cup {NULL}]
    BY DEF TreeInv, TypeOK
  <2>2. current' \in Slots \cup {NULL} /\ kernel_pt' \in Pages \cup {NULL}
    BY DEF TreeInv, TypeOK
  <2> QED BY <2>1, <2>2 DEF TreeInv, TypeOK
<1>4. RootsOK'
  <2>1. \A s \in Slots \ X : pagetable[s] # NULL =>
          pagetable[s] \in Busy' /\ owner'[pagetable[s]] = [space |-> s, level |-> 2]
    BY RootsSurvive
  <2>2. KERNEL \notin X /\ kernel_pt # NULL =>
          kernel_pt \in Busy' /\ owner'[kernel_pt] = [space |-> KERNEL, level |-> 2]
    BY RootsSurvive
  <2>3. \A q \in Busy' : owner'[q].level = 2 => q \in Roots /\ owner[q].space \notin X
    BY RootsSurvive
  <2>4. \A s \in Slots : pagetable'[s] # NULL => s \notin X /\ pagetable'[s] = pagetable[s]
    BY <1>2
  <2>5. /\ owner[pagetable[t]].space = t
        /\ kernel_pt # NULL => owner[kernel_pt].space = KERNEL
        /\ pt # NULL => pt = kernel_pt
    <3>1. owner[pagetable[t]].space = t
      <4>1. owner[pagetable[t]] = [space |-> t, level |-> 2]
        BY DEF TreeInv, RootsOK
      <4> QED BY SMT, Z3, <4>1
    <3>2. kernel_pt # NULL => owner[kernel_pt].space = KERNEL
      BY SMT, Z3 DEF TreeInv, RootsOK
    <3>3. pt # NULL => pt = kernel_pt
      BY DEF TreeInv, CallOK
    <3> QED BY <3>1, <3>2, <3>3
  <2>6. \A q \in Roots : \/ q # NULL /\ q = kernel_pt
                         \/ \E s \in Slots : q # NULL /\ q = pagetable[s]
    BY <2>5 DEF Roots
  <2>7. \A q \in Busy' : owner'[q].level = 2 => q \in Roots'
    <3> SUFFICES ASSUME NEW q \in Busy', owner'[q].level = 2 PROVE q \in Roots'
      OBVIOUS
    <3>1. q \in Roots /\ owner[q].space \notin X
      BY <2>3
    <3>2. CASE q # NULL /\ q = kernel_pt
      BY <3>1, <3>2, <2>5 DEF Roots
    <3>3. CASE \E s \in Slots : q # NULL /\ q = pagetable[s]
      <4>1. PICK s \in Slots : q # NULL /\ q = pagetable[s]
        BY <3>3
      <4>2. s # t
        BY <3>1, <4>1, <2>5
      <4> QED BY <4>1, <4>2, <1>2 DEF Roots
    <3> QED BY <3>1, <3>2, <3>3, <2>6
  <2> QED BY <2>1, <2>2, <2>4, <2>7 DEF RootsOK
<1>5. CallOK'
  <2>1. current' # NULL => satp' = pagetable'[current'] /\ pagetable'[current'] # NULL
    BY <1>2 DEF TreeInv, CallOK, SatpRooted, TypeOK
  <2>2. ASSUME current # NULL, current # t, satp' = satp
        PROVE  satp' \in {pagetable'[s] : s \in Live'}
    BY <1>2, <2>2 DEF TreeInv, CallOK, SatpRooted, TypeOK, Live
  <2>3. kernel_pt' # NULL => satp' \in {kernel_pt'} \cup {pagetable'[s] : s \in Live'}
    BY <2>2
  <2> QED BY <2>1, <2>3 DEF CallOK, SatpRooted
<1> QED
  BY <1>1, <1>3, <1>4, <1>5 DEF TreeInv

(* The pages of a live process are those of its slot's address space.      *)
LEMMA ProcessTree ==
  ASSUME TreeInv, NEW t \in Slots, pagetable[t] # NULL
  PROVE  Tree(pagetable[t]) = {q \in Busy : owner[q].space = t}
<1>1. pagetable[t] \in Busy /\ owner[pagetable[t]] = [space |-> t, level |-> 2]
  BY DEF TreeInv, RootsOK
<1> QED
  BY SMT, Z3, <1>1, TreeIsSpace

(* Releasing the tree of a live process takes its pages, and only them,    *)
(* out of use.                                                             *)
LEMMA ReleaseTree ==
  ASSUME TreeInv, NEW t \in Slots, pagetable[t] # NULL,
         Release(Tree(pagetable[t])), lost' = lost
  PROVE  /\ Busy' = {q \in Busy : owner[q].space \notin {t}}
         /\ lost' \subseteq used' /\ used' \subseteq used
         /\ UNCHANGED <<pte, owner>>
<1>1. Tree(pagetable[t]) = {q \in Busy : owner[q].space = t}
  BY ProcessTree
<1>2. used' = used \ Tree(pagetable[t]) /\ pte' = pte /\ owner' = owner
  BY DEF Release
<1>3. lost \subseteq used
  BY DEF TreeInv, TypeOK
<1> QED
  BY <1>1, <1>2, <1>3 DEF Busy

(* Reap destroys the table of a process that is not the current one.       *)
LEMMA ReapTree ==
  ASSUME TreeInv, NEW t \in Slots, Reap(t)
  PROVE  TreeInv'
<1> USE VMAssumption, VMSentinels
<1>1. /\ fn = "none" /\ current # NULL /\ pagetable[t] # NULL /\ t # current
      /\ Release(Tree(pagetable[t]))
      /\ pagetable' = [pagetable EXCEPT ![t] = NULL]
      /\ UNCHANGED <<kernel_pt, satp, current, mem, fn, slot, src, pt, p, level,
                     n, lost>>
  BY DEF Reap, Live, call
<1>2. /\ Busy' = {q \in Busy : owner[q].space \notin {t}}
      /\ lost' \subseteq used' /\ used' \subseteq used
      /\ UNCHANGED <<pte, owner>>
  BY <1>1, ReleaseTree
<1>3. /\ pt = NULL /\ level \in 0 .. 2 /\ n \in 0 .. KernelMappings + UserMappings
      /\ p \in Pages \cup {NULL} /\ satp \in Pages \cup {NULL}
      /\ slot \in Slots /\ src \in Slots
  BY <1>1 DEF TreeInv, CallOK, TypeOK
<1> DEFINE X == {t}
<1>4. X = {t} /\ KERNEL \notin X
  OBVIOUS
<1>5. Busy' = {q \in Busy : owner[q].space \notin X}
  BY <1>2
<1> HIDE DEF X
<1> QED
  BY <1>1, <1>2, <1>3, <1>4, <1>5, DropTree

(* LaterExit and FirstExitDone leave the table before they destroy it.     *)
LEMMA ExitTree ==
  ASSUME TreeInv, LaterExit \/ FirstExitDone
  PROVE  TreeInv'
<1> USE VMAssumption, VMSentinels
<1> DEFINE t == IF fn = "none" THEN current ELSE slot
<1>1. /\ t \in Slots /\ pagetable[t] # NULL
      /\ fn = "none" \/ fn = "kernel_pagetable"
      /\ Release(Tree(pagetable[t])) /\ lost' = lost
      /\ pagetable' = [pagetable EXCEPT ![t] = NULL] /\ current' = NULL
      /\ satp' = kernel_pt /\ kernel_pt' = kernel_pt
      /\ slot' \in Slots /\ src' \in Slots /\ UNCHANGED mem
  <2>1. CASE LaterExit
    BY <2>1 DEF LaterExit, DropOwnTable, Gone, call, TreeInv, CallOK, TypeOK
  <2>2. CASE FirstExitDone
    <3>1. /\ fn = "kernel_pagetable" /\ DropOwnTable(slot) /\ Return
          /\ UNCHANGED <<kernel_pt, mem, lost>>
      BY <2>2 DEF FirstExitDone
    <3>2. t = slot
      BY <3>1
    <3>3. slot \in Slots /\ pagetable[slot] # NULL
      BY <3>1 DEF TreeInv, CallOK, TypeOK
    <3>4. slot' \in Slots /\ src' \in Slots
      BY SMT, Z3, <3>1 DEF Return, Slots
    <3> QED BY <3>1, <3>2, <3>3, <3>4 DEF DropOwnTable, Gone
  <2> QED BY <2>1, <2>2
<1>2. /\ fn' = "none" /\ level' \in 0 .. 2 /\ n' \in 0 .. KernelMappings + UserMappings
      /\ pt' = NULL /\ p' \in Pages \cup {NULL}
  <2>1. CASE LaterExit
    BY <2>1 DEF LaterExit, call, TreeInv, CallOK, TypeOK
  <2>2. CASE FirstExitDone
    BY SMT, Z3, <2>2 DEF FirstExitDone, Return, KernelMappings, UserMappings
  <2> QED BY <2>1, <2>2
<1>3. satp' \in Pages \cup {NULL}
  BY <1>1 DEF TreeInv, TypeOK
<1> HIDE DEF t
<1>4. /\ Busy' = {q \in Busy : owner[q].space \notin {t}}
      /\ lost' \subseteq used' /\ used' \subseteq used
      /\ UNCHANGED <<pte, owner>>
  BY <1>1, ReleaseTree
<1> DEFINE X == {t}
<1>5. X = {t} /\ KERNEL \notin X
  BY <1>1
<1>6. Busy' = {q \in Busy : owner[q].space \notin X}
  BY <1>4
<1> HIDE DEF X
<1> QED
  BY <1>1, <1>2, <1>3, <1>4, <1>5, <1>6, DropTree

(* When kernel_pagetable fails, what it had built is lost as a whole.      *)
LEMMA FirstExitFailsTree ==
  ASSUME TreeInv, FirstExitFails
  PROVE  TreeInv'
<1> USE VMAssumption, VMSentinels
<1>1. /\ fn = "kernel_pagetable" /\ slot \in Slots /\ pagetable[slot] # NULL
      /\ kernel_pt = pt /\ current = slot
      /\ used' = used \ (Tree(pagetable[slot]) \cup {pt})
      /\ lost' = lost \cup (IF pt = NULL THEN {} ELSE Tree(pt) \ {pt})
      /\ kernel_pt' = NULL /\ current' = NULL
      /\ pagetable' = [pagetable EXCEPT ![slot] = NULL]
      /\ fn' = "none" /\ level' \in 0 .. 2 /\ n' \in 0 .. KernelMappings + UserMappings
      /\ pt' = NULL /\ p' \in Pages \cup {NULL}
      /\ slot' \in Slots /\ src' \in Slots
      /\ UNCHANGED <<pte, owner, satp, mem>>
  BY SMT, Z3 DEF FirstExitFails, Release, Gone, Return, TreeInv, CallOK, TypeOK, Slots,
         KernelMappings, UserMappings
<1>2. Tree(pagetable[slot]) = {q \in Busy : owner[q].space = slot}
  BY <1>1, ProcessTree
<1>3. lost \subseteq used /\ used \subseteq Pages /\ satp \in Pages \cup {NULL}
  BY DEF TreeInv, TypeOK
<1>4. CASE pt = NULL
  <2>1. Busy' = {q \in Busy : owner[q].space \notin {slot}}
    BY <1>1, <1>2, <1>3, <1>4 DEF Busy
  <2>2. lost' \subseteq used' /\ used' \subseteq used
    BY <1>1, <1>2, <1>3, <1>4 DEF Busy
  <2> DEFINE X == {slot}
  <2>3. X = {slot} /\ KERNEL \notin X
    BY <1>1
  <2>4. Busy' = {q \in Busy : owner[q].space \notin X}
    BY <2>1
  <2> HIDE DEF X
  <2>5. kernel_pt = NULL /\ kernel_pt' = (IF KERNEL \in X THEN NULL ELSE kernel_pt)
    BY <1>1, <1>4, <2>3
  <2>6. satp' \in Pages \cup {NULL}
    BY <1>1, <1>3
  <2> QED BY <1>1, <2>2, <2>3, <2>4, <2>5, <2>6, DropTree
<1>5. CASE pt # NULL
  <2>1. pt \in Busy /\ owner[pt] = [space |-> KERNEL, level |-> 2]
    BY <1>1, <1>5 DEF TreeInv, RootsOK
  <2>2. Tree(pt) = {q \in Busy : owner[q].space = KERNEL}
    BY SMT, Z3, <2>1, TreeIsSpace
  <2>3. Busy' = {q \in Busy : owner[q].space \notin {slot, KERNEL}}
    BY SMT, Z3, <1>1, <1>2, <1>3, <1>5, <2>1, <2>2 DEF Busy
  <2>4. lost' \subseteq used' /\ used' \subseteq used
    BY <1>1, <1>2, <1>3, <1>5, <2>1, <2>2 DEF Busy
  <2> DEFINE X == {slot, KERNEL}
  <2>5. X = {slot, KERNEL} /\ KERNEL \in X
    OBVIOUS
  <2>6. Busy' = {q \in Busy : owner[q].space \notin X}
    BY <2>3
  <2> HIDE DEF X
  <2> QED BY <1>1, <1>3, <2>4, <2>5, <2>6, DropTree
<1> QED
  BY <1>4, <1>5

(* Fork and FirstExit start a call; Switch and Idle change the process.    *)
LEMMA ScheduleTree ==
  ASSUME TreeInv,
         Fork \/ FirstExit \/ Idle \/ \E s \in Slots : Switch(s)
  PROVE  TreeInv'
<1> USE VMAssumption, VMSentinels
<1>1. /\ fn = "none" /\ pt = NULL /\ pt' = NULL
      /\ UNCHANGED <<used, pte, owner, lost, p, level, n, kernel_pt,
                     pagetable, mem>>
      /\ src' = src \/ src' \in Slots
  BY DEF Fork, FirstExit, Idle, Switch, TreeInv, CallOK, TypeOK, tree, call
<1>2. Owned' /\ EntriesOK' /\ HasParent' /\ Busy' = Busy
  BY <1>1, SameTables DEF tree
<1>3. Roots' = Roots
  BY <1>1 DEF Roots
<1>4. RootsOK'
  BY <1>1, <1>2, <1>3 DEF TreeInv, RootsOK
<1>5. CASE Fork
  <2>1. FreeSlots \in SUBSET Nat
    BY SMT, Z3 DEF FreeSlots, Slots
  <2>2. Least(FreeSlots) \in FreeSlots
    BY <1>5, <2>1, LeastIsLeast DEF Fork
  <2>3. slot' \in Slots /\ pagetable[slot'] = NULL
    BY <1>5, <2>2 DEF Fork, FreeSlots, Live
  <2>4. TypeOK'
    BY <1>1, <1>5, <2>3 DEF Fork, TreeInv, TypeOK
  <2>5. CallOK'
    BY <1>1, <1>5, <2>3 DEF Fork, TreeInv, CallOK, SatpRooted, Live
  <2> QED BY <1>2, <1>4, <2>4, <2>5 DEF TreeInv
<1>6. CASE FirstExit
  <2>1. TypeOK'
    BY <1>1, <1>6, SMT, Z3 DEF FirstExit, TreeInv, TypeOK
  <2>2. CallOK'
    BY <1>1, <1>6 DEF FirstExit, TreeInv, CallOK, SatpRooted, Live
  <2> QED BY <1>2, <1>4, <2>1, <2>2 DEF TreeInv
<1>7. CASE Idle
  <2>1. TypeOK'
    BY <1>1, <1>7, SMT, Z3 DEF Idle, TreeInv, TypeOK, call
  <2>2. CallOK'
    BY <1>1, <1>7 DEF Idle, TreeInv, CallOK, SatpRooted, Live, call
  <2> QED BY <1>2, <1>4, <2>1, <2>2 DEF TreeInv
<1>8. ASSUME NEW s \in Slots, Switch(s) PROVE TreeInv'
  <2>1. TypeOK'
    BY <1>1, <1>8 DEF Switch, TreeInv, TypeOK, call
  <2>2. CallOK'
    BY <1>1, <1>8 DEF Switch, TreeInv, CallOK, SatpRooted, Live, call
  <2> QED BY <1>2, <1>4, <2>1, <2>2 DEF TreeInv
<1> QED
  BY <1>5, <1>6, <1>7, <1>8

-----------------------------------------------------------------------------
(* The walk of a page table of a process ends in that process's memory.    *)
LEMMA TranslateOwn ==
  ASSUME TreeInv, NEW s \in Slots, pagetable[s] # NULL, NEW va \in Nat,
         Valid(translate_user(pagetable[s], va))
  PROVE  /\ translate_user(pagetable[s], va).in = s
         /\ translate_user(pagetable[s], va).to \in 0 .. USER_TOTAL_PAGES-1
<1> DEFINE r == pagetable[s]
           i2 == vpn(va, 2)
           i1 == vpn(va, 1)
           i0 == vpn(va, 0)
           e2 == pte[r][i2]
           e1 == pte[e2.to][i1]
           e0 == pte[e1.to][i0]
<1>1. r \in Busy /\ owner[r] = [space |-> s, level |-> 2]
  BY DEF TreeInv, RootsOK
<1>2. i2 \in Index /\ i1 \in Index /\ i0 \in Index
  BY SMT, Z3, VpnInTable
<1>3. ~Valid(Invalid)
  BY DEF Valid, Invalid
<1>4. /\ Valid(e2) /\ Valid(e1) /\ Valid(e0) /\ "U" \in e0.perm
      /\ translate_user(r, va) = e0
  BY <1>3 DEF translate_user, walk_user_pte, Invalid
<1> HIDE DEF i2, i1, i0
<1>5. \A q \in Busy, i \in Index : Valid(pte[q][i]) /\ owner[q].level # 0 =>
        /\ pte[q][i].to \in Busy /\ owner[pte[q][i].to].space = owner[q].space
        /\ owner[pte[q][i].to].level = owner[q].level - 1
  BY DEF TreeInv, EntriesOK, IsTable
<1>6. owner[r].level = 2 /\ owner[r].space = s /\ owner[r].level # 0
  BY SMT, Z3, <1>1
<1>7. e2.to \in Busy /\ owner[e2.to].space = s /\ owner[e2.to].level = 1
  <2>1. /\ e2.to \in Busy /\ owner[e2.to].space = owner[r].space
        /\ owner[e2.to].level = owner[r].level - 1
    BY <1>1, <1>2, <1>4, <1>5, <1>6
  <2> QED BY SMT, Z3, <1>6, <2>1
<1> HIDE DEF e2
<1>8. e1.to \in Busy /\ owner[e1.to].space = s /\ owner[e1.to].level = 0
  <2>1. /\ e1.to \in Busy /\ owner[e1.to].space = owner[e2.to].space
        /\ owner[e1.to].level = owner[e2.to].level - 1
    <3>1. owner[e2.to].level # 0
      BY SMT, Z3, <1>7
    <3> QED BY <1>2, <1>4, <1>5, <1>7, <3>1
  <2> QED BY SMT, Z3, <1>7, <2>1
<1> HIDE DEF e1
<1>9. IsLeaf(e1.to, i0)
  BY <1>2, <1>4, <1>8 DEF TreeInv, EntriesOK
<1> QED
  BY <1>4, <1>8, <1>9 DEF IsLeaf

(* A store of user code, and what sys_read copies out, land in the memory  *)
(* of the current process.                                                 *)
LEMMA WritesOwn ==
  ASSUME TreeInv,
         \/ \E va \in 0 .. VpnLimit : Store(va)
         \/ \E va \in 0 .. VpnLimit * PGSIZE, len \in 1 .. 2 * PGSIZE : CopyOut(va, len)
  PROVE  /\ mem' \in [Slots -> [0 .. USER_TOTAL_PAGES-1 -> {0, 1}]]
         /\ \A s \in Slots : mem'[s] # mem[s] => s = current
         /\ UNCHANGED <<tree, kernel_pt, pagetable, satp, current, call, lost>>
<1> USE VMAssumption, VMSentinels
<1>1. mem \in [Slots -> [0 .. USER_TOTAL_PAGES-1 -> {0, 1}]]
  BY DEF TreeInv, TypeOK
<1>2. current # NULL
  BY DEF Store, CopyOut
<1>3. current \in Slots /\ pagetable[current] # NULL /\ satp = pagetable[current]
  BY <1>2 DEF TreeInv, CallOK, SatpRooted, TypeOK
<1>4. ASSUME NEW va \in 0 .. VpnLimit, Store(va)
      PROVE  /\ mem' \in [Slots -> [0 .. USER_TOTAL_PAGES-1 -> {0, 1}]]
             /\ \A s \in Slots : mem'[s] # mem[s] => s = current
  <2> DEFINE pa == translate_user(satp, va)
  <2>1. Valid(pa) /\ mem' = [mem EXCEPT ![pa.in][pa.to] = 1]
    BY <1>4 DEF Store
  <2>2. pa.in = current /\ pa.to \in 0 .. USER_TOTAL_PAGES-1
    BY SMT, Z3, <1>3, <2>1, TranslateOwn
  <2> HIDE DEF pa
  <2> QED BY <1>1, <1>3, <2>1, <2>2
<1>5. ASSUME NEW va \in 0 .. VpnLimit * PGSIZE, NEW len \in 1 .. 2 * PGSIZE,
             CopyOut(va, len)
      PROVE  /\ mem' \in [Slots -> [0 .. USER_TOTAL_PAGES-1 -> {0, 1}]]
             /\ \A s \in Slots : mem'[s] # mem[s] => s = current
  <2> DEFINE R == Reached(pagetable[current], va, len)
             Hit(s, k) == \E v \in R :
                            /\ translate_user(pagetable[current], v).in = s
                            /\ translate_user(pagetable[current], v).to = k
  <2>1. mem' = [s \in Slots |-> [k \in 0 .. USER_TOTAL_PAGES-1 |->
                  IF Hit(s, k) THEN 1 ELSE mem[s][k]]]
    BY <1>5 DEF CopyOut
  <2>2. va \div PGSIZE \in Nat /\ (va + len - 1) \div PGSIZE \in Nat
    <3>1. va \in Nat /\ va + len - 1 \in Nat
      BY SMT, Z3
    <3> QED BY SMT, Z3, <3>1
  <2>3. \A v \in R : v \in Nat /\ Valid(translate_user(pagetable[current], v))
    BY SMT, Z3, <2>2 DEF Reached
  <2>4. \A s, k : Hit(s, k) => s = current
    BY <1>3, <2>3, TranslateOwn
  <2> HIDE DEF Hit
  <2>5. mem' \in [Slots -> [0 .. USER_TOTAL_PAGES-1 -> {0, 1}]]
    BY <1>1, <2>1
  <2>6. \A s \in Slots : s # current => mem'[s] = mem[s]
    <3> SUFFICES ASSUME NEW s \in Slots, s # current PROVE mem'[s] = mem[s]
      OBVIOUS
    <3>1. \A k \in 0 .. USER_TOTAL_PAGES-1 : mem'[s][k] = mem[s][k]
      BY <2>1, <2>4
    <3>2. /\ mem[s] \in [0 .. USER_TOTAL_PAGES-1 -> {0, 1}]
          /\ mem'[s] \in [0 .. USER_TOTAL_PAGES-1 -> {0, 1}]
      BY <1>1, <2>5
    <3> QED BY SMT, Z3, <3>1, <3>2
  <2> QED BY <2>5, <2>6
<1>6. UNCHANGED <<tree, kernel_pt, pagetable, satp, current, call, lost>>
  BY DEF Store, CopyOut
<1> QED
  BY <1>4, <1>5, <1>6

(* Every step keeps the invariant.                                         *)
LEMMA TreeStep == TreeInv /\ [Next]_vars => TreeInv'
<1> SUFFICES ASSUME TreeInv, [Next]_vars PROVE TreeInv'
  OBVIOUS
<1> DEFINE Write == \/ \E va \in 0 .. VpnLimit : Store(va)
                    \/ \E va \in 0 .. VpnLimit * PGSIZE, len \in 1 .. 2 * PGSIZE :
                         CopyOut(va, len)
<1>1. CASE Write
  <2>1. /\ mem' \in [Slots -> [0 .. USER_TOTAL_PAGES-1 -> {0, 1}]]
        /\ UNCHANGED <<tree, kernel_pt, pagetable, satp, current, call, lost>>
    BY <1>1, WritesOwn
  <2>2. Owned' /\ EntriesOK' /\ HasParent' /\ Busy' = Busy
    BY <2>1, SameTables
  <2>3. TypeOK'
    BY <2>1 DEF TreeInv, TypeOK, tree, call
  <2>4. RootsOK'
    BY <2>1, <2>2 DEF TreeInv, RootsOK, Roots, Space, tree, call
  <2>5. CallOK'
    BY <2>1 DEF TreeInv, CallOK, SatpRooted, Live, call
  <2> QED BY <2>2, <2>3, <2>4, <2>5 DEF TreeInv
<1>2. CASE UNCHANGED vars
  <2>1. UNCHANGED <<used, pte, owner, kernel_pt, pagetable, satp, current, mem,
                    fn, slot, src, pt, p, level, n, lost>>
    BY <1>2 DEF vars, tree, call
  <2>2. Owned' /\ EntriesOK' /\ HasParent' /\ Busy' = Busy
    BY <2>1, SameTables DEF tree
  <2>3. TypeOK'
    BY <2>1 DEF TreeInv, TypeOK
  <2>4. RootsOK'
    BY <2>1, <2>2 DEF TreeInv, RootsOK, Roots, Space
  <2>5. CallOK'
    BY <2>1 DEF TreeInv, CallOK, SatpRooted, Live
  <2> QED BY <2>2, <2>3, <2>4, <2>5 DEF TreeInv
<1>3. CASE TakeRoot
  BY <1>3, TakeRootTree
<1>4. CASE Descend
  BY <1>4, DescendTree
<1>5. CASE AddTable
  BY <1>5, AddTableTree
<1>6. CASE SetLeaf
  BY <1>6, SetLeafTree
<1>7. CASE BuildFails
  BY <1>7, BuildFailsTree
<1>8. CASE BuildDone
  BY <1>8, BuildDoneTree
<1>9. CASE Fork \/ FirstExit \/ Idle \/ \E s \in Slots : Switch(s)
  BY <1>9, ScheduleTree
<1>10. CASE LaterExit \/ FirstExitDone
  BY <1>10, ExitTree
<1>11. CASE FirstExitFails
  BY <1>11, FirstExitFailsTree
<1>12. CASE \E s \in Slots : Reap(s)
  BY <1>12, ReapTree
<1> QED
  BY <1>1, <1>2, <1>3, <1>4, <1>5, <1>6, <1>7, <1>8, <1>9, <1>10, <1>11, <1>12
  DEF Next

(* The invariant holds in every state of the kernel's memory.              *)
THEOREM TreeInvariant == Spec => []TreeInv
  BY InitTree, TreeStep, PTL DEF Spec

(* A user program reaches only the memory of its own slot, whatever was    *)
(* forked, reaped, built or abandoned before.                              *)
THEOREM IsolationHolds == Spec => []Isolation
<1>1. TreeInv => Isolation
  <2> SUFFICES ASSUME TreeInv, NEW s \in Live, NEW va \in 0 .. VpnLimit,
                      Valid(translate_user(pagetable[s], va))
               PROVE  translate_user(pagetable[s], va).in = s
    BY DEF Isolation
  <2>1. s \in Slots /\ pagetable[s] # NULL /\ va \in Nat
    BY SMT, Z3, VMAssumption DEF Live, VpnLimit
  <2> QED BY <2>1, TranslateOwn
<1> QED
  BY <1>1, TreeInvariant, PTL

(* The page tables never share a page, and every page marked in pt_used is *)
(* in one of them or among those kernel_pagetable lost.                    *)
THEOREM PoolAccountedHolds == Spec => []PoolAccounted
<1>1. TreeInv => PoolAccounted
  <2> SUFFICES ASSUME TreeInv PROVE PoolAccounted
    OBVIOUS
  <2>1. \A r \in Roots : r \in Busy /\ owner[r].level = 2
    <3> SUFFICES ASSUME NEW r \in Roots PROVE r \in Busy /\ owner[r].level = 2
      OBVIOUS
    <3>1. r # NULL /\ (r = kernel_pt \/ r = pt \/ \E s \in Slots : r = pagetable[s])
      BY DEF Roots
    <3>2. CASE r = kernel_pt
      BY SMT, Z3, <3>1, <3>2 DEF TreeInv, RootsOK
    <3>3. CASE r = pt
      BY SMT, Z3, <3>1, <3>3 DEF TreeInv, RootsOK
    <3>4. CASE \E s \in Slots : r = pagetable[s]
      <4>1. PICK s \in Slots : r = pagetable[s]
        BY <3>4
      <4>2. r \in Busy /\ owner[r] = [space |-> s, level |-> 2]
        BY <3>1, <4>1 DEF TreeInv, RootsOK
      <4> QED BY SMT, Z3, <4>2
    <3> QED BY <3>1, <3>2, <3>3, <3>4
  <2>2. \A r \in Roots : Tree(r) = {q \in Busy : owner[q].space = owner[r].space}
    BY <2>1, TreeIsSpace
  <2>3. \A r1, r2 \in Roots : r1 # r2 => Tree(r1) \cap Tree(r2) = {}
    <3> SUFFICES ASSUME NEW r1 \in Roots, NEW r2 \in Roots, NEW q,
                        q \in Tree(r1), q \in Tree(r2)
                 PROVE  r1 = r2
      OBVIOUS
    <3>1. owner[r1].space = owner[r2].space
      BY <2>2
    <3> QED BY <2>1, <3>1, UniqueRoot
  <2>4. \A r \in Roots : Tree(r) \cap lost = {} /\ Tree(r) \subseteq used
    BY <2>2 DEF Busy
  <2>5. \A q \in Busy : \E r \in Roots : q \in Tree(r)
    <3> SUFFICES ASSUME NEW q \in Busy PROVE \E r \in Roots : q \in Tree(r)
      OBVIOUS
    <3>1. \A x \in Busy : owner[x].level \in 0 .. 2
      BY DEF TreeInv, Owned
    <3>2. \A x \in Busy : owner[x].level < 2 =>
            \E y \in Busy : /\ owner[y].space = owner[x].space
                            /\ owner[y].level = owner[x].level + 1
      BY DEF TreeInv, HasParent
    <3>3. \E y \in Busy : owner[y].space = owner[q].space /\ owner[y].level \in 1 .. 2
      BY SMT, Z3, <3>1, <3>2
    <3>4. PICK y \in Busy : owner[y].space = owner[q].space /\ owner[y].level \in 1 .. 2
      BY <3>3
    <3>5. \E r \in Busy : owner[r].space = owner[q].space /\ owner[r].level = 2
      BY SMT, Z3, <3>2, <3>4
    <3>6. PICK r \in Busy : owner[r].space = owner[q].space /\ owner[r].level = 2
      BY <3>5
    <3>7. r \in Roots
      BY <3>6 DEF TreeInv, RootsOK
    <3> QED BY <2>2, <3>6, <3>7
  <2>6. used = (UNION {Tree(r) : r \in Roots}) \cup lost
    <3>1. lost \subseteq used
      BY DEF TreeInv, TypeOK
    <3> QED BY <2>4, <2>5, <3>1 DEF Busy
  <2> QED BY <2>3, <2>4, <2>6 DEF PoolAccounted
<1> QED
  BY <1>1, TreeInvariant, PTL

(* satp never holds a page table that was given back, and user code runs   *)
(* on its own.                                                             *)
THEOREM SatpRootedHolds == Spec => []SatpRooted
<1>1. TreeInv => SatpRooted
  BY DEF TreeInv, CallOK
<1> QED
  BY <1>1, TreeInvariant, PTL

(* The memory of a process changes only while it is the current one.       *)
THEOREM OwnMemoryOnlyHolds == Spec => OwnMemoryOnly
<1>1. TreeInv /\ [Next]_vars => [\A s \in Live : mem'[s] # mem[s] => current = s]_vars
  <2> SUFFICES ASSUME TreeInv, Next, NEW s \in Live, mem'[s] # mem[s]
               PROVE  current = s
    OBVIOUS
  <2>1. s \in Slots /\ pagetable[s] # NULL
    BY DEF Live
  <2>2. CASE SetLeaf
    <3>1. fn \in {"vm_create_user", "vm_clone_user"} /\ s = slot
      BY <2>1, <2>2, FilledMemory DEF SetLeaf
    <3> QED BY <2>1, <3>1 DEF TreeInv, CallOK
  <2>3. CASE \/ \E va \in 0 .. VpnLimit : Store(va)
             \/ \E va \in 0 .. VpnLimit * PGSIZE, len \in 1 .. 2 * PGSIZE : CopyOut(va, len)
    BY <2>1, <2>3, WritesOwn
  <2>4. mem' = mem \/ SetLeaf \/ (\E va \in 0 .. VpnLimit : Store(va))
          \/ (\E va \in 0 .. VpnLimit * PGSIZE, len \in 1 .. 2 * PGSIZE : CopyOut(va, len))
    BY DEF Next, TakeRoot, Descend, AddTable, BuildFails, BuildDone, Fork,
           FirstExit, FirstExitDone, FirstExitFails, LaterExit, Idle, Switch, Reap
  <2> QED BY <2>2, <2>3, <2>4
<1> QED
  BY <1>1, TreeInvariant, PTL DEF Spec, OwnMemoryOnly
=============================================================================
