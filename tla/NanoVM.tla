------------------------------- MODULE NanoVM -------------------------------
(***************************************************************************)
(* The virtual memory of the NanoBoot kernel (NanoBoot/kernel/vm.c) as     *)
(* proc.c and syscall.c use it: Sv39 page tables of three levels, built    *)
(* from the pages of one pool.                                             *)
(*                                                                         *)
(* The kernel is never interrupted, so a call of vm.c runs to its end      *)
(* before another one starts.  It is still modelled in its own steps, one  *)
(* for each table that mappages visits, because the pool may run out at    *)
(* any of them and what is undone then depends on how far the call got.    *)
(*                                                                         *)
(* A virtual address is a page number; the bytes of a page only matter to  *)
(* the copying functions at the end.  NanoProc says which process runs and *)
(* which one is reaped; here it may be any that has a page table.          *)
(***************************************************************************)
EXTENDS Integers, Sequences, FiniteSets

CONSTANTS
  NPROC,             \* slots of proc_table
  PoolPages,         \* PT_POOL_PAGES
  FAN,               \* entries of a page table (512)
  KERNEL_START, KERNEL_PAGES,  \* the identity-mapped kernel image
  UART0,
  USER_BASE, USER_IMAGE_PAGES, \* the program
  USER_STACK_TOP, USER_TOTAL_PAGES,
  PGSIZE,            \* bytes of a page
  NULL,
  KERNEL,            \* the kernel's address space, and what it maps
  POOL               \* pt_pool, as a part of the physical memory

Slots == 0 .. NPROC-1
Pages == 0 .. PoolPages-1
Index == 0 .. FAN-1
VpnLimit == FAN * FAN * FAN

ASSUME VMAssumption ==
  /\ NPROC \in Nat \ {0} /\ PoolPages \in Nat /\ FAN \in Nat \ {0}
  /\ KERNEL_PAGES \in Nat \ {0} /\ USER_IMAGE_PAGES \in Nat \ {0}
  /\ USER_TOTAL_PAGES = USER_IMAGE_PAGES + 1
  /\ {KERNEL_START, UART0, USER_BASE, USER_STACK_TOP} \subseteq Nat
  /\ USER_STACK_TOP > 0 /\ PGSIZE \in Nat \ {0}
ASSUME VMSentinels ==
  /\ NULL \notin Pages \cup Slots \cup {KERNEL, POOL}
  /\ KERNEL \notin Slots /\ POOL \notin Slots /\ KERNEL # POOL

VARIABLES
  used,        \* pt_used
  pte,         \* pt_pool: the entries of each page
  kernel_pt,
  pagetable,   \* proc_table[s].pagetable
  satp,        \* the root page installed
  current,     \* the slot of current_proc
  mem,         \* user_mem_base: one value for each page of a slot
  fn,          \* the function of vm.c that runs: "vm_create_user",
               \* "vm_clone_user", "kernel_pagetable" or "none"
  slot, src,   \* its arguments
  pt,          \* the root it builds
  p, level, n, \* locals of mappages: table, level, and the pages mapped
  lost,        \* history: pages dropped when kernel_pagetable failed
  owner        \* history: the address space and level a page was taken for

call == <<fn, slot, src, pt, p, level, n>>
tree == <<used, pte, owner>>
vars == <<tree, kernel_pt, pagetable, satp, current, mem, call, lost>>

Spaces == Slots \cup {KERNEL}

Least(S) == CHOOSE x \in S : \A y \in S : x <= y

(* An entry holds a physical page and permissions.  The page is one of     *)
(* user_mem_base (that of slot `in'), one that is mapped to itself (in the *)
(* region KERNEL), or, without R, W and X, a table in the pool.            *)
Invalid == [in |-> NULL, to |-> 0, perm |-> {}]
Table(q) == [in |-> POOL, to |-> q, perm |-> {}]
Leaf(region, page, perm) == [in |-> region, to |-> page, perm |-> perm]

Valid(e) == e.in # NULL

(* Variant: levels 2 and 1 use the same bits of the address.               *)
vpnSkipsLevel(va, l) == IF l = 0 THEN va % FAN ELSE (va \div (FAN * FAN)) % FAN

vpn(va, l) == CASE l = 2 -> (va \div (FAN * FAN)) % FAN
                [] l = 1 -> (va \div FAN) % FAN
                [] OTHER -> va % FAN

-----------------------------------------------------------------------------
(* What is mapped, in the order of the calls of mappages: kernel_map, then *)
(* the image and the stack.                                                *)

KernelMappings == KERNEL_PAGES + 1
UserMappings == USER_IMAGE_PAGES + 1

KernelMapping(i) ==
  LET va == IF i < KERNEL_PAGES THEN KERNEL_START + i ELSE UART0
  IN  [va |-> va,
       entry |-> Leaf(KERNEL, va,
                      IF i < KERNEL_PAGES THEN {"R", "W", "X"} ELSE {"R", "W"})]

UserPage(s, i) ==
  IF i < USER_IMAGE_PAGES
  THEN [va |-> USER_BASE + i, entry |-> Leaf(s, i, {"R", "W", "X", "U"})]
  ELSE [va |-> USER_STACK_TOP - 1,
        entry |-> Leaf(s, USER_TOTAL_PAGES - 1, {"R", "W", "U"})]

(* Variant: vm_clone_user maps the pages of the parent.                    *)
UserMappingOfSource(s, i) == UserPage(IF fn = "vm_clone_user" THEN src ELSE s, i)

UserMapping(s, i) == UserPage(s, i)

(* The linker script and param.h put the kernel, the UART, the image and   *)
(* the stack apart, at addresses that three levels of tables translate.    *)
ASSUME LayoutAssumption ==
  LET kernel == KERNEL_START .. KERNEL_START + KERNEL_PAGES-1
      image == USER_BASE .. USER_BASE + USER_IMAGE_PAGES-1
      stack == USER_STACK_TOP - 1
  IN  /\ kernel \cup {UART0, stack} \cup image \subseteq 0 .. VpnLimit-1
      /\ UART0 \notin kernel \cup image \cup {stack}
      /\ stack \notin kernel \cup image /\ kernel \cap image = {}

Mapping == IF n < KernelMappings THEN KernelMapping(n)
           ELSE UserMapping(slot, n - KernelMappings)

Mappings == IF fn = "kernel_pagetable" THEN KernelMappings
            ELSE KernelMappings + UserMappings

Space == IF fn = "kernel_pagetable" THEN KERNEL ELSE slot

-----------------------------------------------------------------------------
(* pt_alloc: the first free page, cleared.                                 *)

FreePages == Pages \ used
FirstFree == Least(FreePages)
Cleared == [i \in Index |-> Invalid]

NewTable(q) == [pte EXCEPT ![q] = Cleared]

Allocated(q, l) ==
  /\ used' = used \cup {q}
  /\ owner' = [owner EXCEPT ![q] = [space |-> Space, level |-> l]]

(* pt_destroy_level from level 2: the tables below r, and r.               *)
Tables(q) == {pte[q][i].to : i \in {j \in Index : /\ Valid(pte[q][j])
                                                  /\ pte[q][j].perm = {}}}

Tree(r) == {r} \cup Tables(r) \cup UNION {Tables(q) : q \in Tables(r)}

Release(S) == used' = used \ S /\ UNCHANGED <<pte, owner>>

Return ==
  /\ fn' = "none" /\ level' = 0 /\ n' = 0
  /\ slot' = 0 /\ src' = 0
  /\ pt' = NULL /\ p' = NULL

-----------------------------------------------------------------------------
(* The entry of the three functions that build a page table.               *)
TakeRoot ==
  /\ fn # "none" /\ pt = NULL
  /\ FreePages # {}
  /\ Allocated(FirstFree, 2)
  /\ pte' = NewTable(FirstFree)
  /\ pt' = FirstFree /\ p' = FirstFree /\ level' = 2 /\ n' = 0
  /\ kernel_pt' = IF fn = "kernel_pagetable" THEN FirstFree ELSE kernel_pt
  /\ UNCHANGED <<fn, slot, src, pagetable, satp, current, mem, lost>>

Building == pt # NULL /\ n < Mappings

Entry == pte[p][vpn(Mapping.va, level)]

(* The inner loop of mappages: a table that is there, or a new one.        *)
Descend ==
  /\ Building /\ level > 0
  /\ Valid(Entry)
  /\ p' = Entry.to /\ level' = level - 1
  /\ UNCHANGED <<tree, fn, slot, src, pt, n,
                 kernel_pt, pagetable, satp, current, mem, lost>>

AddTable ==
  /\ Building /\ level > 0
  /\ ~Valid(Entry)
  /\ FreePages # {}
  /\ Allocated(FirstFree, level - 1)
  /\ pte' = [NewTable(FirstFree) EXCEPT
               ![p][vpn(Mapping.va, level)] = Table(FirstFree)]
  /\ p' = FirstFree /\ level' = level - 1
  /\ UNCHANGED <<fn, slot, src, pt, n,
                 kernel_pt, pagetable, satp, current, mem, lost>>

(* memset, or memcpy from the parent, once kernel_map has succeeded.  The  *)
(* image of a new program is 0 here, like the rest of its memory.          *)
Filled ==
  CASE fn = "vm_create_user" /\ n = KernelMappings - 1 ->
         [mem EXCEPT ![slot] = [k \in 0 .. USER_TOTAL_PAGES-1 |-> 0]]
    [] fn = "vm_clone_user" /\ n = KernelMappings - 1 ->
         [mem EXCEPT ![slot] = mem[src]]
    [] OTHER -> mem

SetLeaf ==
  /\ Building /\ level = 0
  /\ ~Valid(Entry)
  /\ pte' = [pte EXCEPT ![p][vpn(Mapping.va, 0)] = Mapping.entry]
  /\ p' = pt /\ level' = 2 /\ n' = n + 1
  /\ mem' = Filled
  /\ UNCHANGED <<used, owner, fn, slot, src, pt,
                 kernel_pt, pagetable, satp, current, lost>>

-----------------------------------------------------------------------------
(* A failure: the pool is empty, or the address is mapped already.         *)

OutOfPages ==
  /\ fn # "none"
  /\ FreePages = {}
  /\ pt = NULL \/ (Building /\ level > 0 /\ ~Valid(Entry))

MappedTwice == Building /\ level = 0 /\ Valid(Entry)

Fails == OutOfPages \/ MappedTwice

(* Variant: pt_release of the root alone.                                  *)
BuildFailsRootOnly ==
  /\ fn \in {"vm_create_user", "vm_clone_user"}
  /\ Fails
  /\ Release({pt})
  /\ Return
  /\ UNCHANGED <<kernel_pt, pagetable, satp, current, mem, lost>>

(* Variant: vm_clone_user destroys the table of the parent.                *)
BuildFailsWrongTree ==
  /\ fn \in {"vm_create_user", "vm_clone_user"}
  /\ Fails
  /\ Release(Tree(pagetable[src]))
  /\ Return
  /\ UNCHANGED <<kernel_pt, pagetable, satp, current, mem, lost>>

(* vm_create_user and vm_clone_user: pt_destroy_level, return NULL.  The   *)
(* fork fails; without a first process main() panics.                      *)
BuildFails ==
  /\ fn \in {"vm_create_user", "vm_clone_user"}
  /\ Fails
  /\ Release(IF pt = NULL THEN {} ELSE Tree(pt))
  /\ Return
  /\ UNCHANGED <<kernel_pt, pagetable, satp, current, mem, lost>>

(* Both functions return the root, which proc.c stores.  The first process *)
(* is then entered by main().                                              *)
BuildDone ==
  /\ fn \in {"vm_create_user", "vm_clone_user"}
  /\ pt # NULL /\ n = Mappings
  /\ pagetable' = [pagetable EXCEPT ![slot] = pt]
  /\ IF fn = "vm_create_user"
     THEN current' = slot /\ satp' = pt
     ELSE UNCHANGED <<current, satp>>
  /\ Return
  /\ UNCHANGED <<tree, kernel_pt, mem, lost>>

-----------------------------------------------------------------------------
(* proc_fork by the current process: the first slot that is free.          *)

Live == {s \in Slots : pagetable[s] # NULL}
FreeSlots == Slots \ Live

Fork ==
  /\ fn = "none" /\ current # NULL /\ FreeSlots # {}
  /\ fn' = "vm_clone_user"
  /\ slot' = Least(FreeSlots)
  /\ src' = current
  /\ UNCHANGED <<pt, p, level, n, tree, kernel_pt, pagetable, satp, current,
                 mem, lost>>

(* proc_schedule and switch_to: vm_switch to the page table of another     *)
(* process, or none is runnable.                                           *)
Switch(s) ==
  /\ fn = "none" /\ s \in Live
  /\ current' = s /\ satp' = pagetable[s]
  /\ UNCHANGED <<tree, kernel_pt, pagetable, mem, call, lost>>

Idle ==
  /\ fn = "none" /\ current # NULL
  /\ current' = NULL
  /\ UNCHANGED <<tree, kernel_pt, pagetable, satp, mem, call, lost>>

(* proc_wait by the current process: vm_destroy of a ZOMBIE's table.       *)
Reap(s) ==
  /\ fn = "none" /\ current # NULL
  /\ s \in Live \ {current}
  /\ Release(Tree(pagetable[s]))
  /\ pagetable' = [pagetable EXCEPT ![s] = NULL]
  /\ UNCHANGED <<kernel_pt, satp, current, mem, call, lost>>

(* proc_exit of a process that nobody reaps later: vm_switch to what       *)
(* kernel_pagetable returns, vm_destroy of the process's own table.  The   *)
(* kernel's table is built by the first such exit.                         *)
FirstExit ==
  /\ fn = "none" /\ current # NULL
  /\ kernel_pt = NULL
  /\ fn' = "kernel_pagetable" /\ slot' = current
  /\ UNCHANGED <<src, pt, p, level, n, tree, kernel_pt, pagetable, satp,
                 current, mem, lost>>

Gone(s) == pagetable' = [pagetable EXCEPT ![s] = NULL] /\ current' = NULL

(* Variant: the pages are not given back.                                  *)
DropOwnTableKept(s) == satp' = kernel_pt /\ Gone(s) /\ UNCHANGED tree

DropOwnTable(s) ==
  /\ satp' = kernel_pt
  /\ Release(Tree(pagetable[s]))
  /\ Gone(s)

LaterExit ==
  /\ fn = "none" /\ current # NULL
  /\ kernel_pt # NULL
  /\ DropOwnTable(current)
  /\ UNCHANGED <<kernel_pt, mem, call, lost>>

FirstExitDone ==
  /\ fn = "kernel_pagetable" /\ pt # NULL /\ n = Mappings
  /\ DropOwnTable(slot)
  /\ Return
  /\ UNCHANGED <<kernel_pt, mem, lost>>

(* kernel_pagetable fails: pt_release of the root alone, so the tables     *)
(* below it are lost; vm_switch(NULL) does nothing.                        *)
FirstExitFails ==
  /\ fn = "kernel_pagetable" /\ Fails
  /\ Release(Tree(pagetable[slot]) \cup {pt})
  /\ lost' = lost \cup (IF pt = NULL THEN {} ELSE Tree(pt) \ {pt})
  /\ kernel_pt' = NULL
  /\ Gone(slot)
  /\ Return
  /\ UNCHANGED <<satp, mem>>

-----------------------------------------------------------------------------
(* walk_user_pte and translate_user: the physical page of a user address,  *)
(* or NULL.                                                                *)
walk_user_pte(root, va) ==
  LET e2 == pte[root][vpn(va, 2)]
      e1 == pte[e2.to][vpn(va, 1)]
  IN  IF va >= VpnLimit \/ ~Valid(e2) THEN Invalid
      ELSE IF ~Valid(e1) THEN Invalid
      ELSE pte[e1.to][vpn(va, 0)]

translate_user(root, va) ==
  LET e == walk_user_pte(root, va)
  IN  IF "U" \in e.perm THEN e ELSE Invalid

(* A store by user code, through the page table in satp.                   *)
Store(va) ==
  LET pa == translate_user(satp, va)
  IN  /\ fn = "none" /\ current # NULL
      /\ Valid(pa)
      /\ mem' = [mem EXCEPT ![pa.in][pa.to] = 1]
      /\ UNCHANGED <<tree, kernel_pt, pagetable, satp, current, call, lost>>

(* The loop of copyin and copyout, for a byte address va: one chunk of     *)
(* each page.  The result is the physical bytes in order, and whether the  *)
(* end was reached; what is copied before a failure stays copied.          *)
Chunk(pa, off, len) == [i \in 1 .. len |-> <<pa.in, pa.to, off + i - 1>>]

(* Variant: a chunk may be as long as a page, wherever it starts.          *)
ChunkLenPage(va, len) == IF len < PGSIZE THEN len ELSE PGSIZE

ChunkLen(va, len) ==
  LET room == PGSIZE - (va % PGSIZE) IN IF len < room THEN len ELSE room

Copy(root, start, total) ==
  LET copy[left \in 0 .. total] ==
        LET va == start + (total - left)
            pa == translate_user(root, va \div PGSIZE)
            m == ChunkLen(va, left)
            rest == copy[left - m]
        IN  CASE left = 0 -> [ok |-> TRUE, bytes |-> << >>]
              [] left > 0 /\ ~Valid(pa) -> [ok |-> FALSE, bytes |-> << >>]
              [] OTHER -> [ok |-> rest.ok,
                           bytes |-> Chunk(pa, va % PGSIZE, m) \o rest.bytes]
  IN  copy[total]

(* The pages that loop reaches.                                            *)
Reached(root, va, len) ==
  {k \in va \div PGSIZE .. (va + len - 1) \div PGSIZE :
     \A j \in va \div PGSIZE .. k : Valid(translate_user(root, j))}

(* sys_read: copyout of what was typed into the memory of the caller.      *)
CopyOut(va, len) ==
  LET root == pagetable[current]
  IN  /\ fn = "none" /\ current # NULL
      /\ Reached(root, va, len) # {}
      /\ mem' = [s \in Slots |-> [k \in 0 .. USER_TOTAL_PAGES-1 |->
                   IF \E v \in Reached(root, va, len) :
                        /\ translate_user(root, v).in = s
                        /\ translate_user(root, v).to = k
                   THEN 1 ELSE mem[s][k]]]
      /\ UNCHANGED <<tree, kernel_pt, pagetable, satp, current, call, lost>>

(* copyinstr: byte by byte up to a NUL, which a page of value 0 is full    *)
(* of, or to max.  The result is the number of bytes read, or -1.          *)
copyinstr(root, start, max) ==
  LET read[i \in 0 .. max] ==
        LET c == Copy(root, start + i, 1)
        IN  CASE i = max -> max
              [] i < max /\ ~c.ok -> -1
              [] OTHER -> IF mem[c.bytes[1][1]][c.bytes[1][2]] = 0 THEN i + 1
                          ELSE read[i + 1]
  IN  read[0]

-----------------------------------------------------------------------------
(* vm_init has run and proc_create_init calls vm_create_user.              *)
Init ==
  /\ used = {} /\ kernel_pt = NULL
  /\ pte = [q \in Pages |-> Cleared]
  /\ pagetable = [s \in Slots |-> NULL]
  /\ satp = NULL /\ current = NULL
  /\ mem = [s \in Slots |-> [k \in 0 .. USER_TOTAL_PAGES-1 |-> 0]]
  /\ fn = "vm_create_user" /\ slot = 0 /\ src = 0
  /\ pt = NULL /\ p = NULL /\ level = 0 /\ n = 0
  /\ lost = {}
  /\ owner = [q \in Pages |-> NULL]

Next ==
  \/ TakeRoot \/ Descend \/ AddTable \/ SetLeaf \/ BuildFails \/ BuildDone
  \/ Fork \/ FirstExit \/ FirstExitDone \/ FirstExitFails \/ LaterExit \/ Idle
  \/ \E s \in Slots : Switch(s) \/ Reap(s)
  \/ \E va \in 0 .. VpnLimit : Store(va)
  \/ \E va \in 0 .. VpnLimit * PGSIZE, len \in 1 .. 2 * PGSIZE : CopyOut(va, len)

Spec == Init /\ [][Next]_vars
-----------------------------------------------------------------------------
Entries == [in : Slots \cup {KERNEL, POOL, NULL}, to : Nat,
            perm : SUBSET {"R", "W", "X", "U"}]

(* The state of vm.c has values of its types.                              *)
TypeOK ==
  /\ used \subseteq Pages /\ lost \subseteq used
  /\ pte \in [Pages -> [Index -> Entries]]
  /\ kernel_pt \in Pages \cup {NULL} /\ satp \in Pages \cup {NULL}
  /\ pagetable \in [Slots -> Pages \cup {NULL}]
  /\ current \in Slots \cup {NULL}
  /\ mem \in [Slots -> [0 .. USER_TOTAL_PAGES-1 -> {0, 1}]]
  /\ fn \in {"none", "vm_create_user", "vm_clone_user", "kernel_pagetable"}
  /\ slot \in Slots /\ src \in Slots
  /\ pt \in Pages \cup {NULL} /\ p \in Pages \cup {NULL}
  /\ level \in 0 .. 2 /\ n \in 0 .. KernelMappings + UserMappings
  /\ owner \in [Pages -> [space : Spaces, level : 0 .. 2] \cup {NULL}]

Roots == ({pagetable[s] : s \in Slots} \cup {kernel_pt, pt}) \ {NULL}

(* No page of the pool is in two page tables, and a page is marked in      *)
(* pt_used exactly while some page table holds it - except for what        *)
(* kernel_pagetable loses when the pool runs out under it.                 *)
PoolAccounted ==
  /\ \A r1, r2 \in Roots : r1 # r2 => Tree(r1) \cap Tree(r2) = {}
  /\ \A r \in Roots : Tree(r) \cap lost = {}
  /\ used = (UNION {Tree(r) : r \in Roots}) \cup lost

(* Whatever a user program can reach through its page table is the memory  *)
(* of its own slot; nothing of the kernel or of another process has U set. *)
Isolation ==
  \A s \in Live, va \in 0 .. VpnLimit :
    LET pa == translate_user(pagetable[s], va)
    IN  Valid(pa) => pa.in = s

KernelVas == {KernelMapping(i).va : i \in 0 .. KernelMappings-1}
UserVas == {UserPage(0, i).va : i \in 0 .. UserMappings-1}

(* Every page table in service maps exactly what was asked for: the kernel *)
(* and the UART to themselves, and in a process its image and its stack,   *)
(* with their permissions, and nothing else, though pages are reused.      *)
MapsExactly ==
  LET Asked(s) ==
        {KernelMapping(i) : i \in 0 .. KernelMappings-1} \cup
        (IF s = KERNEL THEN {} ELSE {UserPage(s, i) : i \in 0 .. UserMappings-1})
      Right(s, root) == \A va \in 0 .. VpnLimit :
        LET e == walk_user_pte(root, va)
        IN  IF ~Valid(e) THEN \A m \in Asked(s) : m.va # va
            ELSE [va |-> va, entry |-> e] \in Asked(s)
  IN  fn = "none" =>
        /\ \A s \in Live : Right(s, pagetable[s])
        /\ kernel_pt # NULL => Right(KERNEL, kernel_pt)

(* Once the kernel has its own page table, satp never holds one that was   *)
(* given back; and user code only ever runs on its own.                    *)
SatpRooted ==
  /\ kernel_pt # NULL /\ fn # "kernel_pagetable" =>
       satp \in {kernel_pt} \cup {pagetable[s] : s \in Live}
  /\ current # NULL => satp = pagetable[current]

(* The memory of a process changes only while it is the current one: not   *)
(* by another's stores, by what sys_read copies out for another, nor by a  *)
(* fork into another slot, successful or not.                              *)
OwnMemoryOnly ==
  [][\A s \in Live : mem'[s] # mem[s] => current = s]_vars

Mapped(root, va) == Valid(translate_user(root, va \div PGSIZE))
Byte(root, va) == LET pa == translate_user(root, va \div PGSIZE)
                  IN  <<pa.in, pa.to, va % PGSIZE>>

(* copyin and copyout, page by page, touch the bytes that a loop over the  *)
(* bytes would touch, stop at the same page when one is not the user's,    *)
(* and copyinstr never reads past the NUL: a string may end on the last    *)
(* byte before a page that is not mapped.                                  *)
CopyMatchesBytes ==
  fn = "none" /\ current # NULL =>
    \A va \in 0 .. VpnLimit * PGSIZE, len \in 0 .. 2 * PGSIZE :
      LET root == pagetable[current]
          c == Copy(root, va, len)
          got == copyinstr(root, va, len)
          Reads(i) == /\ \A j \in 0 .. i-1 : Mapped(root, va + j)
                      /\ \A j \in 0 .. i-2 :
                           LET b == Byte(root, va + j) IN mem[b[1]][b[2]] # 0
      IN  /\ c.ok <=> \A j \in 0 .. len-1 : Mapped(root, va + j)
          /\ \A i \in 1 .. Len(c.bytes) : c.bytes[i] = Byte(root, va + i - 1)
          /\ Len(c.bytes) < len => ~Mapped(root, va + Len(c.bytes))
          /\ Len(c.bytes) <= len
          /\ len > 0 => {(va + i - 1) \div PGSIZE : i \in 1 .. Len(c.bytes)}
                           = Reached(root, va, len)
          /\ got >= 0 => Reads(got)
          /\ got = -1 => \E i \in 1 .. len : Reads(i-1) /\ ~Mapped(root, va + i - 1)

(* The pages of a page table that maps vas.                                *)
TreeSize(vas) == 1 + Cardinality({vpn(va, 2) : va \in vas})
                   + Cardinality({<<vpn(va, 2), vpn(va, 1)>> : va \in vas})
UserPages == TreeSize(KernelVas \cup UserVas)
KernPages == TreeSize(KernelVas)

Reserved == IF pt = NULL THEN 0 ELSE Cardinality(Tree(pt))

(* A fork fails for memory only when the pool really is too small for one  *)
(* more address space.                                                     *)
FailsOnlyWhenShort ==
  [][BuildFails => Cardinality(FreePages) + Reserved < UserPages]_vars

(* While a page table is being built its pages still count as free.        *)
Abstract == INSTANCE PagePool WITH
  tables <- Live \cup (IF fn = "vm_create_user" THEN {slot} ELSE {})
                 \cup (IF kernel_pt # NULL /\ fn # "kernel_pagetable"
                       THEN {KERNEL} ELSE {}),
  pool <- Cardinality(FreePages) + Reserved
            - (IF fn = "vm_create_user" THEN UserPages ELSE 0)

(* vm.c implements PagePool: a page table takes exactly the pages its      *)
(* shape needs or none at all, vm_destroy gives all of them back, and the  *)
(* one loss is that of a kernel_pagetable that fails.                      *)
ImplementsPagePool == Abstract!Spec
=============================================================================
