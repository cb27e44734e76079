------------------------------ MODULE PagePool ------------------------------
(***************************************************************************)
(* What NanoBoot/kernel/vm.c promises to proc.c about the pool of page-    *)
(* table pages: address spaces come and go, each with a fixed number of    *)
(* pages.  NanoVM, which builds the tables page by page, implements it;    *)
(* NanoProc uses no more of vm.c than this.                                *)
(***************************************************************************)
EXTENDS Integers

CONSTANTS
  Slots,      \* the slots of proc_table
  KERNEL,     \* the kernel's own address space
  PoolPages,  \* PT_POOL_PAGES
  UserPages,  \* pages of the table of a process
  KernPages   \* pages of the kernel's table

VARIABLES
  tables,     \* the address spaces that have a page table
  pool        \* free pages

(* main() has created the first process, in slot 0.                        *)
Init == tables = {0} /\ pool = PoolPages - UserPages

(* vm_clone_user: all the pages or none.                                   *)
Clone(s) ==
  /\ s \notin tables
  /\ pool >= UserPages
  /\ tables' = tables \cup {s}
  /\ pool' = pool - UserPages

(* vm_destroy gives back what vm_clone_user took.                          *)
Destroy(s) ==
  /\ s \in tables
  /\ tables' = tables \ {s}
  /\ pool' = pool + UserPages

(* kernel_pagetable for the first time, and vm_destroy of the table that   *)
(* was in satp.                                                            *)
Leave(s) ==
  /\ s \in tables /\ KERNEL \notin tables
  /\ pool >= KernPages
  /\ tables' = (tables \ {s}) \cup {KERNEL}
  /\ pool' = pool - KernPages + UserPages

(* The same when the pool is too small: kernel_pagetable takes all that is *)
(* left and gives back only the root.                                      *)
LeaveShort(s) ==
  /\ s \in tables /\ KERNEL \notin tables
  /\ pool < KernPages
  /\ tables' = tables \ {s}
  /\ pool' = (IF pool = 0 THEN 0 ELSE 1) + UserPages

Next == \E s \in Slots : Clone(s) \/ Destroy(s) \/ Leave(s) \/ LeaveShort(s)

Spec == Init /\ [][Next]_<<tables, pool>>
=============================================================================
