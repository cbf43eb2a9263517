-------------------------------- MODULE Vmm ---------------------------------
(***************************************************************************)
(* The page-table code of memory/vmm.c over the page allocator.  A virtual *)
(* page is the sequence of its PML4, PDPT, PD and PT index; an offset      *)
(* inside a page is never translated and is left out.  vmm_map_page takes  *)
(* a step per table, so that each allocates at most one page.              *)
(***************************************************************************)
EXTENDS Pmm

CONSTANTS
  PT_ENTRIES,
  BOOT_LARGE,   \* large pages the bootloader maps
  VA,           \* virtual pages that are looked at
  MapTo,        \* physical pages that are mapped, of memory or devices
  MapFlags,     \* the flags they are mapped with
  ClientPages   \* how many pages other callers of the allocator may hold

VARIABLES
  mem,                     \* what a page holds, read as a table
  level,                   \* 1 for the PML4, ..., 4 for a PT, 0 for other pages
  pc, table, job,          \* vmm_map_page: step, table reached, arguments
  told,                    \* what callers were told va is mapped to
  user,                    \* virtual pages they mapped with VMM_USER
  smashed                  \* a page that is no table is about to be written as one

call == <<pc, table, job>>
vmm == <<mem, level, call, told, user, smashed>>
vmm_vars == <<pmm_vars, vmm>>

Index == 0 .. PT_ENTRIES - 1
NULL == -1
Flag == {"WRITABLE", "USER"}

(* pmm_init reserves the lowest megabyte, where the bootloader put its     *)
(* tables.                                                                 *)
ASSUME VmmAssumption ==
  /\ PT_ENTRIES \in Nat \ {0} /\ BOOT_LARGE \in 0 .. PT_ENTRIES
  /\ VA \subseteq [1 .. 4 -> Index]
  /\ MapTo \subseteq Nat /\ MapFlags \subseteq SUBSET Flag
  /\ \A p \in 1 .. 3 : \E r \in DOMAIN Regions : p \in PagesOf(Regions[r][1], Regions[r][2])

Absent == [to |-> NULL, huge |-> FALSE, flags |-> {}]
Entry(p, huge, flags) == [to |-> p, huge |-> huge, flags |-> flags]
present(e) == e.to # NULL
Empty == [i \in Index |-> Absent]

(* Whatever a caller keeps in its page, read as a table. *)
Garbage == [i \in Index |-> Entry(0, FALSE, Flag)]

tables == {p \in Page : level[p] > 0}

(* The bootloader's tables, in pages 1, 2 and 3: an identity map of the    *)
(* lowest memory with large pages, the first entries of the PD.            *)
PML4 == 1
BootMem ==
  [p \in Page |->
    CASE p = 1 -> [Empty EXCEPT ![0] = Entry(2, FALSE, {"WRITABLE"})]
      [] p = 2 -> [Empty EXCEPT ![0] = Entry(3, FALSE, {"WRITABLE"})]
      [] p = 3 -> [i \in Index |-> IF i < BOOT_LARGE THEN Entry(i * PT_ENTRIES, TRUE, {"WRITABLE"})
                                                     ELSE Absent]
      [] OTHER -> Garbage]

(* Where the walk for va ends: at an absent entry, a large page or the PT. *)
Leaf(va) ==
  LET deeper(e) == present(e) /\ ~ e.huge
      e1 == mem[PML4][va[1]]
      e2 == mem[e1.to][va[2]]
      e3 == mem[e2.to][va[3]]
  IN  IF ~ deeper(e1) THEN [table |-> PML4, level |-> 1]
      ELSE IF ~ deeper(e2) THEN [table |-> e1.to, level |-> 2]
      ELSE IF ~ deeper(e3) THEN [table |-> e2.to, level |-> 3]
      ELSE [table |-> e3.to, level |-> 4]

LeafEntry(va) == mem[Leaf(va).table][va[Leaf(va).level]]

vmm_query(va) ==
  LET e == LeafEntry(va)
  IN  IF e.huge THEN e.to + va[4] ELSE e.to

(* vmm_init comes after pmm_init and takes over the tables in CR3. *)
VmmInit ==
  /\ PmmInit
  /\ mem = BootMem
  /\ level = [p \in Page |-> IF p \in 1 .. 3 THEN p ELSE 0]
  /\ pc = "idle" /\ table = NULL /\ job = <<>>
  /\ told = [va \in VA |-> vmm_query(va)]
  /\ user = {}
  /\ smashed = FALSE

-----------------------------------------------------------------------------
(* Other callers of the page allocator, who write what they like. *)
ClientAlloc ==
  /\ pc = "idle"
  /\ Cardinality(held \ tables) < ClientPages
  /\ \E p \in Page : pmm_alloc_page(p) /\ mem' = [mem EXCEPT ![p] = Garbage]
  /\ UNCHANGED <<level, call, told, user, smashed>>

ClientFree ==
  /\ pc = "idle"
  /\ \E p \in held \ tables : pmm_free_page(p)
  /\ UNCHANGED <<mem, level, call, told, user, smashed>>

-----------------------------------------------------------------------------
vmm_map_page(va, pa, flags) ==
  /\ pc = "idle"
  /\ pc' = "pml4"
  /\ table' = PML4
  /\ job' = [va |-> va, pa |-> pa, flags |-> flags]
  /\ UNCHANGED <<pmm_vars, mem, level, told, user, smashed>>

Level == CASE pc = "pml4" -> 1 [] pc = "pdpt" -> 2 [] pc \in {"pd", "pt"} -> 3 [] OTHER -> 4

Return == pc' = "idle" /\ table' = NULL /\ job' = <<>>

inter == {"WRITABLE"} \cup (job.flags \cap {"USER"})

Slot == mem[table][job.va[Level]]

(* Mutant: the new table keeps what its page held. *)
Create_Mutant(p) ==
  [mem EXCEPT ![table][job.va[Level]] = Entry(p, FALSE, inter)]

(* The page is cleared and entered in the table above. *)
Create(p) ==
  [mem EXCEPT ![p] = Empty, ![table][job.va[Level]] = Entry(p, FALSE, inter)]

(* get_or_create_table returned NULL and vmm_map_page returns false. *)
OutOfMemory(next) == Return

get_or_create_table(next) ==
  \/ /\ present(Slot)
     /\ pc' = next /\ table' = Slot.to
     /\ UNCHANGED <<pmm_vars, mem, level, job>>
  \/ /\ ~ present(Slot)
     /\ \E p \in Page :
          /\ pmm_alloc_page(p)
          /\ mem' = Create(p)
          /\ level' = [level EXCEPT ![p] = Level + 1]
          /\ pc' = next /\ table' = p
          /\ UNCHANGED job
  \/ /\ ~ present(Slot) /\ free = {}
     /\ OutOfMemory(next)
     /\ UNCHANGED <<pmm_vars, mem, level>>

MapPdpt == pc = "pml4" /\ get_or_create_table("pdpt") /\ UNCHANGED <<told, user, smashed>>
MapPd == pc = "pdpt" /\ get_or_create_table("pd") /\ UNCHANGED <<told, user, smashed>>

(* Mutant: every small page gets the large page's own address. *)
Fill_Mutant(e) == [i \in Index |-> Entry(e.to, FALSE, e.flags)]

(* The small pages that replace a large one. *)
Fill(e) == [i \in Index |-> Entry(e.to + i, FALSE, e.flags)]

(* vmm_split_large_page on entry i of the page directory d, if it is       *)
(* large and a page is to be had; nothing otherwise.                       *)
Split(d, i) ==
  LET e == mem[d][i]
  IN  \/ /\ e.huge
         /\ \E p \in Page :
              /\ pmm_alloc_page(p)
              /\ mem' = [mem EXCEPT ![p] = Fill(e),
                                    ![d][i] = Entry(p, FALSE, {"WRITABLE"} \cup (e.flags \cap {"USER"}))]
              /\ level' = [level EXCEPT ![p] = 4]
      \/ /\ ~ e.huge \/ free = {}
         /\ UNCHANGED <<pmm_vars, mem, level>>

MapSplit ==
  /\ pc = "pd"
  /\ Split(table, job.va[3])
  /\ pc' = "pt"
  /\ UNCHANGED <<table, job, told, user, smashed>>

(* A large page that could not be split is taken for a page table. *)
MapPt ==
  /\ pc = "pt"
  /\ get_or_create_table("pte")
  /\ smashed' = Slot.huge
  /\ UNCHANGED <<told, user>>

(* The entry is written, and the caller told TRUE. *)
MapPte ==
  /\ pc = "pte"
  /\ mem' = [mem EXCEPT ![table][job.va[4]] = Entry(job.pa, FALSE, job.flags)]
  /\ told' = [told EXCEPT ![job.va] = job.pa]
  /\ user' = IF "USER" \in job.flags THEN user \cup {job.va} ELSE user \ {job.va}
  /\ Return
  /\ UNCHANGED <<pmm_vars, level, smashed>>

(* A whole large page goes if va lies in one. *)
vmm_unmap_page(va) ==
  /\ pc = "idle"
  /\ LET leaf == Leaf(va)
         gone == {w \in VA : \A l \in 1 .. leaf.level : w[l] = va[l]}
     IN  /\ present(LeafEntry(va))
         /\ mem' = [mem EXCEPT ![leaf.table][va[leaf.level]] = Absent]
         /\ told' = [w \in VA |-> IF w \in gone THEN NULL ELSE told[w]]
         /\ user' = user \ gone
  /\ UNCHANGED <<pmm_vars, level, call, smashed>>

(* A split asked for by itself. *)
vmm_split_large_page(va) ==
  /\ pc = "idle"
  /\ LET leaf == Leaf(va)
     IN  leaf.level = 3 /\ Split(leaf.table, va[3])
  /\ UNCHANGED <<call, told, user, smashed>>

(* Once an entry is written to a page that is no table, anything may       *)
(* follow; the model stops there.                                          *)
VmmNext ==
  \/ mark_range_used /\ UNCHANGED vmm
  \/ /\ Ready /\ ~ smashed
     /\ \/ ClientAlloc
        \/ ClientFree
        \/ \E va \in VA, pa \in MapTo, flags \in MapFlags : vmm_map_page(va, pa, flags)
        \/ MapPdpt
        \/ MapPd
        \/ MapSplit
        \/ MapPt
        \/ MapPte
        \/ \E va \in VA : vmm_unmap_page(va)
        \/ \E va \in VA : vmm_split_large_page(va)

VmmSpec == VmmInit /\ [][VmmNext]_vmm_vars

-----------------------------------------------------------------------------
(* Properties. *)

VmmTypeOK ==
  /\ mem \in [Page -> [Index -> [to : Nat \cup {NULL}, huge : BOOLEAN, flags : SUBSET Flag]]]
  /\ level \in [Page -> 0 .. 4]
  /\ pc \in {"idle", "pml4", "pdpt", "pd", "pt", "pte"}
  /\ table \in Nat \cup {NULL}
  /\ told \in [VA -> Nat \cup {NULL}]
  /\ user \subseteq VA

(* The tables always translate as callers were told, and the last entry of *)
(* a walk has VMM_USER exactly if they asked for it: a failed map changes  *)
(* nothing, at whatever table the memory runs out; a split is invisible;   *)
(* and no map or unmap touches another page.                               *)
TranslationExact ==
  ~ smashed =>
    \A va \in VA :
      /\ vmm_query(va) = told[va]
      /\ "USER" \in LeafEntry(va).flags <=> va \in user

(* The tables form a tree: every entry of an upper table refers to a table *)
(* of the next level or to a large page, each table but the root has       *)
(* exactly one such entry, and none is free to be handed out.  vmm.c:106   *)
(* says "If the PD slot is a 2 MiB huge page, split it before installing a *)
(* 4 KiB mapping inside its range": a large page is never written as a     *)
(* page table, unless the split found no free page, which vmm_map_page     *)
(* does not look at.                                                       *)
TablesFormTree ==
  /\ PmmTypeOK /\ VmmTypeOK
  /\ smashed => free = {}
  /\ ~ smashed =>
       /\ \A t \in tables, i \in Index :
            level[t] < 4 /\ present(mem[t][i]) /\ ~ mem[t][i].huge
              => level[mem[t][i].to] = level[t] + 1
       /\ \A p \in tables \ {PML4} :
            \E t \in tables, i \in Index :
              /\ level[t] < 4 /\ mem[t][i].to = p /\ ~ mem[t][i].huge
              /\ \A u \in tables, j \in Index :
                   level[u] < 4 /\ mem[u][j].to = p /\ ~ mem[u][j].huge => <<u, j>> = <<t, i>>
       /\ Ready => tables \cap free = {}
=============================================================================
