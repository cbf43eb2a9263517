----------------------------- MODULE VmmProofs ------------------------------
(***************************************************************************)
(* The page tables of memory/vmm.c, proved to be a tree that translates as *)
(* callers were told, for every size of table and of memory, every set of  *)
(* virtual pages and every list of reserved regions.                       *)
(***************************************************************************)
EXTENDS VmmTreeProofs

(* Of the allocator: no page is both free and in use, and the regions are  *)
(* reserved before the first page is handed out.                           *)
Allocator == PmmTypeOK /\ NeverTwice /\ (~ Ready => held = {})

LEMMA AllocatorKept == Allocator /\ [PmmNext]_pmm_vars => Allocator'
<1> SUFFICES ASSUME Allocator, [PmmNext]_pmm_vars  PROVE Allocator'  OBVIOUS
<1> USE DEF Allocator, PmmTypeOK, NeverTwice, Ready
<1>1. CASE mark_range_used
  <2>1. /\ free' \subseteq free /\ held' = held /\ region' = region + 1 /\ ~ Ready
    BY <1>1 DEF mark_range_used
  <2> QED  BY <2>1
<1>2. ASSUME NEW p \in Page, pmm_alloc_page(p)  PROVE Allocator'
  BY <1>2 DEF pmm_alloc_page
<1>3. ASSUME NEW p \in held \cup free, pmm_free_page(p)  PROVE Allocator'
  BY <1>3 DEF pmm_free_page
<1>4. CASE UNCHANGED pmm_vars  BY <1>4 DEF pmm_vars
<1> QED  BY <1>1, <1>2, <1>3, <1>4 DEF PmmNext

LEMMA AllocatorInit == PmmInit => Allocator
BY DEF PmmInit, Allocator, PmmTypeOK, NeverTwice, Ready

-----------------------------------------------------------------------------
(* The inductive invariant. *)

(* vmm_map_page stands at a table of its own walk, and goes on to a large  *)
(* page only if there was none to split it.                                *)
Working ==
  pc # "idle" =>
    /\ job.va \in VA /\ job.pa \in MapTo /\ job.flags \in MapFlags
    /\ Reaches(mem, job.va, Level, table)
    /\ pc = "pt" /\ mem[table][job.va[3]].huge = TRUE => free = {}

Marked ==
  \A r \in DOMAIN Regions : r < region =>
    PagesOf(Regions[r][1], Regions[r][2]) \cap (free \cup held) = {}

TablesKept == \A p \in Page : level[p] # 0 => p \in held \cup 1 .. 3

(* The tables translate as callers were told. *)
Sound(m, lv, tl, us) ==
  /\ Tree(m, lv)
  /\ \A va \in VA : Says(End(m, va), va, tl[va], va \in us)

(* Until an entry is about to be written where no table is. *)
VInv ==
  /\ Allocator /\ Marked /\ VmmTypeOK /\ TablesKept
  /\ smashed \in BOOLEAN
  /\ smashed = TRUE => free = {}
  /\ smashed = FALSE => Sound(mem, level, told, user) /\ Working

-----------------------------------------------------------------------------
(* The updates keep the translations. *)

LEMMA SoundScribble ==
  ASSUME NEW m, NEW lv, NEW tl, NEW us, Sound(m, lv, tl, us), NEW p \in Page, lv[p] = 0,
         NEW c \in [Index -> EntryType], NEW m2, m2 = [m EXCEPT ![p] = c]
  PROVE  Sound(m2, lv, tl, us)
<1>1. Tree(m, lv)  BY DEF Sound
<1>2. Tree(m2, lv) /\ Agree(m, m2, lv, p, 0)  BY <1>1, TreeScribble
<1>3. ASSUME NEW va \in VA  PROVE End(m2, va) = End(m, va)
  <2>1. Uses(m, lv, va, p, 0) \/ End(m2, va) = End(m, va)  BY <1>1, <1>2, UsesOrKept
  <2>2. ~ Uses(m, lv, va, p, 0)
    <3>1. SUFFICES ASSUME Reaches(m, va, lv[p], p)  PROVE FALSE  BY DEF Uses
    <3>2. lv[p] \in 1 .. 4  BY <3>1, ReachOnce
    <3> QED  BY <3>2
  <2> QED  BY <2>1, <2>2
<1> QED  BY ONLY <1>2, <1>3, Sound(m, lv, tl, us) DEF Sound

(* get_or_create_table makes a table: no translation changes. *)
Creates(m, lv, d, i, p, f, m2, lv2) ==
  /\ d \in Page /\ i \in Index /\ lv[d] \in 1 .. 3 /\ ~ present(m[d][i])
  /\ p \in Page /\ lv[p] = 0 /\ f \in FlagSet
  /\ m2 = NewTable(m, p, Empty, d, i, f) /\ lv2 = NewLevel(lv, p, lv[d] + 1)

LEMMA SoundCreate ==
  ASSUME NEW m, NEW lv, NEW tl, NEW us, Sound(m, lv, tl, us), NEW d, NEW i, NEW p, NEW f,
         NEW m2, NEW lv2, Creates(m, lv, d, i, p, f, m2, lv2)
  PROVE  /\ Sound(m2, lv2, tl, us)
         /\ \A va \in VA : Uses(m, lv, va, d, i) => Reaches(m2, va, lv[d] + 1, p)
<1>1. /\ d \in Page /\ i \in Index /\ lv[d] \in 1 .. 3 /\ m[d][i].to = NULL
      /\ Tree(m, lv) /\ ~ Deeper(m[d][i])
  BY DEF Sound, Deeper, Creates, present
<1>2. Contents(Empty, lv[d] + 1)
  BY AbsentFacts DEF Contents
<1>3. /\ Tree(m2, lv2) /\ Agree(m, m2, lv, d, i)
      /\ Deeper(m2[d][i]) /\ m2[d][i].to = p /\ m2[p] = Empty
  <2>1. Attaches(m, lv, d, i, p, Empty, f, m2, lv2)
    BY <1>1, <1>2 DEF Attaches, Creates
  <2> QED  BY ONLY <2>1, TreeAttach, SMTT(30)
<1>4. m[d][i] = Absent  BY ONLY <1>1 DEF Tree
<1>5. ASSUME NEW va \in VA, Uses(m, lv, va, d, i)
      PROVE  Reaches(m2, va, lv[d] + 1, p) /\ End(m2, va) = End(m, va)
  <2>1. End(m, va) = m[d][i] /\ Reaches(m2, va, lv[d] + 1, p)
    BY ONLY <1>1, <1>3, <1>5, EndAttach
  <2>2. va[lv[d] + 1] \in Index  BY <1>1, VmmFacts, SMTT(30)
  <2>3. m2[p][va[lv[d] + 1]] = Absent  BY ONLY <1>3, <2>2, AbsentFacts
  <2>4. ~ Deeper(m2[p][va[lv[d] + 1]])  BY ONLY <2>3, AbsentFacts
  <2>5. End(m2, va) = m2[p][va[lv[d] + 1]]
    BY ONLY <1>1, <2>1, <2>4, ReachEnd
  <2> QED  BY <1>4, <2>1, <2>3, <2>5
<1>6. \A va \in VA : End(m2, va) = End(m, va)
  BY ONLY <1>1, <1>3, <1>5, UsesOrKept
<1> QED  BY ONLY <1>3, <1>5, <1>6, Sound(m, lv, tl, us) DEF Sound

LEMMA FillFacts ==
  ASSUME NEW e \in EntryType, e.to \in Nat
  PROVE  /\ Contents(Fill(e), 4)
         /\ \A j \in Index : /\ Fill(e)[j].to = e.to + j /\ Fill(e)[j].huge = FALSE
                             /\ Fill(e)[j].flags = e.flags
<1>1. e.flags \in SUBSET Flag  BY DEF EntryType
<1>2. Index \subseteq Nat  BY DEF Index
<1>3. ASSUME NEW j \in Index
      PROVE  /\ Fill(e)[j] \in EntryType /\ Fill(e)[j].to = e.to + j
             /\ Fill(e)[j].huge = FALSE /\ Fill(e)[j].flags = e.flags
             /\ Fill(e)[j].to # NULL
  <2>1. e.to + j \in Nat  BY <1>2
  <2>2. Fill(e)[j] = Entry(e.to + j, FALSE, e.flags)  BY DEF Fill
  <2>3. PICK q \in Nat : q = e.to + j  BY <2>1
  <2>4. Fill(e)[j] = [to |-> q, huge |-> FALSE, flags |-> e.flags]
    BY ONLY <2>2, <2>3 DEF Entry
  <2>5. q # NULL  BY VmmFacts
  <2> QED  BY ONLY <1>1, <2>3, <2>4, <2>5 DEF EntryType
<1>4. Fill(e) \in [Index -> EntryType]
  <2>1. Fill(e) = [j \in Index |-> Fill(e)[j]]  BY DEF Fill
  <2> QED  BY ONLY <1>3, <2>1
<1> QED  BY ONLY <1>3, <1>4 DEF Contents

(* A split is invisible: the small pages translate as the large one did. *)
Splits(m, lv, d, i, p, f, m2, lv2) ==
  /\ d \in Page /\ i \in Index /\ lv[d] = 3 /\ m[d][i].huge = TRUE
  /\ p \in Page /\ lv[p] = 0 /\ f \in FlagSet
  /\ m2 = NewTable(m, p, Fill(m[d][i]), d, i, f) /\ lv2 = NewLevel(lv, p, 4)

LEMMA SoundSplit ==
  ASSUME NEW m, NEW lv, NEW tl, NEW us, Sound(m, lv, tl, us), NEW d, NEW i, NEW p, NEW f,
         NEW m2, NEW lv2, Splits(m, lv, d, i, p, f, m2, lv2)
  PROVE  /\ Sound(m2, lv2, tl, us)
         /\ Deeper(m2[d][i])
         /\ \A va \in VA : Uses(m, lv, va, d, i) => Reaches(m2, va, 3, d)
<1> USE DEF Splits
<1> DEFINE e == m[d][i]
<1>1. Tree(m, lv) /\ e.huge = TRUE  BY DEF Sound
<1>2. e \in EntryType  BY <1>1 DEF Tree
<1>3. e.to \in Nat
  <2>1. e.to = NULL => e = Absent  BY <1>1 DEF Tree
  <2>2. e.to # NULL  BY <1>1, <2>1, AbsentFacts
  <2>3. e.to \in Nat \cup {NULL}  BY <1>2 DEF EntryType
  <2> QED  BY <2>2, <2>3
<1>4. ~ Deeper(e)  BY <1>1 DEF Deeper
<1> HIDE DEF e
<1>5. /\ Contents(Fill(e), 4)
      /\ \A j \in Index : /\ Fill(e)[j].to = e.to + j /\ Fill(e)[j].huge = FALSE
                          /\ Fill(e)[j].flags = e.flags
  BY <1>2, <1>3, FillFacts
<1>6. /\ Tree(m2, lv2) /\ Agree(m, m2, lv, d, i)
      /\ Deeper(m2[d][i]) /\ m2[d][i].to = p /\ m2[p] = Fill(e)
  <2>1. lv[d] + 1 = 4 /\ lv[d] \in 1 .. 3  BY SMTT(30)
  <2>2. Attaches(m, lv, d, i, p, Fill(e), f, m2, lv2)
    BY <1>1, <1>4, <1>5, <2>1 DEF Attaches, e
  <2> QED  BY ONLY <2>2, TreeAttach, SMTT(30)
<1>7. ASSUME NEW va \in VA, Uses(m, lv, va, d, i)
      PROVE  /\ Reaches(m2, va, 3, d) /\ End(m, va) = e
             /\ End(m2, va) = Fill(e)[va[4]] /\ va[4] \in Index
  <2>1. lv[d] \in 1 .. 3 /\ lv[d] + 1 = 4  OBVIOUS
  <2>2. /\ End(m, va) = m[d][i] /\ Reaches(m2, va, lv[d], d)
        /\ Reaches(m2, va, lv[d] + 1, m2[d][i].to)
    BY ONLY <1>1, <1>4, <1>6, <1>7, <2>1, EndAttach, d \in Page, i \in Index DEF e
  <2>3. Reaches(m2, va, 4, p)  BY <1>6, <2>1, <2>2
  <2>4. End(m2, va) = m2[p][va[4]]  BY ONLY <2>3, ReachEnd
  <2>5. va[4] \in Index  BY VmmFacts
  <2> QED  BY <1>6, <2>2, <2>4, <2>5 DEF e
<1>8. ASSUME NEW va \in VA  PROVE Says(End(m2, va), va, tl[va], va \in us)
  <2>1. Says(End(m, va), va, tl[va], va \in us)  BY DEF Sound
  <2>2. CASE Uses(m, lv, va, d, i)
    <3>1. End(m, va) = e /\ End(m2, va) = Fill(e)[va[4]] /\ va[4] \in Index  BY <1>7, <2>2
    <3>2. /\ End(m2, va).to = e.to + va[4] /\ End(m2, va).huge = FALSE
          /\ End(m2, va).flags = e.flags
      BY ONLY <1>5, <3>1
    <3> QED  BY ONLY <1>1, <2>1, <3>1, <3>2 DEF Says
  <2>3. CASE End(m2, va) = End(m, va)  BY <2>1, <2>3
  <2>4. Uses(m, lv, va, d, i) \/ End(m2, va) = End(m, va)
    BY ONLY <1>1, <1>6, UsesOrKept, va \in VA
  <2> QED  BY <2>2, <2>3, <2>4
<1>9. Sound(m2, lv2, tl, us)  BY ONLY <1>6, <1>8 DEF Sound
<1> QED  BY <1>6, <1>7, <1>9

(* An entry is written or dropped: the walks that use it end there. *)
LEMMA TreeChange ==
  ASSUME NEW m, NEW lv, Tree(m, lv), NEW va \in VA, NEW l, NEW d, Reaches(m, va, l, d),
         NEW e \in EntryType, MayChange(m, l, d, va[l], e),
         NEW m2, m2 = NewEntry(m, d, va[l], e)
  PROVE  /\ Tree(m2, lv)
         /\ \A w \in VA : (\A k \in 1 .. l : w[k] = va[k]) => End(m2, w) = e
         /\ \A w \in VA : (\E k \in 1 .. l : w[k] # va[k]) => End(m2, w) = End(m, w)
<1>1. d \in Page /\ lv[d] = l /\ l \in 1 .. 4 /\ va[l] \in Index  BY ReachLevel
<1>2. Tree(m2, lv) /\ Agree(m, m2, lv, d, va[l]) /\ m2[d][va[l]] = e
  <2>1. lv[d] # 0 /\ MayChange(m, lv[d], d, va[l], e)  BY <1>1
  <2> QED  BY ONLY <1>1, <2>1, TreeSet, Tree(m, lv), e \in EntryType,
                   m2 = NewEntry(m, d, va[l], e)
<1>3. ASSUME NEW w \in VA
      PROVE  Uses(m, lv, w, d, va[l]) <=> \A k \in 1 .. l : w[k] = va[k]
  BY ONLY <1>1, UsesSame, Tree(m, lv), Reaches(m, va, l, d), va \in VA, w \in VA
<1>4. ASSUME NEW w \in VA, \A k \in 1 .. l : w[k] = va[k]  PROVE End(m2, w) = e
  <2>1. Uses(m, lv, w, d, va[l])  BY ONLY <1>3, <1>4
  <2>2. l = 4 \/ ~ Deeper(m2[d][va[l]])  BY <1>2, AbsentFacts DEF MayChange
  <2> QED  BY ONLY <1>1, <1>2, <2>1, <2>2, EndSet, Tree(m, lv), w \in VA
<1>5. ASSUME NEW w \in VA, \E k \in 1 .. l : w[k] # va[k]  PROVE End(m2, w) = End(m, w)
  <2>1. ~ Uses(m, lv, w, d, va[l])  BY ONLY <1>3, <1>5
  <2> QED  BY ONLY <1>2, <2>1, UsesOrKept, Tree(m, lv), w \in VA
<1> QED  BY ONLY <1>2, <1>4, <1>5

(* vmm_map_page writes its entry: only va changes. *)
Writes(va, pa, f, tl, us, tl2, us2, e) ==
  /\ pa \in Nat /\ f \in FlagSet /\ DOMAIN tl = VA
  /\ e = Entry(pa, FALSE, f) /\ tl2 = [tl EXCEPT ![va] = pa]
  /\ us2 = IF "USER" \in f THEN us \cup {va} ELSE us \ {va}

LEMMA SoundWrite ==
  ASSUME NEW m, NEW lv, NEW tl, NEW us, Sound(m, lv, tl, us),
         NEW va \in VA, NEW d, Reaches(m, va, 4, d), NEW pa, NEW f, NEW e,
         NEW m2, m2 = NewEntry(m, d, va[4], e), NEW tl2, NEW us2,
         Writes(va, pa, f, tl, us, tl2, us2, e)
  PROVE  Sound(m2, lv, tl2, us2)
<1> USE DEF Writes
<1>1. Tree(m, lv)  BY DEF Sound
<1>2. e \in EntryType /\ e.to = pa /\ e.huge = FALSE /\ e.flags = f /\ pa # NULL
  <2>1. pa # NULL  BY VmmFacts
  <2>2. pa \in Nat /\ f \in FlagSet /\ e = Entry(pa, FALSE, f)  OBVIOUS
  <2>3. e \in EntryType /\ e.to = pa /\ e.huge = FALSE /\ e.flags = f
    BY ONLY EntryFacts, <2>2 DEF FlagSet
  <2> QED  BY <2>1, <2>3
<1>3. MayChange(m, 4, d, va[4], e)  BY <1>2 DEF MayChange
<1>4. /\ Tree(m2, lv)
      /\ \A w \in VA : (\A k \in 1 .. 4 : w[k] = va[k]) => End(m2, w) = e
      /\ \A w \in VA : (\E k \in 1 .. 4 : w[k] # va[k]) => End(m2, w) = End(m, w)
  BY ONLY <1>1, <1>2, <1>3, TreeChange, Reaches(m, va, 4, d), va \in VA,
          m2 = NewEntry(m, d, va[4], e)
<1>5. ASSUME NEW w \in VA  PROVE Says(End(m2, w), w, tl2[w], w \in us2)
  <2>1. CASE w = va
    <3>1. End(m2, w) = e  BY ONLY <1>4, <2>1, w \in VA
    <3>2. tl2[w] = pa  BY <2>1
    <3>3. w \in us2 <=> "USER" \in f  BY <2>1
    <3> QED  BY ONLY <1>2, <3>1, <3>2, <3>3 DEF Says
  <2>2. CASE w # va
    <3>1. \E k \in 1 .. 4 : w[k] # va[k]
      <4>1. w \in [1 .. 4 -> Index] /\ va \in [1 .. 4 -> Index]  BY VmmAssumption
      <4> QED  BY ONLY <2>2, <4>1
    <3>2. End(m2, w) = End(m, w)  BY ONLY <1>4, <3>1, w \in VA
    <3>3. tl2[w] = tl[w]  BY <2>2
    <3>4. w \in us2 <=> w \in us  BY <2>2
    <3>5. Says(End(m, w), w, tl[w], w \in us)  BY DEF Sound
    <3> QED  BY ONLY <3>2, <3>3, <3>4, <3>5 DEF Says
  <2> QED  BY <2>1, <2>2
<1> QED  BY ONLY <1>4, <1>5 DEF Sound

(* vmm_unmap_page drops the entry a walk ends at: the pages whose walks    *)
(* end there go, and no other.                                             *)
Drops(m, va, l, d, tl, tl2, gone) ==
  /\ l = 4 \/ ~ Deeper(m[d][va[l]])
  /\ gone = {w \in VA : \A k \in 1 .. l : w[k] = va[k]}
  /\ tl2 = [w \in VA |-> IF w \in gone THEN NULL ELSE tl[w]]

LEMMA SoundUnmap ==
  ASSUME NEW m, NEW lv, NEW tl, NEW us, Sound(m, lv, tl, us),
         NEW va \in VA, NEW l, NEW d, Reaches(m, va, l, d),
         NEW m2, m2 = NewEntry(m, d, va[l], Absent), NEW gone, NEW tl2,
         Drops(m, va, l, d, tl, tl2, gone)
  PROVE  Sound(m2, lv, tl2, us \ gone)
<1> USE DEF Drops
<1>1. Tree(m, lv)  BY DEF Sound
<1>2. MayChange(m, l, d, va[l], Absent)  BY DEF MayChange
<1>3. /\ Tree(m2, lv)
      /\ \A w \in VA : (\A k \in 1 .. l : w[k] = va[k]) => End(m2, w) = Absent
      /\ \A w \in VA : (\E k \in 1 .. l : w[k] # va[k]) => End(m2, w) = End(m, w)
  BY ONLY <1>1, <1>2, AbsentFacts, TreeChange, Reaches(m, va, l, d), va \in VA,
          m2 = NewEntry(m, d, va[l], Absent), SMTT(30)
<1>4. ASSUME NEW w \in VA  PROVE Says(End(m2, w), w, tl2[w], w \in us \ gone)
  <2>1. CASE w \in gone
    <3>1. End(m2, w) = Absent  BY <1>3, <2>1
    <3>2. tl2[w] = NULL /\ w \notin us \ gone  BY <2>1
    <3>3. Absent.to = NULL /\ Absent.huge = FALSE /\ "USER" \notin Absent.flags
      BY AbsentFacts
    <3> QED  BY ONLY <3>1, <3>2, <3>3 DEF Says
  <2>2. CASE w \notin gone
    <3>1. End(m2, w) = End(m, w)  BY <1>3, <2>2
    <3>2. tl2[w] = tl[w] /\ (w \in us \ gone <=> w \in us)  BY <2>2
    <3>3. Says(End(m, w), w, tl[w], w \in us)  BY DEF Sound
    <3> QED  BY ONLY <3>1, <3>2, <3>3 DEF Says
  <2> QED  BY <2>1, <2>2
<1> QED  BY ONLY <1>3, <1>4 DEF Sound

-----------------------------------------------------------------------------
(* The walk the code takes. *)

LEMMA LeafIs ==
  ASSUME Tree(mem, level), NEW va \in VA
  PROVE  /\ Reaches(mem, va, Leaf(va).level, Leaf(va).table) /\ Leaf(va).level \in 1 .. 4
         /\ Leaf(va).level = 4 \/ ~ Deeper(LeafEntry(va))
         /\ LeafEntry(va) = End(mem, va) /\ End(mem, va) \in EntryType
<1>1. ASSUME NEW l, NEW t, Reaches(mem, va, l, t)
      PROVE  mem[t][va[l]] \in EntryType
  <2>1. t \in Page /\ va[l] \in Index  BY <1>1, ReachLevel
  <2> QED  BY <2>1 DEF Tree
<1>2. W1(mem, va) \in EntryType  BY <1>1 DEF Reaches, W1
<1>3. Deeper(W1(mem, va)) => W2(mem, va) \in EntryType
  <2>1. Deeper(W1(mem, va)) => Reaches(mem, va, 2, W1(mem, va).to)  BY DEF Reaches
  <2> QED  BY <1>1, <2>1 DEF W2
<1>4. Deeper(W1(mem, va)) /\ Deeper(W2(mem, va)) => W3(mem, va) \in EntryType
  <2>1. Deeper(W1(mem, va)) /\ Deeper(W2(mem, va)) => Reaches(mem, va, 3, W2(mem, va).to)
    BY DEF Reaches
  <2> QED  BY <1>1, <2>1 DEF W3
<1>5. Deeper(W1(mem, va)) /\ Deeper(W2(mem, va)) /\ Deeper(W3(mem, va))
        => W4(mem, va) \in EntryType
  <2>1. Deeper(W1(mem, va)) /\ Deeper(W2(mem, va)) /\ Deeper(W3(mem, va))
          => Reaches(mem, va, 4, W3(mem, va).to)
    BY DEF Reaches
  <2> QED  BY <1>1, <2>1 DEF W4
<1>6. \A e \in EntryType : (present(e) /\ ~ e.huge) <=> Deeper(e)  BY DEF EntryType, Deeper
<1>7. Leaf(va) = IF ~ Deeper(W1(mem, va)) THEN [table |-> PML4, level |-> 1]
                 ELSE IF ~ Deeper(W2(mem, va)) THEN [table |-> W1(mem, va).to, level |-> 2]
                 ELSE IF ~ Deeper(W3(mem, va)) THEN [table |-> W2(mem, va).to, level |-> 3]
                 ELSE [table |-> W3(mem, va).to, level |-> 4]
  <2>1. (present(W1(mem, va)) /\ ~ W1(mem, va).huge) <=> Deeper(W1(mem, va))  BY <1>2, <1>6
  <2>2. Deeper(W1(mem, va)) =>
          ((present(W2(mem, va)) /\ ~ W2(mem, va).huge) <=> Deeper(W2(mem, va)))
    BY <1>3, <1>6
  <2>3. Deeper(W1(mem, va)) /\ Deeper(W2(mem, va)) =>
          ((present(W3(mem, va)) /\ ~ W3(mem, va).huge) <=> Deeper(W3(mem, va)))
    BY <1>4, <1>6
  <2> QED  BY ONLY <2>1, <2>2, <2>3, Zenon DEF Leaf, W1, W2, W3
<1>8. CASE ~ Deeper(W1(mem, va))
  <2>1. Leaf(va).table = PML4 /\ Leaf(va).level = 1  BY ONLY <1>7, <1>8, SMTT(30)
  <2>2. LeafEntry(va) = W1(mem, va)  BY ONLY <2>1 DEF LeafEntry, W1
  <2> QED  BY ONLY <1>2, <1>8, <2>1, <2>2, SMTT(30) DEF Reaches, End
<1>9. CASE Deeper(W1(mem, va)) /\ ~ Deeper(W2(mem, va))
  <2>1. Leaf(va).table = W1(mem, va).to /\ Leaf(va).level = 2  BY ONLY <1>7, <1>9
  <2>2. LeafEntry(va) = W2(mem, va)  BY ONLY <2>1 DEF LeafEntry, W2
  <2> QED  BY ONLY <1>3, <1>9, <2>1, <2>2, SMTT(30) DEF Reaches, End
<1>10. CASE Deeper(W1(mem, va)) /\ Deeper(W2(mem, va)) /\ ~ Deeper(W3(mem, va))
  <2>1. Leaf(va).table = W2(mem, va).to /\ Leaf(va).level = 3  BY ONLY <1>7, <1>10
  <2>2. LeafEntry(va) = W3(mem, va)  BY ONLY <2>1 DEF LeafEntry, W3
  <2> QED  BY ONLY <1>4, <1>10, <2>1, <2>2, SMTT(30) DEF Reaches, End
<1>11. CASE Deeper(W1(mem, va)) /\ Deeper(W2(mem, va)) /\ Deeper(W3(mem, va))
  <2>1. Leaf(va).table = W3(mem, va).to /\ Leaf(va).level = 4  BY ONLY <1>7, <1>11
  <2>2. LeafEntry(va) = W4(mem, va)  BY ONLY <2>1 DEF LeafEntry, W4
  <2> QED  BY ONLY <1>5, <1>11, <2>1, <2>2, SMTT(30) DEF Reaches, End
<1> QED  BY <1>8, <1>9, <1>10, <1>11

LEMMA SaysQuery ==
  ASSUME Tree(mem, level), NEW va \in VA, NEW pa, NEW x \in BOOLEAN
  PROVE  Says(End(mem, va), va, pa, x) <=>
           vmm_query(va) = pa /\ ("USER" \in LeafEntry(va).flags <=> x)
<1>1. LeafEntry(va) = End(mem, va) /\ End(mem, va).huge \in BOOLEAN
  BY LeafIs DEF EntryType
<1>2. vmm_query(va) = IF End(mem, va).huge = TRUE THEN End(mem, va).to + va[4]
                                                   ELSE End(mem, va).to
  BY ONLY <1>1 DEF vmm_query
<1> QED  BY ONLY <1>1, <1>2 DEF Says

-----------------------------------------------------------------------------
(* The allocator below, and the step of each operation. *)

LEMMA MarkedKept == ASSUME Allocator, Marked, [PmmNext]_pmm_vars  PROVE Marked'
<1>1. ASSUME NEW r \in DOMAIN Regions, r < region', NEW p,
             p \in PagesOf(Regions[r][1], Regions[r][2]), p \in free' \cup held'
      PROVE  FALSE
  <2>1. CASE mark_range_used
    <3>1. held' = {}
      BY <2>1 DEF Allocator, mark_range_used
    <3>2. p \in free /\ region' = region + 1 /\ region \in Nat
      BY <1>1, <2>1, <3>1 DEF mark_range_used, Allocator, PmmTypeOK
    <3>3. r \in Nat  BY PmmAssumption
    <3>4. CASE r = region  BY <1>1, <2>1, <3>1, <3>4 DEF mark_range_used
    <3>5. CASE r < region  BY <1>1, <3>2, <3>5 DEF Marked
    <3> QED  BY <1>1, <3>2, <3>3, <3>4, <3>5
  <2>2. ASSUME NEW q \in Page, pmm_alloc_page(q)  PROVE FALSE
    <3>1. p \in free \cup held /\ region' = region  BY <1>1, <2>2 DEF pmm_alloc_page
    <3> QED  BY <1>1, <3>1 DEF Marked
  <2>3. ASSUME NEW q \in held \cup free, pmm_free_page(q)  PROVE FALSE
    <3>1. p \in free \cup held /\ region' = region  BY <1>1, <2>3 DEF pmm_free_page
    <3> QED  BY <1>1, <3>1 DEF Marked
  <2>4. CASE UNCHANGED pmm_vars
    <3>1. p \in free \cup held /\ region' = region  BY <1>1, <2>4 DEF pmm_vars
    <3> QED  BY <1>1, <3>1 DEF Marked
  <2> QED  BY <2>1, <2>2, <2>3, <2>4 DEF PmmNext
<1> QED  BY <1>1 DEF Marked

(* No table is free to be handed out. *)
LEMMA TablesNotFree ==
  ASSUME Allocator, Marked, TablesKept, Ready, NEW p \in free
  PROVE  level[p] = 0
<1>1. p \in Page /\ p \notin held  BY DEF Allocator, PmmTypeOK, NeverTwice
<1>2. p \notin 1 .. 3
  <2>1. SUFFICES ASSUME p \in 1 .. 3  PROVE FALSE  OBVIOUS
  <2>2. PICK r \in DOMAIN Regions : p \in PagesOf(Regions[r][1], Regions[r][2])
    BY <2>1, VmmAssumption
  <2>3. r \in 1 .. Len(Regions) /\ Len(Regions) \in Nat  BY PmmAssumption
  <2>4. r < region  BY <2>3 DEF Ready, Allocator, PmmTypeOK
  <2> QED  BY <2>2, <2>4 DEF Marked
<1> QED  BY <1>1, <1>2 DEF TablesKept

CallType ==
  /\ pc \in {"idle", "pml4", "pdpt", "pd", "pt", "pte"}
  /\ table \in Nat \cup {NULL}
  /\ told \in [VA -> Nat \cup {NULL}]
  /\ user \subseteq VA

LEMMA Assemble ==
  ASSUME VInv, [PmmNext]_pmm_vars, TablesKept', CallType', smashed' = FALSE,
         Sound(mem', level', told', user'), Working'
  PROVE  VInv'
<1>1. Allocator' /\ Marked'  BY AllocatorKept, MarkedKept DEF VInv
<1>2. Tree(mem', level')  BY DEF Sound
<1>3. VmmTypeOK'  BY <1>2 DEF VmmTypeOK, CallType, Tree, EntryType
<1> QED  BY <1>1, <1>3 DEF VInv

(* A page is handed out, as a table or to a caller. *)
LEMMA AllocFacts ==
  ASSUME VInv, Ready, NEW p \in Page, pmm_alloc_page(p)
  PROVE  [PmmNext]_pmm_vars /\ level[p] = 0 /\ p \in held' /\ held \subseteq held'
<1>1. p \in free  BY DEF pmm_alloc_page
<1>2. level[p] = 0  BY <1>1, TablesNotFree DEF VInv
<1> QED  BY <1>2 DEF PmmNext, pmm_alloc_page

LEMMA GarbageType == Garbage \in [Index -> EntryType]
<1>1. 0 \in Nat /\ Flag \in SUBSET Flag  OBVIOUS
<1>2. Entry(0, FALSE, Flag) \in EntryType  BY <1>1, EntryFacts
<1> QED  BY <1>2 DEF Garbage

LEMMA ClientAllocInv == ASSUME VInv, Ready, smashed = FALSE, ClientAlloc  PROVE VInv'
<1>1. PICK p \in Page : pmm_alloc_page(p) /\ mem' = [mem EXCEPT ![p] = Garbage]
  BY DEF ClientAlloc
<1>2. [PmmNext]_pmm_vars /\ level[p] = 0 /\ held \subseteq held'  BY <1>1, AllocFacts
<1>3. /\ pc = "idle" /\ pc' = pc /\ table' = table /\ level' = level
      /\ told' = told /\ user' = user /\ smashed' = FALSE
  BY DEF ClientAlloc, call
<1>4. Sound(mem, level, told, user)  BY DEF VInv
<1>5. Sound(mem', level, told, user)
  BY ONLY <1>1, <1>2, <1>4, GarbageType, SoundScribble
<1>6. Sound(mem', level', told', user')  BY ONLY <1>3, <1>5
<1>7. TablesKept'  BY <1>2, <1>3 DEF VInv, TablesKept
<1>8. CallType'  BY <1>3 DEF VInv, VmmTypeOK, CallType
<1>9. Working'  BY <1>3 DEF Working
<1> QED  BY <1>2, <1>3, <1>6, <1>7, <1>8, <1>9, Assemble

LEMMA ClientFreeInv == ASSUME VInv, Ready, smashed = FALSE, ClientFree  PROVE VInv'
<1>1. PICK p \in held \ tables : pmm_free_page(p)  BY DEF ClientFree
<1>2. [PmmNext]_pmm_vars /\ held' = held \ {p} /\ p \in Page
  BY <1>1 DEF PmmNext, pmm_free_page, VInv, Allocator, PmmTypeOK
<1>3. /\ pc = "idle" /\ pc' = pc /\ table' = table /\ level' = level /\ mem' = mem
      /\ told' = told /\ user' = user /\ smashed' = FALSE
  BY DEF ClientFree, call
<1>4. Sound(mem', level', told', user')  BY <1>3 DEF VInv
<1>5. level[p] = 0
  <2>1. level \in [Page -> 0 .. 4]  BY DEF VInv, VmmTypeOK
  <2> QED  BY <1>1, <1>2, <2>1 DEF tables
<1>6. TablesKept'  BY <1>2, <1>3, <1>5 DEF VInv, TablesKept
<1>7. CallType'  BY <1>3 DEF VInv, VmmTypeOK, CallType
<1>8. Working'  BY <1>3 DEF Working
<1> QED  BY <1>2, <1>3, <1>4, <1>6, <1>7, <1>8, Assemble

(* Where vmm_map_page stands. *)
LEMMA WorkingFacts ==
  ASSUME VInv, smashed = FALSE, pc # "idle"
  PROVE  /\ job.va \in VA /\ job.pa \in Nat /\ job.flags \in FlagSet /\ inter \in FlagSet
         /\ Reaches(mem, job.va, Level, table)
         /\ table \in Page /\ level[table] = Level /\ Level \in 1 .. 4
         /\ job.va[Level] \in Index /\ Slot \in EntryType /\ Tree(mem, level)
<1>1. /\ job.va \in VA /\ job.pa \in MapTo /\ job.flags \in MapFlags
      /\ Reaches(mem, job.va, Level, table) /\ Tree(mem, level)
  BY DEF VInv, Working, Sound
<1>2. job.pa \in Nat /\ job.flags \in FlagSet
  <2>1. MapTo \subseteq Nat /\ MapFlags \subseteq FlagSet  BY VmmAssumption DEF FlagSet
  <2> QED  BY ONLY <1>1, <2>1, Zenon
<1>3. inter \in FlagSet  BY <1>2 DEF FlagSet, inter, Flag
<1>4. /\ table \in Page /\ level[table] = Level /\ Level \in 1 .. 4
      /\ job.va[Level] \in Index
  BY ONLY <1>1, ReachLevel
<1>5. Slot \in EntryType  BY <1>1, <1>4, SMTT(30) DEF Slot, Tree
<1> QED  BY ONLY <1>1, <1>2, <1>3, <1>4, <1>5

Goes(next) ==
  \/ pc = "pml4" /\ next = "pdpt"
  \/ pc = "pdpt" /\ next = "pd"
  \/ pc = "pt" /\ next = "pte"

LEMMA LevelGoes ==
  ASSUME NEW next, Goes(next), pc' = next
  PROVE  Level' = Level + 1 /\ Level \in 1 .. 3 /\ (Level = 3 => pc = "pt") /\ next # "pt"
         /\ next \in {"pdpt", "pd", "pte"}
BY DEF Level, Goes

(* get_or_create_table went on through an entry, to a table. *)
LEMMA FollowFacts ==
  ASSUME VInv, smashed = FALSE, NEW next, Goes(next), present(Slot), Slot.huge = FALSE,
         pc' = next, table' = Slot.to, job' = job, mem' = mem
  PROVE  Working'
<1>1. pc # "idle"  BY DEF Goes
<1>2. /\ job.va \in VA /\ job.pa \in MapTo /\ job.flags \in MapFlags
      /\ Reaches(mem, job.va, Level, table)
  BY <1>1 DEF VInv, Working
<1>3. Level' = Level + 1 /\ Level \in 1 .. 3 /\ next # "pt"  BY LevelGoes
<1>4. Deeper(mem[table][job.va[Level]])  BY DEF Deeper, Slot
<1>5. Reaches(mem, job.va, Level + 1, Slot.to)
  <2>1. Reaches(mem, job.va, Level + 1, mem[table][job.va[Level]].to)
    BY ONLY <1>2, <1>3, <1>4, ReachNext, Zenon
  <2> QED  BY ONLY <2>1 DEF Slot
<1>6. Reaches(mem', job'.va, Level', table')
  BY ONLY <1>3, <1>5, job' = job, mem' = mem, table' = Slot.to
<1> QED  BY <1>2, <1>3, <1>6 DEF Working

(* get_or_create_table made a table. *)
LEMMA CreateFacts ==
  ASSUME VInv, Ready, smashed = FALSE, NEW next, Goes(next), ~ present(Slot),
         NEW p \in Page, pmm_alloc_page(p), mem' = Create(p),
         level' = [level EXCEPT ![p] = Level + 1],
         pc' = next, table' = p, job' = job, told' = told, user' = user
  PROVE  [PmmNext]_pmm_vars /\ TablesKept' /\ Sound(mem', level', told', user') /\ Working'
<1>1. pc # "idle"  BY DEF Goes
<1>2. /\ job.va \in VA /\ inter \in FlagSet /\ Reaches(mem, job.va, Level, table)
      /\ table \in Page /\ level[table] = Level /\ job.va[Level] \in Index
  BY ONLY <1>1, WorkingFacts, VInv, smashed = FALSE, Zenon
<1>3. Level' = Level + 1 /\ Level \in 1 .. 3 /\ next # "pt"  BY LevelGoes
<1>4. [PmmNext]_pmm_vars /\ level[p] = 0 /\ p \in held' /\ held \subseteq held'  BY AllocFacts
<1>5. /\ mem' = NewTable(mem, p, Empty, table, job.va[Level], inter)
      /\ level' = NewLevel(level, p, level[table] + 1)
  BY <1>2, Zenon DEF Create, NewTable, NewLevel
<1>6. ~ present(mem[table][job.va[Level]])  BY DEF Slot
<1>7. level[table] \in 1 .. 3 /\ Sound(mem, level, told, user)  BY <1>2, <1>3 DEF VInv
<1>8. /\ Sound(mem', level', told, user)
      /\ \A va \in VA : Uses(mem, level, va, table, job.va[Level])
                          => Reaches(mem', va, level[table] + 1, p)
  <2>1. Creates(mem, level, table, job.va[Level], p, inter, mem', level')
    BY <1>2, <1>4, <1>5, <1>6, <1>7 DEF Creates
  <2> QED  BY ONLY <1>7, <2>1, SoundCreate
<1>9. Uses(mem, level, job.va, table, job.va[Level])  BY ONLY <1>2 DEF Uses
<1>10. Reaches(mem', job'.va, Level', table')
  BY ONLY <1>2, <1>3, <1>8, <1>9, job' = job, table' = p
<1>11. TablesKept'
  <2>1. \A q \in Page : level'[q] # 0 => q = p \/ level[q] # 0
    BY DEF VInv, VmmTypeOK
  <2> QED  BY <1>4, <2>1 DEF VInv, TablesKept
<1>12. Working'
  <2>1. job'.va \in VA /\ job'.pa \in MapTo /\ job'.flags \in MapFlags
    BY <1>1 DEF VInv, Working
  <2> QED  BY <1>3, <1>10, <2>1 DEF Working
<1>13. Sound(mem', level', told', user')
  BY ONLY <1>8, told' = told, user' = user
<1> QED  BY ONLY <1>4, <1>11, <1>12, <1>13

LEMMA SlotFacts ==
  ASSUME VInv, smashed = FALSE, pc # "idle"
  PROVE  /\ Slot.huge \in BOOLEAN /\ Slot.to \in Nat \cup {NULL}
         /\ Slot.huge = TRUE => Level = 3
         /\ ~ present(Slot) => Slot.huge = FALSE
<1>1. /\ table \in Page /\ level[table] = Level /\ Level \in 1 .. 4
      /\ job.va[Level] \in Index /\ Slot \in EntryType /\ Tree(mem, level)
  BY ONLY WorkingFacts, VInv, smashed = FALSE, pc # "idle", Zenon
<1>2. PICK i \in Index : i = job.va[Level]  BY ONLY <1>1, Zenon
<1>3. Slot = mem[table][i]  BY <1>2, Zenon DEF Slot
<1>4. /\ mem[table][i].huge = TRUE => level[table] = 3
      /\ mem[table][i].to = NULL => mem[table][i] = Absent
  BY ONLY <1>1, SMTT(30) DEF Tree
<1>5. Slot.huge \in BOOLEAN /\ Slot.to \in Nat \cup {NULL}  BY ONLY <1>1 DEF EntryType
<1> QED  BY ONLY <1>1, <1>3, <1>4, <1>5, AbsentFacts DEF present

LEMMA TableStepInv ==
  ASSUME VInv, Ready, smashed = FALSE, NEW next, Goes(next), get_or_create_table(next),
         told' = told, user' = user, smashed' = Slot.huge
  PROVE  VInv'
<1>1. pc # "idle"  BY DEF Goes
<1>2. /\ Slot.huge \in BOOLEAN /\ Slot.to \in Nat \cup {NULL}
      /\ Slot.huge = TRUE => Level = 3
      /\ ~ present(Slot) => Slot.huge = FALSE
  BY ONLY <1>1, SlotFacts, VInv, smashed = FALSE
<1>3. /\ told \in [VA -> Nat \cup {NULL}] /\ user \subseteq VA
      /\ next \in {"idle", "pml4", "pdpt", "pd", "pt", "pte"}
  BY DEF VInv, VmmTypeOK, Goes
<1>4. CASE /\ present(Slot)
           /\ pc' = next /\ table' = Slot.to
           /\ UNCHANGED <<pmm_vars, mem, level, job>>
  <2>1. [PmmNext]_pmm_vars /\ free' = free /\ held' = held /\ mem' = mem /\ level' = level /\ job' = job
    BY <1>4 DEF pmm_vars
  <2>2. TablesKept'  BY <2>1 DEF VInv, TablesKept
  <2>3. CallType'  BY <1>2, <1>3, <1>4 DEF CallType
  <2>4. CASE Slot.huge = FALSE
    <3>1. Sound(mem', level', told', user')  BY <2>1 DEF VInv
    <3>2. Working'  BY <1>4, <2>1, <2>4, FollowFacts
    <3>3. smashed' = FALSE  BY <2>4
    <3> QED  BY <2>1, <2>2, <2>3, <3>1, <3>2, <3>3, Assemble
  <2>5. CASE Slot.huge = TRUE
    <3>1. Level = 3 /\ pc = "pt"  BY <1>2, <1>4, <2>5, LevelGoes
    <3>2. mem[table][job.va[3]].huge = TRUE  BY ONLY <2>5, <3>1 DEF Slot
    <3>3. free = {}  BY <1>1, <3>1, <3>2 DEF VInv, Working
    <3>4. Allocator' /\ Marked'  BY <2>1, AllocatorKept, MarkedKept DEF VInv
    <3>5. VmmTypeOK'  BY <2>1, <2>3 DEF VInv, VmmTypeOK, CallType
    <3>6. smashed' = TRUE /\ free' = {}  BY <2>1, <2>5, <3>3
    <3> QED  BY <2>2, <3>4, <3>5, <3>6 DEF VInv
  <2> QED  BY <1>2, <2>4, <2>5
<1>5. CASE /\ ~ present(Slot)
           /\ \E p \in Page :
                /\ pmm_alloc_page(p)
                /\ mem' = Create(p)
                /\ level' = [level EXCEPT ![p] = Level + 1]
                /\ pc' = next /\ table' = p
                /\ UNCHANGED job
  <2>1. PICK p \in Page :
          /\ pmm_alloc_page(p)
          /\ mem' = Create(p)
          /\ level' = [level EXCEPT ![p] = Level + 1]
          /\ pc' = next /\ table' = p
          /\ UNCHANGED job
    BY ONLY <1>5, Zenon
  <2>2. [PmmNext]_pmm_vars /\ TablesKept' /\ Sound(mem', level', told', user') /\ Working'
    BY ONLY <1>5, <2>1, CreateFacts, VInv, Ready, smashed = FALSE, Goes(next),
            told' = told, user' = user, Zenon
  <2>3. p \in Nat  BY VmmFacts
  <2>4. CallType'  BY <1>3, <2>1, <2>3 DEF CallType
  <2>5. smashed' = FALSE  BY <1>2, <1>5
  <2> QED  BY ONLY <2>2, <2>4, <2>5, Assemble, VInv
<1>6. CASE ~ present(Slot) /\ OutOfMemory(next) /\ UNCHANGED <<pmm_vars, mem, level>>
  <2>1. /\ [PmmNext]_pmm_vars /\ held' = held /\ mem' = mem /\ level' = level
        /\ pc' = "idle" /\ table' = NULL
    BY <1>6 DEF pmm_vars, OutOfMemory, Return
  <2>2. TablesKept'  BY <2>1 DEF VInv, TablesKept
  <2>3. CallType'  BY <1>3, <2>1 DEF CallType
  <2>4. Sound(mem', level', told', user')  BY <2>1 DEF VInv
  <2>5. Working'  BY <2>1 DEF Working
  <2>6. smashed' = FALSE  BY <1>2, <1>6
  <2> QED  BY ONLY <2>1, <2>2, <2>3, <2>4, <2>5, <2>6, Assemble, VInv
<1> QED  BY <1>4, <1>5, <1>6 DEF get_or_create_table

LEMMA MapTablesInv ==
  ASSUME VInv, Ready, smashed = FALSE, MapPdpt \/ MapPd \/ MapPt  PROVE VInv'
<1>1. CASE MapPdpt
  <2>1. pc # "idle" /\ Level = 1 /\ Goes("pdpt")  BY <1>1 DEF MapPdpt, Level, Goes
  <2>2. Slot.huge = FALSE
    <3>1. Slot.huge \in BOOLEAN /\ (Slot.huge = TRUE => Level = 3)
      BY ONLY <2>1, SlotFacts, VInv, smashed = FALSE, Zenon
    <3> QED  BY ONLY <2>1, <3>1
  <2>3. told' = told /\ user' = user /\ smashed' = Slot.huge /\ get_or_create_table("pdpt")
    BY <1>1, <2>2 DEF MapPdpt
  <2> QED  BY ONLY <2>1, <2>3, TableStepInv, VInv, Ready, smashed = FALSE
<1>2. CASE MapPd
  <2>1. pc # "idle" /\ Level = 2 /\ Goes("pd")  BY <1>2 DEF MapPd, Level, Goes
  <2>2. Slot.huge = FALSE
    <3>1. Slot.huge \in BOOLEAN /\ (Slot.huge = TRUE => Level = 3)
      BY ONLY <2>1, SlotFacts, VInv, smashed = FALSE, Zenon
    <3> QED  BY ONLY <2>1, <3>1
  <2>3. told' = told /\ user' = user /\ smashed' = Slot.huge /\ get_or_create_table("pd")
    BY <1>2, <2>2 DEF MapPd
  <2> QED  BY ONLY <2>1, <2>3, TableStepInv, VInv, Ready, smashed = FALSE
<1>3. CASE MapPt
  <2>1. Goes("pte")  BY <1>3 DEF MapPt, Goes
  <2>2. told' = told /\ user' = user /\ smashed' = Slot.huge /\ get_or_create_table("pte")
    BY <1>3 DEF MapPt
  <2> QED  BY ONLY <2>1, <2>2, TableStepInv, VInv, Ready, smashed = FALSE
<1> QED  BY <1>1, <1>2, <1>3

LEMMA MapPteInv == ASSUME VInv, Ready, smashed = FALSE, MapPte  PROVE VInv'
<1>1. /\ pc = "pte" /\ pc # "idle" /\ Level = 4 /\ pc' = "idle" /\ table' = NULL
      /\ [PmmNext]_pmm_vars /\ held' = held /\ level' = level /\ smashed' = FALSE
  BY DEF MapPte, Return, pmm_vars, Level
<1>2. /\ job.va \in VA /\ job.pa \in Nat /\ job.flags \in FlagSet
      /\ Reaches(mem, job.va, Level, table)
  BY ONLY <1>1, WorkingFacts, VInv, smashed = FALSE, Zenon
<1>3. /\ mem' = NewEntry(mem, table, job.va[4], Entry(job.pa, FALSE, job.flags))
      /\ told' = [told EXCEPT ![job.va] = job.pa]
      /\ user' = IF "USER" \in job.flags THEN user \cup {job.va} ELSE user \ {job.va}
  BY Zenon DEF MapPte, NewEntry
<1>4. PICK va \in VA, pa \in Nat, f \in FlagSet :
        va = job.va /\ pa = job.pa /\ f = job.flags
  BY ONLY <1>2, Zenon
<1>5. PICK e : e = Entry(pa, FALSE, f)  OBVIOUS
<1>6. /\ mem' = NewEntry(mem, table, va[4], e)
      /\ told' = [told EXCEPT ![va] = pa]
      /\ user' = IF "USER" \in f THEN user \cup {va} ELSE user \ {va}
      /\ Reaches(mem, va, 4, table)
  BY ONLY <1>1, <1>2, <1>3, <1>4, <1>5, Zenon
<1>7. /\ Sound(mem, level, told, user) /\ told \in [VA -> Nat \cup {NULL}]
      /\ user \subseteq VA /\ DOMAIN told = VA
  BY DEF VInv, VmmTypeOK
<1>8. Sound(mem', level, told', user')
  <2>1. Writes(va, pa, f, told, user, told', user', e)
    BY ONLY <1>4, <1>5, <1>6, <1>7, Zenon DEF Writes
  <2> QED  BY ONLY <1>4, <1>6, <1>7, <2>1, SoundWrite
<1>9. Sound(mem', level', told', user')  BY ONLY <1>1, <1>8
<1>10. CallType'  BY ONLY <1>1, <1>4, <1>6, <1>7 DEF CallType
<1>11. TablesKept'  BY <1>1 DEF VInv, TablesKept
<1>12. Working'  BY <1>1 DEF Working
<1> QED  BY ONLY <1>1, <1>9, <1>10, <1>11, <1>12, Assemble, VInv

LEMMA SplitFacts ==
  ASSUME VInv, Ready, smashed = FALSE, NEW d \in Page, NEW i \in Index, level[d] = 3,
         NEW va \in VA, Uses(mem, level, va, d, i), Split(d, i), told' = told, user' = user
  PROVE  /\ [PmmNext]_pmm_vars /\ TablesKept' /\ Sound(mem', level', told', user')
         /\ Reaches(mem', va, 3, d) /\ (mem'[d][i].huge = TRUE => free' = {})
<1>1. Sound(mem, level, told, user) /\ Tree(mem, level)  BY DEF VInv, Sound
<1>2. mem[d][i] \in EntryType  BY <1>1 DEF Tree
<1>3. mem[d][i].huge \in BOOLEAN /\ mem[d][i].flags \in FlagSet
  BY <1>2 DEF EntryType, FlagSet
<1>4. Reaches(mem, va, 3, d)  BY DEF Uses
<1>5. ASSUME NEW p \in Page, mem[d][i].huge = TRUE, pmm_alloc_page(p),
             NEW f \in FlagSet, mem' = NewTable(mem, p, Fill(mem[d][i]), d, i, f),
             level' = NewLevel(level, p, 4)
      PROVE  /\ [PmmNext]_pmm_vars /\ TablesKept' /\ Sound(mem', level', told', user')
             /\ Reaches(mem', va, 3, d) /\ mem'[d][i].huge = FALSE
  <2>1. [PmmNext]_pmm_vars /\ level[p] = 0 /\ p \in held' /\ held \subseteq held'
    BY <1>5, AllocFacts
  <2>2. /\ Sound(mem', level', told, user) /\ Deeper(mem'[d][i])
        /\ \A w \in VA : Uses(mem, level, w, d, i) => Reaches(mem', w, 3, d)
    <3>1. Splits(mem, level, d, i, p, f, mem', level')  BY <1>5, <2>1, Zenon DEF Splits
    <3> QED  BY ONLY <1>1, <3>1, SoundSplit
  <2>3. \A q \in Page : level'[q] # 0 => q = p \/ level[q] # 0
    BY <1>5 DEF VInv, VmmTypeOK, NewLevel
  <2>4. TablesKept'  BY <2>1, <2>3 DEF VInv, TablesKept
  <2>5. Sound(mem', level', told', user')  BY ONLY <2>2, told' = told, user' = user
  <2>6. mem'[d][i].huge = FALSE  BY ONLY <2>2 DEF Deeper
  <2>7. Reaches(mem', va, 3, d)
    BY ONLY <2>2, va \in VA, Uses(mem, level, va, d, i)
  <2> QED  BY ONLY <2>1, <2>4, <2>5, <2>6, <2>7
<1>6. CASE UNCHANGED <<pmm_vars, mem, level>> /\ (~ mem[d][i].huge \/ free = {})
  <2>1. [PmmNext]_pmm_vars /\ held' = held /\ free' = free /\ mem' = mem /\ level' = level
    BY <1>6 DEF pmm_vars
  <2>2. TablesKept'  BY <2>1 DEF VInv, TablesKept
  <2>3. Sound(mem', level', told', user')
    BY ONLY <1>1, <2>1, told' = told, user' = user
  <2>4. mem'[d][i].huge = TRUE => free' = {}  BY ONLY <1>6, <2>1
  <2> QED  BY ONLY <1>4, <2>1, <2>2, <2>3, <2>4
<1>7. ASSUME NEW p \in Page, mem[d][i].huge, pmm_alloc_page(p),
             mem' = [mem EXCEPT ![p] = Fill(mem[d][i]),
                       ![d][i] = Entry(p, FALSE, {"WRITABLE"} \cup (mem[d][i].flags \cap {"USER"}))],
             level' = [level EXCEPT ![p] = 4]
      PROVE  /\ [PmmNext]_pmm_vars /\ TablesKept' /\ Sound(mem', level', told', user')
             /\ Reaches(mem', va, 3, d) /\ mem'[d][i].huge = FALSE
  <2>1. PICK f : f = {"WRITABLE"} \cup (mem[d][i].flags \cap {"USER"})  OBVIOUS
  <2>2. f \in FlagSet  BY ONLY <2>1 DEF FlagSet, Flag
  <2>3. mem' = NewTable(mem, p, Fill(mem[d][i]), d, i, f)
    BY ONLY <1>7, <2>1, Zenon DEF NewTable
  <2>4. level' = NewLevel(level, p, 4)  BY ONLY <1>7, Zenon DEF NewLevel
  <2>5. mem[d][i].huge = TRUE  BY ONLY <1>3, <1>7
  <2> QED  BY ONLY <1>5, <1>7, <2>2, <2>3, <2>4, <2>5, Zenon
<1> QED  BY ONLY <1>6, <1>7, Split(d, i) DEF Split

LEMMA MapSplitInv == ASSUME VInv, Ready, smashed = FALSE, MapSplit  PROVE VInv'
<1>1. /\ pc = "pd" /\ pc # "idle" /\ Level = 3 /\ pc' = "pt" /\ Level' = 3
      /\ table' = table /\ job' = job /\ told' = told /\ user' = user /\ smashed' = FALSE
  BY DEF MapSplit, Level
<1>2. /\ job.va \in VA /\ Reaches(mem, job.va, Level, table)
      /\ table \in Page /\ level[table] = Level /\ job.va[Level] \in Index
  BY ONLY <1>1, WorkingFacts, VInv, smashed = FALSE, Zenon
<1>3. PICK va \in VA : va = job.va  BY ONLY <1>2, Zenon
<1>4. /\ Uses(mem, level, va, table, va[3]) /\ va[3] \in Index /\ level[table] = 3
      /\ Split(table, va[3])
  <2>1. Split(table, va[3])  BY ONLY <1>3, MapSplit, Zenon DEF MapSplit
  <2>2. Reaches(mem, va, 3, table) /\ va[3] \in Index /\ level[table] = 3
    BY ONLY <1>1, <1>2, <1>3, Zenon
  <2> QED  BY ONLY <2>1, <2>2 DEF Uses
<1>5. /\ [PmmNext]_pmm_vars /\ TablesKept' /\ Sound(mem', level', told', user')
      /\ Reaches(mem', va, 3, table) /\ (mem'[table][va[3]].huge = TRUE => free' = {})
  BY ONLY <1>1, <1>2, <1>4, SplitFacts, VInv, Ready, smashed = FALSE, Zenon
<1>6. Working'
  <2>1. job'.va \in VA /\ job'.pa \in MapTo /\ job'.flags \in MapFlags
    BY <1>1 DEF VInv, Working
  <2>2. Reaches(mem', job'.va, Level', table')  BY ONLY <1>1, <1>3, <1>5, Zenon
  <2>3. mem'[table'][job'.va[3]].huge = TRUE => free' = {}
    BY ONLY <1>1, <1>3, <1>5, Zenon
  <2> QED  BY ONLY <2>1, <2>2, <2>3 DEF Working
<1>7. CallType'  BY <1>1 DEF VInv, VmmTypeOK, CallType
<1> QED  BY ONLY <1>1, <1>5, <1>6, <1>7, Assemble, VInv

LEMMA SplitInv ==
  ASSUME VInv, Ready, smashed = FALSE, NEW va \in VA, vmm_split_large_page(va)
  PROVE  VInv'
<1>1. /\ pc = "idle" /\ pc' = pc /\ table' = table /\ told' = told /\ user' = user
      /\ smashed' = FALSE /\ Leaf(va).level = 3 /\ Split(Leaf(va).table, va[3])
  BY DEF vmm_split_large_page, call
<1>2. Tree(mem, level)  BY DEF VInv, Sound
<1>3. Reaches(mem, va, 3, Leaf(va).table)  BY <1>1, <1>2, LeafIs
<1>4. PICK d : d = Leaf(va).table  OBVIOUS
<1>5. d \in Page /\ level[d] = 3 /\ va[3] \in Index  BY ONLY <1>2, <1>3, <1>4, ReachLevel
<1>6. Uses(mem, level, va, d, va[3])  BY ONLY <1>3, <1>4, <1>5 DEF Uses
<1>7. Split(d, va[3])  BY ONLY <1>1, <1>4
<1>8. [PmmNext]_pmm_vars /\ TablesKept' /\ Sound(mem', level', told', user')
  BY ONLY <1>1, <1>5, <1>6, <1>7, SplitFacts, VInv, Ready, smashed = FALSE, va \in VA, Zenon
<1>9. Working' /\ CallType'  BY <1>1 DEF Working, VInv, VmmTypeOK, CallType
<1> QED  BY ONLY <1>1, <1>8, <1>9, Assemble, VInv

LEMMA UnmapInv ==
  ASSUME VInv, Ready, smashed = FALSE, NEW va \in VA, vmm_unmap_page(va)
  PROVE  VInv'
<1>1. PICK l, d, gone :
        /\ l = Leaf(va).level /\ d = Leaf(va).table
        /\ gone = {w \in VA : \A k \in 1 .. l : w[k] = va[k]}
  OBVIOUS
<1>2. /\ pc = "idle" /\ pc' = pc /\ table' = table /\ level' = level /\ held' = held
      /\ smashed' = FALSE /\ [PmmNext]_pmm_vars
  BY DEF vmm_unmap_page, call, pmm_vars
<1>3. /\ mem' = NewEntry(mem, d, va[l], Absent)
      /\ told' = [w \in VA |-> IF w \in gone THEN NULL ELSE told[w]]
      /\ user' = user \ gone
  BY ONLY <1>1, vmm_unmap_page(va), Zenon DEF vmm_unmap_page, NewEntry
<1>4. Sound(mem, level, told, user) /\ Tree(mem, level)  BY DEF VInv, Sound
<1>5. Reaches(mem, va, l, d) /\ (l = 4 \/ ~ Deeper(mem[d][va[l]]))
  BY ONLY <1>1, <1>4, LeafIs, va \in VA DEF LeafEntry
<1>6. Drops(mem, va, l, d, told, told', gone)  BY ONLY <1>1, <1>3, <1>5, Zenon DEF Drops
<1>7. Sound(mem', level, told', user \ gone)
  BY ONLY <1>3, <1>4, <1>5, <1>6, SoundUnmap, va \in VA
<1>8. Sound(mem', level', told', user')  BY ONLY <1>2, <1>3, <1>7
<1>9. TablesKept'  BY <1>2 DEF VInv, TablesKept
<1>10. Working'  BY <1>2 DEF Working
<1>11. CallType'
  <2>1. told \in [VA -> Nat \cup {NULL}] /\ user \subseteq VA /\ table \in Nat \cup {NULL}
    BY DEF VInv, VmmTypeOK
  <2> QED  BY ONLY <1>2, <1>3, <2>1 DEF CallType
<1> QED  BY ONLY <1>2, <1>8, <1>9, <1>10, <1>11, Assemble, VInv

LEMMA MapPageInv ==
  ASSUME VInv, Ready, smashed = FALSE, NEW va \in VA, NEW pa \in MapTo, NEW f \in MapFlags,
         vmm_map_page(va, pa, f)
  PROVE  VInv'
<1>1. /\ pc' = "pml4" /\ table' = PML4 /\ job' = [va |-> va, pa |-> pa, flags |-> f]
      /\ [PmmNext]_pmm_vars /\ held' = held /\ mem' = mem /\ level' = level
      /\ told' = told /\ user' = user /\ smashed' = FALSE
  BY DEF vmm_map_page, pmm_vars
<1>2. job'.va = va /\ job'.pa = pa /\ job'.flags = f  BY ONLY <1>1
<1>3. Level' = 1  BY ONLY <1>1 DEF Level
<1>4. Reaches(mem', job'.va, Level', table')  BY ONLY <1>1, <1>3 DEF Reaches
<1>5. Working'  BY ONLY <1>1, <1>2, <1>4, va \in VA, pa \in MapTo, f \in MapFlags DEF Working
<1>6. PML4 \in Nat  BY VmmFacts
<1>7. CallType'  BY <1>1, <1>6 DEF VInv, VmmTypeOK, CallType
<1>8. TablesKept'  BY <1>1 DEF VInv, TablesKept
<1>9. Sound(mem', level', told', user')  BY <1>1 DEF VInv
<1> QED  BY ONLY <1>1, <1>5, <1>7, <1>8, <1>9, Assemble, VInv

LEMMA MarkVInv == ASSUME VInv, [PmmNext]_pmm_vars, free' \subseteq free, held' = held, UNCHANGED vmm
                  PROVE  VInv'
<1>1. Allocator' /\ Marked'  BY AllocatorKept, MarkedKept DEF VInv
<1>2. /\ mem' = mem /\ level' = level /\ pc' = pc /\ table' = table /\ job' = job
      /\ told' = told /\ user' = user /\ smashed' = smashed
  BY DEF vmm, call
<1>3. VmmTypeOK' /\ TablesKept'  BY <1>2 DEF VInv, VmmTypeOK, TablesKept
<1>4. Level' = Level  BY <1>2 DEF Level
<1>5. Working => Working'
  <2>1. Reaches(mem', job'.va, Level', table') <=> Reaches(mem, job.va, Level, table)
    BY ONLY <1>2, <1>4
  <2>2. mem'[table'][job'.va[3]].huge = mem[table][job.va[3]].huge  BY ONLY <1>2
  <2>3. free = {} => free' = {}  OBVIOUS
  <2> QED  BY ONLY <1>2, <2>1, <2>2, <2>3 DEF Working
<1>6. Sound(mem, level, told, user) => Sound(mem', level', told', user')  BY ONLY <1>2
<1> QED  BY <1>1, <1>2, <1>3, <1>5, <1>6 DEF VInv

LEMMA NextVInv == VInv /\ [VmmNext]_vmm_vars => VInv'
<1>1. SUFFICES ASSUME VInv, [VmmNext]_vmm_vars  PROVE VInv'  OBVIOUS
<1>2. CASE mark_range_used /\ UNCHANGED vmm
  <2>1. [PmmNext]_pmm_vars /\ free' \subseteq free /\ held' = held
    BY <1>2 DEF PmmNext, mark_range_used
  <2> QED  BY <1>1, <1>2, <2>1, MarkVInv
<1>3. CASE UNCHANGED vmm_vars
  <2>1. [PmmNext]_pmm_vars /\ free' \subseteq free /\ held' = held /\ UNCHANGED vmm
    BY <1>3 DEF vmm_vars, pmm_vars
  <2> QED  BY <1>1, <2>1, MarkVInv
<1>4. ASSUME Ready, smashed = FALSE,
             \/ ClientAlloc
             \/ ClientFree
             \/ \E va \in VA, pa \in MapTo, f \in MapFlags : vmm_map_page(va, pa, f)
             \/ MapPdpt
             \/ MapPd
             \/ MapSplit
             \/ MapPt
             \/ MapPte
             \/ \E va \in VA : vmm_unmap_page(va)
             \/ \E va \in VA : vmm_split_large_page(va)
      PROVE  VInv'
  <2>1. CASE ClientAlloc  BY <1>1, <1>4, <2>1, ClientAllocInv
  <2>2. CASE ClientFree  BY <1>1, <1>4, <2>2, ClientFreeInv
  <2>3. CASE \E va \in VA, pa \in MapTo, f \in MapFlags : vmm_map_page(va, pa, f)
    BY <1>1, <1>4, <2>3, MapPageInv
  <2>4. CASE MapPdpt \/ MapPd \/ MapPt  BY <1>1, <1>4, <2>4, MapTablesInv
  <2>5. CASE MapSplit  BY <1>1, <1>4, <2>5, MapSplitInv
  <2>6. CASE MapPte  BY <1>1, <1>4, <2>6, MapPteInv
  <2>7. CASE \E va \in VA : vmm_unmap_page(va)  BY <1>1, <1>4, <2>7, UnmapInv
  <2>8. CASE \E va \in VA : vmm_split_large_page(va)  BY <1>1, <1>4, <2>8, SplitInv
  <2> QED  BY ONLY <1>4, <2>1, <2>2, <2>3, <2>4, <2>5, <2>6, <2>7, <2>8
<1>5. smashed \in BOOLEAN  BY <1>1 DEF VInv
<1> QED  BY ONLY <1>1, <1>2, <1>3, <1>4, <1>5 DEF VmmNext

-----------------------------------------------------------------------------
(* The bootloader's tables. *)

BootLevel == [p \in Page |-> IF p \in 1 .. 3 THEN p ELSE 0]

Pointer(q) == [to |-> q, huge |-> FALSE, flags |-> {"WRITABLE"}]
Large(q) == [to |-> q, huge |-> TRUE, flags |-> {"WRITABLE"}]

LEMMA BootEntryFacts ==
  ASSUME NEW q \in Nat
  PROVE  /\ Pointer(q) \in EntryType /\ Deeper(Pointer(q)) /\ Pointer(q).to = q
         /\ Pointer(q).huge = FALSE /\ "USER" \notin Pointer(q).flags
         /\ Large(q) \in EntryType /\ Large(q).to = q /\ q # NULL
         /\ Large(q).huge = TRUE /\ "USER" \notin Large(q).flags
<1>1. q # NULL  BY VmmFacts
<1> QED  BY ONLY <1>1, q \in Nat DEF Pointer, Large, EntryType, Deeper, present, Flag

LEMMA BootEntries ==
  /\ BootMem \in [Page -> [Index -> EntryType]]
  /\ Deeper(BootMem[1][0]) /\ BootMem[1][0].to = 2
  /\ Deeper(BootMem[2][0]) /\ BootMem[2][0].to = 3
  /\ \A t \in 1 .. 2, i \in Index : i # 0 => BootMem[t][i] = Absent
  /\ \A t \in 1 .. 2 : BootMem[t][0].huge = FALSE /\ "USER" \notin BootMem[t][0].flags
  /\ \A i \in Index : \/ BootMem[3][i] = Absent
                      \/ /\ BootMem[3][i].huge = TRUE /\ BootMem[3][i].to # NULL
                         /\ "USER" \notin BootMem[3][i].flags
<1>3. 1 \in Page /\ 2 \in Page /\ 3 \in Page /\ 0 \in Index  BY VmmFacts
<1>4. \A i \in Index : i * PT_ENTRIES \in Nat
  BY VmmAssumption DEF Index
<1>5. BootMem[1] = [Empty EXCEPT ![0] = Pointer(2)]  BY <1>3 DEF BootMem, Entry, Pointer
<1>6. BootMem[2] = [Empty EXCEPT ![0] = Pointer(3)]  BY <1>3 DEF BootMem, Entry, Pointer
<1>7. BootMem[3] = [i \in Index |-> IF i < BOOT_LARGE THEN Large(i * PT_ENTRIES)
                                                      ELSE Absent]
  BY <1>3 DEF BootMem, Entry, Large
<1>8. ASSUME NEW p \in Page, p \notin 1 .. 3  PROVE BootMem[p] = Garbage
  <2>1. p # 1 /\ p # 2 /\ p # 3  BY <1>8
  <2> QED  BY <2>1 DEF BootMem
<1>2. \A q \in Nat : Pointer(q) \in EntryType  BY BootEntryFacts
<1>a. 2 \in Nat /\ 3 \in Nat  OBVIOUS
<1>9. /\ BootMem[1] \in [Index -> EntryType] /\ BootMem[1][0] = Pointer(2)
      /\ \A i \in Index : i # 0 => BootMem[1][i] = Absent
  BY ONLY <1>2, <1>3, <1>5, <1>a, AbsentFacts
<1>10. /\ BootMem[2] \in [Index -> EntryType] /\ BootMem[2][0] = Pointer(3)
       /\ \A i \in Index : i # 0 => BootMem[2][i] = Absent
  BY ONLY <1>2, <1>3, <1>6, <1>a, AbsentFacts
<1>11. ASSUME NEW i \in Index
       PROVE  /\ BootMem[3][i] \in EntryType
              /\ \/ BootMem[3][i] = Absent
                 \/ /\ BootMem[3][i].huge = TRUE /\ BootMem[3][i].to # NULL
                    /\ "USER" \notin BootMem[3][i].flags
  <2>1. PICK q \in Nat : q = i * PT_ENTRIES  BY <1>4
  <2>2. BootMem[3][i] = Large(q) \/ BootMem[3][i] = Absent
    BY ONLY <1>7, <2>1, i \in Index
  <2>3. /\ Large(q) \in EntryType /\ Large(q).to # NULL
        /\ Large(q).huge = TRUE /\ "USER" \notin Large(q).flags
    BY ONLY q \in Nat, BootEntryFacts
  <2>4. Absent \in EntryType  BY AbsentFacts
  <2> QED  BY ONLY <2>2, <2>3, <2>4
<1>12. BootMem[3] \in [Index -> EntryType]  BY ONLY <1>7, <1>11
<1>13. BootMem \in [Page -> [Index -> EntryType]]
  <2>1. \A p \in Page : BootMem[p] \in [Index -> EntryType]
    <3>1. \A p : p \in 1 .. 3 => p = 1 \/ p = 2 \/ p = 3  OBVIOUS
    <3> QED  BY ONLY <1>8, <1>9, <1>10, <1>12, <3>1, GarbageType
  <2>2. BootMem = [p \in Page |-> BootMem[p]]  BY DEF BootMem
  <2> QED  BY ONLY <2>1, <2>2
<1>14. \A t : t \in 1 .. 2 => t = 1 \/ t = 2  OBVIOUS
<1>15. Deeper(BootMem[1][0]) /\ BootMem[1][0].to = 2 /\ BootMem[1][0].huge = FALSE
       /\ "USER" \notin BootMem[1][0].flags
  <2>1. /\ Deeper(Pointer(2)) /\ Pointer(2).to = 2 /\ Pointer(2).huge = FALSE
        /\ "USER" \notin Pointer(2).flags
    BY ONLY <1>a, BootEntryFacts
  <2> QED  BY ONLY <1>9, <2>1
<1>16. Deeper(BootMem[2][0]) /\ BootMem[2][0].to = 3 /\ BootMem[2][0].huge = FALSE
       /\ "USER" \notin BootMem[2][0].flags
  <2>1. /\ Deeper(Pointer(3)) /\ Pointer(3).to = 3 /\ Pointer(3).huge = FALSE
        /\ "USER" \notin Pointer(3).flags
    BY ONLY <1>a, BootEntryFacts
  <2> QED  BY ONLY <1>10, <2>1
<1>17. \A t \in 1 .. 2, i \in Index : i # 0 => BootMem[t][i] = Absent
  BY ONLY <1>9, <1>10, <1>14
<1>18. \A t \in 1 .. 2 : BootMem[t][0].huge = FALSE /\ "USER" \notin BootMem[t][0].flags
  BY ONLY <1>14, <1>15, <1>16
<1> QED  BY ONLY <1>11, <1>13, <1>15, <1>16, <1>17, <1>18

LEMMA BootTree ==
  /\ Tree(BootMem, BootLevel)
  /\ \A t \in Page, i \in Index : BootLevel[t] # 0 => "USER" \notin BootMem[t][i].flags
<1>1. /\ 1 \in Page /\ 2 \in Page /\ 3 \in Page /\ 0 \in Index /\ PML4 = 1
      /\ Page \subseteq Nat
  BY VmmFacts DEF PML4
<1>2. BootLevel \in [Page -> 0 .. 4] /\ BootLevel[1] = 1 /\ BootLevel[2] = 2 /\ BootLevel[3] = 3
  BY <1>1 DEF BootLevel
<1>3. \A t \in Page : BootLevel[t] # 0 => t = 1 \/ t = 2 \/ t = 3  BY <1>1 DEF BootLevel
<1>4. WellFormed(BootMem, BootLevel)
  <2>1. SUFFICES ASSUME NEW t \in Page, NEW i \in Index, BootLevel[t] # 0
                 PROVE  /\ BootMem[t][i].huge = TRUE => BootLevel[t] = 3
                        /\ BootMem[t][i].to = NULL => BootMem[t][i] = Absent
    BY DEF WellFormed
  <2>2. CASE t = 3  BY <1>2, <2>2, BootEntries
  <2>3. CASE t \in 1 .. 2 /\ i # 0
    <3>1. BootMem[t][i] = Absent  BY <2>3, BootEntries
    <3> QED  BY <3>1, AbsentFacts
  <2>4. CASE t \in 1 .. 2 /\ i = 0
    <3>0. t = 1 \/ t = 2  BY <2>4
    <3>1. BootMem[t][0].huge = FALSE /\ Deeper(BootMem[t][0])  BY <2>4, <3>0, BootEntries
    <3>2. BootMem[t][0].to # NULL  BY <3>1 DEF Deeper, present
    <3> QED  BY <2>4, <3>1, <3>2
  <2>5. t = 3 \/ t \in 1 .. 2  BY <1>3, <2>1
  <2> QED  BY ONLY <2>2, <2>3, <2>4, <2>5
<1>5. ASSUME NEW t \in Page, NEW i \in Index, Leads(BootMem, BootLevel, t, i)
      PROVE  i = 0 /\ ((t = 1 /\ BootMem[t][i].to = 2) \/ (t = 2 /\ BootMem[t][i].to = 3))
  <2>1. Deeper(BootMem[t][i]) /\ BootLevel[t] # 0  BY <1>5 DEF Leads
  <2>2. t # 3
    <3>1. SUFFICES ASSUME t = 3  PROVE FALSE  OBVIOUS
    <3>2. BootMem[3][i] = Absent \/ BootMem[3][i].huge = TRUE  BY BootEntries
    <3> QED  BY <2>1, <3>1, <3>2, AbsentFacts DEF Deeper
  <2>3. t \in 1 .. 2  BY <1>3, <2>1, <2>2
  <2>4. i = 0  BY <2>1, <2>3, BootEntries, AbsentFacts
  <2>5. t = 1 \/ t = 2  BY <2>3
  <2>6. BootMem[1][0].to = 2 /\ BootMem[2][0].to = 3  BY BootEntries
  <2> QED  BY ONLY <2>4, <2>5, <2>6
<1>6. Leads(BootMem, BootLevel, 1, 0) /\ Leads(BootMem, BootLevel, 2, 0)
  BY <1>2, BootEntries, SMTT(30) DEF Leads
<1>7. Tree(BootMem, BootLevel)
  <2>1. \A t \in Page, i \in Index : Leads(BootMem, BootLevel, t, i) =>
          BootMem[t][i].to \in Page /\ BootLevel[BootMem[t][i].to] = BootLevel[t] + 1
    <3>1. SUFFICES ASSUME NEW t \in Page, NEW i \in Index, Leads(BootMem, BootLevel, t, i)
                   PROVE  /\ BootMem[t][i].to \in Page
                          /\ BootLevel[BootMem[t][i].to] = BootLevel[t] + 1
      OBVIOUS
    <3>2. (t = 1 /\ BootMem[t][i].to = 2) \/ (t = 2 /\ BootMem[t][i].to = 3)  BY <1>5, <3>1
    <3> QED  BY ONLY <1>1, <1>2, <3>2
  <2>2. \A t, u \in Page, i, j \in Index :
          Leads(BootMem, BootLevel, t, i) /\ Leads(BootMem, BootLevel, u, j)
          /\ BootMem[t][i].to = BootMem[u][j].to => t = u /\ i = j
    BY <1>5
  <2>3. \A p \in Page : BootLevel[p] # 0 /\ p # PML4 =>
          \E t \in Page, i \in Index : Leads(BootMem, BootLevel, t, i) /\ BootMem[t][i].to = p
    BY <1>1, <1>3, <1>6, BootEntries, SMTT(30)
  <2> QED  BY <1>1, <1>2, <1>4, <2>1, <2>2, <2>3, BootEntries DEF Tree, WellFormed
<1>8. ASSUME NEW t \in Page, NEW i \in Index, BootLevel[t] # 0
      PROVE  "USER" \notin BootMem[t][i].flags
  <2>1. "USER" \notin Absent.flags  BY AbsentFacts
  <2>2. CASE t = 3  BY <2>1, <2>2, BootEntries
  <2>3. CASE t \in 1 .. 2 /\ i # 0  BY <2>1, <2>3, BootEntries
  <2>4. CASE t \in 1 .. 2 /\ i = 0  BY <2>4, BootEntries
  <2> QED  BY <1>3, <1>8, <2>2, <2>3, <2>4
<1> QED  BY <1>7, <1>8

LEMMA QueryType ==
  ASSUME Tree(mem, level), NEW va \in VA
  PROVE  vmm_query(va) \in Nat \cup {NULL}
<1>1. /\ Reaches(mem, va, Leaf(va).level, Leaf(va).table)
      /\ LeafEntry(va) = End(mem, va) /\ End(mem, va) \in EntryType
  BY LeafIs
<1>2. PICK t, l : t = Leaf(va).table /\ l = Leaf(va).level  OBVIOUS
<1>3. t \in Page /\ level[t] = l /\ l \in 1 .. 4 /\ va[l] \in Index
  <2>1. Reaches(mem, va, l, t)  BY ONLY <1>1, <1>2
  <2> QED  BY <2>1, ReachLevel
<1>4. LeafEntry(va) = mem[t][va[l]]  BY ONLY <1>2 DEF LeafEntry
<1>5. mem[t][va[l]].to = NULL => mem[t][va[l]] = Absent  BY <1>3 DEF Tree
<1>6. PICK e \in EntryType : e = LeafEntry(va)  BY ONLY <1>1
<1>7. e.to \in Nat \cup {NULL} /\ e.huge \in BOOLEAN  BY ONLY e \in EntryType DEF EntryType
<1>8. e.huge = TRUE => e.to \in Nat  BY ONLY <1>4, <1>5, <1>6, <1>7, AbsentFacts
<1>9. va[4] \in Nat  BY VmmFacts DEF Index
<1>10. vmm_query(va) = IF e.huge = TRUE THEN e.to + va[4] ELSE e.to
  BY ONLY <1>6, <1>7 DEF vmm_query
<1> QED  BY ONLY <1>7, <1>8, <1>9, <1>10

LEMMA InitVInv == VmmInit => VInv
<1>1. SUFFICES ASSUME VmmInit  PROVE VInv  OBVIOUS
<1>2. /\ mem = BootMem /\ level = BootLevel /\ pc = "idle" /\ table = NULL /\ user = {}
      /\ told = [va \in VA |-> vmm_query(va)] /\ smashed = FALSE /\ region = 1 /\ PmmInit
  BY <1>1 DEF VmmInit, BootLevel, PmmInit
<1>3. /\ Tree(mem, level)
      /\ \A t \in Page, i \in Index : level[t] # 0 => "USER" \notin mem[t][i].flags
  BY ONLY <1>2, BootTree
<1>4. ASSUME NEW va \in VA
      PROVE  Says(End(mem, va), va, told[va], va \in user) /\ told[va] \in Nat \cup {NULL}
  <2>1. Reaches(mem, va, Leaf(va).level, Leaf(va).table)  BY <1>3, LeafIs
  <2>2. PICK t, l : t = Leaf(va).table /\ l = Leaf(va).level  OBVIOUS
  <2>3. t \in Page /\ level[t] = l /\ l \in 1 .. 4 /\ va[l] \in Index
    <3>1. Reaches(mem, va, l, t)  BY ONLY <2>1, <2>2
    <3> QED  BY <1>3, <3>1, ReachLevel
  <2>4. "USER" \notin LeafEntry(va).flags
    <3>1. "USER" \notin mem[t][va[l]].flags  BY ONLY <1>3, <2>3
    <3> QED  BY ONLY <2>2, <3>1 DEF LeafEntry
  <2>5. told[va] = vmm_query(va) /\ (va \in user) = FALSE  BY <1>2
  <2>6. Says(End(mem, va), va, vmm_query(va), FALSE)
    BY ONLY <1>3, <2>4, SaysQuery, va \in VA
  <2>7. told[va] \in Nat \cup {NULL}  BY ONLY <1>3, <2>5, QueryType, va \in VA
  <2> QED  BY ONLY <2>5, <2>6, <2>7 DEF Says
<1>5. Sound(mem, level, told, user)  BY ONLY <1>3, <1>4 DEF Sound
<1>6. told \in [VA -> Nat \cup {NULL}]  BY ONLY <1>2, <1>4
<1>7. VmmTypeOK  BY ONLY <1>2, <1>3, <1>6 DEF VmmTypeOK, Tree, EntryType
<1>8. TablesKept  BY ONLY <1>2 DEF TablesKept, BootLevel
<1>9. Marked
  <2>1. DOMAIN Regions \subseteq Nat \ {0}  BY PmmAssumption
  <2> QED  BY <1>2, <2>1 DEF Marked
<1>10. Working  BY ONLY <1>2 DEF Working
<1>11. Allocator  BY <1>2, AllocatorInit
<1> QED  BY ONLY <1>2, <1>5, <1>7, <1>8, <1>9, <1>10, <1>11 DEF VInv

-----------------------------------------------------------------------------
LEMMA VInvTree == VInv => TablesFormTree
<1>1. SUFFICES ASSUME VInv  PROVE TablesFormTree  OBVIOUS
<1>2. PmmTypeOK /\ VmmTypeOK /\ (smashed => free = {})  BY <1>1 DEF VInv, Allocator
<1>3. ASSUME smashed = FALSE
      PROVE  /\ \A t \in tables, i \in Index :
                  level[t] < 4 /\ present(mem[t][i]) /\ ~ mem[t][i].huge
                    => level[mem[t][i].to] = level[t] + 1
             /\ \A p \in tables \ {PML4} :
                  \E t \in tables, i \in Index :
                    /\ level[t] < 4 /\ mem[t][i].to = p /\ ~ mem[t][i].huge
                    /\ \A u \in tables, j \in Index :
                         level[u] < 4 /\ mem[u][j].to = p /\ ~ mem[u][j].huge => <<u, j>> = <<t, i>>
  <2>1. Tree(mem, level)  BY <1>1, <1>3 DEF VInv, Sound
  <2>2. tables \subseteq Page /\ level \in [Page -> 0 .. 4] /\ \A t \in tables : level[t] > 0
    BY <2>1 DEF tables, Tree
  <2>3. \A t \in Page, i \in Index : mem[t][i].huge \in BOOLEAN
    BY <2>1 DEF Tree, EntryType
  <2>4. ASSUME NEW t \in tables, NEW i \in Index, level[t] < 4, present(mem[t][i]),
               ~ mem[t][i].huge
        PROVE  Leads(mem, level, t, i)
    BY <2>2, <2>3, <2>4 DEF Leads, Deeper
  <2>5. ASSUME NEW t \in tables, NEW i \in Index, level[t] < 4, present(mem[t][i]),
               ~ mem[t][i].huge
        PROVE  level[mem[t][i].to] = level[t] + 1
    <3>1. Leads(mem, level, t, i)  BY <2>4, <2>5
    <3> QED  BY <2>1, <2>2, <3>1 DEF Tree
  <2>6. ASSUME NEW p \in tables \ {PML4}
        PROVE  \E t \in tables, i \in Index :
                 /\ level[t] < 4 /\ mem[t][i].to = p /\ ~ mem[t][i].huge
                 /\ \A u \in tables, j \in Index :
                      level[u] < 4 /\ mem[u][j].to = p /\ ~ mem[u][j].huge => <<u, j>> = <<t, i>>
    <3>1. p \in Page /\ level[p] # 0 /\ p # PML4 /\ p # NULL  BY <2>2, VmmFacts
    <3>2. PICK t \in Page, i \in Index : Leads(mem, level, t, i) /\ mem[t][i].to = p
      BY ONLY <2>1, <3>1 DEF Tree
    <3>3. t \in tables /\ level[t] < 4 /\ ~ mem[t][i].huge
      BY <3>2 DEF Leads, Deeper, tables
    <3>4. ASSUME NEW u \in tables, NEW j \in Index, level[u] < 4, mem[u][j].to = p,
                 ~ mem[u][j].huge
          PROVE  u = t /\ j = i
      <4>1. present(mem[u][j])  BY <3>1, <3>4 DEF present
      <4>2. Leads(mem, level, u, j)  BY <2>4, <3>4, <4>1
      <4>3. u \in Page  BY <2>2
      <4>4. mem[u][j].to = mem[t][i].to  BY <3>2, <3>4
      <4> QED  BY ONLY <2>1, <3>2, <4>2, <4>3, <4>4, OneEntry, j \in Index
    <3> QED  BY <3>2, <3>3, <3>4, SMTT(60)
  <2> QED  BY ONLY <2>5, <2>6
<1>4. Ready => tables \cap free = {}
  <2>1. SUFFICES ASSUME Ready, NEW p \in free  PROVE p \notin tables  OBVIOUS
  <2>2. level[p] = 0  BY <1>1, <2>1, TablesNotFree DEF VInv
  <2> QED  BY <2>2 DEF tables
<1> QED  BY ONLY <1>1, <1>2, <1>3, <1>4 DEF TablesFormTree, VInv

LEMMA VInvExact == VInv => TranslationExact
<1>1. SUFFICES ASSUME VInv, smashed = FALSE, NEW va \in VA
               PROVE  /\ vmm_query(va) = told[va]
                      /\ "USER" \in LeafEntry(va).flags <=> va \in user
  BY DEF TranslationExact, VInv
<1>2. Tree(mem, level) /\ Says(End(mem, va), va, told[va], va \in user)
  BY <1>1 DEF VInv, Sound
<1>3. (va \in user) \in BOOLEAN  OBVIOUS
<1> QED  BY <1>2, <1>3, SaysQuery

LEMMA VInvForever == VmmSpec => []VInv
BY InitVInv, NextVInv, PTL DEF VmmSpec

(* For every table size, every set of virtual pages and every interleaving *)
(* of vmm_map_page, vmm_unmap_page, vmm_split_large_page and the other     *)
(* callers of pmm_alloc_page: the tables form a tree, each entered at one  *)
(* place, and no table is free to be handed out, until vmm_map_page is     *)
(* about to write into a large page; no page is free when that happens.    *)
THEOREM TreeStays == VmmSpec => []TablesFormTree
BY VInvForever, VInvTree, PTL

(* And they translate as callers were told: a split is invisible, a failed *)
(* vmm_map_page changes nothing, and an entry written or cleared changes   *)
(* the pages that are named and no other.                                  *)
THEOREM TranslationsStayExact == VmmSpec => []TranslationExact
BY VInvForever, VInvExact, PTL

LEMMA VmmStepIsPmmStep == [VmmNext]_vmm_vars => [PmmNext]_pmm_vars
<1>1. SUFFICES ASSUME [VmmNext]_vmm_vars  PROVE [PmmNext]_pmm_vars  OBVIOUS
<1>2. CASE UNCHANGED vmm_vars  BY <1>2 DEF vmm_vars
<1>3. CASE mark_range_used  BY <1>3 DEF PmmNext
<1>4. CASE ClientAlloc  BY <1>4 DEF ClientAlloc, PmmNext
<1>5. CASE ClientFree  BY <1>5 DEF ClientFree, PmmNext
<1>6. CASE \E va \in VA, pa \in MapTo, f \in MapFlags : vmm_map_page(va, pa, f)
  BY <1>6 DEF vmm_map_page
<1>7. ASSUME NEW next, get_or_create_table(next)  PROVE [PmmNext]_pmm_vars
  BY <1>7 DEF get_or_create_table, PmmNext
<1>8. CASE MapPdpt \/ MapPd \/ MapPt  BY <1>7, <1>8 DEF MapPdpt, MapPd, MapPt
<1>9. ASSUME NEW d, NEW i, Split(d, i)  PROVE [PmmNext]_pmm_vars  BY <1>9 DEF Split, PmmNext
<1>10. CASE MapSplit  BY <1>9, <1>10 DEF MapSplit
<1>11. CASE \E va \in VA : vmm_split_large_page(va)  BY <1>9, <1>11 DEF vmm_split_large_page
<1>12. CASE MapPte  BY <1>12 DEF MapPte
<1>13. CASE \E va \in VA : vmm_unmap_page(va)  BY <1>13 DEF vmm_unmap_page
<1> QED  BY <1>1, <1>2, <1>3, <1>4, <1>5, <1>6, <1>8, <1>10, <1>11, <1>12, <1>13 DEF VmmNext

(* The page-table code uses the allocator as the allocator may be used:    *)
(* pmm_init comes first, and every later step of vmm.c and of the other    *)
(* callers is one pmm_alloc_page, one pmm_free_page or neither.            *)
THEOREM VmmUsesAllocator == VmmSpec => PmmSpec
<1>1. VmmInit => PmmInit  BY DEF VmmInit
<1> QED  BY <1>1, VmmStepIsPmmStep, PTL DEF VmmSpec, PmmSpec
=============================================================================
