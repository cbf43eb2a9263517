--------------------------- MODULE VmmTreeProofs ----------------------------
(***************************************************************************)
(* Lemmas about page tables: what a tree of tables is, the walk through it *)
(* for a virtual page, and what the updates of memory/vmm.c (an entry      *)
(* written, a table put in, a page outside the tree overwritten) do to the *)
(* tree and to its walks.  The tables are parameters here: VmmProofs       *)
(* applies the lemmas to the tables before and after a step.               *)
(***************************************************************************)
EXTENDS Vmm, TLAPS

(* Page indices are natural numbers. *)
LEMMA PagesAreNat == total_pages \in Nat /\ Page \subseteq Nat
<1>1. MemTop \div PAGE_SIZE \in Nat  BY PmmAssumption
<1> QED  BY <1>1, PmmAssumption DEF total_pages, Page

-----------------------------------------------------------------------------
(* The page tables.  An entry that leads to a table of the next level, and *)
(* the entries met on the walk for va.                                     *)

Deeper(e) == present(e) /\ e.huge = FALSE

W1(m, va) == m[PML4][va[1]]
W2(m, va) == m[W1(m, va).to][va[2]]
W3(m, va) == m[W2(m, va).to][va[3]]
W4(m, va) == m[W3(m, va).to][va[4]]

(* The entry the walk ends at, and what it says. *)
End(m, va) ==
  IF ~ Deeper(W1(m, va)) THEN W1(m, va)
  ELSE IF ~ Deeper(W2(m, va)) THEN W2(m, va)
  ELSE IF ~ Deeper(W3(m, va)) THEN W3(m, va)
  ELSE W4(m, va)

Says(e, va, pa, asUser) ==
  /\ pa = IF e.huge = TRUE THEN e.to + va[4] ELSE e.to
  /\ "USER" \in e.flags <=> asUser

(* The walk for va comes to table t at level l. *)
Reaches(m, va, l, t) ==
  \/ l = 1 /\ t = PML4
  \/ l = 2 /\ Deeper(W1(m, va)) /\ t = W1(m, va).to
  \/ l = 3 /\ Deeper(W1(m, va)) /\ Deeper(W2(m, va)) /\ t = W2(m, va).to
  \/ /\ l = 4 /\ Deeper(W1(m, va)) /\ Deeper(W2(m, va)) /\ Deeper(W3(m, va))
     /\ t = W3(m, va).to

EntryType == [to : Nat \cup {NULL}, huge : BOOLEAN, flags : SUBSET Flag]

(* Entry i of t leads on to another table. *)
Leads(m, lv, t, i) == lv[t] \in 1 .. 3 /\ Deeper(m[t][i])

Tree(m, lv) ==
  /\ m \in [Page -> [Index -> EntryType]] /\ lv \in [Page -> 0 .. 4]
  /\ lv[PML4] = 1
  /\ \A t \in Page, i \in Index : lv[t] # 0 =>
       /\ m[t][i].huge = TRUE => lv[t] = 3
       /\ m[t][i].to = NULL => m[t][i] = Absent
  /\ \A t \in Page, i \in Index :
       Leads(m, lv, t, i) => m[t][i].to \in Page /\ lv[m[t][i].to] = lv[t] + 1
  /\ \A t, u \in Page, i, j \in Index :
       Leads(m, lv, t, i) /\ Leads(m, lv, u, j) /\ m[t][i].to = m[u][j].to => t = u /\ i = j
  /\ \A p \in Page : lv[p] # 0 /\ p # PML4 =>
       \E t \in Page, i \in Index : Leads(m, lv, t, i) /\ m[t][i].to = p

LEMMA VmmFacts ==
  /\ 1 .. 3 \subseteq Page /\ PML4 \in Page /\ Page \subseteq Nat /\ NULL \notin Nat
  /\ 0 \in Index
  /\ \A va \in VA : \A l \in 1 .. 4 : va[l] \in Index
<1>1. 1 .. 3 \subseteq Page  BY VmmAssumption DEF PagesOf
<1>2. PML4 \in Page  BY <1>1 DEF PML4
<1>3. Page \subseteq Nat /\ NULL \notin Nat  BY PagesAreNat DEF NULL
<1>4. 0 \in Index  BY VmmAssumption DEF Index
<1> QED  BY <1>1, <1>2, <1>3, <1>4, VmmAssumption

LEMMA EntryFacts ==
  ASSUME NEW p \in Nat, NEW h \in BOOLEAN, NEW f \in SUBSET Flag
  PROVE  /\ Entry(p, h, f) \in EntryType /\ Entry(p, h, f).to = p
         /\ Entry(p, h, f).huge = h /\ Entry(p, h, f).flags = f
         /\ present(Entry(p, h, f)) /\ (Deeper(Entry(p, h, f)) <=> h = FALSE)
<1>1. p # NULL  BY VmmFacts
<1> QED  BY <1>1 DEF Entry, EntryType, present, Deeper

LEMMA AbsentFacts ==
  /\ Absent \in EntryType /\ Absent.to = NULL /\ Absent.huge = FALSE /\ Absent.flags = {}
  /\ ~ present(Absent) /\ ~ Deeper(Absent)
  /\ Empty \in [Index -> EntryType] /\ \A i \in Index : Empty[i] = Absent
<1>1. Absent \in EntryType  BY DEF Absent, EntryType
<1> QED  BY <1>1 DEF Absent, present, Deeper, Empty

(* The updates of the tables, entry by entry. *)
LEMMA SlotSet ==
  ASSUME NEW m \in [Page -> [Index -> EntryType]], NEW d \in Page, NEW i \in Index,
         NEW e \in EntryType, NEW m2, m2 = [m EXCEPT ![d][i] = e]
  PROVE  /\ m2 \in [Page -> [Index -> EntryType]] /\ m2[d][i] = e
         /\ \A t \in Page, j \in Index : t # d \/ j # i => m2[t][j] = m[t][j]
OBVIOUS

LEMMA TableSet ==
  ASSUME NEW m \in [Page -> [Index -> EntryType]], NEW d \in Page, NEW i \in Index,
         NEW e \in EntryType, NEW p \in Page, p # d, NEW c \in [Index -> EntryType],
         NEW m2, m2 = [m EXCEPT ![p] = c, ![d][i] = e]
  PROVE  /\ m2 \in [Page -> [Index -> EntryType]] /\ m2[d][i] = e /\ m2[p] = c
         /\ \A t \in Page, j \in Index : t # p /\ (t # d \/ j # i) => m2[t][j] = m[t][j]
OBVIOUS

-----------------------------------------------------------------------------
(* Walks. *)

LEMMA ReachNext ==
  ASSUME NEW m, NEW va, NEW l \in 1 .. 3, NEW t, Reaches(m, va, l, t), Deeper(m[t][va[l]])
  PROVE  Reaches(m, va, l + 1, m[t][va[l]].to)
<1>1. CASE l = 1  BY <1>1 DEF Reaches, W1
<1>2. CASE l = 2  BY <1>2 DEF Reaches, W2
<1>3. CASE l = 3  BY <1>3 DEF Reaches, W3
<1> QED  BY <1>1, <1>2, <1>3

(* The walk comes to t from the table before. *)
ComesFrom(m, va, l, t, s) ==
  Reaches(m, va, l, s) /\ Deeper(m[s][va[l]]) /\ t = m[s][va[l]].to

LEMMA ReachPrev ==
  ASSUME NEW m, NEW va, NEW l \in 1 .. 3, NEW t, Reaches(m, va, l + 1, t)
  PROVE  \E s : ComesFrom(m, va, l, t, s)
<1>1. CASE l = 1  BY <1>1 DEF ComesFrom, Reaches, W1
<1>2. CASE l = 2  BY <1>2 DEF ComesFrom, Reaches, W2
<1>3. CASE l = 3  BY <1>3 DEF ComesFrom, Reaches, W3
<1> QED  BY <1>1, <1>2, <1>3

LEMMA ReachEnd ==
  ASSUME NEW m, NEW va, NEW l \in 1 .. 4, NEW t, Reaches(m, va, l, t),
         l = 4 \/ ~ Deeper(m[t][va[l]])
  PROVE  End(m, va) = m[t][va[l]]
<1>1. CASE l = 1  BY <1>1 DEF Reaches, End, W1
<1>2. CASE l = 2  BY <1>2 DEF Reaches, End, W2
<1>3. CASE l = 3  BY <1>3 DEF Reaches, End, W3
<1>4. CASE l = 4  BY <1>4 DEF Reaches, End, W4
<1> QED  BY <1>1, <1>2, <1>3, <1>4

LEMMA ReachOnce ==
  ASSUME NEW m, NEW va, NEW l, NEW t, NEW u, Reaches(m, va, l, t), Reaches(m, va, l, u)
  PROVE  t = u /\ l \in 1 .. 4
BY DEF Reaches

LEMMA ReachLevel ==
  ASSUME NEW m, NEW lv, Tree(m, lv), NEW va \in VA, NEW l, NEW t, Reaches(m, va, l, t)
  PROVE  t \in Page /\ lv[t] = l /\ l \in 1 .. 4 /\ va[l] \in Index
<1>1. ASSUME NEW k \in 1 .. 3, NEW s \in Page, lv[s] = k, Deeper(m[s][va[k]])
      PROVE  m[s][va[k]].to \in Page /\ lv[m[s][va[k]].to] = k + 1
  <2>1. va[k] \in Index  BY VmmFacts
  <2>2. Leads(m, lv, s, va[k])  BY <1>1 DEF Leads
  <2> QED  BY <1>1, <2>1, <2>2 DEF Tree
<1>2. PML4 \in Page /\ lv[PML4] = 1  BY VmmFacts DEF Tree
<1>3. l = 2 => t \in Page /\ lv[t] = 2  BY <1>1, <1>2 DEF Reaches, W1
<1>4. Deeper(W1(m, va)) => W1(m, va).to \in Page /\ lv[W1(m, va).to] = 2
  BY <1>1, <1>2 DEF W1
<1>5. Deeper(W1(m, va)) /\ Deeper(W2(m, va)) => W2(m, va).to \in Page /\ lv[W2(m, va).to] = 3
  BY <1>1, <1>4 DEF W2
<1>6. Deeper(W1(m, va)) /\ Deeper(W2(m, va)) /\ Deeper(W3(m, va))
        => W3(m, va).to \in Page /\ lv[W3(m, va).to] = 4
  BY <1>1, <1>5 DEF W3
<1>7. l \in 1 .. 4  BY DEF Reaches
<1> QED  BY <1>2, <1>4, <1>5, <1>6, <1>7, VmmFacts DEF Reaches

LEMMA OneEntry ==
  ASSUME NEW m, NEW lv, Tree(m, lv), NEW t \in Page, NEW u \in Page, NEW i \in Index,
         NEW j \in Index, Leads(m, lv, t, i), Leads(m, lv, u, j), m[t][i].to = m[u][j].to
  PROVE  t = u /\ i = j
BY DEF Tree

(* Walks that come to the same table took the same way: every table is     *)
(* entered at one place only.                                              *)
LEMMA SamePath ==
  ASSUME NEW m, NEW lv, Tree(m, lv), NEW va \in VA, NEW w \in VA, NEW l, NEW t,
         Reaches(m, va, l, t), Reaches(m, w, l, t)
  PROVE  \A k \in 1 .. 4 : k < l => va[k] = w[k]
<1>1. ASSUME NEW k \in 1 .. 3, NEW u, Reaches(m, va, k + 1, u), Reaches(m, w, k + 1, u)
      PROVE  va[k] = w[k] /\ \E s : Reaches(m, va, k, s) /\ Reaches(m, w, k, s)
  <2>a. PICK s : ComesFrom(m, va, k, u, s)  BY <1>1, ReachPrev
  <2>b. PICK r : ComesFrom(m, w, k, u, r)  BY <1>1, ReachPrev
  <2>1. Reaches(m, va, k, s) /\ Deeper(m[s][va[k]]) /\ u = m[s][va[k]].to
    BY <2>a DEF ComesFrom
  <2>2. Reaches(m, w, k, r) /\ Deeper(m[r][w[k]]) /\ u = m[r][w[k]].to
    BY <2>b DEF ComesFrom
  <2>3. s \in Page /\ lv[s] = k /\ va[k] \in Index  BY <2>1, ReachLevel
  <2>4. r \in Page /\ lv[r] = k /\ w[k] \in Index  BY <2>2, ReachLevel
  <2>5. Leads(m, lv, s, va[k]) /\ Leads(m, lv, r, w[k])
    BY <2>1, <2>2, <2>3, <2>4 DEF Leads
  <2>6. s = r /\ va[k] = w[k]  BY <2>1, <2>2, <2>3, <2>4, <2>5, OneEntry
  <2> QED  BY <2>1, <2>2, <2>6
<1>2. l \in 1 .. 4  BY ReachOnce
<1>3. \A u : Reaches(m, va, 2, u) /\ Reaches(m, w, 2, u) => va[1] = w[1]
  BY <1>1, 1 + 1 = 2, 1 \in 1 .. 3
<1>4. \A u : Reaches(m, va, 3, u) /\ Reaches(m, w, 3, u) => va[2] = w[2] /\ va[1] = w[1]
  <2>1. SUFFICES ASSUME NEW u, Reaches(m, va, 3, u), Reaches(m, w, 3, u)
                 PROVE  va[2] = w[2] /\ va[1] = w[1]
    OBVIOUS
  <2>2. Reaches(m, va, 2 + 1, u) /\ Reaches(m, w, 2 + 1, u)  BY <2>1, 2 + 1 = 3
  <2> QED  BY <1>1, <1>3, <2>2, 2 \in 1 .. 3
<1>5. \A u : Reaches(m, va, 4, u) /\ Reaches(m, w, 4, u)
               => va[3] = w[3] /\ va[2] = w[2] /\ va[1] = w[1]
  <2>1. SUFFICES ASSUME NEW u, Reaches(m, va, 4, u), Reaches(m, w, 4, u)
                 PROVE  va[3] = w[3] /\ va[2] = w[2] /\ va[1] = w[1]
    OBVIOUS
  <2>2. Reaches(m, va, 3 + 1, u) /\ Reaches(m, w, 3 + 1, u)  BY <2>1, 3 + 1 = 4
  <2> QED  BY <1>1, <1>4, <2>2, 3 \in 1 .. 3
<1> QED  BY <1>2, <1>3, <1>4, <1>5

(* m2 holds what m holds in every table, but in slot i of d. *)
Agree(m, m2, lv, d, i) ==
  \A t \in Page, j \in Index : lv[t] # 0 /\ (t # d \/ j # i) => m2[t][j] = m[t][j]

(* A walk that does not use the slot that changed ends where it did. *)
LEMMA WalkKept ==
  ASSUME NEW m, NEW lv, Tree(m, lv), NEW m2, NEW d, NEW i, Agree(m, m2, lv, d, i),
         NEW va \in VA, \A l \in 1 .. 4 : Reaches(m, va, l, d) => va[l] # i
  PROVE  End(m2, va) = End(m, va)
<1>1. ASSUME NEW l \in 1 .. 4, NEW t, Reaches(m, va, l, t)
      PROVE  m2[t][va[l]] = m[t][va[l]]
  <2>1. t \in Page /\ lv[t] = l /\ va[l] \in Index  BY <1>1, ReachLevel
  <2>2. t # d \/ va[l] # i  BY <1>1
  <2> QED  BY <2>1, <2>2 DEF Agree
<1>2. W1(m2, va) = W1(m, va)  BY <1>1 DEF W1, Reaches
<1>3. Deeper(W1(m, va)) => W2(m2, va) = W2(m, va)
  <2>1. Deeper(W1(m, va)) => Reaches(m, va, 2, W1(m, va).to)  BY DEF Reaches
  <2> QED  BY <1>1, <1>2, <2>1 DEF W2
<1>4. Deeper(W1(m, va)) /\ Deeper(W2(m, va)) => W3(m2, va) = W3(m, va)
  <2>1. Deeper(W1(m, va)) /\ Deeper(W2(m, va)) => Reaches(m, va, 3, W2(m, va).to)
    BY DEF Reaches
  <2> QED  BY <1>1, <1>3, <2>1 DEF W3
<1>5. Deeper(W1(m, va)) /\ Deeper(W2(m, va)) /\ Deeper(W3(m, va)) => W4(m2, va) = W4(m, va)
  <2>1. Deeper(W1(m, va)) /\ Deeper(W2(m, va)) /\ Deeper(W3(m, va))
          => Reaches(m, va, 4, W3(m, va).to)
    BY DEF Reaches
  <2> QED  BY <1>1, <1>4, <2>1 DEF W4
<1> QED  BY <1>2, <1>3, <1>4, <1>5 DEF End

(* And no walk changes above the table that changed. *)
LEMMA ReachKept ==
  ASSUME NEW m, NEW lv, Tree(m, lv), NEW m2, NEW d \in Page, NEW i, Agree(m, m2, lv, d, i),
         NEW va \in VA, NEW l, l <= lv[d], NEW t, Reaches(m, va, l, t)
  PROVE  Reaches(m2, va, l, t)
<1>1. ASSUME NEW k \in 1 .. 4, NEW s, Reaches(m, va, k, s), k < l
      PROVE  m2[s][va[k]] = m[s][va[k]]
  <2>1. s \in Page /\ lv[s] = k /\ va[k] \in Index  BY <1>1, ReachLevel
  <2>2. l \in 1 .. 4 /\ lv[d] \in 0 .. 4  BY ReachOnce DEF Tree
  <2>3. s # d  BY <1>1, <2>1, <2>2
  <2> QED  BY <2>1, <2>3 DEF Agree
<1>2. l \in 1 .. 4  BY ReachOnce
<1>3. l > 1 => W1(m2, va) = W1(m, va)  BY <1>1 DEF W1, Reaches
<1>4. l > 2 /\ Deeper(W1(m, va)) => W2(m2, va) = W2(m, va)
  <2>1. Deeper(W1(m, va)) => Reaches(m, va, 2, W1(m, va).to)  BY DEF Reaches
  <2> QED  BY <1>1, <1>2, <1>3, <2>1 DEF W2
<1>5. l > 3 /\ Deeper(W1(m, va)) /\ Deeper(W2(m, va)) => W3(m2, va) = W3(m, va)
  <2>1. Deeper(W1(m, va)) /\ Deeper(W2(m, va)) => Reaches(m, va, 3, W2(m, va).to)
    BY DEF Reaches
  <2> QED  BY <1>1, <1>2, <1>4, <2>1 DEF W3
<1> QED  BY <1>2, <1>3, <1>4, <1>5 DEF Reaches

-----------------------------------------------------------------------------
(* What the updates do to the tree. *)

SameWays(m, m2, lv) ==
  \A t \in Page, j \in Index :
    /\ Leads(m2, lv, t, j) <=> Leads(m, lv, t, j)
    /\ Leads(m, lv, t, j) => m2[t][j] = m[t][j]

WellFormed(m, lv) ==
  \A t \in Page, j \in Index : lv[t] # 0 =>
    /\ m[t][j].huge = TRUE => lv[t] = 3
    /\ m[t][j].to = NULL => m[t][j] = Absent

LEMMA TreeKept ==
  ASSUME NEW m, NEW lv, Tree(m, lv), NEW m2, m2 \in [Page -> [Index -> EntryType]],
         SameWays(m, m2, lv), WellFormed(m2, lv)
  PROVE  Tree(m2, lv)
<1>1. /\ m2 \in [Page -> [Index -> EntryType]] /\ lv \in [Page -> 0 .. 4]
      /\ lv[PML4] = 1 /\ WellFormed(m2, lv)
  BY DEF Tree
<1>2. \A t \in Page, i \in Index :
        Leads(m2, lv, t, i) => m2[t][i].to \in Page /\ lv[m2[t][i].to] = lv[t] + 1
  BY DEF Tree, SameWays
<1>3. ASSUME NEW t \in Page, NEW u \in Page, NEW i \in Index, NEW j \in Index,
             Leads(m2, lv, t, i), Leads(m2, lv, u, j), m2[t][i].to = m2[u][j].to
      PROVE  t = u /\ i = j
  <2>1. /\ Leads(m, lv, t, i) /\ Leads(m, lv, u, j)
        /\ m2[t][i] = m[t][i] /\ m2[u][j] = m[u][j]
    BY <1>3 DEF SameWays
  <2> QED  BY <1>3, <2>1, OneEntry
<1>4. ASSUME NEW p \in Page, lv[p] # 0, p # PML4
      PROVE  \E t \in Page, i \in Index : Leads(m2, lv, t, i) /\ m2[t][i].to = p
  <2>1. PICK t \in Page, i \in Index : Leads(m, lv, t, i) /\ m[t][i].to = p
    BY <1>4 DEF Tree
  <2>2. Leads(m2, lv, t, i) /\ m2[t][i] = m[t][i]  BY <2>1 DEF SameWays
  <2> QED  BY <2>1, <2>2
<1> QED  BY <1>1, <1>2, <1>3, <1>4 DEF Tree, WellFormed

(* A page that is no table may hold anything. *)
LEMMA TreeScribble ==
  ASSUME NEW m, NEW lv, Tree(m, lv), NEW p \in Page, lv[p] = 0,
         NEW c \in [Index -> EntryType], NEW m2, m2 = [m EXCEPT ![p] = c]
  PROVE  Tree(m2, lv) /\ \A i : Agree(m, m2, lv, p, i)
<1>1. m \in [Page -> [Index -> EntryType]]  BY DEF Tree
<1>2. m2 \in [Page -> [Index -> EntryType]]  BY <1>1
<1>3. \A t \in Page, j \in Index : lv[t] # 0 => m2[t][j] = m[t][j]  BY <1>1
<1>4. SameWays(m, m2, lv)  BY <1>3 DEF SameWays, Leads
<1>5. WellFormed(m2, lv)  BY <1>3 DEF Tree, WellFormed
<1>6. Tree(m2, lv)  BY <1>2, <1>4, <1>5, TreeKept
<1> QED  BY <1>3, <1>6 DEF Agree

(* An entry of the last level may change, and one that leads nowhere may   *)
(* be dropped.                                                             *)
NewEntry(m, d, i, e) == [m EXCEPT ![d][i] = e]

MayChange(m, l, d, i, e) ==
  \/ l = 4 /\ e.huge = FALSE /\ e.to # NULL
  \/ e = Absent /\ (l = 4 \/ ~ Deeper(m[d][i]))

LEMMA TreeSet ==
  ASSUME NEW m, NEW lv, Tree(m, lv), NEW d \in Page, NEW i \in Index, lv[d] # 0,
         NEW e \in EntryType, MayChange(m, lv[d], d, i, e),
         NEW m2, m2 = NewEntry(m, d, i, e)
  PROVE  Tree(m2, lv) /\ Agree(m, m2, lv, d, i) /\ m2[d][i] = e
<1>1. m \in [Page -> [Index -> EntryType]] /\ lv \in [Page -> 0 .. 4]  BY DEF Tree
<1>2. /\ m2 \in [Page -> [Index -> EntryType]] /\ m2[d][i] = e
      /\ \A t \in Page, j \in Index : t # d \/ j # i => m2[t][j] = m[t][j]
  BY <1>1, SlotSet DEF NewEntry
<1>3. ~ Leads(m, lv, d, i) /\ ~ Leads(m2, lv, d, i)
  BY <1>1, <1>2, AbsentFacts DEF Leads, MayChange
<1>4. \A t \in Page, j \in Index : Leads(m2, lv, t, j) <=> Leads(m, lv, t, j)
  <2>1. \A t \in Page, j \in Index : t # d \/ j # i =>
          (Leads(m2, lv, t, j) <=> Leads(m, lv, t, j))
    BY <1>2 DEF Leads
  <2> QED  BY <1>3, <2>1
<1>5. SameWays(m, m2, lv)  BY <1>2, <1>3, <1>4 DEF SameWays
<1>6. WellFormed(m2, lv)
  <2>1. (e.huge = TRUE => FALSE) /\ (e.to = NULL => e = Absent)
    BY AbsentFacts DEF MayChange
  <2> QED  BY <1>2, <2>1 DEF Tree, WellFormed
<1>7. Tree(m2, lv)  BY <1>2, <1>5, <1>6, TreeKept
<1> QED  BY <1>2, <1>7 DEF Agree

(* What a new table may hold: nothing, or pages if it is of the last level. *)
Contents(c, l) ==
  /\ c \in [Index -> EntryType]
  /\ \/ \A j \in Index : c[j] = Absent
     \/ l = 4 /\ \A j \in Index : c[j].huge = FALSE /\ c[j].to # NULL

FlagSet == SUBSET Flag

(* The table p with contents c comes in under entry i of d, which becomes e. *)
Attached(m, m2, lv, lv2, d, i, e, p, c) ==
  /\ m2 \in [Page -> [Index -> EntryType]] /\ m2[d][i] = e /\ m2[p] = c
  /\ \A t \in Page, j \in Index : t # p /\ (t # d \/ j # i) => m2[t][j] = m[t][j]
  /\ lv2 \in [Page -> 0 .. 4] /\ lv2[p] = lv[d] + 1 /\ lv2[PML4] = 1
  /\ \A t \in Page : t # p => lv2[t] = lv[t]

LEMMA AttachedTree ==
  ASSUME NEW m, NEW lv, Tree(m, lv), NEW d \in Page, NEW i \in Index, lv[d] \in 1 .. 3,
         ~ Deeper(m[d][i]), NEW p \in Page, lv[p] = 0,
         NEW c, Contents(c, lv[d] + 1), NEW e, e.to = p, e.huge = FALSE, Deeper(e),
         NEW m2, NEW lv2, Attached(m, m2, lv, lv2, d, i, e, p, c)
  PROVE  Tree(m2, lv2) /\ Agree(m, m2, lv, d, i)
<1>1. lv \in [Page -> 0 .. 4] /\ lv[PML4] = 1 /\ p \in Nat /\ p # NULL
  BY VmmFacts DEF Tree
<1>2. e.to = p /\ e.huge = FALSE /\ Deeper(e)  OBVIOUS
<1>3. p # d  OBVIOUS
<1>4. /\ m2 \in [Page -> [Index -> EntryType]] /\ m2[d][i] = e /\ m2[p] = c
      /\ \A t \in Page, j \in Index : t # p /\ (t # d \/ j # i) => m2[t][j] = m[t][j]
  BY DEF Attached
<1>5. /\ lv2 \in [Page -> 0 .. 4] /\ lv2[p] = lv[d] + 1 /\ lv2[PML4] = 1
      /\ \A t \in Page : t # p => lv2[t] = lv[t]
  BY DEF Attached
<1>6. Agree(m, m2, lv, d, i)  BY <1>4 DEF Agree
<1>7. ASSUME NEW j \in Index, Leads(m2, lv2, p, j)  PROVE FALSE
  <2>1. lv[d] + 1 # 4 /\ Deeper(c[j])  BY <1>1, <1>4, <1>5, <1>7 DEF Leads
  <2>2. c[j] = Absent  BY <2>1 DEF Contents
  <2> QED  BY <2>1, <2>2, AbsentFacts
<1>8. Leads(m2, lv2, d, i) /\ ~ Leads(m, lv, d, i)
  BY <1>2, <1>3, <1>4, <1>5 DEF Leads
<1>9. \A t \in Page, j \in Index : t # p /\ (t # d \/ j # i) =>
        (Leads(m2, lv2, t, j) <=> Leads(m, lv, t, j))
  BY <1>4, <1>5 DEF Leads
<1>10. \A t \in Page, j \in Index : Leads(m, lv, t, j) => t # p /\ m[t][j].to # p
  <2>1. \A t \in Page, j \in Index : Leads(m, lv, t, j) =>
          m[t][j].to \in Page /\ lv[m[t][j].to] = lv[t] + 1 /\ lv[t] \in 1 .. 3
    BY SMTT(30) DEF Tree, Leads
  <2> QED  BY <2>1
<1>11. WellFormed(m2, lv2)
  <2>1. SUFFICES ASSUME NEW t \in Page, NEW j \in Index, lv2[t] # 0
                 PROVE  /\ m2[t][j].huge = TRUE => lv2[t] = 3
                        /\ m2[t][j].to = NULL => m2[t][j] = Absent
    BY DEF WellFormed
  <2>2. CASE t = p
    <3>1. m2[t][j] = c[j]  BY <1>4, <2>2
    <3>2. c[j] = Absent \/ (c[j].huge = FALSE /\ c[j].to # NULL)  BY DEF Contents
    <3> QED  BY <3>1, <3>2, AbsentFacts
  <2>3. CASE t = d /\ j = i
    <3>1. m2[t][j] = e  BY <1>4, <2>3
    <3> QED  BY <1>1, <1>2, <3>1
  <2>4. CASE t # p /\ (t # d \/ j # i)
    <3>1. m2[t][j] = m[t][j] /\ lv2[t] = lv[t]  BY <1>4, <1>5, <2>4
    <3> QED  BY <2>1, <3>1 DEF Tree
  <2> QED  BY <2>2, <2>3, <2>4
<1>12. ASSUME NEW t \in Page, NEW j \in Index, Leads(m2, lv2, t, j)
       PROVE  \/ t = d /\ j = i /\ m2[t][j] = e
              \/ t # p /\ Leads(m, lv, t, j) /\ m2[t][j] = m[t][j] /\ m[t][j].to # p
  <2>1. t # p  BY <1>7, <1>12
  <2>2. CASE t = d /\ j = i  BY <1>4, <2>2
  <2>3. CASE t # d \/ j # i  BY <1>4, <1>9, <1>10, <1>12, <2>1, <2>3
  <2> QED  BY <2>2, <2>3
<1>13. ASSUME NEW t \in Page, NEW j \in Index, Leads(m2, lv2, t, j)
       PROVE  m2[t][j].to \in Page /\ lv2[m2[t][j].to] = lv2[t] + 1
  <2>1. CASE t = d /\ j = i /\ m2[t][j] = e  BY <1>2, <1>3, <1>5, <2>1
  <2>2. CASE t # p /\ Leads(m, lv, t, j) /\ m2[t][j] = m[t][j] /\ m[t][j].to # p
    <3>1. m[t][j].to \in Page /\ lv[m[t][j].to] = lv[t] + 1  BY <2>2 DEF Tree
    <3> QED  BY <1>5, <2>2, <3>1
  <2> QED  BY <1>12, <1>13, <2>1, <2>2
<1>14. ASSUME NEW t \in Page, NEW u \in Page, NEW j \in Index, NEW k \in Index,
              Leads(m2, lv2, t, j), Leads(m2, lv2, u, k), m2[t][j].to = m2[u][k].to
       PROVE  t = u /\ j = k
  <2>1. \/ t = d /\ j = i /\ m2[t][j] = e
        \/ t # p /\ Leads(m, lv, t, j) /\ m2[t][j] = m[t][j] /\ m[t][j].to # p
    BY <1>12, <1>14
  <2>2. \/ u = d /\ k = i /\ m2[u][k] = e
        \/ u # p /\ Leads(m, lv, u, k) /\ m2[u][k] = m[u][k] /\ m[u][k].to # p
    BY <1>12, <1>14
  <2>3. CASE Leads(m, lv, t, j) /\ m2[t][j] = m[t][j] /\ Leads(m, lv, u, k) /\ m2[u][k] = m[u][k]
    BY <1>14, <2>3, OneEntry
  <2> QED  BY <1>2, <1>14, <2>1, <2>2, <2>3
<1>15. ASSUME NEW q \in Page, lv2[q] # 0, q # PML4
       PROVE  \E t \in Page, j \in Index : Leads(m2, lv2, t, j) /\ m2[t][j].to = q
  <2>1. CASE q = p  BY <1>2, <1>4, <1>8, <2>1
  <2>2. CASE q # p
    <3>1. lv[q] # 0  BY <1>5, <1>15, <2>2
    <3>2. PICK t \in Page, j \in Index : Leads(m, lv, t, j) /\ m[t][j].to = q
      BY <1>15, <3>1 DEF Tree
    <3>3. t # p /\ (t # d \/ j # i)  BY <1>8, <1>10, <3>2
    <3>4. Leads(m2, lv2, t, j) /\ m2[t][j].to = q  BY <1>4, <1>9, <3>2, <3>3
    <3> QED  BY <3>4
  <2> QED  BY <2>1, <2>2
<1>16. Tree(m2, lv2)
  <2>1. \A t \in Page, j \in Index :
          Leads(m2, lv2, t, j) => m2[t][j].to \in Page /\ lv2[m2[t][j].to] = lv2[t] + 1
    BY <1>13
  <2>2. \A t, u \in Page, j, k \in Index :
          Leads(m2, lv2, t, j) /\ Leads(m2, lv2, u, k) /\ m2[t][j].to = m2[u][k].to
            => t = u /\ j = k
    BY <1>14
  <2>3. \A q \in Page : lv2[q] # 0 /\ q # PML4 =>
          \E t \in Page, j \in Index : Leads(m2, lv2, t, j) /\ m2[t][j].to = q
    BY <1>15
  <2>4. /\ m2 \in [Page -> [Index -> EntryType]] /\ lv2 \in [Page -> 0 .. 4]
        /\ lv2[PML4] = 1
    BY <1>4, <1>5
  <2> QED  BY ONLY <2>1, <2>2, <2>3, <2>4, <1>11 DEF Tree, WellFormed
<1> QED  BY <1>6, <1>16

NewTable(m, p, c, d, i, f) == [m EXCEPT ![p] = c, ![d][i] = Entry(p, FALSE, f)]
NewLevel(lv, p, l) == [lv EXCEPT ![p] = l]

(* A new table p comes under an entry that led nowhere. *)
Attaches(m, lv, d, i, p, c, f, m2, lv2) ==
  /\ Tree(m, lv) /\ d \in Page /\ i \in Index /\ lv[d] \in 1 .. 3 /\ ~ Deeper(m[d][i])
  /\ p \in Page /\ lv[p] = 0 /\ Contents(c, lv[d] + 1) /\ f \in FlagSet
  /\ m2 = NewTable(m, p, c, d, i, f) /\ lv2 = NewLevel(lv, p, lv[d] + 1)

LEMMA TreeAttach ==
  ASSUME NEW m, NEW lv, NEW d, NEW i, NEW p, NEW c, NEW f, NEW m2, NEW lv2,
         Attaches(m, lv, d, i, p, c, f, m2, lv2)
  PROVE  /\ Tree(m2, lv2) /\ Agree(m, m2, lv, d, i)
         /\ Deeper(m2[d][i]) /\ m2[d][i].to = p /\ m2[p] = c
<1> USE DEF Attaches
<1>1. m \in [Page -> [Index -> EntryType]] /\ lv \in [Page -> 0 .. 4] /\ lv[PML4] = 1
  BY DEF Tree
<1>2. \A e \in EntryType : m2 = [m EXCEPT ![p] = c, ![d][i] = e] =>
        /\ m2 \in [Page -> [Index -> EntryType]] /\ m2[d][i] = e /\ m2[p] = c
        /\ \A t \in Page, j \in Index : t # p /\ (t # d \/ j # i) => m2[t][j] = m[t][j]
  <2>1. p # d  OBVIOUS
  <2>2. c \in [Index -> EntryType]  BY DEF Contents
  <2> QED  BY ONLY <1>1, <2>1, <2>2, d \in Page, i \in Index, p \in Page
<1>3. /\ lv2 \in [Page -> 0 .. 4] /\ lv2[p] = lv[d] + 1 /\ lv2[PML4] = 1
      /\ \A t \in Page : t # p => lv2[t] = lv[t]
  <2>1. PML4 \in Page  BY VmmFacts
  <2> QED  BY ONLY <1>1, <2>1, p \in Page, d \in Page, lv[d] \in 1 .. 3, lv[p] = 0,
             lv2 = NewLevel(lv, p, lv[d] + 1) DEF NewLevel
<1>4. p \in Nat  BY VmmFacts
<1>5. PICK e : e = Entry(p, FALSE, f)  OBVIOUS
<1>6. e \in EntryType /\ e.to = p /\ e.huge = FALSE /\ Deeper(e)
  BY ONLY <1>4, <1>5, EntryFacts, f \in FlagSet DEF FlagSet
<1>7. m2 = [m EXCEPT ![p] = c, ![d][i] = e]  BY <1>5, Zenon DEF NewTable
<1>8. Attached(m, m2, lv, lv2, d, i, e, p, c)
  BY ONLY <1>2, <1>3, <1>6, <1>7, Zenon DEF Attached
<1>9. Tree(m2, lv2) /\ Agree(m, m2, lv, d, i)
  BY ONLY <1>6, <1>8, AttachedTree, Tree(m, lv), d \in Page, i \in Index, lv[d] \in 1 .. 3,
          ~ Deeper(m[d][i]), p \in Page, lv[p] = 0, Contents(c, lv[d] + 1)
<1> QED  BY ONLY <1>6, <1>8, <1>9 DEF Attached

-----------------------------------------------------------------------------
(* What the updates do to the translations. *)

LEMMA SamePrefix ==
  ASSUME NEW m, NEW va, NEW w, NEW l, NEW t, Reaches(m, va, l, t),
         \A k \in 1 .. 4 : k < l => w[k] = va[k]
  PROVE  Reaches(m, w, l, t)
<1>1. CASE l = 1  BY <1>1 DEF Reaches
<1>2. CASE l = 2
  <2>1. w[1] = va[1]  BY <1>2
  <2> QED  BY <1>2, <2>1 DEF Reaches, W1
<1>3. CASE l = 3
  <2>1. w[1] = va[1] /\ w[2] = va[2]  BY <1>3
  <2>2. W1(m, w) = W1(m, va)  BY <2>1 DEF W1
  <2>3. W2(m, w) = W2(m, va)  BY <2>1, <2>2 DEF W2
  <2> QED  BY <1>3, <2>2, <2>3 DEF Reaches
<1>4. CASE l = 4
  <2>1. w[1] = va[1] /\ w[2] = va[2] /\ w[3] = va[3]  BY <1>4
  <2>2. W1(m, w) = W1(m, va)  BY <2>1 DEF W1
  <2>3. W2(m, w) = W2(m, va)  BY <2>1, <2>2 DEF W2
  <2>4. W3(m, w) = W3(m, va)  BY <2>1, <2>3 DEF W3
  <2> QED  BY <1>4, <2>2, <2>3, <2>4 DEF Reaches
<1>5. l \in 1 .. 4  BY ReachOnce
<1> QED  BY <1>1, <1>2, <1>3, <1>4, <1>5

(* The walk for va uses entry i of d. *)
Uses(m, lv, va, d, i) == Reaches(m, va, lv[d], d) /\ va[lv[d]] = i

LEMMA UsesOrKept ==
  ASSUME NEW m, NEW lv, Tree(m, lv), NEW m2, NEW d, NEW i, Agree(m, m2, lv, d, i),
         NEW va \in VA
  PROVE  Uses(m, lv, va, d, i) \/ End(m2, va) = End(m, va)
<1>1. CASE \A l \in 1 .. 4 : Reaches(m, va, l, d) => va[l] # i  BY <1>1, WalkKept
<1>2. CASE \E l \in 1 .. 4 : Reaches(m, va, l, d) /\ va[l] = i
  <2>1. PICK l \in 1 .. 4 : Reaches(m, va, l, d) /\ va[l] = i  BY <1>2
  <2>2. lv[d] = l  BY <2>1, ReachLevel
  <2> QED  BY <2>1, <2>2 DEF Uses
<1> QED  BY <1>1, <1>2

LEMMA EndAttach ==
  ASSUME NEW m, NEW lv, Tree(m, lv), NEW m2, NEW d \in Page, NEW i \in Index,
         lv[d] \in 1 .. 3, ~ Deeper(m[d][i]), Agree(m, m2, lv, d, i),
         Deeper(m2[d][i]), NEW va \in VA, Uses(m, lv, va, d, i)
  PROVE  /\ End(m, va) = m[d][i]
         /\ Reaches(m2, va, lv[d], d) /\ Reaches(m2, va, lv[d] + 1, m2[d][i].to)
<1>1. Reaches(m, va, lv[d], d) /\ va[lv[d]] = i  BY DEF Uses
<1>2. End(m, va) = m[d][i]  BY <1>1, ReachEnd
<1>3. Reaches(m2, va, lv[d], d)  BY <1>1, ReachKept
<1>4. Reaches(m2, va, lv[d] + 1, m2[d][i].to)  BY <1>1, <1>3, ReachNext
<1> QED  BY <1>2, <1>3, <1>4

LEMMA EndSet ==
  ASSUME NEW m, NEW lv, Tree(m, lv), NEW m2, NEW d \in Page, NEW i \in Index,
         lv[d] \in 1 .. 4, Agree(m, m2, lv, d, i), lv[d] = 4 \/ ~ Deeper(m2[d][i]),
         NEW va \in VA, Uses(m, lv, va, d, i)
  PROVE  End(m2, va) = m2[d][i]
<1>1. Reaches(m, va, lv[d], d) /\ va[lv[d]] = i  BY DEF Uses
<1>2. Reaches(m2, va, lv[d], d)  BY <1>1, ReachKept
<1> QED  BY <1>1, <1>2, ReachEnd

(* Which walks use the entry that the walk for va uses. *)
LEMMA UsesSame ==
  ASSUME NEW m, NEW lv, Tree(m, lv), NEW d \in Page, NEW va \in VA,
         Reaches(m, va, lv[d], d), NEW w \in VA
  PROVE  Uses(m, lv, w, d, va[lv[d]]) <=> \A k \in 1 .. lv[d] : w[k] = va[k]
<1>1. lv[d] \in 1 .. 4  BY ReachLevel
<1>2. ASSUME Uses(m, lv, w, d, va[lv[d]])  PROVE \A k \in 1 .. lv[d] : w[k] = va[k]
  <2>1. Reaches(m, w, lv[d], d) /\ w[lv[d]] = va[lv[d]]  BY <1>2 DEF Uses
  <2>2. \A k \in 1 .. 4 : k < lv[d] => w[k] = va[k]  BY <2>1, SamePath
  <2> QED  BY <1>1, <2>1, <2>2
<1>3. ASSUME \A k \in 1 .. lv[d] : w[k] = va[k]  PROVE Uses(m, lv, w, d, va[lv[d]])
  <2>1. \A k \in 1 .. 4 : k < lv[d] => w[k] = va[k]  BY <1>1, <1>3
  <2>2. Reaches(m, w, lv[d], d)  BY <2>1, SamePrefix
  <2> QED  BY <1>1, <1>3, <2>2 DEF Uses
<1> QED  BY <1>2, <1>3
=============================================================================
