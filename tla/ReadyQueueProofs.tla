-------------------------- MODULE ReadyQueueProofs --------------------------
(***************************************************************************)
(* The intrusive list of process/queue.c is a FIFO for every set of        *)
(* processes, and no process is on it twice.                               *)
(***************************************************************************)
EXTENDS ReadyQueue, SequenceTheorems, TLAPS

Pushing == {"create: link", "yield: link", "create: tail", "yield: tail",
            "create: count", "yield: count"}
Pushed == {"create: tail", "yield: tail", "create: count", "yield: count"}
Popped == {"pop: tail", "pop: unlink", "pop: count"}
Removed == {"remove: tail", "remove: unlink", "remove: count"}

(* The sequence the links spell once the call has changed them. *)
Goal ==
  CASE pc \in Pushed -> Append(fifo, proc)
    [] pc \in Popped -> Tail(fifo)
    [] pc \in Removed -> Without(fifo, proc)
    [] OTHER -> fifo

In(p, s) == \E i \in 1 .. Len(s) : s[i] = p
Distinct(s) == \A i, j \in 1 .. Len(s) : s[i] = s[j] => i = j
First(s) == IF Len(s) = 0 THEN NULL ELSE s[1]
Last(s) == IF Len(s) = 0 THEN NULL ELSE s[Len(s)]

(* From h on, the links spell s; the rest are clear but perhaps p's. *)
Spells(h, nx, s, p) ==
  /\ h = First(s)
  /\ \A i \in 1 .. Len(s) : nx[s[i]] = IF i = Len(s) THEN NULL ELSE s[i + 1]
  /\ \A q \in Proc : q # p /\ ~ In(q, s) => nx[q] = NULL

(* queue_remove has passed the first k - 1 of s without meeting p. *)
Cursor(s, p, k) ==
  /\ prev = IF k = 1 THEN NULL ELSE s[k - 1]
  /\ curr = IF k = Len(s) + 1 THEN NULL ELSE s[k]
  /\ \A i \in 1 .. k - 1 : s[i] # p

(* Who is unlinked keeps its link until the call clears it, and the tail   *)
(* is behind by one statement.                                             *)
QInv ==
  /\ TypeOK
  /\ pc \in {"idle", "pop", "remove: scan"} \cup Pushing \cup Popped \cup Removed
  /\ Distinct(fifo) /\ count = Len(fifo)
  /\ Spells(head, next, Goal,
       IF pc \in {"pop: tail", "pop: unlink", "remove: tail", "remove: unlink"}
         THEN proc ELSE NULL)
  /\ pc \notin {"create: tail", "yield: tail", "pop: tail", "remove: tail"} => tail = Last(Goal)
  /\ pc \notin {"pop", "pop: tail", "pop: unlink", "pop: count"} => ~ In(current, fifo)
  /\ pc \in Pushing => proc \in Proc /\ ~ In(proc, fifo)
  /\ pc \in {"create: link", "create: tail", "create: count"} => proc # current
  /\ pc \in {"pop"} \cup Popped => Len(fifo) # 0
  /\ pc \in Popped => proc = fifo[1]
  /\ pc \in {"remove: scan"} \cup Removed => proc \in Proc
  /\ pc = "remove: scan" => \E k \in 1 .. Len(fifo) + 1 : Cursor(fifo, proc, k)
  /\ pc \in Removed => In(proc, fifo) /\ curr = proc
  /\ pc = "pop: tail" => tail = Last(fifo)
  /\ pc = "remove: tail" =>
       /\ tail = Last(fifo)
       /\ proc = Last(fifo) => next[proc] = NULL /\ prev = Last(Goal)
       /\ proc # Last(fifo) => next[proc] # NULL /\ Last(fifo) = Last(Goal)

-----------------------------------------------------------------------------
(* The sequences a call leads to, element by element. *)

Listed(s) == Len(s) \in Nat /\ \A i \in 1 .. Len(s) : s[i] \in Proc

LEMMA SeqListed ==
  ASSUME NEW s \in Seq(Proc)
  PROVE  Listed(s) /\ (s = << >> <=> Len(s) = 0)
<1>1. Len(s) \in Nat /\ \A i \in 1 .. Len(s) : s[i] \in Proc  BY LenProperties, ElementOfSeq
<1> QED  BY <1>1, EmptySeq DEF Listed

LEMMA PushedSeq ==
  ASSUME NEW s \in Seq(Proc), NEW p \in Proc, NEW v, v = Append(s, p)
  PROVE  /\ v \in Seq(Proc) /\ Listed(v) /\ Len(v) = Len(s) + 1 /\ v[Len(s) + 1] = p
         /\ \A i \in 1 .. Len(s) : v[i] = s[i]
<1>1. /\ v \in Seq(Proc) /\ Len(v) = Len(s) + 1 /\ v[Len(s) + 1] = p
      /\ \A i \in 1 .. Len(s) : v[i] = s[i]
  BY AppendProperties
<1> QED  BY <1>1, SeqListed

LEMMA PoppedSeq ==
  ASSUME NEW s \in Seq(Proc), Len(s) # 0, NEW v, v = Tail(s)
  PROVE  /\ v \in Seq(Proc) /\ Listed(v) /\ Len(v) = Len(s) - 1
         /\ \A i \in 1 .. Len(v) : v[i] = s[i + 1]
<1>1. s # << >>  BY EmptySeq
<1>2. /\ v \in Seq(Proc) /\ Len(v) = Len(s) - 1 /\ \A i \in 1 .. Len(v) : v[i] = s[i + 1]
  BY <1>1, HeadTailProperties
<1> QED  BY <1>2, SeqListed

(* v is s without element k. *)
Skips(v, s, k) ==
  /\ Len(v) = Len(s) - 1
  /\ \A i \in 1 .. Len(v) : v[i] = IF i < k THEN s[i] ELSE s[i + 1]

LEMMA RemovedSeq ==
  ASSUME NEW s \in Seq(Proc), Distinct(s), NEW k \in 1 .. Len(s), NEW v, v = Without(s, s[k])
  PROVE  v \in Seq(Proc) /\ Listed(v) /\ Skips(v, s, k)
<1> DEFINE n == Len(s)
           w == [i \in 1 .. n - 1 |-> IF i < k THEN s[i] ELSE s[i + 1]]
<1>1. n \in Nat /\ \A i \in 1 .. n : s[i] \in Proc  BY SeqListed DEF Listed
<1>2. (CHOOSE i \in 1 .. Len(s) : s[i] = s[k]) = k
  <2>1. \A i \in 1 .. Len(s) : s[i] = s[k] => i = k  BY DEF Distinct
  <2> QED  BY <2>1
<1>3. v = w  BY <1>2 DEF Without
<1> HIDE DEF n
<1>4. n - 1 \in Nat /\ \A i \in 1 .. n - 1 : i \in 1 .. n /\ i + 1 \in 1 .. n
  <2>1. k \in 1 .. n  BY DEF n
  <2> QED  BY <1>1, <2>1
<1>5. w \in [1 .. n - 1 -> Proc]  BY <1>1, <1>4
<1>6. w \in Seq(Proc) /\ Len(w) = n - 1
  <2> HIDE DEF w
  <2>1. w \in Seq(Proc)  BY <1>4, <1>5, SeqDef
  <2>2. DOMAIN w = 1 .. n - 1  BY <1>5
  <2> QED  BY <1>4, <2>1, <2>2, LenProperties
<1>7. Listed(w)  BY <1>6, SeqListed
<1> QED  BY <1>3, <1>6, <1>7 DEF n, Skips

-----------------------------------------------------------------------------
(* The statement of each call that changes what the links spell. *)

LEMMA PushSpells ==
  ASSUME NEW h, NEW nx \in [Proc -> Proc \cup {NULL}], NEW s, NEW p \in Proc, NEW v,
         Listed(s), Distinct(s), Spells(h, nx, s, NULL), ~ In(p, s),
         Len(v) = Len(s) + 1, v[Len(s) + 1] = p, \A i \in 1 .. Len(s) : v[i] = s[i],
         NEW h2, NEW nx2,
         Len(s) = 0 => h2 = p /\ nx2 = nx,
         Len(s) # 0 => h2 = h /\ nx2 = [nx EXCEPT ![s[Len(s)]] = p]
  PROVE  Spells(h2, nx2, v, NULL) /\ Last(v) = p /\ Distinct(v)
<1> DEFINE n == Len(s)
<1>1. n \in Nat /\ \A i \in 1 .. n : s[i] \in Proc /\ s[i] # p  BY DEF Listed, In
<1>2. p # NULL /\ nx[p] = NULL  BY QueueAssumption DEF Spells
<1>3. /\ n + 1 \in 1 .. n + 1 /\ n + 1 # 0
      /\ \A i \in 1 .. n + 1 : i = n + 1 \/ i \in 1 .. n
      /\ \A i \in 1 .. n : i \in 1 .. n + 1 /\ i # n + 1
      /\ \A i \in 1 .. n : i # n => i + 1 \in 1 .. n
  BY <1>1
<1>4. Len(v) = n + 1 /\ v[n + 1] = p /\ \A i \in 1 .. n : v[i] = s[i]  OBVIOUS
<1>5. Last(v) = p  BY <1>3, <1>4 DEF Last
<1>6. Distinct(v)  BY <1>1, <1>3, <1>4 DEF Distinct
<1>7. h2 = First(v)
  <2>1. CASE n = 0  BY <1>4, <2>1 DEF First
  <2>2. CASE n # 0
    <3>1. 1 \in 1 .. n  BY <1>1, <2>2
    <3> QED  BY <1>3, <1>4, <2>2, <3>1 DEF First, Spells
  <2> QED  BY <2>1, <2>2
<1>8. \A q \in Proc : q # NULL /\ ~ In(q, v) => nx2[q] = NULL
  <2> SUFFICES ASSUME NEW q \in Proc, q # NULL, ~ In(q, v) PROVE nx2[q] = NULL  OBVIOUS
  <2>1. ~ In(q, s)  BY <1>3, <1>4 DEF In
  <2>2. nx[q] = NULL  BY <2>1 DEF Spells
  <2>3. CASE n = 0  BY <2>2, <2>3
  <2>4. CASE n # 0
    <3>1. n \in 1 .. n  BY <1>1, <2>4
    <3>2. q # s[n]  BY <2>1, <3>1 DEF In
    <3> QED  BY <2>2, <2>4, <3>2
  <2> QED  BY <2>3, <2>4
<1>9. ASSUME NEW i \in 1 .. n + 1
      PROVE  nx2[v[i]] = IF i = n + 1 THEN NULL ELSE v[i + 1]
  <2>1. CASE i = n + 1
    <3>1. CASE n = 0  BY <1>2, <1>4, <2>1, <3>1
    <3>2. CASE n # 0
      <4>1. n \in 1 .. n  BY <1>1, <3>2
      <4>2. s[n] # p  BY <1>1, <4>1
      <4> QED  BY <1>2, <1>4, <2>1, <3>2, <4>2
    <3> QED  BY <3>1, <3>2
  <2>2. CASE i \in 1 .. n /\ i # n
    <3>1. i + 1 \in 1 .. n /\ n \in 1 .. n /\ n # 0 /\ i # n + 1  BY <1>1, <2>2
    <3>2. nx[s[i]] = s[i + 1]  BY <2>2 DEF Spells
    <3>3. s[i] # s[n]  BY <2>2, <3>1 DEF Distinct
    <3>4. nx2[s[i]] = s[i + 1]  BY <1>1, <2>2, <3>1, <3>2, <3>3
    <3> QED  BY <1>4, <2>2, <3>1, <3>4
  <2>3. CASE i = n /\ i \in 1 .. n
    <3>1. n # 0 /\ i # n + 1  BY <1>1, <2>3
    <3>2. s[n] \in Proc  BY <1>1, <2>3
    <3> QED  BY <1>4, <2>3, <3>1, <3>2
  <2> QED  BY <1>3, <2>1, <2>2, <2>3
<1> QED  BY <1>4, <1>5, <1>6, <1>7, <1>8, <1>9 DEF Spells

LEMMA PopSpells ==
  ASSUME NEW h, NEW nx, NEW s, NEW v,
         Listed(s), Distinct(s), Spells(h, nx, s, NULL), Len(s) # 0,
         Len(v) = Len(s) - 1, \A i \in 1 .. Len(v) : v[i] = s[i + 1]
  PROVE  /\ h = s[1] /\ h \in Proc /\ h # NULL
         /\ Spells(nx[h], nx, v, h) /\ Distinct(v)
<1> DEFINE n == Len(s)
<1>1. n \in Nat /\ n # 0 /\ \A i \in 1 .. n : s[i] \in Proc  BY DEF Listed
<1>2. /\ 1 \in 1 .. n /\ n \in 1 .. n
      /\ \A i \in 1 .. n - 1 : i + 1 \in 1 .. n /\ i + 1 # 1 /\ i \in 1 .. n
      /\ \A i \in 1 .. n - 1 : i + 1 = n <=> i = n - 1
      /\ \A i \in 1 .. n : i = 1 \/ (i - 1 \in 1 .. n - 1 /\ (i - 1) + 1 = i)
      /\ \A i, j \in 1 .. n - 1 : i + 1 = j + 1 => i = j
      /\ \A i \in 1 .. n - 1 : i # n - 1 => i + 1 \in 1 .. n - 1
  BY <1>1
<1>3. Len(v) = n - 1 /\ \A i \in 1 .. n - 1 : v[i] = s[i + 1]  OBVIOUS
<1>4. h = s[1] /\ h \in Proc /\ h # NULL  BY <1>1, <1>2, QueueAssumption DEF Spells, First
<1>5. Distinct(v)  BY <1>2, <1>3 DEF Distinct
<1>7. nx[h] = (IF 1 = n THEN NULL ELSE s[2])
  <2>1. 1 + 1 = 2  OBVIOUS
  <2> QED  BY <1>2, <1>4, <2>1 DEF Spells
<1>8. nx[h] = First(v)
  <2>1. CASE n = 1  BY <1>3, <1>7, <2>1 DEF First
  <2>2. CASE n # 1
    <3>1. 1 \in 1 .. n - 1 /\ 1 + 1 = 2 /\ n - 1 # 0 /\ 2 \in 1 .. n  BY <1>1, <2>2
    <3>2. v[1] = s[2]  BY <1>3, <3>1
    <3> QED  BY <1>3, <1>7, <2>2, <3>1, <3>2 DEF First
  <2> QED  BY <2>1, <2>2
<1>9. ASSUME NEW i \in 1 .. n - 1
      PROVE  nx[v[i]] = IF i = n - 1 THEN NULL ELSE v[i + 1]
  <2>1. nx[s[i + 1]] = IF i + 1 = n THEN NULL ELSE s[i + 1 + 1]  BY <1>2 DEF Spells
  <2>2. i + 1 = n <=> i = n - 1  BY <1>2
  <2>3. i # n - 1 => v[i + 1] = s[i + 1 + 1]  BY <1>2, <1>3
  <2> QED  BY <1>3, <2>1, <2>2, <2>3
<1>10. \A q \in Proc : q # h /\ ~ In(q, v) => nx[q] = NULL
  <2> SUFFICES ASSUME NEW q \in Proc, q # h, ~ In(q, v) PROVE nx[q] = NULL  OBVIOUS
  <2>1. ASSUME NEW i \in 1 .. n PROVE s[i] # q
    <3>1. CASE i = 1  BY <1>4, <3>1
    <3>2. CASE i # 1
      <4>1. i - 1 \in 1 .. n - 1 /\ (i - 1) + 1 = i  BY <1>2, <3>2
      <4>2. v[i - 1] = s[i] /\ v[i - 1] # q  BY <1>3, <4>1 DEF In
      <4> QED  BY <4>2
    <3> QED  BY <3>1, <3>2
  <2> QED  BY <2>1, QueueAssumption DEF Spells, In
<1> QED  BY <1>3, <1>4, <1>5, <1>8, <1>9, <1>10 DEF Spells

(* The links spell v, which is s without element k; k's own link and the   *)
(* one before tell queue_remove what the tail has to be.                   *)
Unlinked(h2, nx2, s, k, v) ==
  /\ Spells(h2, nx2, v, s[k])
  /\ s[k] = Last(s) => /\ nx2[s[k]] = NULL
                       /\ Last(v) = IF k = 1 THEN NULL ELSE s[k - 1]
  /\ s[k] # Last(s) => nx2[s[k]] # NULL /\ Last(v) = Last(s)

LEMMA RemoveSpells ==
  ASSUME NEW h, NEW nx \in [Proc -> Proc \cup {NULL}], NEW s, NEW k \in 1 .. Len(s), NEW v,
         Listed(s), Distinct(s), Spells(h, nx, s, NULL),
         Skips(v, s, k), NEW h2, NEW nx2,
         k = 1 => h2 = nx[s[k]] /\ nx2 = nx,
         k # 1 => h2 = h /\ nx2 = [nx EXCEPT ![s[k - 1]] = nx[s[k]]]
  PROVE  Unlinked(h2, nx2, s, k, v)
<1> DEFINE n == Len(s)
           At(i) == IF i < k THEN i ELSE i + 1
<1>1. /\ n \in Nat /\ n # 0 /\ k \in 1 .. n /\ n - 1 \in Nat
      /\ \A i \in 1 .. n : s[i] \in Proc /\ s[i] # NULL
  BY QueueAssumption DEF Listed
<1>2. \A i \in 1 .. n - 1 : /\ At(i) \in 1 .. n /\ At(i) # k
                            /\ \A j \in 1 .. n - 1 : At(i) = At(j) => i = j
                            /\ i # n - 1 => i + 1 \in 1 .. n - 1
  BY <1>1
<1>3. Len(v) = n - 1 /\ \A i \in 1 .. n - 1 : v[i] = s[At(i)]  BY DEF Skips
<1>4. \A i \in 1 .. n : i # k => \E j \in 1 .. n - 1 : At(j) = i
  <2> SUFFICES ASSUME NEW i \in 1 .. n, i # k PROVE \E j \in 1 .. n - 1 : At(j) = i  OBVIOUS
  <2>1. CASE i < k
    <3>1. i \in 1 .. n - 1 /\ At(i) = i  BY <1>1, <2>1
    <3> QED  BY <3>1
  <2>2. CASE ~ (i < k)
    <3>1. i - 1 \in 1 .. n - 1 /\ At(i - 1) = i  BY <1>1, <2>2
    <3> QED  BY <3>1
  <2> QED  BY <2>1, <2>2
<1>5. n \in 1 .. n /\ (k # 1 => k - 1 \in 1 .. n /\ k - 1 # k) /\ (k # n => k + 1 \in 1 .. n)
  BY <1>1
<1>6. nx[s[k]] = (IF k = n THEN NULL ELSE s[k + 1])  BY DEF Spells
<1>7. nx2[s[k]] = nx[s[k]]
  <2>1. CASE k = 1  BY <2>1
  <2>2. CASE k # 1
    <3>1. s[k - 1] # s[k]  BY <1>5, <2>2 DEF Distinct
    <3> QED  BY <1>1, <2>2, <3>1
  <2> QED  BY <2>1, <2>2
<1>8. s[k] = Last(s) <=> k = n  BY <1>1, <1>5 DEF Last, Distinct
<1>9. ASSUME NEW i \in 1 .. n, i # k
      PROVE  nx2[s[i]] = IF i = k - 1 THEN nx[s[k]] ELSE nx[s[i]]
  <2>1. CASE k = 1
    <3>1. i # k - 1  BY <2>1
    <3> QED  BY <2>1, <3>1
  <2>2. CASE k # 1
    <3>1. s[i] = s[k - 1] <=> i = k - 1  BY <1>5, <2>2 DEF Distinct
    <3> QED  BY <1>1, <2>2, <3>1
  <2> QED  BY <2>1, <2>2
<1>10. k = n => Last(v) = IF k = 1 THEN NULL ELSE s[k - 1]
  <2> SUFFICES ASSUME k = n PROVE Last(v) = IF k = 1 THEN NULL ELSE s[k - 1]  OBVIOUS
  <2>1. CASE n = 1  BY <1>3, <2>1 DEF Last
  <2>2. CASE n # 1
    <3>1. n - 1 \in 1 .. n - 1 /\ n - 1 # 0 /\ At(n - 1) = k - 1  BY <1>1, <2>2
    <3> QED  BY <1>3, <2>2, <3>1 DEF Last
  <2> QED  BY <2>1, <2>2
<1>11. k # n => Last(v) = Last(s)
  <2> SUFFICES ASSUME k # n PROVE Last(v) = Last(s)  OBVIOUS
  <2>1. n - 1 \in 1 .. n - 1 /\ n - 1 # 0 /\ At(n - 1) = n  BY <1>1
  <2> QED  BY <1>1, <1>3, <2>1 DEF Last
<1>12. h2 = First(v)
  <2>1. CASE n = 1
    <3>1. k = 1  BY <1>1, <2>1
    <3> QED  BY <1>3, <1>6, <2>1, <3>1 DEF First
  <2>2. CASE n # 1 /\ k = 1
    <3> HIDE DEF n
    <3>1. 1 \in 1 .. n - 1 /\ n - 1 # 0 /\ k # n  BY <1>1, <2>2
    <3>2. At(1) = k + 1  BY <2>2
    <3> QED  BY <1>3, <1>6, <2>2, <3>1, <3>2 DEF First
  <2>3. CASE k # 1
    <3>1. 1 \in 1 .. n - 1 /\ At(1) = 1 /\ n - 1 # 0  BY <1>1, <2>3
    <3>2. h = s[1]  BY <1>1 DEF Spells, First
    <3> QED  BY <1>3, <2>3, <3>1, <3>2 DEF First
  <2> QED  BY <2>1, <2>2, <2>3
<1>13. ASSUME NEW i \in 1 .. n - 1
       PROVE  nx2[v[i]] = IF i = n - 1 THEN NULL ELSE v[i + 1]
  <2>1. nx2[s[At(i)]] = IF At(i) = k - 1 THEN nx[s[k]] ELSE nx[s[At(i)]]  BY <1>2, <1>9
  <2>2. nx[s[At(i)]] = IF At(i) = n THEN NULL ELSE s[At(i) + 1]  BY <1>2 DEF Spells
  <2>3. CASE i = k - 1
    <3>1. At(i) = k - 1 /\ (i = n - 1 <=> k = n) /\ (i # n - 1 => At(i + 1) = k + 1)
      BY <1>1, <2>3
    <3> QED  BY <1>2, <1>3, <1>6, <2>1, <3>1
  <2>4. CASE i # k - 1
    <3>1. /\ At(i) # k - 1 /\ (i = n - 1 <=> At(i) = n)
          /\ i # n - 1 => At(i + 1) = At(i) + 1
      BY <1>1, <2>4
    <3> QED  BY <1>2, <1>3, <2>1, <2>2, <3>1
  <2> QED  BY <2>3, <2>4
<1>14. \A q \in Proc : q # s[k] /\ ~ In(q, v) => nx2[q] = NULL
  <2> SUFFICES ASSUME NEW q \in Proc, q # s[k], ~ In(q, v) PROVE nx2[q] = NULL  OBVIOUS
  <2>1. ASSUME NEW i \in 1 .. n PROVE s[i] # q
    <3>1. CASE i = k  BY <3>1
    <3>2. CASE i # k
      <4>1. PICK j \in 1 .. n - 1 : At(j) = i  BY <1>4, <3>2
      <4>2. v[j] = s[i] /\ v[j] # q  BY <1>3, <4>1 DEF In
      <4> QED  BY <4>2
    <3> QED  BY <3>1, <3>2
  <2>2. nx[q] = NULL  BY <2>1, QueueAssumption DEF Spells, In
  <2>3. CASE k = 1  BY <2>2, <2>3
  <2>4. CASE k # 1
    <3>1. q # s[k - 1]  BY <1>5, <2>1, <2>4
    <3> QED  BY <2>2, <2>4, <3>1
  <2> QED  BY <2>3, <2>4
<1>15. k # n => nx[s[k]] # NULL  BY <1>1, <1>5, <1>6
<1> QED
  BY <1>3, <1>6, <1>7, <1>8, <1>10, <1>11, <1>12, <1>13, <1>14, <1>15 DEF Spells, Unlinked

-----------------------------------------------------------------------------
(* Every step keeps the invariant. *)

LEMMA InitQInv == Init => QInv
<1> SUFFICES ASSUME Init PROVE QInv  OBVIOUS
<1>1. fifo = << >> /\ Len(fifo) = 0 /\ fifo \in Seq(Proc)  BY DEF Init
<1>2. TypeOK  BY <1>1, QueueAssumption DEF Init, TypeOK
<1>3. pc = "idle"  BY DEF Init
<1>4. Goal = fifo  BY <1>3 DEF Goal, Pushed, Popped, Removed
<1>5. Spells(head, next, fifo, NULL) /\ tail = Last(fifo)
  BY <1>1 DEF Init, Spells, First, Last, In
<1>6. Distinct(fifo) /\ ~ In(current, fifo)  BY <1>1 DEF Distinct, In
<1> QED  BY <1>1, <1>2, <1>3, <1>4, <1>5, <1>6 DEF QInv, Pushing, Popped, Removed, Init

(* process_create and yield begin: the link that is cleared was clear. *)
LEMMA PushQInv ==
  ASSUME QInv, pc = "idle", NEW p \in Proc, NEW at, Push(p, at), ~ In(p, fifo),
         (at = "create: link" /\ p # current) \/ at = "yield: link"
  PROVE  QInv'
<1>1. /\ next' = [next EXCEPT ![p] = NULL] /\ proc' = p /\ pc' = at
      /\ UNCHANGED <<head, tail, count, current, prev, curr, fifo>>
  BY DEF Push
<1>2. Goal = fifo /\ Goal' = fifo  BY <1>1 DEF Goal, Pushed, Popped, Removed
<1>3. next \in [Proc -> Proc \cup {NULL}] /\ Spells(head, next, fifo, NULL) /\ tail = Last(fifo)
  BY <1>2 DEF QInv, TypeOK
<1>4. next' = next
  <2>1. next[p] = NULL  BY <1>3, QueueAssumption DEF Spells
  <2> QED  BY <1>1, <1>3, <2>1
<1>5. TypeOK'  BY <1>1, <1>4 DEF QInv, TypeOK
<1> QED
  BY <1>1, <1>2, <1>3, <1>4, <1>5 DEF QInv, Pushing, Popped, Removed, In, Distinct

LEMMA PushLinkQInv == ASSUME QInv, PushLink PROVE QInv'
<1>1. /\ pc \in {"create: link", "yield: link"}
      /\ pc' = IF pc = "create: link" THEN "create: tail" ELSE "yield: tail"
      /\ UNCHANGED <<tail, count, current, proc, prev, curr, fifo>>
  BY DEF PushLink
<1>2. Goal = fifo /\ Goal' = Append(fifo, proc)  BY <1>1 DEF Goal, Pushed, Popped, Removed
<1>3. /\ next \in [Proc -> Proc \cup {NULL}] /\ fifo \in Seq(Proc) /\ proc \in Proc
      /\ Spells(head, next, fifo, NULL) /\ tail = Last(fifo) /\ Distinct(fifo)
      /\ ~ In(proc, fifo)
  BY <1>1, <1>2 DEF QInv, TypeOK, Pushing
<1>4. /\ Listed(fifo) /\ Len(Goal') = Len(fifo) + 1 /\ Goal'[Len(fifo) + 1] = proc
      /\ \A i \in 1 .. Len(fifo) : Goal'[i] = fifo[i]
  BY <1>2, <1>3, PushedSeq, SeqListed
<1>5. tail = NULL <=> Len(fifo) = 0
  <2>1. Len(fifo) # 0 => Len(fifo) \in 1 .. Len(fifo)  BY <1>4 DEF Listed
  <2> QED  BY <1>3, <1>4, <2>1, QueueAssumption DEF Last, Listed
<1>6. /\ Len(fifo) = 0 => head' = proc /\ next' = next
      /\ Len(fifo) # 0 => head' = head /\ next' = [next EXCEPT ![fifo[Len(fifo)]] = proc]
  BY <1>3, <1>5 DEF PushLink, Last
<1>7. Spells(head', next', Goal', NULL)  BY <1>3, <1>4, <1>6, PushSpells
<1>8. TypeOK'
  <2>1. head' \in Proc \cup {NULL}  BY <1>3, <1>6 DEF QInv, TypeOK
  <2>2. next' \in [Proc -> Proc \cup {NULL}]
    <3> DEFINE l == fifo[Len(fifo)]
    <3> HIDE DEF l
    <3>1. next' = next \/ next' = [next EXCEPT ![l] = proc]  BY <1>6 DEF l
    <3> QED  BY <1>3, <3>1
  <2> QED  BY <1>1, <2>1, <2>2 DEF QInv, TypeOK
<1> HIDE DEF Goal
<1> QED  BY <1>1, <1>7, <1>8 DEF QInv, Pushing, Popped, Removed

LEMMA PushTailQInv == ASSUME QInv, PushTail PROVE QInv'
<1>1. /\ pc \in {"create: tail", "yield: tail"} /\ tail' = proc
      /\ pc' = IF pc = "create: tail" THEN "create: count" ELSE "yield: count"
      /\ UNCHANGED <<head, count, next, current, proc, prev, curr, fifo>>
  BY DEF PushTail
<1>2. Goal = Append(fifo, proc) /\ Goal' = Goal  BY <1>1 DEF Goal, Pushed, Popped, Removed
<1>3. fifo \in Seq(Proc) /\ proc \in Proc  BY <1>1 DEF QInv, TypeOK, Pushing
<1>4. proc = Last(Goal)
  <2>1. Len(Goal) = Len(fifo) + 1 /\ Goal[Len(fifo) + 1] = proc /\ Len(fifo) \in Nat
    BY <1>2, <1>3, PushedSeq, SeqListed DEF Listed
  <2> QED  BY <2>1 DEF Last
<1>5. TypeOK'  BY <1>1, <1>3 DEF QInv, TypeOK
<1> QED  BY <1>1, <1>2, <1>4, <1>5 DEF QInv, Pushing, Popped, Removed

LEMMA PushCountQInv == ASSUME QInv, PushCount PROVE QInv'
<1>a. fifo' = Append(fifo, proc)  BY DEF PushCount
<1>1. /\ pc \in {"create: count", "yield: count"} /\ count' = count + 1
      /\ pc' = IF pc = "create: count" THEN "idle" ELSE "pop"
      /\ UNCHANGED <<head, tail, next, current, proc, prev, curr>>
  BY DEF PushCount
<1>2. Goal = fifo' /\ Goal' = fifo'  BY <1>a, <1>1 DEF Goal, Pushed, Popped, Removed
<1>3. fifo \in Seq(Proc) /\ proc \in Proc /\ ~ In(proc, fifo) /\ Distinct(fifo)
  BY <1>1 DEF QInv, TypeOK, Pushing
<1>4. /\ fifo' \in Seq(Proc) /\ Listed(fifo) /\ Len(fifo') = Len(fifo) + 1
      /\ fifo'[Len(fifo) + 1] = proc /\ \A i \in 1 .. Len(fifo) : fifo'[i] = fifo[i]
  <2>1. Listed(fifo)  BY <1>3, SeqListed
  <2>2. /\ Append(fifo, proc) \in Seq(Proc) /\ Len(Append(fifo, proc)) = Len(fifo) + 1
        /\ Append(fifo, proc)[Len(fifo) + 1] = proc
        /\ \A i \in 1 .. Len(fifo) : Append(fifo, proc)[i] = fifo[i]
    BY <1>3, AppendProperties
  <2> QED  BY ONLY <1>a, <2>1, <2>2
<1>5. /\ Len(fifo) \in Nat /\ Len(fifo) + 1 # 0
      /\ \A i \in 1 .. Len(fifo) + 1 : i \in 1 .. Len(fifo) \/ i = Len(fifo) + 1
  BY <1>4 DEF Listed
<1>6. Distinct(fifo')  BY <1>3, <1>4, <1>5 DEF Distinct, In
<1>7. pc' = "idle" => ~ In(current', fifo')
  <2> SUFFICES ASSUME pc' = "idle" PROVE ~ In(current, fifo')  BY <1>1
  <2>1. ~ In(current, fifo) /\ proc # current  BY <1>1 DEF QInv
  <2> QED  BY <1>4, <1>5, <2>1 DEF In
<1>8. TypeOK'
  <2>1. count' = Len(fifo')  BY <1>1, <1>4, <1>5 DEF QInv
  <2>2. count' \in Nat  BY ONLY <1>4, <2>1, LenProperties
  <2> QED  BY <1>1, <1>4, <2>2 DEF QInv, TypeOK
<1>9. count' = Len(fifo') /\ Len(fifo') # 0  BY <1>1, <1>4, <1>5 DEF QInv
<1>10. Spells(head', next', Goal', NULL) /\ tail' = Last(Goal')  BY <1>1, <1>2 DEF QInv
<1> QED  BY <1>1, <1>6, <1>7, <1>8, <1>9, <1>10 DEF QInv, Pushing, Popped, Removed

LEMMA PopHeadQInv == ASSUME QInv, PopHead PROVE QInv'
<1> DEFINE t == Tail(fifo)
<1>1. pc = "pop" /\ UNCHANGED <<tail, count, next, current, fifo>>  BY DEF PopHead
<1>2. Goal = fifo  BY <1>1 DEF Goal, Pushed, Popped, Removed
<1>3. /\ next \in [Proc -> Proc \cup {NULL}] /\ fifo \in Seq(Proc) /\ Len(fifo) # 0
      /\ Spells(head, next, fifo, NULL) /\ tail = Last(fifo) /\ Distinct(fifo)
  BY <1>1, <1>2 DEF QInv, TypeOK
<1>4. Listed(fifo) /\ Len(t) = Len(fifo) - 1 /\ \A i \in 1 .. Len(t) : t[i] = fifo[i + 1]
  BY <1>3, PoppedSeq, SeqListed
<1> HIDE DEF t
<1>5. head = fifo[1] /\ head \in Proc /\ head # NULL /\ Spells(next[head], next, t, head)
  <2>1. /\ Listed(fifo) /\ Distinct(fifo) /\ Spells(head, next, fifo, NULL) /\ Len(fifo) # 0
        /\ Len(t) = Len(fifo) - 1 /\ \A i \in 1 .. Len(t) : t[i] = fifo[i + 1]
    BY <1>3, <1>4
  <2> QED  BY ONLY <2>1, PopSpells
<1>6. pc' = "pop: tail" /\ proc' = head /\ head' = next[head] /\ UNCHANGED <<prev, curr>>
  BY <1>5 DEF PopHead
<1>7. Goal' = t  BY <1>1, <1>6 DEF Goal, Pushed, Popped, Removed, t
<1>8. Spells(head', next', Goal', proc')  BY <1>1, <1>5, <1>6, <1>7
<1>9. TypeOK'
  <2>1. next[head] \in Proc \cup {NULL}  BY <1>3, <1>5
  <2> QED  BY <1>1, <1>5, <1>6, <2>1 DEF QInv, TypeOK
<1> QED
  BY <1>1, <1>3, <1>5, <1>6, <1>8, <1>9 DEF QInv, Pushing, Popped, Removed

LEMMA PopTailQInv == ASSUME QInv, PopTail PROVE QInv'
<1>1. /\ pc = "pop: tail" /\ pc' = "pop: unlink" /\ tail' = IF head = NULL THEN NULL ELSE tail
      /\ UNCHANGED <<head, count, next, current, proc, prev, curr, fifo>>
  BY DEF PopTail
<1>2. Goal = Tail(fifo) /\ Goal' = Goal  BY <1>1 DEF Goal, Pushed, Popped, Removed
<1>3. /\ fifo \in Seq(Proc) /\ Len(fifo) # 0 /\ head = First(Goal) /\ tail = Last(fifo)
  BY <1>1 DEF QInv, TypeOK, Spells, Popped
<1>4. /\ Listed(fifo) /\ Listed(Goal) /\ Len(Goal) = Len(fifo) - 1
      /\ \A i \in 1 .. Len(Goal) : Goal[i] = fifo[i + 1]
  BY <1>2, <1>3, PoppedSeq, SeqListed
<1>5. tail' = Last(Goal)
  <2>1. CASE Len(Goal) = 0  BY <1>1, <1>3, <2>1 DEF First, Last
  <2>2. CASE Len(Goal) # 0
    <3>1. 1 \in 1 .. Len(Goal) /\ Len(Goal) \in 1 .. Len(Goal) /\ Len(Goal) + 1 = Len(fifo)
      BY <1>4, <2>2 DEF Listed
    <3>2. head # NULL  BY <1>3, <1>4, <2>2, <3>1, QueueAssumption DEF First, Listed
    <3> QED  BY <1>1, <1>3, <1>4, <2>2, <3>1, <3>2 DEF Last
  <2> QED  BY <2>1, <2>2
<1>6. TypeOK'  BY <1>1 DEF QInv, TypeOK
<1> HIDE DEF Goal
<1> QED  BY <1>1, <1>2, <1>5, <1>6 DEF QInv, Pushing, Popped, Removed

LEMMA ClearSpells ==
  ASSUME NEW h, NEW nx \in [Proc -> Proc \cup {NULL}], NEW s, NEW p \in Proc,
         Spells(h, nx, s, p), ~ In(p, s), Listed(s)
  PROVE  Spells(h, [nx EXCEPT ![p] = NULL], s, NULL)
BY DEF Spells, In, Listed

LEMMA PopUnlinkQInv == ASSUME QInv, PopUnlink PROVE QInv'
<1>1. /\ pc = "pop: unlink" /\ pc' = "pop: count" /\ next' = [next EXCEPT ![proc] = NULL]
      /\ UNCHANGED <<head, tail, count, current, proc, prev, curr, fifo>>
  BY DEF PopUnlink
<1>2. Goal = Tail(fifo) /\ Goal' = Goal  BY <1>1 DEF Goal, Pushed, Popped, Removed
<1>3. /\ next \in [Proc -> Proc \cup {NULL}] /\ fifo \in Seq(Proc) /\ Len(fifo) # 0
      /\ proc = fifo[1] /\ Distinct(fifo) /\ Spells(head, next, Goal, proc)
  BY <1>1 DEF QInv, TypeOK, Popped
<1>4. /\ Listed(fifo) /\ Listed(Goal) /\ Len(Goal) = Len(fifo) - 1
      /\ \A i \in 1 .. Len(Goal) : Goal[i] = fifo[i + 1]
  BY <1>2, <1>3, PoppedSeq, SeqListed
<1>5. proc \in Proc /\ ~ In(proc, Goal)
  <2>1. /\ 1 \in 1 .. Len(fifo)
        /\ \A i \in 1 .. Len(Goal) : i + 1 \in 1 .. Len(fifo) /\ i + 1 # 1
    BY <1>3, <1>4 DEF Listed
  <2> QED  BY <1>3, <1>4, <2>1 DEF Listed, In, Distinct
<1>6. Spells(head, next', Goal, NULL)  BY <1>1, <1>3, <1>4, <1>5, ClearSpells
<1>7. next' \in [Proc -> Proc \cup {NULL}]  BY <1>1, <1>3
<1>8. TypeOK'  BY <1>1, <1>7 DEF QInv, TypeOK
<1> HIDE DEF Goal
<1> QED  BY <1>1, <1>2, <1>6, <1>8 DEF QInv, Pushing, Popped, Removed

LEMMA PopCountQInv == ASSUME QInv, PopCount PROVE QInv'
<1>a. fifo' = Tail(fifo)  BY DEF PopCount
<1>1. /\ pc = "pop: count" /\ pc' = "idle" /\ count' = count - 1 /\ current' = proc
      /\ UNCHANGED <<head, tail, next, proc, prev, curr>>
  BY DEF PopCount
<1>2. Goal = fifo' /\ Goal' = fifo'  BY <1>a, <1>1 DEF Goal, Pushed, Popped, Removed
<1>3. /\ fifo \in Seq(Proc) /\ Len(fifo) # 0 /\ proc = fifo[1] /\ Distinct(fifo)
      /\ count = Len(fifo)
  BY <1>1 DEF QInv, TypeOK, Popped
<1>4. /\ Listed(fifo) /\ fifo' \in Seq(Proc) /\ Listed(fifo') /\ Len(fifo') = Len(fifo) - 1
      /\ \A i \in 1 .. Len(fifo') : fifo'[i] = fifo[i + 1]
  BY <1>a, <1>3, PoppedSeq, SeqListed
<1>5. /\ 1 \in 1 .. Len(fifo)
      /\ \A i \in 1 .. Len(fifo') : i + 1 \in 1 .. Len(fifo) /\ i + 1 # 1
      /\ \A i, j \in 1 .. Len(fifo') : i + 1 = j + 1 => i = j
  BY <1>3, <1>4 DEF Listed
<1>6. Distinct(fifo') /\ ~ In(proc, fifo') /\ proc \in Proc
  BY <1>3, <1>4, <1>5 DEF Distinct, In, Listed
<1>7. count' = Len(fifo') /\ count' \in Nat  BY <1>1, <1>3, <1>4 DEF Listed
<1>8. TypeOK'  BY <1>1, <1>4, <1>6, <1>7 DEF QInv, TypeOK
<1>9. Spells(head', next', Goal', NULL) /\ tail' = Last(Goal')  BY <1>1, <1>2 DEF QInv
<1> QED  BY <1>1, <1>6, <1>7, <1>8, <1>9 DEF QInv, Pushing, Popped, Removed

LEMMA KillQInv ==
  ASSUME QInv, NEW p \in Proc, process_kill(p)
  PROVE  QInv'
<1>1. /\ pc = "idle" /\ pc' = "remove: scan" /\ proc' = p /\ prev' = NULL /\ curr' = head
      /\ UNCHANGED <<head, tail, count, next, current, fifo>>
  BY DEF process_kill, queue
<1>2. Goal = fifo /\ Goal' = fifo  BY <1>1 DEF Goal, Pushed, Popped, Removed
<1>3. fifo \in Seq(Proc) /\ head = First(fifo)  BY <1>2 DEF QInv, TypeOK, Spells
<1>4. Len(fifo) \in Nat  BY <1>3, LenProperties
<1>5. 1 \in 1 .. Len(fifo) + 1 /\ Cursor(fifo, proc, 1)'
  <2>1. 1 \in 1 .. Len(fifo) + 1 /\ (1 = Len(fifo) + 1 <=> Len(fifo) = 0)  BY <1>4
  <2>2. \A i \in 1 .. 1 - 1 : FALSE  OBVIOUS
  <2> QED  BY <1>1, <1>3, <2>1, <2>2 DEF Cursor, First
<1>6. TypeOK'  BY <1>1 DEF QInv, TypeOK
<1> QED  BY <1>1, <1>2, <1>5, <1>6 DEF QInv, Pushing, Popped, Removed

LEMMA RemoveScanQInv == ASSUME QInv, RemoveScan PROVE QInv'
<1>1. pc = "remove: scan" /\ UNCHANGED <<tail, count, current, proc, fifo>>  BY DEF RemoveScan
<1>2. Goal = fifo  BY <1>1 DEF Goal, Pushed, Popped, Removed
<1>3. /\ next \in [Proc -> Proc \cup {NULL}] /\ fifo \in Seq(Proc) /\ Distinct(fifo)
      /\ Spells(head, next, fifo, NULL) /\ tail = Last(fifo) /\ proc \in Proc
      /\ ~ In(current, fifo)
  BY <1>1, <1>2 DEF QInv, TypeOK
<1>4. Listed(fifo)  BY <1>3, SeqListed
<1>5. PICK k \in 1 .. Len(fifo) + 1 : Cursor(fifo, proc, k)  BY <1>1 DEF QInv
<1>6. /\ k # Len(fifo) + 1 => k \in 1 .. Len(fifo) /\ k + 1 \in 1 .. Len(fifo) + 1
      /\ (k + 1) - 1 = k /\ k + 1 # 1
      /\ k + 1 = Len(fifo) + 1 <=> k = Len(fifo)
      /\ \A i \in 1 .. (k + 1) - 1 : i = k \/ i \in 1 .. k - 1
  BY <1>4, <1>5 DEF Listed
<1>7. CASE curr = NULL
  <2>1. pc' = "idle" /\ UNCHANGED <<head, next, prev, curr>>
    <3>1. curr # proc  BY <1>3, <1>7, QueueAssumption
    <3> QED  BY <1>7, <3>1 DEF RemoveScan
  <2>2. Goal' = fifo  BY <1>1, <2>1 DEF Goal, Pushed, Popped, Removed
  <2>3. TypeOK'  BY <1>1, <2>1 DEF QInv, TypeOK
  <2> QED  BY <1>1, <1>2, <2>1, <2>2, <2>3 DEF QInv, Pushing, Popped, Removed
<1>8. CASE curr # NULL /\ curr # proc
  <2>1. pc' = pc /\ prev' = curr /\ curr' = next[curr] /\ UNCHANGED <<head, next>>
    BY <1>8 DEF RemoveScan
  <2>2. Goal' = fifo  BY <1>1, <2>1 DEF Goal, Pushed, Popped, Removed
  <2>3. k \in 1 .. Len(fifo) /\ curr = fifo[k]  BY <1>5, <1>6, <1>8 DEF Cursor
  <2>4. curr \in Proc  BY <1>4, <2>3 DEF Listed
  <2>5. next[curr] = IF k = Len(fifo) THEN NULL ELSE fifo[k + 1]  BY <1>3, <2>3 DEF Spells
  <2>6. \A i \in 1 .. k - 1 : fifo[i] # proc  BY <1>5 DEF Cursor
  <2>7. \A i \in 1 .. (k + 1) - 1 : fifo[i] # proc  BY <1>6, <1>8, <2>3, <2>6
  <2>8. Cursor(fifo, proc, k + 1)'  BY <1>1, <1>6, <2>1, <2>3, <2>5, <2>7 DEF Cursor
  <2>9. k + 1 \in 1 .. Len(fifo) + 1  BY <1>4, <2>3 DEF Listed
  <2>10. (\E j \in 1 .. Len(fifo) + 1 : Cursor(fifo, proc, j))'  BY <1>1, <2>8, <2>9
  <2>11. TypeOK'
    <3>1. next[curr] \in Proc \cup {NULL}  BY <1>3, <2>4
    <3> QED  BY <1>1, <2>1, <2>4, <3>1 DEF QInv, TypeOK
  <2> QED  BY <1>1, <1>2, <2>1, <2>2, <2>10, <2>11 DEF QInv, Pushing, Popped, Removed
<1>9. CASE curr # NULL /\ curr = proc
  <2> DEFINE v == Without(fifo, proc)
  <2>1. k \in 1 .. Len(fifo) /\ curr = fifo[k]  BY <1>5, <1>6, <1>9 DEF Cursor
  <2>2. Skips(v, fifo, k)  BY <1>3, <1>9, <2>1, RemovedSeq
  <2>3. k # 1 => k - 1 \in 1 .. Len(fifo)  BY <1>4, <2>1 DEF Listed
  <2>4. prev = IF k = 1 THEN NULL ELSE fifo[k - 1]  BY <1>5 DEF Cursor
  <2>5. prev = NULL <=> k = 1  BY <1>4, <2>3, <2>4, QueueAssumption DEF Listed
  <2>6. pc' = "remove: tail" /\ UNCHANGED <<prev, curr>>  BY <1>9 DEF RemoveScan
  <2>7. /\ k = 1 => head' = next[fifo[k]] /\ next' = next
        /\ k # 1 => head' = head /\ next' = [next EXCEPT ![fifo[k - 1]] = next[fifo[k]]]
    <3>1. /\ prev = NULL => head' = next[curr] /\ next' = next
          /\ prev # NULL => head' = head /\ next' = [next EXCEPT ![prev] = next[curr]]
      BY <1>9 DEF RemoveScan
    <3> QED  BY <2>1, <2>4, <2>5, <3>1
  <2>8. Goal' = v  BY <1>1, <2>6 DEF Goal, Pushed, Popped, Removed
  <2> HIDE DEF v
  <2>9. /\ Spells(head', next', v, proc)
        /\ proc = Last(fifo) => next'[proc] = NULL /\ prev = Last(v)
        /\ proc # Last(fifo) => next'[proc] # NULL /\ Last(fifo) = Last(v)
    <3>1. Unlinked(head', next', fifo, k, v)
      <4>1. /\ Distinct(fifo) /\ Spells(head, next, fifo, NULL) /\ Listed(fifo)
            /\ next \in [Proc -> Proc \cup {NULL}]
        BY <1>3, <1>4
      <4> QED  BY ONLY <2>1, <2>2, <2>7, <4>1, RemoveSpells
    <3> QED  BY <1>9, <2>1, <2>4, <3>1 DEF Unlinked
  <2>10. TypeOK'
    <3>1. next[curr] \in Proc \cup {NULL}  BY <1>3, <1>9
    <3>2. next' = next \/ \E q : next' = [next EXCEPT ![q] = next[curr]]  BY <2>1, <2>7
    <3>3. next' \in [Proc -> Proc \cup {NULL}]  BY <1>3, <3>1, <3>2
    <3>4. head' \in Proc \cup {NULL}  BY <2>1, <2>7, <3>1 DEF QInv, TypeOK
    <3> QED  BY <1>1, <2>6, <3>3, <3>4 DEF QInv, TypeOK
  <2>11. In(proc, fifo)  BY <1>9, <2>1 DEF In
  <2> QED  BY <1>1, <1>3, <1>9, <2>6, <2>8, <2>9, <2>10, <2>11
             DEF QInv, Pushing, Popped, Removed
<1> QED  BY <1>7, <1>8, <1>9

LEMMA RemoveTailQInv == ASSUME QInv, RemoveTail PROVE QInv'
<1>1. /\ pc = "remove: tail" /\ pc' = "remove: unlink"
      /\ tail' = IF next[curr] = NULL THEN prev ELSE tail
      /\ UNCHANGED <<head, count, next, current, proc, prev, curr, fifo>>
  BY DEF RemoveTail
<1>2. Goal = Without(fifo, proc) /\ Goal' = Goal  BY <1>1 DEF Goal, Pushed, Popped, Removed
<1> HIDE DEF Goal
<1>3. tail' = Last(Goal)  BY <1>1 DEF QInv, Removed
<1>4. TypeOK'  BY <1>1 DEF QInv, TypeOK
<1> QED  BY <1>1, <1>2, <1>3, <1>4 DEF QInv, Pushing, Popped, Removed

LEMMA RemoveUnlinkQInv == ASSUME QInv, RemoveUnlink PROVE QInv'
<1>1. /\ pc = "remove: unlink" /\ pc' = "remove: count" /\ next' = [next EXCEPT ![curr] = NULL]
      /\ UNCHANGED <<head, tail, count, current, proc, prev, curr, fifo>>
  BY DEF RemoveUnlink
<1>2. Goal = Without(fifo, proc) /\ Goal' = Goal  BY <1>1 DEF Goal, Pushed, Popped, Removed
<1>3. /\ next \in [Proc -> Proc \cup {NULL}] /\ fifo \in Seq(Proc) /\ proc \in Proc
      /\ curr = proc /\ Distinct(fifo) /\ Spells(head, next, Goal, proc)
  BY <1>1 DEF QInv, TypeOK, Removed
<1>4. PICK k \in 1 .. Len(fifo) : fifo[k] = proc  BY <1>1 DEF QInv, Removed, In
<1>5. Listed(fifo) /\ Listed(Goal) /\ Skips(Goal, fifo, k)
  BY <1>2, <1>3, <1>4, RemovedSeq, SeqListed
<1> HIDE DEF Goal
<1>6. ~ In(proc, Goal)
  <2>1. \A i \in 1 .. Len(fifo) - 1 : (IF i < k THEN i ELSE i + 1) \in 1 .. Len(fifo) \ {k}
    BY <1>4, <1>5 DEF Listed
  <2> QED  BY <1>3, <1>4, <1>5, <2>1 DEF Skips, In, Distinct
<1>7. Spells(head, next', Goal, NULL)  BY <1>1, <1>3, <1>5, <1>6, ClearSpells
<1>8. next' \in [Proc -> Proc \cup {NULL}]  BY <1>1, <1>3
<1>9. TypeOK'  BY <1>1, <1>8 DEF QInv, TypeOK
<1> QED  BY <1>1, <1>2, <1>7, <1>9 DEF QInv, Pushing, Popped, Removed

LEMMA RemoveCountQInv == ASSUME QInv, RemoveCount PROVE QInv'
<1>a. fifo' = Without(fifo, proc)  BY DEF RemoveCount
<1>1. /\ pc = "remove: count" /\ pc' = "idle" /\ count' = count - 1
      /\ UNCHANGED <<head, tail, next, current, proc, prev, curr>>
  BY DEF RemoveCount
<1>2. Goal = fifo' /\ Goal' = fifo'  BY <1>a, <1>1 DEF Goal, Pushed, Popped, Removed
<1>3. fifo \in Seq(Proc) /\ Distinct(fifo) /\ count = Len(fifo) /\ ~ In(current, fifo)
  BY <1>1 DEF QInv, TypeOK
<1>4. PICK k \in 1 .. Len(fifo) : fifo[k] = proc  BY <1>1 DEF QInv, Removed, In
<1>5. Listed(fifo) /\ fifo' \in Seq(Proc) /\ Listed(fifo') /\ Skips(fifo', fifo, k)
  BY <1>a, <1>3, <1>4, RemovedSeq, SeqListed
<1> DEFINE At(i) == IF i < k THEN i ELSE i + 1
<1>6. /\ Len(fifo') = Len(fifo) - 1 /\ \A i \in 1 .. Len(fifo') : fifo'[i] = fifo[At(i)]
      /\ \A i \in 1 .. Len(fifo') : /\ At(i) \in 1 .. Len(fifo)
                                    /\ \A j \in 1 .. Len(fifo') : At(i) = At(j) => i = j
  BY <1>4, <1>5 DEF Listed, Skips
<1> HIDE DEF At
<1>7. Distinct(fifo') /\ ~ In(current, fifo')  BY <1>3, <1>6 DEF Distinct, In
<1>8. count' = Len(fifo') /\ count' \in Nat  BY <1>1, <1>3, <1>5, <1>6 DEF Listed
<1>9. TypeOK'  BY <1>1, <1>5, <1>8 DEF QInv, TypeOK
<1>10. Spells(head', next', Goal', NULL) /\ tail' = Last(Goal')  BY <1>1, <1>2 DEF QInv
<1> QED  BY <1>1, <1>7, <1>8, <1>9, <1>10 DEF QInv, Pushing, Popped, Removed

LEMMA NextQInv == ASSUME QInv, [Next]_vars PROVE QInv'
<1>1. ASSUME NEW p \in Proc, process_create(p) PROVE QInv'
  <2>1. pc = "idle" /\ Push(p, "create: link") /\ p # current /\ ~ In(p, fifo)
    BY <1>1 DEF process_create, Members, In
  <2> QED  BY <2>1, PushQInv
<1>2. ASSUME NEW p \in Proc, process_kill(p) PROVE QInv'  BY <1>2, KillQInv
<1>3. CASE yield
  <2>1. pc = "idle" /\ Push(current, "yield: link")  BY <1>3 DEF yield
  <2>2. current \in Proc /\ ~ In(current, fifo)  BY <2>1 DEF QInv, TypeOK
  <2> QED  BY <2>1, <2>2, PushQInv
<1>4. CASE PushLink  BY <1>4, PushLinkQInv
<1>5. CASE PushTail  BY <1>5, PushTailQInv
<1>6. CASE PushCount  BY <1>6, PushCountQInv
<1>7. CASE PopHead  BY <1>7, PopHeadQInv
<1>8. CASE PopTail  BY <1>8, PopTailQInv
<1>9. CASE PopUnlink  BY <1>9, PopUnlinkQInv
<1>10. CASE PopCount  BY <1>10, PopCountQInv
<1>11. CASE RemoveScan  BY <1>11, RemoveScanQInv
<1>12. CASE RemoveTail  BY <1>12, RemoveTailQInv
<1>13. CASE RemoveUnlink  BY <1>13, RemoveUnlinkQInv
<1>14. CASE RemoveCount  BY <1>14, RemoveCountQInv
<1>15. CASE UNCHANGED vars
  <2>1. UNCHANGED <<head, tail, count, next, current, pc, proc, prev, curr, fifo>>
    BY <1>15 DEF vars, queue
  <2>2. Goal' = Goal  BY <2>1 DEF Goal
  <2>3. TypeOK'  BY <2>1 DEF QInv, TypeOK
  <2>4. \A k : Cursor(fifo, proc, k)' <=> Cursor(fifo, proc, k)  BY <2>1 DEF Cursor
  <2> QED  BY <2>1, <2>2, <2>3, <2>4, ZenonT(60) DEF QInv
<1> QED
  BY <1>1, <1>2, <1>3, <1>4, <1>5, <1>6, <1>7, <1>8, <1>9, <1>10, <1>11, <1>12, <1>13,
     <1>14, <1>15 DEF Next

LEMMA QInvAlways == Spec => []QInv
BY InitQInv, NextQInv, PTL DEF Spec

-----------------------------------------------------------------------------
(* queue_push, queue_pop and queue_remove keep the list a FIFO: between    *)
(* calls head, tail, count and the next fields are exactly the processes   *)
(* queued, in order, whatever their number and the calls before.           *)
THEOREM QueueStaysFifo == Spec => []QueueIsFifo
<1>1. QInv => QueueIsFifo
  <2> SUFFICES ASSUME QInv, pc = "idle" PROVE Linked(fifo) /\ count = Len(fifo)
    BY DEF QueueIsFifo
  <2>1. Goal = fifo  BY DEF Goal, Pushed, Popped, Removed
  <2>2. Spells(head, next, fifo, NULL) /\ tail = Last(fifo) /\ fifo \in Seq(Proc)
    BY <2>1 DEF QInv, TypeOK
  <2>3. fifo = << >> <=> Len(fifo) = 0  BY <2>2, SeqListed
  <2>4. Linked(fifo)
    <3>1. \A p \in Proc : (\A i \in 1 .. Len(fifo) : fifo[i] # p) => next[p] = NULL
      BY <2>2, QueueAssumption DEF Spells, In
    <3> QED  BY <2>2, <2>3, <3>1 DEF Linked, Spells, First, Last
  <2> QED  BY <2>4 DEF QInv
<1> QED  BY <1>1, QInvAlways, PTL

(* No process is queued twice and the current one is not queued, although  *)
(* queue_push does not look: process_create pushes a PCB that was free and *)
(* yield the running one, which was popped.                                *)
THEOREM NobodyQueuedTwice == Spec => []NoDuplicates
<1>1. QInv => NoDuplicates  BY DEF QInv, NoDuplicates, Distinct, In, Members
<1> QED  BY <1>1, QInvAlways, PTL
=============================================================================
