------------------------ MODULE ProcessManagerProofs ------------------------
(***************************************************************************)
(* Proofs, for every table size and every set of priorities, that the      *)
(* ready queues stay sound, the process accounting stays exact, idle stays *)
(* dispatchable, quanta are respected, the boot stack is never left, no    *)
(* queued process is lost and the highest priority is dispatched first.    *)
(***************************************************************************)
EXTENDS ProcessManager, TLAPS, FiniteSetTheorems

State == {"READY", "RUNNING", "TERMINATED"}

(* What ReadyQueueSound says of queues q under policy po, for processes of *)
(* priorities pr and states st, current aside.                             *)
Sound(po, pr, st, q) ==
  /\ q \in [Level -> Seq(Slot)]
  /\ \A l \in Level :
       /\ \A i \in 1 .. Len(q[l]) : /\ st[q[l][i]] = "READY"
                                    /\ LevelOf(po, pr[q[l][i]]) = l
       /\ \A i, j \in 1 .. Len(q[l]) : q[l][i] = q[l][j] => i = j

In(q, s) == \E l \in Level : queue_contains(q[l], s)

Pushed(q, l, s) == [q EXCEPT ![l] = Append(@, s)]
Popped(q, l)    == [q EXCEPT ![l] = Tail(@)]
With(st, s, v)  == [st EXCEPT ![s] = v]

LiveIn(st) == {s \in Slot : st[s] # "TERMINATED"}

(* The inductive invariant.  Beyond the properties themselves it needs     *)
(* that pids are fresh, that the current process is live, and that idle is *)
(* not queued when kernel_main or bench makes it current by hand.          *)
IndInv ==
  /\ TypeOK
  /\ ReadyQueueSound
  /\ LiveAccounting
  /\ IdleIsSafetyNet
  /\ pc = "init" <=> policy = NONE
  /\ next_pid >= 2
  /\ \A s \in Slot : pid[s] < next_pid
  /\ current # NULL /\ pc # "panic" => IsLive(current)
  /\ pc \in {"init", "boot", "bench"} => \A s \in Slot : Queued(s) => pid[s] # 1

-----------------------------------------------------------------------------
(* The queues. *)

(* The level a priority is clamped to exists, whatever the caller passed. *)
LEMMA LevelOfType ==
  ASSUME NEW p, NEW pr \in Nat
  PROVE  LevelOf(p, pr) \in Level
BY DEF LevelOf, Level, PRIORITY_REALTIME

(* scheduler_next finds a non-empty queue whenever there is one, and no    *)
(* queue that the policy scans before it holds a process.                  *)
LEMMA NextLevelExists ==
  ASSUME NEW q \in [Level -> Seq(Slot)], q # Empty
  PROVE  /\ NextLevel(q) \in Level
         /\ q[NextLevel(q)] # << >>
         /\ \A m \in Level : q[m] # << >> => ~ Before(policy, m, NextLevel(q))
<1> DEFINE N(l) == q[l] # << >>
<1> DEFINE Best(l) == N(l) /\ \A m \in Level : N(m) => ~ Before(policy, m, l)
<1>1. \E l \in Level : N(l)
  BY DEF Empty
<1>2. \E l \in Level : Best(l)
  <2> HIDE DEF N
  <2>1. CASE policy = "MLQ"
    <3>1. \E l \in Level : N(l) /\ \A m \in Level : N(m) => ~ (m < l)
      BY <1>1 DEF Level
    <3> QED BY <2>1, <3>1 DEF Before
  <2>2. CASE policy # "MLQ"
    <3>1. \E l \in Level : N(l) /\ \A m \in Level : N(m) => ~ (m > l)
      BY <1>1 DEF Level
    <3> QED BY <2>2, <3>1 DEF Before
  <2> QED BY <2>1, <2>2
<1>3. NextLevel(q) = CHOOSE l \in Level : Best(l)
  BY DEF NextLevel
<1> QED BY <1>2, <1>3

(* Soundness depends only on the fields of the queued processes. *)
LEMMA SoundAgrees ==
  ASSUME NEW po, NEW pr, NEW ps, NEW st, NEW su, NEW q, Sound(po, pr, st, q),
         \A l \in Level : \A i \in 1 .. Len(q[l]) : /\ su[q[l][i]] = st[q[l][i]]
                                                    /\ ps[q[l][i]] = pr[q[l][i]]
  PROVE  Sound(po, ps, su, q)
BY DEF Sound

(* Enqueuing a READY process that is in no queue. *)
LEMMA AddSound ==
  ASSUME NEW po, NEW pr \in [Slot -> Nat], NEW st, NEW q, Sound(po, pr, st, q),
         NEW c \in Slot, ~ In(q, c), st[c] = "READY",
         NEW r, r = Pushed(q, LevelOf(po, pr[c]), c)
  PROVE  /\ Sound(po, pr, st, r)
         /\ r # Empty
         /\ \A s \in Slot : In(r, s) <=> In(q, s) \/ s = c
<1> USE DEF Pushed
<1> DEFINE k == LevelOf(po, pr[c])
<1>1. k \in Level
  BY LevelOfType
<1>2. q \in [Level -> Seq(Slot)]
  BY DEF Sound
<1>3. /\ r \in [Level -> Seq(Slot)]
      /\ Len(r[k]) = Len(q[k]) + 1
      /\ r[k][Len(q[k]) + 1] = c
      /\ \A i \in 1 .. Len(q[k]) : r[k][i] = q[k][i]
      /\ \A l \in Level : l # k => r[l] = q[l]
  <2> HIDE DEF k
  <2>1. r = [q EXCEPT ![k] = Append(@, c)]
    BY DEF k
  <2>2. q[k] \in Seq(Slot)
    BY <1>1, <1>2
  <2>3. Append(q[k], c) \in Seq(Slot)
    BY <2>2
  <2> QED BY <1>1, <1>2, <2>1, <2>2, <2>3
<1>4. \A l \in Level : Len(q[l]) \in Nat /\ Len(r[l]) \in Nat
  BY <1>2, <1>3
<1>5. \A i \in 1 .. Len(q[k]) : q[k][i] # c
  BY <1>1 DEF In, queue_contains
<1> HIDE DEF k
<1>6. \A l \in Level :
        /\ \A i \in 1 .. Len(r[l]) : /\ st[r[l][i]] = "READY"
                                     /\ LevelOf(po, pr[r[l][i]]) = l
        /\ \A i, j \in 1 .. Len(r[l]) : r[l][i] = r[l][j] => i = j
  <2> TAKE l \in Level
  <2>1. CASE l # k
    BY <2>1, <1>3 DEF Sound
  <2>2. CASE l = k
    <3>1. \A i \in 1 .. Len(r[k]) : i \in 1 .. Len(q[k]) \/ i = Len(q[k]) + 1
      BY <1>1, <1>3, <1>4
    <3>2. LevelOf(po, pr[c]) = k
      BY DEF k
    <3> QED BY <1>1, <1>3, <1>4, <1>5, <2>2, <3>1, <3>2 DEF Sound
  <2> QED BY <2>1, <2>2
<1>7. r # Empty
  <2>1. r[k] # << >>
    <3>1. Len(r[k]) # 0
      BY <1>1, <1>3, <1>4
    <3> QED BY <3>1
  <2> QED BY <1>1, <2>1, Zenon DEF Empty
<1>8. \A s \in Slot : In(r, s) <=> In(q, s) \/ s = c
  <2> TAKE s \in Slot
  <2>1. \A l \in Level : l # k => (queue_contains(r[l], s) <=> queue_contains(q[l], s))
    BY <1>3
  <2>2. queue_contains(r[k], s) <=> queue_contains(q[k], s) \/ s = c
    BY <1>1, <1>3, <1>4 DEF queue_contains
  <2> QED BY <1>1, <2>1, <2>2 DEF In
<1> QED BY <1>3, <1>6, <1>7, <1>8, Zenon DEF Sound

(* What scheduler_next returns and leaves behind. *)
LEMMA DispatchSound ==
  ASSUME TypeOK, NEW st \in [Slot -> State], NEW q, Sound(policy, prio, st, q), q # Empty,
         NEW k, k = NextLevel(q),
         NEW n, n = Head(q[k]),
         NEW r, r = Popped(q, k),
         NEW su, su = With(st, n, "RUNNING")
  PROVE  /\ n \in Slot
         /\ st[n] = "READY"
         /\ In(q, n)
         /\ Sound(policy, prio, su, r)
         /\ ~ In(r, n)
         /\ \A s \in Slot : In(q, s) <=> In(r, s) \/ s = n
<1> USE DEF Popped
<1>1. q \in [Level -> Seq(Slot)]
  BY DEF Sound
<1>2. k \in Level /\ q[k] \in Seq(Slot) /\ q[k] # << >>
  BY <1>1, NextLevelExists
<1>3. /\ n = q[k][1]
      /\ n \in Slot
      /\ Len(q[k]) \in Nat \ {0}
      /\ r \in [Level -> Seq(Slot)]
      /\ Len(r[k]) = Len(q[k]) - 1
      /\ \A i \in 1 .. Len(q[k]) - 1 : r[k][i] = q[k][i + 1]
      /\ \A l \in Level : l # k => r[l] = q[l]
  <2>1. Tail(q[k]) \in Seq(Slot)
    BY <1>2
  <2> QED BY <1>1, <1>2, <2>1
<1>4. \A l \in Level : Len(q[l]) \in Nat /\ Len(r[l]) \in Nat
  BY <1>1, <1>3
<1>5. st[n] = "READY" /\ LevelOf(policy, prio[n]) = k
  BY <1>2, <1>3 DEF Sound
<1>6. ~ In(r, n)
  <2> SUFFICES ASSUME NEW l \in Level, NEW i \in 1 .. Len(r[l]), r[l][i] = n
               PROVE  FALSE
    BY Zenon DEF In, queue_contains
  <2>1. CASE l = k
    BY <1>2, <1>3, <2>1 DEF Sound
  <2>2. CASE l # k
    BY <1>3, <1>5, <2>2 DEF Sound
  <2> QED BY <2>1, <2>2
<1>7. \A l \in Level :
        /\ \A i \in 1 .. Len(r[l]) : /\ st[r[l][i]] = "READY"
                                     /\ LevelOf(policy, prio[r[l][i]]) = l
        /\ \A i, j \in 1 .. Len(r[l]) : r[l][i] = r[l][j] => i = j
  <2> TAKE l \in Level
  <2>1. CASE l # k
    BY <1>3, <2>1 DEF Sound
  <2>2. CASE l = k
    <3>1. \A i \in 1 .. Len(r[k]) : i + 1 \in 1 .. Len(q[k]) /\ r[k][i] = q[k][i + 1]
      BY <1>3
    <3>2. Len(r[k]) \in Nat
      BY <1>2, <1>4
    <3> QED BY <1>2, <2>2, <3>1, <3>2 DEF Sound
  <2> QED BY <2>1, <2>2
<1>8. \A l \in Level : \A i \in 1 .. Len(r[l]) : r[l][i] \in Slot /\ r[l][i] # n
  <2>1. \A l \in Level : \A i \in 1 .. Len(r[l]) : r[l][i] \in Slot
    BY ONLY <1>3
  <2>2. \A l \in Level : \A i \in 1 .. Len(r[l]) : r[l][i] # n
    BY ONLY <1>6 DEF In, queue_contains
  <2> QED BY ONLY <2>1, <2>2
<1>9. Sound(policy, prio, su, r)
  <2>1. \A l \in Level : \A i \in 1 .. Len(r[l]) : su[r[l][i]] = st[r[l][i]]
    BY <1>8, Zenon DEF With
  <2>2. Sound(policy, prio, st, r)
    BY ONLY <1>3, <1>7 DEF Sound
  <2> QED BY ONLY <2>1, <2>2, SoundAgrees
<1>10. \A s \in Slot : In(q, s) <=> In(r, s) \/ s = n
  <2> TAKE s \in Slot
  <2>1. \A l \in Level : l # k => (queue_contains(r[l], s) <=> queue_contains(q[l], s))
    BY <1>3
  <2>2. queue_contains(q[k], s) <=> queue_contains(r[k], s) \/ s = n
    <3>1. ASSUME NEW i \in 1 .. Len(q[k]), q[k][i] = s, s # n
          PROVE  queue_contains(r[k], s)
      <4>1. i # 1 /\ i - 1 \in 1 .. Len(r[k]) /\ r[k][i - 1] = s
        BY <1>3, <3>1
      <4> QED BY <4>1 DEF queue_contains
    <3>2. ASSUME NEW i \in 1 .. Len(r[k]), r[k][i] = s
          PROVE  queue_contains(q[k], s)
      <4>1. i + 1 \in 1 .. Len(q[k]) /\ q[k][i + 1] = s
        BY <1>3, <3>2
      <4> QED BY <4>1 DEF queue_contains
    <3>3. queue_contains(q[k], n)
      BY <1>3 DEF queue_contains
    <3> QED BY <3>1, <3>2, <3>3 DEF queue_contains
  <2> QED BY <1>2, <2>1, <2>2 DEF In
<1>11. In(q, n)
  BY <1>3, <1>10
<1> QED BY <1>3, <1>5, <1>6, <1>9, <1>10, <1>11, Zenon

(* Whom scheduler_next leaves behind has no higher priority than whom it   *)
(* takes, whichever way the policy's queues are numbered.                  *)
LEMMA DispatchBest ==
  ASSUME TypeOK, NEW st \in [Slot -> State], NEW q, Sound(policy, prio, st, q), q # Empty,
         NEW k, k = NextLevel(q), NEW n, n = Head(q[k]), NEW r, r = Popped(q, k),
         policy \in {"PRIORITY", "MLQ"}, NEW s \in Slot, In(r, s)
  PROVE  Rank(s) <= Rank(n)
<1> DEFINE su == With(st, n, "RUNNING")
<1>1. n \in Slot /\ In(q, n) /\ In(q, s) /\ q \in [Level -> Seq(Slot)]
  <2>1. su = With(st, n, "RUNNING")  OBVIOUS
  <2> HIDE DEF su
  <2>2. n \in Slot /\ In(q, n) /\ \A t \in Slot : In(q, t) <=> In(r, t) \/ t = n
    BY ONLY TypeOK, st \in [Slot -> State], Sound(policy, prio, st, q), q # Empty,
            k = NextLevel(q), n = Head(q[k]), r = Popped(q, k), <2>1, DispatchSound
  <2> QED BY <2>2 DEF Sound
<1>2. /\ k \in Level /\ q[k] # << >>
      /\ \A m \in Level : q[m] # << >> => ~ Before(policy, m, k)
  BY <1>1, NextLevelExists
<1>3. PICK m \in Level : queue_contains(q[m], s)
  BY <1>1 DEF In
<1>4. q[m] # << >> /\ LevelOf(policy, prio[s]) = m
  BY <1>3 DEF queue_contains, Sound
<1>5. LevelOf(policy, prio[n]) = k
  <2>1. q[k] \in Seq(Slot) /\ n = q[k][1] /\ 1 \in 1 .. Len(q[k])
    BY <1>1, <1>2
  <2> QED BY <1>2, <2>1 DEF Sound
<1>6. prio[s] \in Nat /\ prio[n] \in Nat
  BY <1>1 DEF TypeOK
<1>7. ~ Before(policy, m, k)
  BY <1>2, <1>4
<1>8. Rank(s) \in Level /\ Rank(n) \in Level
  BY <1>6, LevelOfType DEF Rank
<1>9. CASE policy = "PRIORITY"
  <2>1. Rank(s) = m /\ Rank(n) = k
    BY <1>4, <1>5, <1>9 DEF Rank
  <2> QED BY <1>2, <1>7, <1>9, <2>1 DEF Before, Level
<1>10. CASE policy = "MLQ"
  <2>1. m = PRIORITY_REALTIME - Rank(s) /\ k = PRIORITY_REALTIME - Rank(n)
    BY <1>4, <1>5, <1>10 DEF Rank, LevelOf
  <2>2. ~ (m < k)
    BY <1>7, <1>10 DEF Before
  <2> QED BY <1>8, <2>1, <2>2 DEF Level, PRIORITY_REALTIME
<1> QED BY <1>9, <1>10

(* queue_remove of a process from the one queue that holds it. *)
LEMMA QueueRemove ==
  ASSUME NEW q \in Seq(Slot), NEW s \in Slot,
         \A i, j \in 1 .. Len(q) : q[i] = q[j] => i = j,
         NEW r, r = queue_remove(q, s)
  PROVE  /\ r \in Seq(Slot)
         /\ \A t \in Slot : queue_contains(r, t) <=> queue_contains(q, t) /\ t # s
         /\ \A i, j \in 1 .. Len(r) : r[i] = r[j] => i = j
<1>1. CASE ~ queue_contains(q, s)
  <2>1. r = q
    BY <1>1 DEF queue_remove
  <2> QED BY <1>1, <2>1
<1>2. CASE queue_contains(q, s)
  <2> DEFINE P(i) == q[i] = s /\ \A j \in 1 .. i - 1 : q[j] # s
  <2> DEFINE k == CHOOSE i \in 1 .. Len(q) : P(i)
  <2>1. PICK i0 \in 1 .. Len(q) : q[i0] = s
    BY <1>2 DEF queue_contains
  <2>2. P(i0)
    BY <2>1
  <2>3. k \in 1 .. Len(q) /\ q[k] = s
    BY <2>2
  <2>4. r = [j \in 1 .. Len(q) - 1 |-> IF j < k THEN q[j] ELSE q[j + 1]]
    BY <1>2 DEF queue_remove
  <2> HIDE DEF k
  <2>5. Len(q) \in Nat /\ \A i \in 1 .. Len(q) : q[i] \in Slot
    OBVIOUS
  <2>6. r \in Seq(Slot) /\ Len(r) = Len(q) - 1
    BY <2>3, <2>4, <2>5
  <2> DEFINE f(j) == IF j < k THEN j ELSE j + 1
  <2>7. \A j \in 1 .. Len(r) : f(j) \in 1 .. Len(q) /\ f(j) # k /\ r[j] = q[f(j)]
    BY <2>3, <2>4, <2>5, <2>6
  <2>8. \A i, j \in 1 .. Len(r) : r[i] = r[j] => i = j
    <3> TAKE i, j \in 1 .. Len(r)
    <3> HAVE r[i] = r[j]
    <3>1. f(i) = f(j)
      <4> HIDE DEF f
      <4> QED BY <2>7
    <3> QED BY <2>3, <2>5, <2>6, <3>1
  <2>9. ASSUME NEW t \in Slot
        PROVE  queue_contains(r, t) <=> queue_contains(q, t) /\ t # s
    <3>1. ASSUME NEW j \in 1 .. Len(r), r[j] = t
          PROVE  queue_contains(q, t) /\ t # s
      <4> HIDE DEF f
      <4> QED BY <2>3, <2>7, <3>1 DEF queue_contains
    <3>2. ASSUME NEW j \in 1 .. Len(q), q[j] = t, t # s
          PROVE  queue_contains(r, t)
      <4>1. CASE j < k
        <5>1. j \in 1 .. Len(r) /\ r[j] = t
          BY <2>3, <2>4, <2>5, <2>6, <3>2, <4>1
        <5> QED BY <5>1 DEF queue_contains
      <4>2. CASE j > k
        <5>1. j - 1 \in 1 .. Len(r) /\ r[j - 1] = t
          BY <2>3, <2>4, <2>5, <2>6, <3>2, <4>2
        <5> QED BY <5>1 DEF queue_contains
      <4> QED BY <2>3, <2>5, <3>2, <4>1, <4>2
    <3> QED BY <3>1, <3>2 DEF queue_contains
  <2> QED BY <2>6, <2>8, <2>9
<1> QED BY <1>1, <1>2

(* scheduler_remove takes exactly the given process out of the queues. *)
LEMMA RemoveSound ==
  ASSUME TypeOK, NEW st, Sound(policy, prio, st, ready), NEW c \in Slot,
         NEW r, r = scheduler_remove(c)
  PROVE  /\ Sound(policy, prio, st, r)
         /\ \A s \in Slot : In(r, s) <=> In(ready, s) /\ s # c
<1>1. \A l \in Level : ready[l] \in Seq(Slot)
  BY DEF TypeOK
<1>2. \A l \in Level : r[l] = queue_remove(ready[l], c)
  <2> TAKE l \in Level
  <2>1. r[l] = IF \A m \in 0 .. l - 1 : ~ queue_contains(ready[m], c)
                 THEN queue_remove(ready[l], c) ELSE ready[l]
    BY DEF scheduler_remove
  <2>2. ASSUME NEW m \in 0 .. l - 1, queue_contains(ready[m], c)
        PROVE  ~ queue_contains(ready[l], c)
    <3>1. m \in Level /\ m # l
      BY DEF Level
    <3>2. LevelOf(policy, prio[c]) = m
      BY <2>2, <3>1 DEF queue_contains, Sound
    <3> QED BY <3>1, <3>2 DEF queue_contains, Sound
  <2> QED BY <2>1, <2>2 DEF queue_remove
<1>3. \A l \in Level :
        /\ r[l] \in Seq(Slot)
        /\ \A t \in Slot : queue_contains(r[l], t) <=> queue_contains(ready[l], t) /\ t # c
        /\ \A i, j \in 1 .. Len(r[l]) : r[l][i] = r[l][j] => i = j
  <2> TAKE l \in Level
  <2>1. \A i, j \in 1 .. Len(ready[l]) : ready[l][i] = ready[l][j] => i = j
    BY DEF Sound
  <2>2. r[l] = queue_remove(ready[l], c) /\ ready[l] \in Seq(Slot)
    BY <1>1, <1>2
  <2> QED BY <2>1, <2>2, QueueRemove
<1>4. r \in [Level -> Seq(Slot)]
  <2>1. r = [l \in Level |-> r[l]]
    BY DEF scheduler_remove
  <2> QED BY <1>3, <2>1
<1>5. \A l \in Level : \A i \in 1 .. Len(r[l]) :
        st[r[l][i]] = "READY" /\ LevelOf(policy, prio[r[l][i]]) = l
  <2> TAKE l \in Level
  <2> TAKE i \in 1 .. Len(r[l])
  <2>1. r[l][i] \in Slot /\ queue_contains(r[l], r[l][i])
    BY <1>3 DEF queue_contains
  <2>2. queue_contains(ready[l], r[l][i])
    BY <1>3, <2>1
  <2> QED BY <2>2 DEF queue_contains, Sound
<1>6. \A s \in Slot : In(r, s) <=> In(ready, s) /\ s # c
  BY <1>3 DEF In
<1> QED BY <1>3, <1>4, <1>5, <1>6 DEF Sound

-----------------------------------------------------------------------------
(* The dispatcher. *)

(* Switching to the process that is already current_process leaves the     *)
(* CPU on its stack.                                                       *)
LEMMA SwitchStep ==
  ASSUME TypeOK, NEW n \in Slot, current' = n, context_switch(n)
  PROVE  sp' = sp /\ rsp' \in [Slot -> Stack]
BY DEF TypeOK, context_switch

(* One yield: the caller joins the ready processes, one of them leaves to  *)
(* become current, and nobody dies.                                        *)
LEMMA YieldStep ==
  ASSUME TypeOK, ReadyQueueSound, policy # NONE,
         NEW c \in Slot, ~ Queued(c), IsLive(c), NEW tk, Yield(c, tk)
  PROVE  /\ state' \in [Slot -> State]
         /\ current' \in Slot
         /\ ticks' = NoTicks
         /\ rsp' \in [Slot -> Stack]
         /\ sp' = sp
         /\ Sound(policy, prio, state', ready')
         /\ ~ In(ready', current')
         /\ \A s \in Slot : state'[s] = "TERMINATED" <=> state[s] = "TERMINATED"
         /\ \A s \in Slot : Queued(s) \/ s = c <=> In(ready', s) \/ s = current'
         /\ policy \in {"PRIORITY", "MLQ"} =>
              \A s \in Slot : In(ready', s) => Rank(s) <= Rank(current')
<1> DEFINE st == [state EXCEPT ![c] = "READY"]
           q  == scheduler_add(c)
           l  == NextLevel(q)
           n  == Head(q[l])
<1>1. Sound(policy, prio, st, ready) /\ ~ In(ready, c)
  <2>1. Sound(policy, prio, state, ready)
    BY DEF TypeOK, ReadyQueueSound, Sound
  <2>2. ~ In(ready, c)
    BY DEF Queued, In
  <2>3. \A k \in Level : \A i \in 1 .. Len(ready[k]) : st[ready[k][i]] = state[ready[k][i]]
    BY <2>2 DEF In, queue_contains, TypeOK
  <2> HIDE DEF st
  <2> QED BY <2>1, <2>2, <2>3, SoundAgrees
<1>2. st \in [Slot -> State] /\ st[c] = "READY"
  BY DEF TypeOK, State
<1>3. q = Pushed(ready, LevelOf(policy, prio[c]), c)
  BY DEF scheduler_add, Pushed
<1>4. prio \in [Slot -> Nat]
  BY DEF TypeOK
<1> HIDE DEF st, q
<1>5. /\ Sound(policy, prio, st, q)
      /\ q # Empty
      /\ \A s \in Slot : In(q, s) <=> In(ready, s) \/ s = c
  BY ONLY c \in Slot, <1>1, <1>2, <1>3, <1>4, AddSound
<1> HIDE DEF l, n
<1>6. /\ ready' = [q EXCEPT ![l] = Tail(@)]
      /\ ticks' = NoTicks
      /\ state' = [st EXCEPT ![n] = "RUNNING"]
      /\ current' = n
      /\ context_switch(n)
  BY <1>5 DEF Yield, st, q, l, n
<1>7. /\ n \in Slot
      /\ st[n] = "READY"
      /\ Sound(policy, prio, state', ready')
      /\ ~ In(ready', n)
      /\ \A s \in Slot : In(q, s) <=> In(ready', s) \/ s = n
  <2>1. l = NextLevel(q) /\ n = Head(q[l])
    BY DEF l, n
  <2>2. ready' = Popped(q, l) /\ state' = With(st, n, "RUNNING")
    BY <1>6 DEF Popped, With
  <2> QED BY ONLY TypeOK, <1>2, <1>5, <2>1, <2>2, DispatchSound
<1>8. sp' = sp /\ rsp' \in [Slot -> Stack]
  BY <1>6, <1>7, SwitchStep
<1>9. \A s \in Slot : state'[s] = "TERMINATED" <=> state[s] = "TERMINATED"
  BY <1>6, <1>7 DEF TypeOK, IsLive, st
<1>10. state' \in [Slot -> State]
  BY <1>2, <1>6, Zenon DEF State
<1>11. \A s \in Slot : Queued(s) \/ s = c <=> In(ready', s) \/ s = current'
  BY <1>5, <1>6, <1>7 DEF Queued, In
<1>12. ASSUME policy \in {"PRIORITY", "MLQ"}, NEW s \in Slot, In(ready', s)
       PROVE  Rank(s) <= Rank(n)
  <2>1. l = NextLevel(q) /\ n = Head(q[l])
    BY DEF l, n
  <2>2. ready' = Popped(q, l)
    BY <1>6 DEF Popped
  <2> QED BY ONLY TypeOK, <1>2, <1>5, <1>12, <2>1, <2>2, DispatchBest
<1> QED BY <1>6, <1>7, <1>8, <1>9, <1>10, <1>11, <1>12, Zenon

(* process_exit: the current process dies, and either a ready process takes *)
(* over and the slot is freed, or nobody was ready and the kernel panics.  *)
LEMMA ExitStep ==
  ASSUME TypeOK, ReadyQueueSound, current \in Slot, IsLive(current), Exit
  PROVE  /\ state' \in [Slot -> State]
         /\ current' \in Slot
         /\ ticks' \in {ticks, NoTicks}
         /\ rsp' \in [Slot -> Stack]
         /\ sp' = sp
         /\ Sound(policy, prio, state', ready')
         /\ ~ In(ready', current')
         /\ \A s \in Slot :
              state'[s] = "TERMINATED" <=> state[s] = "TERMINATED" \/ s = current
         /\ \/ /\ pc' = "panic"
               /\ \A s \in Slot : ~ Queued(s)
               /\ free' = free
            \/ /\ pc' = pc
               /\ free' = free \cup {current}
               /\ current' # current
               /\ \A s \in Slot : Queued(s) <=> In(ready', s) \/ s = current'
               /\ policy \in {"PRIORITY", "MLQ"} =>
                    \A s \in Slot : In(ready', s) => Rank(s) <= Rank(current')
<1> DEFINE st == [state EXCEPT ![current] = "TERMINATED"]
           l  == NextLevel(ready)
           n  == Head(ready[l])
<1>1. st \in [Slot -> State]
  BY DEF TypeOK, State
<1>2. ~ In(ready, current)
  BY DEF ReadyQueueSound, In, queue_contains
<1>3. Sound(policy, prio, st, ready)
  <2>1. Sound(policy, prio, state, ready)
    BY DEF TypeOK, ReadyQueueSound, Sound
  <2>2. \A k \in Level : \A i \in 1 .. Len(ready[k]) : st[ready[k][i]] = state[ready[k][i]]
    BY <1>2 DEF In, queue_contains, TypeOK
  <2> HIDE DEF st
  <2> QED BY <2>1, <2>2, SoundAgrees
<1> HIDE DEF st, l, n
<1>4. CASE ready = Empty
  <2>1. /\ pc' = "panic" /\ state' = st /\ ready' = ready /\ free' = free
        /\ current' = current /\ rsp' = rsp /\ sp' = sp /\ ticks' = ticks
    BY <1>4 DEF Exit, st
  <2>2. \A s \in Slot : ~ Queued(s)
    BY <1>4 DEF Queued, queue_contains, Empty
  <2>3. \A s \in Slot : state'[s] = "TERMINATED" <=> state[s] = "TERMINATED" \/ s = current
    BY <2>1 DEF TypeOK, st
  <2> QED BY <1>1, <1>2, <1>3, <2>1, <2>2, <2>3 DEF TypeOK
<1>5. CASE ready # Empty
  <2>1. /\ ready' = [ready EXCEPT ![l] = Tail(@)]
        /\ ticks' = NoTicks
        /\ state' = [st EXCEPT ![n] = "RUNNING"]
        /\ free' = free \cup {current}
        /\ current' = n
        /\ context_switch(n)
        /\ pc' = pc
    BY <1>5 DEF Exit, st, l, n
  <2>2. /\ l = NextLevel(ready) /\ n = Head(ready[l])
        /\ ready' = Popped(ready, l) /\ state' = With(st, n, "RUNNING")
    BY <2>1 DEF l, n, Popped, With
  <2>3. /\ n \in Slot
        /\ st[n] = "READY"
        /\ In(ready, n)
        /\ Sound(policy, prio, state', ready')
        /\ ~ In(ready', n)
        /\ \A s \in Slot : In(ready, s) <=> In(ready', s) \/ s = n
    BY ONLY TypeOK, <1>1, <1>3, <1>5, <2>2, DispatchSound
  <2>4. sp' = sp /\ rsp' \in [Slot -> Stack]
    BY <2>1, <2>3, SwitchStep
  <2>5. \A s \in Slot : state'[s] = "TERMINATED" <=> state[s] = "TERMINATED" \/ s = current
    BY <2>1, <2>3 DEF TypeOK, st
  <2>6. state' \in [Slot -> State]
    BY <1>1, <2>1, Zenon DEF State
  <2>7. \A s \in Slot : Queued(s) <=> In(ready', s) \/ s = current'
    BY <2>1, <2>3 DEF Queued, In
  <2>8. current' # current
    BY <1>2, <2>1, <2>3
  <2>9. ASSUME policy \in {"PRIORITY", "MLQ"}, NEW s \in Slot, In(ready', s)
        PROVE  Rank(s) <= Rank(n)
    BY ONLY TypeOK, <1>1, <1>3, <1>5, <2>2, <2>9, DispatchBest
  <2> QED BY <2>1, <2>3, <2>4, <2>5, <2>6, <2>7, <2>8, <2>9, Zenon
<1> QED BY <1>4, <1>5

-----------------------------------------------------------------------------
(* The invariant. *)

(* The process table is finite. *)
LEMMA LiveFinite ==
  ASSUME NEW st
  PROVE  IsFiniteSet(LiveIn(st)) /\ Cardinality(LiveIn(st)) \in Nat
<1>1. IsFiniteSet(Slot)
  BY FS_Interval, ProcessAssumption DEF Slot
<1>2. IsFiniteSet(LiveIn(st))
  BY <1>1, FS_Subset DEF LiveIn
<1> QED BY <1>2, FS_CardinalityType

(* After process_init only the idle process is live, and nothing is queued. *)
LEMMA InitInv == Init => IndInv
<1> SUFFICES ASSUME Init PROVE IndInv
  OBVIOUS
<1> USE ProcessAssumption
<1>1. 0 \in Slot
  BY DEF Slot
<1>2. TypeOK
  BY <1>1 DEF Init, TypeOK, Stack, BOOT, NULL, NONE, Empty, NoTicks, PRIORITY_LOW
<1>3. \A l \in Level : Len(ready[l]) = 0
  BY DEF Init, Empty
<1>4. ReadyQueueSound
  BY <1>3 DEF ReadyQueueSound
<1>5. {s \in Slot : IsLive(s)} = {0}
  BY <1>1 DEF Init, IsLive
<1>6. LiveAccounting
  <2>1. Cardinality({0}) = 1
    BY FS_Singleton, Zenon
  <2> QED BY <1>1, <1>5, <2>1, Zenon DEF LiveAccounting, Init, IsLive
<1>7. \A s \in Slot : ~ Queued(s)
  BY <1>3 DEF Queued, queue_contains
<1>8. IdleIsSafetyNet
  BY DEF IdleIsSafetyNet, Init
<1> QED BY <1>1, <1>2, <1>4, <1>6, <1>7, <1>8 DEF IndInv, Init, NONE, NULL

(* Every step that ends in a yield keeps the invariant: one by the current *)
(* process, or one by idle that kernel_main or bench made current.         *)
LEMMA YieldInv ==
  ASSUME IndInv, policy # NONE, Frame,
         NEW c \in Slot, ~ Queued(c), IsLive(c), NEW tk, Yield(c, tk),
         \/ pc' = "shell" /\ (pid[c] = 1 \/ (pc = "shell" /\ c = current))
         \/ pc' = pc /\ pc \in {"boot", "bench"} /\ pid[c] # 1
  PROVE  IndInv'
<1>1. TypeOK /\ ReadyQueueSound /\ LiveAccounting /\ IdleIsSafetyNet
  BY DEF IndInv
<1>2. /\ state' \in [Slot -> State]
      /\ current' \in Slot
      /\ ticks' = NoTicks
      /\ rsp' \in [Slot -> Stack]
      /\ sp' = sp
      /\ Sound(policy, prio, state', ready')
      /\ ~ In(ready', current')
      /\ \A s \in Slot : state'[s] = "TERMINATED" <=> state[s] = "TERMINATED"
      /\ \A s \in Slot : Queued(s) \/ s = c <=> In(ready', s) \/ s = current'
  BY <1>1, YieldStep
<1>3. /\ pid' = pid /\ prio' = prio /\ free' = free /\ next_pid' = next_pid
      /\ process_count' = process_count /\ policy' = policy
  BY DEF Frame
<1>4. TypeOK'
  BY <1>1, <1>2, <1>3 DEF TypeOK, Sound, State, NoTicks
<1>5. ReadyQueueSound'
  BY <1>2, <1>3 DEF ReadyQueueSound, Sound, In, queue_contains
<1>6. \A s \in Slot : IsLive(s)' <=> IsLive(s)
  BY <1>2 DEF IsLive
<1>7. LiveAccounting'
  <2>1. {s \in Slot : IsLive(s)}' = {s \in Slot : IsLive(s)}
    BY <1>6
  <2>2. {s \in Slot : ~ IsLive(s)}' = {s \in Slot : ~ IsLive(s)}
    BY <1>6
  <2>3. pc # "panic"
    BY <1>1 DEF IdleIsSafetyNet
  <2> QED BY <1>1, <1>3, <1>6, <2>1, <2>2, <2>3 DEF LiveAccounting
<1>8. \A s \in Slot : Queued(s)' <=> In(ready', s)
  BY DEF Queued, In
<1>9. IdleIsSafetyNet'
  <2> SUFFICES ASSUME NEW s \in Slot, pid[s] = 1, IsLive(s)
               PROVE  pc' # "panic" /\ (pc' = "shell" => Queued(s)' \/ current' = s)
    BY <1>3, <1>6 DEF IdleIsSafetyNet
  <2>1. pc' # "panic"
    BY <1>1 DEF TypeOK
  <2>2. ASSUME pc' = "shell" PROVE Queued(s) \/ s = c
    <3>1. CASE pid[c] = 1
      BY <1>1, <3>1 DEF LiveAccounting
    <3>2. CASE pc = "shell" /\ c = current
      BY <1>1, <3>2 DEF IdleIsSafetyNet
    <3> QED BY <2>2, <3>1, <3>2
  <2> QED BY <1>2, <1>8, <2>1, <2>2
<1>10. pc' \in {"init", "boot", "bench"} => \A s \in Slot : Queued(s)' => pid[s] # 1
  <2> SUFFICES ASSUME pc' = pc, pc \in {"boot", "bench"}, pid[c] # 1,
                      NEW s \in Slot, Queued(s)'
               PROVE  pid[s] # 1
    BY DEF IndInv
  <2>1. Queued(s) \/ s = c
    BY <1>2, <1>8
  <2> QED BY <2>1 DEF IndInv
<1>11. /\ pc' = "init" <=> policy' = NONE
       /\ next_pid' >= 2
       /\ \A s \in Slot : pid'[s] < next_pid'
  BY <1>3 DEF IndInv
<1>12. IsLive(current)'
  <2>1. Queued(current') \/ current' = c
    BY <1>2
  <2>2. CASE current' = c
    BY <1>6, <2>2, SMTT(30)
  <2>3. CASE Queued(current')
    BY <1>1, <1>2, <1>6, <2>3, SMTT(30) DEF Queued, queue_contains, ReadyQueueSound, IsLive
  <2> QED BY <2>1, <2>2, <2>3
<1> QED BY <1>3, <1>4, <1>5, <1>7, <1>9, <1>10, <1>11, <1>12 DEF IndInv

(* process_exit keeps the invariant; it panics only when idle is gone. *)
LEMMA ExitInv ==
  ASSUME IndInv, pc = "shell", current # NULL, Exit
  PROVE  IndInv'
<1>1. TypeOK /\ ReadyQueueSound /\ LiveAccounting /\ IdleIsSafetyNet
  BY DEF IndInv
<1>2. current \in Slot /\ IsLive(current)
  BY <1>1 DEF IndInv, TypeOK
<1>3. /\ state' \in [Slot -> State]
      /\ current' \in Slot
      /\ ticks' \in {ticks, NoTicks}
      /\ rsp' \in [Slot -> Stack]
      /\ sp' = sp
      /\ Sound(policy, prio, state', ready')
      /\ ~ In(ready', current')
      /\ \A s \in Slot :
           state'[s] = "TERMINATED" <=> state[s] = "TERMINATED" \/ s = current
      /\ \/ /\ pc' = "panic"
            /\ \A s \in Slot : ~ Queued(s)
            /\ free' = free
         \/ /\ pc' = pc
            /\ free' = free \cup {current}
            /\ current' # current
            /\ \A s \in Slot : Queued(s) <=> In(ready', s) \/ s = current'
  BY <1>1, <1>2, ExitStep
<1>4. /\ pid' = pid /\ prio' = prio /\ next_pid' = next_pid /\ policy' = policy
      /\ process_count' = process_count - 1
  BY DEF Exit
<1>5. TypeOK'
  BY <1>1, <1>2, <1>3, <1>4, SMTT(30) DEF TypeOK, Sound, State, NoTicks
<1>6. ReadyQueueSound'
  BY <1>3, <1>4 DEF ReadyQueueSound, Sound, In, queue_contains
<1>7. \A s \in Slot : IsLive(s)' <=> IsLive(s) /\ s # current
  BY <1>3 DEF IsLive
<1>8. LiveAccounting'
  <2> DEFINE L == {s \in Slot : IsLive(s)}
  <2>1. L' = L \ {current} /\ current \in L
    BY <1>2, <1>7
  <2>2. IsFiniteSet(L)
    BY LiveFinite DEF LiveIn, IsLive
  <2>3. Cardinality(L') = Cardinality(L) - 1
    BY <2>1, <2>2, FS_RemoveElement, SMTT(30)
  <2>4. pc' # "panic" => free' = {s \in Slot : ~ IsLive(s)'}
    BY <1>1, <1>2, <1>3, <1>7 DEF LiveAccounting
  <2>5. \A s, t \in Slot : IsLive(s)' /\ IsLive(t)' /\ pid[s] = pid[t] => s = t
    BY <1>1, <1>7 DEF LiveAccounting
  <2>6. process_count = Cardinality(L)
    BY <1>1 DEF LiveAccounting
  <2> QED BY <1>4, <2>3, <2>4, <2>5, <2>6 DEF LiveAccounting
<1>9. \A s \in Slot : Queued(s)' <=> In(ready', s)
  BY DEF Queued, In
<1>10. IdleIsSafetyNet'
  <2> SUFFICES ASSUME NEW s \in Slot, pid[s] = 1, IsLive(s), s # current
               PROVE  pc' # "panic" /\ (pc' = "shell" => Queued(s)' \/ current' = s)
    BY <1>4, <1>7 DEF IdleIsSafetyNet
  <2>1. Queued(s)
    BY <1>1 DEF IdleIsSafetyNet
  <2> QED BY <1>3, <1>9, <2>1
<1>11. pc' # "panic" => IsLive(current)'
  <2> SUFFICES ASSUME pc' # "panic" PROVE IsLive(current)'
    OBVIOUS
  <2>1. Queued(current') /\ current' # current
    BY <1>3, SMTT(30)
  <2>2. IsLive(current')
    BY <1>1, <1>3, <2>1 DEF Queued, queue_contains, ReadyQueueSound, IsLive
  <2> QED BY <1>3, <1>7, <2>1, <2>2
<1>12. pc' \notin {"init", "boot", "bench"}
  BY <1>3
<1> QED BY <1>3, <1>4, <1>5, <1>6, <1>8, <1>10, <1>11, <1>12 DEF IndInv

(* A non-empty set of naturals has a least element (pcb_alloc and          *)
(* pcb_by_pid take the first slot that fits).                              *)
LEMMA LeastExists ==
  ASSUME NEW T, T \subseteq Nat, T # {}
  PROVE  \E x \in T : \A y \in T : x <= y
<1>1. PICK x \in T : \A y \in T : ~ (<<y, x>> \in OpToRel(<, Nat))
  BY WFMin, NatLessThanWellFounded, Zenon
<1>2. \A y \in T : ~ (y < x)
  BY <1>1, Zenon DEF OpToRel
<1>3. \A y \in T : x <= y
  BY <1>2
<1> QED BY <1>3

(* process_create keeps the invariant: the slot it takes was in no queue. *)
LEMMA CreateInv ==
  ASSUME IndInv, NEW p \in Priority, process_create(p)
  PROVE  IndInv'
<1>1. TypeOK /\ ReadyQueueSound /\ LiveAccounting /\ IdleIsSafetyNet
  BY DEF IndInv
<1> DEFINE s0 == CHOOSE s \in free : \A t \in free : s <= t
<1>2. s0 \in free
  <2>1. free \subseteq Nat /\ free # {}
    BY <1>1, ProcessAssumption DEF TypeOK, Slot, process_create
  <2>2. \E s \in free : \A t \in free : s <= t
    BY <2>1, LeastExists, Zenon
  <2> QED BY <2>2
<1> HIDE DEF s0
<1>3. /\ pid'   = [pid EXCEPT ![s0] = next_pid]
      /\ state' = [state EXCEPT ![s0] = "READY"]
      /\ prio'  = [prio EXCEPT ![s0] = p]
      /\ rsp'   = [rsp EXCEPT ![s0] = s0]
      /\ free'  = free \ {s0}
      /\ ready' = IF policy = NONE THEN ready
                  ELSE [ready EXCEPT ![LevelOf(policy, p)] = Append(@, s0)]
      /\ next_pid' = next_pid + 1
      /\ process_count' = process_count + 1
      /\ current' = current /\ policy' = policy /\ ticks' = ticks
      /\ sp' = sp /\ pc' = pc
      /\ pc \in {"boot", "shell", "bench"}
  BY DEF process_create, s0
<1>4. s0 \in Slot /\ ~ IsLive(s0) /\ policy # NONE /\ current # s0
  BY <1>1, <1>2, <1>3, ProcessAssumption, SMTT(30) DEF IndInv, LiveAccounting, TypeOK, NULL, Slot
<1>5. ~ In(ready, s0)
  BY <1>1, <1>4 DEF In, queue_contains, ReadyQueueSound, IsLive
<1>6. prio' \in [Slot -> Nat] /\ state'[s0] = "READY" /\ prio'[s0] = p
  BY <1>1, <1>3, <1>4, ProcessAssumption, SMTT(30) DEF TypeOK
<1>7. Sound(policy, prio', state', ready)
  <2>1. Sound(policy, prio, state, ready)
    BY <1>1 DEF TypeOK, ReadyQueueSound, Sound
  <2>2. \A l \in Level : \A i \in 1 .. Len(ready[l]) :
          /\ state'[ready[l][i]] = state[ready[l][i]]
          /\ prio'[ready[l][i]] = prio[ready[l][i]]
    BY <1>1, <1>3, <1>5 DEF In, queue_contains, TypeOK
  <2> QED BY ONLY <2>1, <2>2, SoundAgrees, SMTT(30)
<1>8. /\ Sound(policy, prio', state', ready')
      /\ \A s \in Slot : In(ready', s) <=> In(ready, s) \/ s = s0
  <2>1. ready' = Pushed(ready, LevelOf(policy, prio'[s0]), s0)
    BY <1>3, <1>4, <1>6 DEF Pushed
  <2> QED BY ONLY <1>4, <1>5, <1>6, <1>7, <2>1, AddSound
<1>9. TypeOK'
  <2>1. ready' \in [Level -> Seq(Slot)]
    BY <1>8, Zenon DEF Sound
  <2> QED BY <1>1, <1>3, <1>4, <1>6, <2>1, SMTT(30) DEF TypeOK, Stack
<1>10. ReadyQueueSound'
  <2>1. ~ In(ready', current)
    <3>1. CASE current \in Slot
      <4>1. ~ In(ready, current)
        BY <1>1 DEF ReadyQueueSound, In, queue_contains
      <4> QED BY <1>4, <1>8, <3>1, <4>1
    <3>2. CASE current \notin Slot
      BY <1>9, <3>2 DEF TypeOK, In, queue_contains
    <3> QED BY <3>1, <3>2
  <2> QED BY <1>3, <1>8, <2>1, SMTT(30) DEF ReadyQueueSound, Sound, In, queue_contains
<1>11. \A s \in Slot : IsLive(s)' <=> IsLive(s) \/ s = s0
  BY <1>1, <1>3, <1>4 DEF IsLive, TypeOK
<1>12. \A s \in Slot : pid'[s] = IF s = s0 THEN next_pid ELSE pid[s]
  BY <1>1, <1>3, <1>4 DEF TypeOK
<1>13. next_pid \in Nat /\ next_pid >= 2 /\ \A s \in Slot : pid[s] \in Nat /\ pid[s] < next_pid
  BY <1>1 DEF IndInv, TypeOK
<1>14. LiveAccounting'
  <2> DEFINE L == {s \in Slot : IsLive(s)}
  <2>1. L' = L \cup {s0} /\ s0 \notin L
    BY <1>4, <1>11
  <2>2. IsFiniteSet(L)
    BY LiveFinite DEF LiveIn, IsLive
  <2>3. Cardinality(L') = Cardinality(L) + 1
    BY <2>1, <2>2, FS_AddElement, Zenon
  <2>4. free' = {s \in Slot : ~ IsLive(s)'}
    BY <1>1, <1>3, <1>11 DEF LiveAccounting
  <2>5. \A s, t \in Slot : IsLive(s)' /\ IsLive(t)' /\ pid'[s] = pid'[t] => s = t
    BY <1>1, <1>11, <1>12, <1>13 DEF LiveAccounting
  <2>6. process_count = Cardinality(L)
    BY <1>1 DEF LiveAccounting
  <2> QED BY <1>3, <2>3, <2>4, <2>5, <2>6 DEF LiveAccounting
<1>15. \A s \in Slot : (Queued(s)' <=> In(ready', s)) /\ (Queued(s) <=> In(ready, s))
  BY DEF Queued, In
<1>16. IdleIsSafetyNet'
  <2> SUFFICES ASSUME NEW s \in Slot, pid'[s] = 1, IsLive(s)'
               PROVE  pc' # "panic" /\ (pc' = "shell" => Queued(s)' \/ current' = s)
    BY DEF IdleIsSafetyNet
  <2>1. s # s0 /\ pid[s] = 1 /\ IsLive(s)
    BY <1>11, <1>12, <1>13
  <2> QED BY <1>1, <1>3, <1>8, <1>15, <2>1, Zenon DEF IdleIsSafetyNet
<1>17. pc' \in {"init", "boot", "bench"} => \A s \in Slot : Queued(s)' => pid'[s] # 1
  <2> SUFFICES ASSUME pc' \in {"init", "boot", "bench"}, NEW s \in Slot, Queued(s)'
               PROVE  pid'[s] # 1
    OBVIOUS
  <2>1. Queued(s) \/ s = s0
    BY <1>8, <1>15
  <2> QED BY <1>3, <1>12, <1>13, <2>1 DEF IndInv
<1>18. \A s \in Slot : pid'[s] < next_pid'
  BY <1>3, <1>12, <1>13, SMTT(30)
<1>19. current' # NULL /\ pc' # "panic" => IsLive(current)'
  BY <1>1, <1>3, <1>11 DEF IndInv, TypeOK
<1>20. (pc' = "init" <=> policy' = NONE) /\ next_pid' >= 2
  BY <1>3, <1>13 DEF IndInv
<1> QED BY <1>9, <1>10, <1>14, <1>16, <1>17, <1>18, <1>19, <1>20 DEF IndInv

(* What a lookup by pid returns. *)
LEMMA LookupLive ==
  ASSUME TypeOK, NEW n, NEW s, s = pcb_by_pid(n), s # NULL
  PROVE  s \in Slot /\ pid[s] = n /\ IsLive(s)
<1> DEFINE T == {t \in Slot : pid[t] = n /\ IsLive(t)}
<1>1. T \subseteq Nat /\ T # {}
  BY ProcessAssumption DEF Slot, pcb_by_pid
<1>2. PICK m \in T : \A t \in T : m <= t
  BY <1>1, LeastExists, Zenon
<1>3. /\ m \in Slot /\ pid[m] = n /\ IsLive(m)
      /\ \A t \in 0 .. m - 1 : ~ (pid[t] = n /\ IsLive(t))
  <2>1. \A t \in 0 .. m - 1 : t \in Slot /\ ~ (m <= t)
    BY <1>2, ProcessAssumption DEF Slot
  <2> QED BY <1>2, <2>1
<1> QED BY <1>3 DEF pcb_by_pid

(* process_kill of another process takes it out of its queue before its    *)
(* slot becomes free.                                                      *)
LEMMA KillInv ==
  ASSUME IndInv, NEW n \in Nat, process_kill(n)
  PROVE  IndInv'
<1>1. TypeOK /\ ReadyQueueSound /\ LiveAccounting /\ IdleIsSafetyNet
  BY DEF IndInv
<1>2. CASE current # NULL /\ pid[current] = n
  <2>1. pc = "shell" /\ current # NULL /\ Exit
    BY <1>2 DEF process_kill
  <2> QED BY <2>1, ExitInv
<1>3. CASE ~ (current # NULL /\ pid[current] = n)
  <2> DEFINE s0 == pcb_by_pid(n)
  <2>1. /\ pc = "shell" /\ n # 1
        /\ s0 # NULL
        /\ ready' = scheduler_remove(s0)
        /\ state' = [state EXCEPT ![s0] = "TERMINATED"]
        /\ free'  = free \cup {s0}
        /\ process_count' = process_count - 1
        /\ pid' = pid /\ prio' = prio /\ rsp' = rsp /\ next_pid' = next_pid
        /\ current' = current /\ policy' = policy /\ ticks' = ticks
        /\ sp' = sp /\ pc' = pc
    BY <1>3 DEF process_kill
  <2>2. s0 \in Slot /\ pid[s0] = n /\ IsLive(s0)
    BY <1>1, <2>1, LookupLive
  <2> HIDE DEF s0
  <2>3. s0 # current
    BY <1>3, <2>2, ProcessAssumption DEF NULL, Slot
  <2>4. /\ Sound(policy, prio, state, ready')
        /\ \A s \in Slot : In(ready', s) <=> In(ready, s) /\ s # s0
    <3>1. Sound(policy, prio, state, ready)
      BY <1>1, SMTT(30) DEF TypeOK, ReadyQueueSound, Sound
    <3> QED BY ONLY <1>1, <2>1, <2>2, <3>1, RemoveSound, SMTT(30)
  <2>5. Sound(policy, prio, state', ready')
    <3>1. \A l \in Level : \A i \in 1 .. Len(ready'[l]) :
            ready'[l][i] \in Slot /\ ready'[l][i] # s0
      BY ONLY <2>2, <2>4, SMTT(30) DEF In, queue_contains, Sound
    <3>2. \A l \in Level : \A i \in 1 .. Len(ready'[l]) :
            state'[ready'[l][i]] = state[ready'[l][i]]
      BY ONLY <1>1, <2>1, <3>1, SMTT(30) DEF TypeOK
    <3> QED BY ONLY <2>4, <3>2, SoundAgrees
  <2>6. TypeOK'
    BY <1>1, <2>1, <2>2, <2>5, SMTT(30) DEF TypeOK, Sound
  <2>7. ReadyQueueSound'
    <3>1. ~ In(ready', current)
      <4>1. CASE current \in Slot
        <5>1. ~ In(ready, current)
          BY <1>1 DEF ReadyQueueSound, In, queue_contains
        <5> QED BY <2>4, <4>1, <5>1
      <4>2. CASE current \notin Slot
        BY <2>6, <4>2 DEF TypeOK, In, queue_contains
      <4> QED BY <4>1, <4>2
    <3> QED BY <2>1, <2>5, <3>1, Zenon DEF ReadyQueueSound, Sound, In, queue_contains
  <2>8. \A s \in Slot : IsLive(s)' <=> IsLive(s) /\ s # s0
    BY <1>1, <2>1, <2>2 DEF IsLive, TypeOK
  <2>9. LiveAccounting'
    <3> DEFINE L == {s \in Slot : IsLive(s)}
    <3>1. L' = L \ {s0} /\ s0 \in L
      BY <2>2, <2>8
    <3>2. IsFiniteSet(L)
      BY LiveFinite DEF LiveIn, IsLive
    <3>3. Cardinality(L') = Cardinality(L) - 1
      BY <3>1, <3>2, FS_RemoveElement
    <3>4. free' = {s \in Slot : ~ IsLive(s)'}
      BY <1>1, <2>1, <2>2, <2>8 DEF LiveAccounting
    <3>5. \A s, t \in Slot : IsLive(s)' /\ IsLive(t)' /\ pid[s] = pid[t] => s = t
      BY <1>1, <2>8 DEF LiveAccounting
    <3>6. process_count = Cardinality(L)
      BY <1>1 DEF LiveAccounting
    <3> QED BY <2>1, <3>3, <3>4, <3>5, <3>6 DEF LiveAccounting
  <2>10. \A s \in Slot : (Queued(s)' <=> In(ready', s)) /\ (Queued(s) <=> In(ready, s))
    BY DEF Queued, In
  <2>11. IdleIsSafetyNet'
    <3> SUFFICES ASSUME NEW s \in Slot, pid[s] = 1, IsLive(s), s # s0
                 PROVE  pc' # "panic" /\ (pc' = "shell" => Queued(s)' \/ current' = s)
      BY <2>1, <2>8, SMTT(30) DEF IdleIsSafetyNet
    <3> QED BY <1>1, <2>1, <2>4, <2>10 DEF IdleIsSafetyNet
  <2>12. current' # NULL => IsLive(current)'
    BY <1>1, <2>1, <2>3, <2>8, SMTT(30) DEF IndInv, TypeOK
  <2> QED BY <2>1, <2>6, <2>7, <2>9, <2>11, <2>12 DEF IndInv
<1> QED BY <1>2, <1>3

(* A policy swap empties the queues and touches no process. *)
LEMMA SetInv ==
  ASSUME IndInv, NEW p \in Policy, scheduler_set(p), UNCHANGED <<table, current, sp>>,
         \/ pc = "init" /\ pc' = "boot"
         \/ pc = "shell" /\ pc' = "bench"
  PROVE  IndInv'
<1>1. TypeOK /\ LiveAccounting /\ IdleIsSafetyNet
  BY DEF IndInv
<1>2. /\ policy' = p /\ ready' = Empty /\ ticks' = NoTicks /\ p # NONE
      /\ pid' = pid /\ state' = state /\ prio' = prio /\ rsp' = rsp /\ free' = free
      /\ next_pid' = next_pid /\ process_count' = process_count
      /\ current' = current /\ sp' = sp
  BY DEF scheduler_set, table, Policy, NONE
<1>3. TypeOK'
  BY <1>1, <1>2 DEF TypeOK, Empty, NoTicks
<1>4. \A l \in Level : Len(ready'[l]) = 0
  BY <1>2, SMTT(30) DEF Empty
<1>5. ReadyQueueSound'
  BY <1>4, SMTT(30) DEF ReadyQueueSound
<1>6. LiveAccounting'
  BY <1>1, <1>2 DEF LiveAccounting, IsLive
<1>7. IdleIsSafetyNet'
  BY <1>2 DEF IdleIsSafetyNet
<1>8. \A s \in Slot : ~ Queued(s)'
  BY <1>4 DEF Queued, queue_contains
<1> QED BY <1>1, <1>2, <1>3, <1>5, <1>6, <1>7, <1>8 DEF IndInv, IsLive

(* What process_by_pid(1) returns while the scheduler runs. *)
LEMMA IdleLive ==
  ASSUME IndInv, pc # "panic", process_by_pid(1) # NULL
  PROVE  /\ process_by_pid(1) \in Slot
         /\ pid[process_by_pid(1)] = 1
         /\ IsLive(process_by_pid(1))
<1>1. TypeOK
  BY DEF IndInv
<1>2. CASE current # NULL /\ pid[current] = 1
  BY <1>1, <1>2 DEF process_by_pid, IndInv, TypeOK
<1>3. CASE ~ (current # NULL /\ pid[current] = 1)
  <2>1. process_by_pid(1) = pcb_by_pid(1)
    BY <1>3 DEF process_by_pid
  <2> QED BY <1>1, <2>1, LookupLive
<1> QED BY <1>2, <1>3

(* Idle is made current by hand only while it is in no queue. *)
LEMMA IdleInv ==
  ASSUME IndInv, pc \in {"boot", "bench"}, YieldAsIdle, pc' = "shell", Frame
  PROVE  IndInv'
<1> DEFINE idle == process_by_pid(1)
<1>1. TypeOK /\ ReadyQueueSound /\ LiveAccounting
  BY DEF IndInv
<1>2. policy # NONE
  BY DEF IndInv
<1>3. CASE idle # NULL
  <2>1. idle \in Slot /\ pid[idle] = 1 /\ IsLive(idle)
    BY <1>3, IdleLive
  <2>2. Yield(idle, ticks)
    BY <1>3 DEF YieldAsIdle
  <2> HIDE DEF idle
  <2>3. ~ Queued(idle)
    BY <2>1 DEF IndInv
  <2> DEFINE tk == ticks
  <2>4. Yield(idle, tk)
    BY <2>2
  <2>5. pc' = "shell" /\ (pid[idle] = 1 \/ (pc = "shell" /\ idle = current))
    BY <2>1
  <2> HIDE DEF tk
  <2> QED BY ONLY IndInv, Frame, <1>2, <2>1, <2>3, <2>4, <2>5, YieldInv, SMTT(30)
<1>4. CASE idle = NULL
  <2>1. /\ current' = NULL
        /\ state' = state /\ ready' = ready /\ ticks' = ticks /\ rsp' = rsp /\ sp' = sp
    BY <1>4 DEF YieldAsIdle
  <2>2. /\ pid' = pid /\ prio' = prio /\ free' = free /\ next_pid' = next_pid
        /\ process_count' = process_count /\ policy' = policy
    BY DEF Frame
  <2>3. \A s \in Slot : pid[s] = 1 => ~ IsLive(s)
    <3> SUFFICES ASSUME NEW s \in Slot, pid[s] = 1, IsLive(s)
                 PROVE  FALSE
      OBVIOUS
    <3>1. ~ (current # NULL /\ pid[current] = 1)
      BY <1>4 DEF process_by_pid
    <3>2. pcb_by_pid(1) = NULL
      BY <1>4, <3>1 DEF process_by_pid
    <3> DEFINE T == {t \in Slot : pid[t] = 1 /\ IsLive(t)}
    <3>3. PICK m \in T : \A t \in T : m <= t
      <4>1. T \subseteq Nat /\ T # {}
        BY ProcessAssumption DEF Slot
      <4> QED BY <4>1, LeastExists, Zenon
    <3>4. \A t \in 0 .. m - 1 : t \in Slot /\ ~ (m <= t)
      BY <3>3, ProcessAssumption DEF Slot
    <3>5. pcb_by_pid(1) \in Slot
      BY <3>3, <3>4 DEF pcb_by_pid
    <3> QED BY <3>2, <3>5, ProcessAssumption DEF NULL, Slot
  <2>4. TypeOK'
    BY <1>1, <2>1, <2>2 DEF TypeOK
  <2>5. ReadyQueueSound'
    <3>1. ASSUME NEW l \in Level, NEW i \in 1 .. Len(ready[l])
          PROVE  ready[l][i] # NULL
      <4>1. ready[l] \in Seq(Slot)
        BY ONLY <1>1 DEF TypeOK
      <4>2. ready[l][i] \in Slot
        BY ONLY <4>1
      <4> QED BY ONLY <4>2, ProcessAssumption DEF NULL, Slot
    <3> QED BY <1>1, <2>1, <2>2, <3>1 DEF ReadyQueueSound
  <2>6. LiveAccounting'
    BY <1>1, <2>1, <2>2 DEF LiveAccounting, IsLive
  <2>7. IdleIsSafetyNet'
    BY <2>1, <2>2, <2>3 DEF IdleIsSafetyNet, IsLive
  <2> QED BY <1>2, <2>1, <2>2, <2>4, <2>5, <2>6, <2>7 DEF IndInv
<1> QED BY <1>3, <1>4

(* A timer interrupt only counts, or preempts the current process. *)
LEMMA TimerInv ==
  ASSUME IndInv, TimerIRQ
  PROVE  IndInv'
<1>1. TypeOK /\ ReadyQueueSound /\ LiveAccounting /\ IdleIsSafetyNet
  BY DEF IndInv
<1> DEFINE l == IF policy = "MLQ" THEN LevelOf("MLQ", prio[current]) ELSE 0
           t == [ticks EXCEPT ![l] = @ + 1]
<1>2. /\ pc \in {"boot", "shell", "bench"} /\ pc' = pc /\ Frame
      /\ current \in Slot /\ pid[current] > 1
      /\ IF t[l] >= Quantum(l)
           THEN Yield(current, t)
           ELSE /\ ticks' = t
                /\ UNCHANGED <<state, ready, current, rsp, sp>>
  BY <1>1 DEF TimerIRQ, TypeOK
<1>3. t \in [Level -> Nat]
  <2>1. l \in Level
    BY <1>1, <1>2, LevelOfType DEF TypeOK, Level
  <2> HIDE DEF l
  <2> QED BY <1>1, <2>1 DEF TypeOK
<1> HIDE DEF l, t
<1>4. CASE Yield(current, t)
  <2>1. policy # NONE /\ IsLive(current) /\ current \in Slot
    BY <1>2 DEF IndInv, NULL, Slot
  <2>2. ~ Queued(current)
    BY <1>1 DEF ReadyQueueSound, Queued, queue_contains
  <2>3. \/ pc' = "shell" /\ (pid[current] = 1 \/ (pc = "shell" /\ current = current))
        \/ pc' = pc /\ pc \in {"boot", "bench"} /\ pid[current] # 1
    BY <1>1, <1>2 DEF TypeOK
  <2>4. Frame
    BY <1>2
  <2> QED BY ONLY IndInv, <1>4, <2>1, <2>2, <2>3, <2>4, YieldInv, SMTT(30)
<1>5. CASE ~ Yield(current, t)
  <2>1. /\ ticks' = t /\ state' = state /\ ready' = ready /\ current' = current
        /\ rsp' = rsp /\ sp' = sp /\ pc' = pc
        /\ pid' = pid /\ prio' = prio /\ free' = free /\ next_pid' = next_pid
        /\ process_count' = process_count /\ policy' = policy
    BY <1>2, <1>5, SMTT(30) DEF Frame
  <2>2. TypeOK' /\ ReadyQueueSound' /\ LiveAccounting' /\ IdleIsSafetyNet'
    BY <1>1, <1>3, <2>1 DEF TypeOK, ReadyQueueSound, LiveAccounting, IdleIsSafetyNet,
                            IsLive, Queued
  <2> QED BY <2>1, <2>2 DEF IndInv, IsLive, Queued
<1> QED BY <1>4, <1>5

(* Every step of the specification keeps the invariant. *)
LEMMA NextInv == IndInv /\ [Next]_vars => IndInv'
<1> SUFFICES ASSUME IndInv, [Next]_vars PROVE IndInv'
  OBVIOUS
<1>1. ASSUME Boot PROVE IndInv'
  <2>1. /\ pc = "init" /\ pc' = "boot" /\ scheduler_set("FCFS")
        /\ UNCHANGED <<table, current, sp>> /\ "FCFS" \in Policy
    BY <1>1 DEF Boot, Policy
  <2> QED BY <2>1, SetInv
<1>2. ASSUME NEW p \in Priority, process_create(p) PROVE IndInv'
  BY <1>2, CreateInv
<1>3. ASSUME StartDemos PROVE IndInv'
  BY <1>3, IdleInv DEF StartDemos
<1>4. ASSUME NEW p \in BenchPolicy, BenchInit(p) PROVE IndInv'
  <2>1. /\ pc = "shell" /\ pc' = "bench" /\ scheduler_set(p)
        /\ UNCHANGED <<table, current, sp>> /\ p \in Policy
    BY <1>4, ProcessAssumption DEF BenchInit
  <2> QED BY <2>1, SetInv
<1>5. ASSUME BenchStart PROVE IndInv'
  BY <1>5, IdleInv DEF BenchStart
<1>6. ASSUME yield PROVE IndInv'
  <2> DEFINE tk == ticks
  <2>1. current \in Slot /\ IsLive(current) /\ ~ Queued(current) /\ policy # NONE
    BY <1>6 DEF yield, IndInv, TypeOK, ReadyQueueSound, Queued, queue_contains
  <2>2. Yield(current, tk) /\ Frame
    BY <1>6 DEF yield
  <2>3. pc' = "shell" /\ (pid[current] = 1 \/ (pc = "shell" /\ current = current))
    BY <1>6 DEF yield
  <2> HIDE DEF tk
  <2> QED BY ONLY IndInv, <2>1, <2>2, <2>3, YieldInv, SMTT(30)
<1>7. ASSUME process_exit PROVE IndInv'
  BY <1>7, ExitInv DEF process_exit
<1>8. ASSUME NEW n \in 1 .. next_pid - 1, process_kill(n) PROVE IndInv'
  <2>1. n \in Nat
    BY DEF IndInv, TypeOK
  <2> QED BY <1>8, <2>1, KillInv
<1>9. ASSUME TimerIRQ PROVE IndInv'
  BY <1>9, TimerInv, SMTT(30)
<1>10. ASSUME UNCHANGED vars PROVE IndInv'
  BY <1>10 DEF vars, table, sched, IndInv, TypeOK, ReadyQueueSound, LiveAccounting,
               IdleIsSafetyNet, IsLive, Queued
<1> QED BY <1>1, <1>2, <1>3, <1>4, <1>5, <1>6, <1>7, <1>8, <1>9, <1>10, SMTT(30) DEF Next

(* slot_free_map, process_count and the pids agree with the process states *)
(* in every reachable state, for every table size and every mix of         *)
(* creations, exits and kills.                                             *)
THEOREM ProcessTableSafe == Spec => [](TypeOK /\ LiveAccounting)
<1>1. IndInv => TypeOK /\ LiveAccounting
  BY DEF IndInv
<1> QED BY <1>1, InitInv, NextInv, PTL DEF Spec

(* Whatever process_create, yield, exit, kill, the timer and the policy    *)
(* swaps do, the ready queues hold only READY processes, once each, in the *)
(* queue of their priority, and never the current one.                     *)
THEOREM ReadyQueuesSafe == Spec => []ReadyQueueSound
<1>1. IndInv => ReadyQueueSound
  BY DEF IndInv
<1> QED BY <1>1, InitInv, NextInv, PTL DEF Spec

(* process_exit cannot run out of ready processes while idle lives, and    *)
(* outside a policy swap idle is ready or current, although process_init   *)
(* never enqueues it and scheduler_set drops it.                           *)
THEOREM IdleStaysReady == Spec => []IdleIsSafetyNet
<1>1. IndInv => IdleIsSafetyNet
  BY DEF IndInv
<1> QED BY <1>1, InitInv, NextInv, PTL DEF Spec

(* What a step may do to the CPU's stack and to the tick counters. *)
LEMMA StepEffect ==
  ASSUME IndInv, [Next]_vars
  PROVE  /\ sp' = sp
         /\ \/ ticks' = NoTicks
            \/ policy' = policy /\ ticks' = ticks
            \/ /\ policy' = policy
               /\ \E l \in Level : /\ ticks' = [ticks EXCEPT ![l] = @ + 1]
                                   /\ ticks[l] + 1 < Quantum(l)
<1> DEFINE Goal == /\ sp' = sp
                   /\ \/ ticks' = NoTicks
                      \/ policy' = policy /\ ticks' = ticks
                      \/ /\ policy' = policy
                         /\ \E l \in Level : /\ ticks' = [ticks EXCEPT ![l] = @ + 1]
                                             /\ ticks[l] + 1 < Quantum(l)
<1> SUFFICES Goal
  OBVIOUS
<1>1. TypeOK /\ ReadyQueueSound
  BY DEF IndInv
<1>2. ASSUME NEW c \in Slot, IsLive(c), ~ Queued(c), policy # NONE, NEW tk, Yield(c, tk)
      PROVE  sp' = sp /\ ticks' = NoTicks
  BY ONLY <1>1, <1>2, YieldStep
<1>3. ASSUME current # NULL, pc = "shell", Exit
      PROVE  Goal
  <2>1. current \in Slot /\ IsLive(current)
    BY <1>1, <1>3 DEF IndInv, TypeOK
  <2>2. sp' = sp /\ ticks' \in {ticks, NoTicks}
    BY <1>1, <1>3, <2>1, ExitStep
  <2> QED BY <1>3, <2>2, SMTT(30) DEF Exit
<1>4. ASSUME YieldAsIdle, Frame, pc \in {"boot", "bench"}
      PROVE  Goal
  <2> DEFINE idle == process_by_pid(1)
  <2>1. CASE idle = NULL
    BY <1>4, <2>1 DEF YieldAsIdle, Frame
  <2>2. CASE idle # NULL
    <3>1. idle \in Slot /\ pid[idle] = 1 /\ IsLive(idle)
      BY <1>4, <2>2, IdleLive
    <3>2. Yield(idle, ticks)
      BY <1>4, <2>2 DEF YieldAsIdle
    <3> HIDE DEF idle
    <3>3. ~ Queued(idle) /\ policy # NONE
      BY <1>4, <3>1, SMTT(30) DEF IndInv
    <3> QED BY <1>2, <3>1, <3>2, <3>3
  <2> QED BY <2>1, <2>2
<1>5. ASSUME current # NULL, pc \in {"boot", "shell", "bench"}
      PROVE  current \in Slot /\ IsLive(current) /\ ~ Queued(current) /\ policy # NONE
  BY <1>1, <1>5 DEF IndInv, TypeOK, ReadyQueueSound, Queued, queue_contains
<1>6. ASSUME TimerIRQ PROVE Goal
  <2> DEFINE l == IF policy = "MLQ" THEN LevelOf("MLQ", prio[current]) ELSE 0
             t == [ticks EXCEPT ![l] = @ + 1]
  <2>1. current \in Slot /\ IsLive(current) /\ ~ Queued(current) /\ policy # NONE
    BY <1>5, <1>6, SMTT(30) DEF TimerIRQ
  <2>2. /\ policy' = policy
        /\ IF t[l] >= Quantum(l)
             THEN Yield(current, t)
             ELSE ticks' = t /\ sp' = sp
    BY <1>6 DEF TimerIRQ, Frame
  <2>3. l \in Level
    BY <1>1, <2>1, LevelOfType DEF TypeOK, Level
  <2> HIDE DEF l
  <2>4. t[l] = ticks[l] + 1 /\ ticks[l] \in Nat /\ Quantum(l) \in Nat
    BY <1>1, <2>3 DEF TypeOK, Quantum, Level
  <2>5. CASE t[l] >= Quantum(l)
    <3>1. Yield(current, t)
      BY <2>2, <2>5
    <3> HIDE DEF t
    <3> QED BY <1>2, <2>1, <3>1
  <2>6. CASE ~ (t[l] >= Quantum(l))
    <3>1. ticks[l] + 1 < Quantum(l)
      BY <2>4, <2>6
    <3>2. ticks' = t /\ sp' = sp
      BY <2>2, <2>6
    <3> QED BY <2>2, <2>3, <3>1, <3>2, Zenon
  <2> QED BY <2>5, <2>6, SMTT(30)
<1>7. ASSUME yield PROVE Goal
  <2>1. current \in Slot /\ IsLive(current) /\ ~ Queued(current) /\ policy # NONE
    BY <1>5, <1>7 DEF yield
  <2> QED BY <1>2, <1>7, <2>1 DEF yield
<1>8. ASSUME NEW n \in 1 .. next_pid - 1, process_kill(n) PROVE Goal
  <2>1. CASE current # NULL /\ pid[current] = n
    BY <1>3, <1>8, <2>1 DEF process_kill
  <2>2. CASE ~ (current # NULL /\ pid[current] = n)
    BY <1>8, <2>2 DEF process_kill
  <2> QED BY <2>1, <2>2
<1>9. ASSUME process_exit PROVE Goal
  BY <1>3, <1>9 DEF process_exit
<1>10. ASSUME StartDemos \/ BenchStart PROVE Goal
  BY <1>4, <1>10 DEF StartDemos, BenchStart
<1>11. ASSUME Boot \/ \E p \in BenchPolicy : BenchInit(p) PROVE Goal
  BY <1>11 DEF Boot, BenchInit, scheduler_set
<1>12. ASSUME NEW p \in Priority, process_create(p) PROVE Goal
  BY <1>12 DEF process_create
<1>13. ASSUME UNCHANGED vars PROVE Goal
  BY <1>13 DEF vars, sched
<1> HIDE DEF Goal
<1> QED BY <1>6, <1>7, <1>8, <1>9, <1>10, <1>11, <1>12, <1>13, SMTT(30) DEF Next

(* No process keeps the CPU for a whole quantum: every reset and every     *)
(* policy swap leaves the tick counters below the quantum in force.        *)
THEOREM QuantumSafe == Spec => []QuantumRespected
<1>1. \A l \in Level : 0 < Quantum(l) /\ 0 < Quantum(l)'
  BY DEF Level, Quantum
<1>2. Init => QuantumRespected
  BY <1>1 DEF Init, QuantumRespected, NoTicks
<1>3. IndInv /\ QuantumRespected /\ [Next]_vars => QuantumRespected'
  <2> SUFFICES ASSUME IndInv, QuantumRespected, [Next]_vars PROVE QuantumRespected'
    OBVIOUS
  <2>1. CASE ticks' = NoTicks
    BY <1>1, <2>1 DEF QuantumRespected, NoTicks
  <2>2. CASE policy' = policy /\ ticks' = ticks
    BY <2>2 DEF QuantumRespected, Quantum
  <2>3. CASE policy' = policy /\ \E l \in Level : /\ ticks' = [ticks EXCEPT ![l] = @ + 1]
                                                  /\ ticks[l] + 1 < Quantum(l)
    <3>1. \A l \in Level : Quantum(l)' = Quantum(l)
      BY <2>3 DEF Quantum
    <3>2. ticks \in [Level -> Nat]
      BY DEF IndInv, TypeOK
    <3> QED BY <2>3, <3>1, <3>2 DEF QuantumRespected
  <2> QED BY <2>1, <2>2, <2>3, StepEffect
<1> QED BY <1>2, <1>3, InitInv, NextInv, PTL DEF Spec

(* The CPU never leaves the stack boot.asm set up: no context_switch of    *)
(* yield or process_exit loads another one.                                *)
THEOREM BootStackForever == Spec => []StaysOnBootStack
<1>1. Init => StaysOnBootStack
  BY DEF Init, StaysOnBootStack
<1>2. IndInv /\ StaysOnBootStack /\ [Next]_vars => StaysOnBootStack'
  BY StepEffect DEF StaysOnBootStack
<1> QED BY <1>1, <1>2, InitInv, NextInv, PTL DEF Spec

-----------------------------------------------------------------------------
(* What a step may do to the ready processes. *)

(* Nothing is queued before the first scheduler_init. *)
NothingBeforeBoot == pc = "init" => ready = Empty

LEMMA BootNext == NothingBeforeBoot /\ [Next]_vars => NothingBeforeBoot'
<1> SUFFICES ASSUME NothingBeforeBoot, [Next]_vars, pc' = "init" PROVE ready' = ready
  BY DEF NothingBeforeBoot, Next, Boot, process_create, StartDemos, BenchInit, BenchStart,
         yield, process_exit, process_kill, Exit, TimerIRQ, vars, sched
<1> QED BY DEF Next, Boot, process_create, StartDemos, BenchInit, BenchStart, yield,
               process_exit, process_kill, Exit, TimerIRQ, vars, sched

(* Whoever becomes current has the highest priority of the ready. *)
Highest == current' # current /\ current' # NULL /\ policy \in {"PRIORITY", "MLQ"}
             => \A s \in Slot : Queued(s)' => Rank(s) <= Rank(current')

LEMMA YieldKeeps ==
  ASSUME TypeOK, ReadyQueueSound, policy # NONE,
         NEW c \in Slot, ~ Queued(c), IsLive(c), NEW tk, Yield(c, tk)
  PROVE  Kept /\ Highest
<1>1. /\ \A s \in Slot : Queued(s) \/ s = c <=> In(ready', s) \/ s = current'
      /\ policy \in {"PRIORITY", "MLQ"} =>
           \A s \in Slot : In(ready', s) => Rank(s) <= Rank(current')
  BY YieldStep
<1>2. \A s \in Slot : Queued(s)' <=> In(ready', s)
  BY DEF Queued, In
<1>3. Kept
  BY <1>1, <1>2, Zenon DEF Kept
<1>4. Highest
  BY <1>1, <1>2, Zenon DEF Highest
<1> QED BY <1>3, <1>4

LEMMA ExitKeeps ==
  ASSUME IndInv, current # NULL, pc = "shell", Exit
  PROVE  Kept /\ Highest
<1>1. TypeOK /\ ReadyQueueSound /\ current \in Slot /\ IsLive(current)
  BY DEF IndInv, TypeOK
<1>2. \/ pc' = "panic" /\ \A s \in Slot : ~ Queued(s)
      \/ /\ \A s \in Slot : Queued(s) <=> In(ready', s) \/ s = current'
         /\ policy \in {"PRIORITY", "MLQ"} =>
              \A s \in Slot : In(ready', s) => Rank(s) <= Rank(current')
  BY <1>1, ExitStep
<1>3. \A s \in Slot : Queued(s)' <=> In(ready', s)
  BY DEF Queued, In
<1>4. pc' = "panic" => current' = current
  BY DEF Exit
<1>5. Kept
  BY <1>2, <1>3, Zenon DEF Kept
<1>6. Highest
  BY <1>2, <1>3, <1>4, Zenon DEF Highest
<1> QED BY <1>5, <1>6

LEMMA IdleKeeps ==
  ASSUME IndInv, YieldAsIdle, pc \in {"boot", "bench"}
  PROVE  Kept /\ Highest
<1> DEFINE idle == process_by_pid(1)
<1>1. CASE idle = NULL
  <2>1. current' = NULL /\ ready' = ready
    BY <1>1 DEF YieldAsIdle
  <2> QED BY <2>1 DEF Kept, Highest, Queued
<1>2. CASE idle # NULL
  <2>1. idle \in Slot /\ pid[idle] = 1 /\ IsLive(idle)
    BY <1>2, IdleLive
  <2>2. Yield(idle, ticks)
    BY <1>2 DEF YieldAsIdle
  <2> HIDE DEF idle
  <2>3. ~ Queued(idle) /\ policy # NONE
    BY <2>1, SMTT(30) DEF IndInv
  <2>4. TypeOK /\ ReadyQueueSound
    BY DEF IndInv
  <2> QED BY <2>1, <2>2, <2>3, <2>4, YieldKeeps
<1> QED BY <1>1, <1>2

LEMMA CreateKeeps ==
  ASSUME IndInv, NEW pr \in Priority, process_create(pr)
  PROVE  Kept /\ Highest
<1>1. current' = current
  BY DEF process_create
<1>2. \A s \in Slot : Queued(s) => Queued(s)'
  <2>1. CASE ready' = ready
    BY <2>1 DEF Queued
  <2>2. ASSUME NEW l \in Level, NEW c \in Slot, ready' = [ready EXCEPT ![l] = Append(@, c)]
        PROVE  \A s \in Slot : Queued(s) => Queued(s)'
    <3> TAKE s \in Slot
    <3> HAVE Queued(s)
    <3>1. PICK m \in Level : \E i \in 1 .. Len(ready[m]) : ready[m][i] = s
      BY DEF Queued, queue_contains
    <3>2. PICK i \in 1 .. Len(ready[m]) : ready[m][i] = s
      BY <3>1
    <3>3. ready \in [Level -> Seq(Slot)] /\ ready[m] \in Seq(Slot)
      BY DEF IndInv, TypeOK
    <3>4. Len(ready'[m]) >= Len(ready[m]) /\ ready'[m][i] = s /\ Len(ready'[m]) \in Nat
      <4>1. CASE m = l
        <5>1. ready'[m] = Append(ready[m], c)
          BY <2>2, <3>3, <4>1
        <5> QED BY <3>2, <3>3, <5>1
      <4>2. CASE m # l
        <5>1. ready'[m] = ready[m]
          BY <2>2, <3>3, <4>2
        <5> QED BY <3>2, <3>3, <5>1
      <4> QED BY <4>1, <4>2
    <3>5. i \in 1 .. Len(ready'[m])
      BY <3>3, <3>4
    <3> QED BY <3>4, <3>5 DEF Queued, queue_contains
  <2>3. pr \in Nat /\ free # {} /\ free \subseteq Slot
    BY ProcessAssumption DEF process_create, IndInv, TypeOK
  <2>4. LevelOf(policy, pr) \in Level
    BY <2>3, LevelOfType
  <2> DEFINE c == CHOOSE c \in free : \A t \in free : c <= t
  <2>5. c \in Slot
    <3>1. free \subseteq Nat
      BY <2>3, ProcessAssumption DEF Slot
    <3>2. \E x \in free : \A t \in free : x <= t
      BY ONLY <2>3, <3>1, LeastExists
    <3> QED BY <2>3, <3>2
  <2>6. ready' = IF policy = NONE THEN ready
                 ELSE [ready EXCEPT ![LevelOf(policy, pr)] = Append(@, c)]
    BY DEF process_create
  <2> HIDE DEF c
  <2> QED BY <2>1, <2>2, <2>4, <2>5, <2>6
<1> QED BY <1>1, <1>2, Zenon DEF Kept, Highest

LEMMA KillKeeps ==
  ASSUME IndInv, NEW n \in Nat, process_kill(n)
  PROVE  Kept /\ Highest
<1>1. CASE current # NULL /\ pid[current] = n
  BY <1>1, ExitKeeps DEF process_kill
<1>2. CASE ~ (current # NULL /\ pid[current] = n)
  <2> DEFINE c == pcb_by_pid(n)
             r == scheduler_remove(c)
  <2>1. /\ c # NULL /\ ready' = r /\ state' = [state EXCEPT ![c] = "TERMINATED"]
        /\ current' = current
    BY <1>2 DEF process_kill
  <2>2. c \in Slot
    BY <2>1, LookupLive DEF IndInv
  <2> HIDE DEF c
  <2>3. r = scheduler_remove(c) /\ TypeOK /\ Sound(policy, prio, state, ready)
    BY DEF IndInv, TypeOK, ReadyQueueSound, Sound
  <2> HIDE DEF r
  <2>4. \A s \in Slot : In(r, s) <=> In(ready, s) /\ s # c
    BY ONLY <2>2, <2>3, RemoveSound
  <2>5. \A s \in Slot : Queued(s) => Queued(s)' \/ s = c
    BY <2>1, <2>4 DEF Queued, In
  <2>6. state'[c] = "TERMINATED"
    BY <2>1, <2>2, <2>3 DEF TypeOK
  <2> QED BY <2>1, <2>5, <2>6, Zenon DEF Kept, Highest
<1> QED BY <1>1, <1>2

LEMMA StepKeeps ==
  ASSUME IndInv, NothingBeforeBoot, [Next]_vars
  PROVE  Kept /\ Highest
<1> DEFINE Goal == Kept /\ Highest
<1>1. TypeOK /\ ReadyQueueSound
  BY DEF IndInv
<1>2. ASSUME current # NULL, pc \in {"boot", "shell", "bench"}
      PROVE  current \in Slot /\ IsLive(current) /\ ~ Queued(current) /\ policy # NONE
  BY <1>1, <1>2 DEF IndInv, TypeOK, ReadyQueueSound, Queued, queue_contains
<1>3. ASSUME ready' = ready, current' = current PROVE Goal
  BY <1>3 DEF Kept, Highest, Queued
<1>4. ASSUME Boot PROVE Goal
  <2>1. ready = Empty /\ current' = current
    BY <1>4 DEF Boot, NothingBeforeBoot
  <2>2. \A s \in Slot : ~ Queued(s)
    BY <2>1 DEF Queued, queue_contains, Empty
  <2> QED BY <2>1, <2>2, Zenon DEF Kept, Highest
<1>5. ASSUME NEW p \in Priority, process_create(p) PROVE Goal
  BY <1>5, CreateKeeps
<1>6. ASSUME StartDemos \/ BenchStart PROVE Goal
  BY <1>6, IdleKeeps DEF StartDemos, BenchStart
<1>7. ASSUME NEW p \in BenchPolicy, BenchInit(p) PROVE Goal
  <2>1. current' = current
    BY <1>7 DEF BenchInit
  <2> QED BY <1>7, <2>1, Zenon DEF Kept, Highest
<1>8. ASSUME yield PROVE Goal
  <2>1. current \in Slot /\ IsLive(current) /\ ~ Queued(current) /\ policy # NONE
    BY <1>2, <1>8 DEF yield
  <2> QED BY <1>1, <1>8, <2>1, YieldKeeps DEF yield
<1>9. ASSUME process_exit PROVE Goal
  BY <1>9, ExitKeeps DEF process_exit
<1>10. ASSUME NEW n \in 1 .. next_pid - 1, process_kill(n) PROVE Goal
  <2>1. n \in Nat
    BY DEF IndInv, TypeOK
  <2> QED BY <1>10, <2>1, KillKeeps
<1>11. ASSUME TimerIRQ PROVE Goal
  <2> DEFINE l == IF policy = "MLQ" THEN LevelOf("MLQ", prio[current]) ELSE 0
             t == [ticks EXCEPT ![l] = @ + 1]
  <2>1. current \in Slot /\ IsLive(current) /\ ~ Queued(current) /\ policy # NONE
    BY <1>2, <1>11, SMTT(30) DEF TimerIRQ
  <2>2. Yield(current, t) \/ (ready' = ready /\ current' = current)
    BY <1>11, SMTT(30) DEF TimerIRQ
  <2> HIDE DEF t
  <2> QED BY <1>1, <1>3, <2>1, <2>2, YieldKeeps
<1>12. ASSUME UNCHANGED vars PROVE Goal
  BY <1>3, <1>12 DEF vars, sched
<1> HIDE DEF Goal
<1>13. Goal
  BY <1>4, <1>5, <1>6, <1>7, <1>8, <1>9, <1>10, <1>11, <1>12, SMTT(30) DEF Next
<1> QED BY <1>13 DEF Goal

(* No call loses a queued process: it leaves the ready queues only for the *)
(* CPU, by dying, or with the queues that scheduler_set drops.             *)
THEOREM QueuedAreKept == Spec => NoneLostButBySwap
<1>1. Init => NothingBeforeBoot
  BY DEF Init, NothingBeforeBoot
<1>2. IndInv /\ NothingBeforeBoot /\ [Next]_vars => [Kept]_vars
  BY StepKeeps
<1> QED BY <1>1, <1>2, BootNext, InitInv, NextInv, PTL DEF Spec, NoneLostButBySwap

(* Under PRIORITY and MLQ, for every number of processes and whatever      *)
(* priorities callers pass, yield and process_exit never dispatch a        *)
(* process while one of higher priority stays in the ready queues.         *)
THEOREM HighestIsDispatched == Spec => DispatchesHighestPriority
<1>1. Init => NothingBeforeBoot
  BY DEF Init, NothingBeforeBoot
<1>2. IndInv /\ NothingBeforeBoot /\ [Next]_vars =>
        [current' # current /\ current' # NULL /\ policy \in {"PRIORITY", "MLQ"}
           => \A s \in Slot : Queued(s)' => Rank(s) <= Rank(current')]_vars
  BY StepKeeps DEF Highest
<1> QED BY <1>1, <1>2, BootNext, InitInv, NextInv, PTL DEF Spec, DispatchesHighestPriority
=============================================================================
