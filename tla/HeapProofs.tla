----------------------------- MODULE HeapProofs -----------------------------
(***************************************************************************)
(* The tiling of the heap, proved for every window, header and alignment.  *)
(***************************************************************************)
EXTENDS Heap, TLAPS

(* The remainder of a division by a positive number is below it and not    *)
(* above the number divided.                                               *)
LEMMA ModBounds ==
  ASSUME NEW m \in Nat, NEW k \in Nat \ {0}
  PROVE  m % k \in Nat /\ m % k < k /\ m % k <= m
  OBVIOUS

(* align_up returns a natural number, and rounds up unless it wraps.       *)
LEMMA AlignUp ==
  ASSUME NEW n \in Nat
  PROVE  /\ align_up(n) \in Nat
         /\ n + HEAP_ALIGN - 1 < SIZE_MOD => align_up(n) >= n
<1> DEFINE m == (n + HEAP_ALIGN - 1) % SIZE_MOD
<1>1. n + HEAP_ALIGN - 1 \in Nat  BY HeapAssumption
<1>2. m \in Nat  BY <1>1, HeapAssumption, ModBounds
<1>3. m % HEAP_ALIGN \in Nat /\ m % HEAP_ALIGN < HEAP_ALIGN /\ m % HEAP_ALIGN <= m
  BY <1>2, HeapAssumption, ModBounds
<1>4. n + HEAP_ALIGN - 1 < SIZE_MOD => m = n + HEAP_ALIGN - 1
  BY <1>1, HeapAssumption
<1> HIDE DEF m
<1>5. align_up(n) = m - (m % HEAP_ALIGN)  BY DEF align_up, m
<1> QED  BY <1>2, <1>3, <1>4, <1>5, HeapAssumption

-----------------------------------------------------------------------------
(* What the calls in progress rely on: kmalloc serves a request, krealloc  *)
(* replaces a smaller block that is held, kfree works on a block, and the  *)
(* block it extends is free.                                               *)
CallOK ==
  /\ op = "malloc" => asked \in Request
  /\ old # NULL => op = "malloc" /\ held[old] > 0 /\ size[old] < asked
  /\ op \in {"free", "coalesce"} => cur \in blocks
  /\ op = "coalesce" => free[cur]

IInv == TypeOK /\ HeapTiled /\ HeadersIntact /\ HeldSound /\ CallOK

LEMMA InitInv ==  Init => IInv /\ FirstFit
  BY HeapAssumption
  DEF Init, IInv, TypeOK, HeapTiled, HeadersIntact, HeldSound, CallOK, FirstFit, End, Addr, NULL

(* A step that leaves the heap and the owners alone keeps their invariants. *)
LEMMA HeapSame ==
  ASSUME IInv, UNCHANGED <<heap, held>>
  PROVE  HeapTiled' /\ HeadersIntact' /\ HeldSound'
  BY DEF IInv, TypeOK, HeapTiled, HeadersIntact, HeldSound, End, heap

LEMMA WalkInv ==
  ASSUME IInv, Walk
  PROVE  IInv' /\ (FirstFit => FirstFit')
<1>1. HeapTiled' /\ HeadersIntact' /\ HeldSound'
  BY HeapSame DEF Walk
<1>2. TypeOK' /\ CallOK'
  <2>1. CASE Return
    BY <2>1 DEF IInv, TypeOK, CallOK, Walk, Return, heap
  <2>2. CASE cur' = next[cur] /\ cur \in tagged /\ UNCHANGED <<op, asked, old>>
    <3>1. cur \in blocks  BY <2>2 DEF IInv, TypeOK, Addr, NULL
    <3>2. cur' \in blocks \cup {NULL}  BY <2>2, <3>1 DEF IInv, HeapTiled
    <3> QED  BY <2>2, <3>2 DEF IInv, TypeOK, CallOK, Walk, heap
  <2> QED  BY <2>1, <2>2 DEF Walk
<1>3. ASSUME FirstFit, op' = "malloc", NEW b \in blocks, cur' = NULL \/ b < cur'
      PROVE  ~ Fits(b)
  <2>1. cur \in blocks /\ cur' = next[cur] /\ ~ Fits(cur)
    BY <1>3 DEF Walk, Return, IInv, TypeOK, Addr, NULL
  <2>2. CASE b < cur  BY <2>2, <1>3 DEF FirstFit, Walk
  <2>3. CASE b = cur  BY <2>3, <2>1
  <2>4. CASE b > cur
    <3>1. End(cur) <= b  BY <2>1, <2>4 DEF IInv, HeapTiled
    <3>2. b < HEAP_SIZE /\ b \in Int /\ cur \in Int /\ End(cur) \in Int
      BY <2>1, HeapAssumption, SMTT(30) DEF IInv, TypeOK, Addr, NULL, End
    <3>3. next[cur] # NULL => next[cur] = End(cur)  BY <2>1 DEF IInv, HeapTiled
    <3>4. next[cur] = NULL => HEAP_SIZE = End(cur)
      BY <2>1, HeapAssumption DEF IInv, HeapTiled, TypeOK, Addr, NULL
    <3> QED  BY <1>3, <2>1, <3>1, <3>2, <3>3, <3>4, HeapAssumption
  <2> QED  BY <2>2, <2>3, <2>4, <2>1, HeapAssumption DEF IInv, TypeOK, Addr
<1>4. FirstFit => FirstFit'
  <2> SUFFICES ASSUME FirstFit, op' = "malloc", NEW b \in blocks', cur' = NULL \/ b < cur'
               PROVE  ~ Fits(b)'
    BY DEF FirstFit
  <2>1. b \in blocks  BY DEF Walk, heap
  <2>2. ~ Fits(b)  BY <1>3, <2>1
  <2>3. asked' = asked  BY DEF Walk, Return
  <2> QED  BY <2>2, <2>3 DEF Walk, heap, Fits
<1> QED  BY <1>1, <1>2, <1>4 DEF IInv

(* kmalloc takes a block, whole or split; krealloc's copy stays inside it. *)
LEMMA TakeInv ==
  ASSUME IInv, NoWrap, Take
  PROVE  IInv' /\ FirstFit'
<1> DEFINE want == align_up(asked)
           tail == cur + HEADER + want
<1>1. /\ asked \in Request /\ asked \in Nat /\ asked > 0
      /\ want \in Nat /\ want >= asked
  <2>1. asked \in Request  BY DEF IInv, CallOK, Take
  <2>2. asked \in Nat /\ asked > 0 /\ asked + HEAP_ALIGN - 1 < SIZE_MOD
    BY <2>1, HeapAssumption DEF NoWrap
  <2>3. align_up(asked) \in Nat /\ align_up(asked) >= asked  BY <2>2, AlignUp
  <2> QED  BY <2>1, <2>2, <2>3
<1>2. /\ cur \in blocks /\ cur \in Addr /\ cur \in Int
      /\ size[cur] \in Nat /\ size[cur] >= want /\ free[cur]
  BY HeapAssumption DEF IInv, TypeOK, Take, Fits, Addr, NULL
<1>3. /\ Copied \in Nat /\ Copied <= want
      /\ old # NULL => old \in blocks /\ old # cur /\ held[old] > 0
  <2>1. CASE old = NULL  BY <2>1, <1>1 DEF Copied
  <2>2. CASE old # NULL
    <3>1. old \in blocks /\ old \in Addr /\ held[old] > 0 /\ size[old] < asked
      BY <2>2 DEF IInv, TypeOK, CallOK
    <3>2. ~ free[old] /\ size[old] \in Nat  BY <3>1 DEF IInv, HeldSound, TypeOK
    <3> QED  BY <2>2, <3>1, <3>2, <1>1, <1>2 DEF Copied
  <2> QED  BY <2>1, <2>2
<1>4. cur + HEADER + size[cur] <= HEAP_SIZE
      /\ \A b \in blocks : b > cur => b >= cur + HEADER + size[cur]
  <2>1. \A b \in blocks : b \in Addr /\ b \in Int /\ (b > cur => b >= End(cur))
    BY <1>2, HeapAssumption DEF IInv, HeapTiled, TypeOK, Addr, End
  <2>2. End(cur) = HEAP_SIZE \/ End(cur) \in blocks
    BY <1>2 DEF IInv, HeapTiled
  <2> QED  BY <2>1, <2>2, HeapAssumption DEF End, Addr
<1> HIDE DEF want
<1>5. CallOK' /\ FirstFit' /\ op' \in {"idle", "free"} /\ cur' \in blocks \cup {NULL}
      /\ asked' = 0 /\ old' = NULL
  BY <1>3 DEF CallOK, FirstFit, Take, Return, Split
<1>6. held' = [held EXCEPT ![cur] = asked]  BY DEF Take
<1>7. CASE Splittable(cur, want)
  <2>1. /\ tail \in Addr /\ tail \in Int /\ tail > cur /\ tail \notin blocks
        /\ size[cur] - want - HEADER \in Nat
    BY <1>7, <1>1, <1>2, <1>4, HeapAssumption DEF Splittable, Addr
  <2>2. /\ size' = [size EXCEPT ![tail] = size[cur] - want - HEADER, ![cur] = want]
        /\ next' = [next EXCEPT ![tail] = next[cur], ![cur] = tail]
        /\ free' = [free EXCEPT ![tail] = TRUE, ![cur] = FALSE]
        /\ blocks' = blocks \cup {tail}
        /\ tagged' = Spared(tagged \cup {tail}, cur, Copied)
    BY <1>7 DEF Take, Split, want
  <2> HIDE DEF tail
  <2>3. TypeOK'
    BY <1>1, <1>2, <1>5, <1>6, <2>1, <2>2, Zenon DEF IInv, TypeOK, Spared
  <2>4. /\ size'[tail] = size[cur] - want - HEADER /\ next'[tail] = next[cur]
        /\ size'[cur] = want /\ next'[cur] = tail
        /\ \A b \in blocks : b # cur => size'[b] = size[b] /\ next'[b] = next[b]
    BY <1>2, <2>1, <2>2 DEF IInv, TypeOK
  <2> DEFINE NewEnd(b) == b + HEADER + size'[b]
  <2>5. /\ NewEnd(cur) = tail /\ NewEnd(tail) = End(cur)
        /\ \A b \in blocks : b # cur => NewEnd(b) = End(b)
    BY <1>1, <1>2, <2>4, HeapAssumption DEF End, tail
  <2> HIDE DEF NewEnd
  <2>6. HeapTiled'
    <3>1. 0 \in blocks'  BY <2>2 DEF IInv, HeapTiled
    <3>2. ASSUME NEW b \in blocks'
          PROVE  \/ next'[b] = NULL /\ NewEnd(b) = HEAP_SIZE
                 \/ next'[b] \in blocks' /\ NewEnd(b) = next'[b]
      <4>0. \A x \in blocks : (next[x] = NULL /\ End(x) = HEAP_SIZE)
                              \/ (next[x] \in blocks /\ End(x) = next[x])
        BY DEF IInv, HeapTiled
      <4>1. CASE b = cur  BY <4>1, <2>2, <2>4, <2>5
      <4>2. CASE b = tail  BY <4>0, <4>2, <1>2, <2>2, <2>4, <2>5
      <4>3. CASE b \in blocks /\ b # cur
        <5>1. next'[b] = next[b] /\ NewEnd(b) = End(b)  BY <4>3, <2>4, <2>5
        <5> QED  BY <4>0, <4>3, <5>1, <2>2
      <4> QED  BY <4>1, <4>2, <4>3, <2>2
    <3>3. ASSUME NEW a \in blocks', NEW b \in blocks', a < b
          PROVE  NewEnd(a) <= b
      <4>1. \A x \in blocks : x \in Int /\ size[x] \in Nat
        BY HeapAssumption DEF IInv, TypeOK, Addr
      <4>2. \A x, y \in blocks : x < y => x + HEADER + size[x] <= y
        BY DEF IInv, HeapTiled, End
      <4>3. CASE a = cur /\ b = tail  BY <4>3, <2>5, <2>1
      <4>4. CASE a = cur /\ b \in blocks
        BY <4>4, <3>3, <1>1, <1>2, <1>4, <2>1, <2>5, <4>1, <1>7, HeapAssumption DEF Splittable, tail
      <4>5. CASE a = tail /\ b \in blocks
        BY <4>5, <3>3, <1>2, <1>4, <2>1, <2>5, <4>1 DEF End
      <4>6. CASE a \in blocks \ {cur} /\ b = tail
        <5>1. NewEnd(a) = End(a)  BY <4>6, <2>5
        <5>2. a < cur
          BY <4>6, <3>3, <1>1, <1>2, <1>4, <4>1, <1>7, HeapAssumption DEF Splittable, tail
        <5>3. End(a) <= cur  BY <5>2, <4>6, <1>2 DEF IInv, HeapTiled
        <5> QED  BY <5>1, <5>3, <4>1, <4>6, <2>1, <1>2, HeapAssumption DEF End
      <4>7. CASE a \in blocks \ {cur} /\ b \in blocks
        <5>1. NewEnd(a) = a + HEADER + size[a]  BY <4>7, <2>5 DEF End
        <5> QED  BY <5>1, <4>7, <3>3, <4>2
      <4>8. CASE a = tail /\ b = tail  BY <4>8, <3>3, <2>1
      <4> QED  BY <2>2, <4>3, <4>4, <4>5, <4>6, <4>7, <4>8
    <3> QED  BY <3>1, <3>2, <3>3 DEF HeapTiled, End, NewEnd
  <2>7. HeadersIntact'
    <3>1. \A h \in blocks : h \in Int  BY HeapAssumption DEF IInv, TypeOK, Addr
    <3>2. \A h \in blocks \cup {tail} : h <= cur \/ h >= cur + HEADER + Copied
      BY <3>1, <1>1, <1>2, <1>3, <1>4, HeapAssumption DEF tail
    <3>3. blocks \cup {tail} \subseteq tagged \cup {tail}  BY DEF IInv, HeadersIntact
    <3> QED  BY <3>2, <3>3, <2>2 DEF HeadersIntact, Spared
  <2>8. HeldSound'
    BY <1>1, <1>2, <1>6, <2>1, <2>2 DEF IInv, HeldSound, TypeOK
  <2> QED  BY <1>5, <2>3, <2>6, <2>7, <2>8 DEF IInv
<1>8. CASE ~ Splittable(cur, want)
  <2>1. /\ UNCHANGED <<size, next, blocks>>
        /\ free' = [free EXCEPT ![cur] = FALSE]
        /\ tagged' = Spared(tagged, cur, Copied)
    BY <1>8 DEF Take, want
  <2>2. TypeOK'
    BY <1>1, <1>2, <1>5, <1>6, <2>1, Zenon DEF IInv, TypeOK, Spared
  <2>3. HeapTiled'
    BY <2>1 DEF IInv, HeapTiled, End
  <2>4. HeadersIntact'
    BY <1>1, <1>2, <1>3, <1>4, <2>1, HeapAssumption
    DEF IInv, HeadersIntact, Spared, TypeOK, Addr
  <2>5. HeldSound'
    BY <1>1, <1>2, <1>6, <2>1 DEF IInv, HeldSound, TypeOK
  <2> QED  BY <1>5, <2>2, <2>3, <2>4, <2>5 DEF IInv
<1> QED  BY <1>7, <1>8

(* kfree's first half, with its guards. *)
LEMMA FreeMarkInv ==
  ASSUME IInv, FreeMark
  PROVE  IInv' /\ FirstFit'
<1>1. CASE Return /\ UNCHANGED <<free, held>>
  <2>1. UNCHANGED <<heap, held>>  BY <1>1 DEF FreeMark, heap
  <2>2. HeapTiled' /\ HeadersIntact' /\ HeldSound'  BY <2>1, HeapSame
  <2> QED  BY <1>1, <2>1, <2>2 DEF IInv, TypeOK, CallOK, FirstFit, Return, heap
<1>2. CASE /\ op' = "coalesce"
           /\ free' = [free EXCEPT ![cur] = TRUE]
           /\ held' = [held EXCEPT ![cur] = 0]
           /\ UNCHANGED <<cur, asked, old>>
  <2>1. cur \in blocks /\ cur \in Addr /\ UNCHANGED <<size, next, tagged, blocks>>
        /\ old = NULL
    BY DEF FreeMark, IInv, TypeOK, CallOK
  <2>2. TypeOK'  BY <1>2, <2>1 DEF IInv, TypeOK
  <2>3. HeapTiled' /\ HeadersIntact'  BY <2>1 DEF IInv, HeapTiled, HeadersIntact, End
  <2>4. HeldSound'  BY <1>2, <2>1 DEF IInv, HeldSound, TypeOK
  <2>5. CallOK' /\ FirstFit'  BY <1>2, <2>1 DEF CallOK, FirstFit, IInv, TypeOK
  <2> QED  BY <2>2, <2>3, <2>4, <2>5 DEF IInv
<1> QED  BY <1>1, <1>2 DEF FreeMark

(* kfree merges the block with its list neighbour, which is also the next  *)
(* block in memory.                                                        *)
LEMMA CoalesceInv ==
  ASSUME IInv, Coalesce
  PROVE  IInv' /\ FirstFit'
<1>1. CASE Return /\ UNCHANGED heap
  <2>1. UNCHANGED <<heap, held>>  BY <1>1 DEF Coalesce
  <2>2. HeapTiled' /\ HeadersIntact' /\ HeldSound'  BY <2>1, HeapSame
  <2> QED  BY <1>1, <2>1, <2>2 DEF IInv, TypeOK, CallOK, FirstFit, Return, heap
<1>2. CASE /\ next[cur] # NULL /\ free[next[cur]]
           /\ Absorb(next[cur]) /\ UNCHANGED <<op, cur, asked, old>>
  <2> DEFINE n == next[cur]
             NewEnd(b) == b + HEADER + size'[b]
  <2>1. /\ cur \in blocks /\ cur \in Addr /\ cur \in Int /\ old = NULL /\ free[cur]
        /\ op = "coalesce" /\ UNCHANGED held
    BY HeapAssumption DEF Coalesce, IInv, TypeOK, CallOK, Addr
  <2>2. /\ n \in blocks /\ n \in Addr /\ n \in Int /\ End(cur) = n /\ free[n]
    BY <1>2, <2>1, HeapAssumption DEF IInv, TypeOK, HeapTiled, Addr
  <2>3. \A b \in blocks : b \in Int /\ b >= 0 /\ size[b] \in Nat /\ b \in Addr /\ End(b) = b + HEADER + size[b]
    BY HeapAssumption DEF IInv, TypeOK, Addr, End
  <2>4. cur < n  BY <2>1, <2>2, <2>3, HeapAssumption
  <2>5. /\ size' = [size EXCEPT ![cur] = @ + HEADER + size[n], ![n] = 0]
        /\ next' = [next EXCEPT ![cur] = next[n], ![n] = NULL]
        /\ blocks' = blocks \ {n} /\ tagged' = tagged \ {n} /\ free' = free
    BY <1>2 DEF Absorb
  <2> HIDE DEF n
  <2>6. TypeOK'
    BY <1>2, <2>1, <2>2, <2>3, <2>4, <2>5, HeapAssumption DEF IInv, TypeOK
  <2>7. /\ size'[cur] = size[cur] + HEADER + size[n] /\ next'[cur] = next[n]
        /\ \A b \in blocks : b # cur /\ b # n => size'[b] = size[b] /\ next'[b] = next[b]
    BY <2>1, <2>2, <2>4, <2>5 DEF IInv, TypeOK
  <2>8. /\ NewEnd(cur) = End(n)
        /\ \A b \in blocks : b # cur /\ b # n => NewEnd(b) = End(b)
    <3>1. n = cur + HEADER + size[cur] /\ End(n) = n + HEADER + size[n]
          /\ size[n] \in Nat /\ size[cur] \in Nat
      BY <2>1, <2>2, <2>3
    <3>2. NewEnd(cur) = End(n)  BY <3>1, <2>1, <2>7, HeapAssumption
    <3>3. \A b \in blocks : b # cur /\ b # n => NewEnd(b) = End(b)  BY <2>3, <2>7
    <3> QED  BY <3>2, <3>3
  <2> HIDE DEF NewEnd
  <2>9. /\ \A x \in blocks : (next[x] = NULL /\ End(x) = HEAP_SIZE)
                            \/ (next[x] \in blocks /\ End(x) = next[x])
        /\ \A x, y \in blocks : x < y => End(x) <= y
        /\ 0 \in blocks
    BY DEF IInv, HeapTiled
  <2>10. HeapTiled'
    <3>1. 0 \in blocks'  BY <2>1, <2>3, <2>4, <2>5, <2>9
    <3>2. ASSUME NEW b \in blocks'
          PROVE  \/ next'[b] = NULL /\ NewEnd(b) = HEAP_SIZE
                 \/ next'[b] \in blocks' /\ NewEnd(b) = next'[b]
      <4>1. b \in blocks /\ b # n  BY <2>5
      <4>2. CASE b = cur
        <5>1. End(n) > n  BY <2>2, <2>3, HeapAssumption
        <5>2. next[n] # n
          <6> SUFFICES ASSUME next[n] = n PROVE FALSE  OBVIOUS
          <6>1. End(n) = n  BY <2>2, <2>9, HeapAssumption DEF NULL, Addr
          <6> QED  BY <6>1, <5>1, <2>2
        <5> QED  BY <4>2, <5>2, <2>2, <2>5, <2>7, <2>8, <2>9
      <4>3. CASE b # cur
        <5>1. next'[b] = next[b] /\ NewEnd(b) = End(b)  BY <4>1, <4>3, <2>7, <2>8
        <5>2. End(b) # n
          <6>1. CASE b < cur
            <7>1. End(b) <= cur  BY <6>1, <4>1, <2>1, <2>9
            <7> QED  BY <7>1, <2>1, <2>2, <2>3, <2>4, <4>1, HeapAssumption
          <6>2. CASE b > cur
            <7>1. End(cur) <= b  BY <6>2, <4>1, <2>1, <2>9
            <7> QED  BY <7>1, <2>2, <2>3, <4>1, HeapAssumption
          <6> QED  BY <6>1, <6>2, <4>1, <4>3, <2>1, <2>3
        <5> QED  BY <5>1, <5>2, <4>1, <2>5, <2>9
      <4> QED  BY <4>2, <4>3
    <3>3. ASSUME NEW a \in blocks', NEW b \in blocks', a < b
          PROVE  NewEnd(a) <= b
      <4>1. a \in blocks /\ b \in blocks /\ a # n /\ b # n  BY <2>5
      <4>2. CASE a = cur
        <5>1. End(cur) <= b  BY <4>1, <4>2, <3>3, <2>1, <2>9
        <5>2. n < b  BY <5>1, <4>1, <2>2, <2>3
        <5> QED  BY <5>2, <4>1, <4>2, <2>2, <2>8, <2>9
      <4>3. CASE a # cur
        <5>1. NewEnd(a) = End(a)  BY <4>1, <4>3, <2>8
        <5> QED  BY <5>1, <4>1, <3>3, <2>9
      <4> QED  BY <4>2, <4>3
    <3> QED  BY <3>1, <3>2, <3>3 DEF HeapTiled, End, NewEnd
  <2>11. HeadersIntact'  BY <2>5 DEF IInv, HeadersIntact
  <2>12. HeldSound'
    <3>1. held[n] = 0 /\ held[cur] = 0
      BY <2>1, <2>2 DEF IInv, HeldSound, TypeOK
    <3>2. ASSUME NEW a \in Addr, held[a] > 0
          PROVE  a \in blocks' /\ ~ free[a] /\ size'[a] >= held[a]
      <4>1. a # n /\ a # cur  BY <3>1, <3>2
      <4>2. a \in blocks /\ ~ free[a] /\ size[a] >= held[a]  BY <3>2 DEF IInv, HeldSound
      <4> QED  BY <4>1, <4>2, <2>5, <2>7, Zenon
    <3> QED  BY <3>2, <2>1, <2>5, Zenon DEF IInv, HeldSound
  <2>13. CallOK' /\ FirstFit'  BY <1>2, <2>1, <2>4, <2>5 DEF CallOK, FirstFit, IInv, TypeOK
  <2> QED  BY <2>6, <2>10, <2>11, <2>12, <2>13 DEF IInv
<1> QED  BY <1>1, <1>2 DEF Coalesce

(* The starts of the calls, the short way through krealloc, and a client's *)
(* writes.                                                                 *)
LEMMA KmallocInv ==
  ASSUME IInv, NEW n \in Request, kmalloc(n)
  PROVE  IInv' /\ FirstFit'
<1>1. HeapTiled' /\ HeadersIntact' /\ HeldSound'  BY HeapSame DEF kmalloc
<1>2. TypeOK' /\ CallOK'
  BY HeapAssumption DEF IInv, TypeOK, HeapTiled, CallOK, kmalloc, heap
<1>3. FirstFit'
  BY HeapAssumption DEF IInv, TypeOK, FirstFit, kmalloc, heap, Addr, NULL
<1> QED  BY <1>1, <1>2, <1>3 DEF IInv

LEMMA KfreeInv ==
  ASSUME IInv, NEW b \in blocks, kfree(b)
  PROVE  IInv' /\ FirstFit'
<1>1. HeapTiled' /\ HeadersIntact' /\ HeldSound'  BY HeapSame DEF kfree
<1>2. TypeOK' /\ CallOK' /\ FirstFit'
  BY DEF IInv, TypeOK, CallOK, kfree, heap, FirstFit
<1> QED  BY <1>1, <1>2 DEF IInv

LEMMA KreallocInv ==
  ASSUME IInv, NEW b \in blocks, NEW n \in Request, krealloc(b, n)
  PROVE  IInv' /\ FirstFit'
<1>1. b \in Addr /\ size[b] \in Nat /\ n \in Nat /\ n > 0 /\ held[b] > 0 /\ op = "idle" /\ old = NULL
  BY HeapAssumption DEF IInv, TypeOK, CallOK, krealloc
<1>2. CASE size[b] >= n
  <2>1. held' = [held EXCEPT ![b] = n] /\ UNCHANGED <<heap, op, cur, asked, old>>
    BY <1>2 DEF krealloc
  <2>2. TypeOK' /\ CallOK' /\ FirstFit'
    BY <1>1, <2>1 DEF IInv, TypeOK, CallOK, FirstFit, heap
  <2>3. HeapTiled' /\ HeadersIntact'  BY <2>1 DEF IInv, HeapTiled, HeadersIntact, End, heap
  <2>4. HeldSound'  BY <1>1, <1>2, <2>1 DEF IInv, HeldSound, TypeOK, heap
  <2> QED  BY <2>2, <2>3, <2>4 DEF IInv
<1>3. CASE ~ (size[b] >= n)
  <2>1. op' = "malloc" /\ cur' = 0 /\ asked' = n /\ old' = b /\ UNCHANGED <<heap, held>>
    BY <1>3 DEF krealloc
  <2>2. HeapTiled' /\ HeadersIntact' /\ HeldSound'  BY <2>1, HeapSame
  <2>3. TypeOK'  BY <1>1, <2>1 DEF IInv, TypeOK, HeapTiled, heap
  <2>4. CallOK'  BY <1>1, <1>3, <2>1 DEF CallOK, heap
  <2>5. FirstFit'
    BY <2>1, HeapAssumption DEF IInv, TypeOK, FirstFit, heap, Addr, NULL
  <2> QED  BY <2>2, <2>3, <2>4, <2>5 DEF IInv
<1> QED  BY <1>2, <1>3

LEMMA ClientWriteInv ==
  ASSUME IInv, NEW b \in blocks, ClientWrite(b)
  PROVE  IInv' /\ FirstFit'
<1>1. /\ b \in Addr /\ b \in Int /\ held[b] \in Nat /\ size[b] \in Nat /\ held[b] <= size[b]
      /\ op = "idle" /\ tagged' = Spared(tagged, b, held[b])
      /\ UNCHANGED <<size, next, free, blocks, held, op, cur, asked, old>>
  BY HeapAssumption DEF IInv, TypeOK, HeldSound, ClientWrite, Addr
<1>2. TypeOK' /\ HeapTiled' /\ HeldSound' /\ CallOK' /\ FirstFit'
  BY <1>1, Zenon DEF IInv, TypeOK, HeapTiled, HeldSound, CallOK, FirstFit, End, Spared
<1>3. HeadersIntact'
  <2>1. \A h \in blocks : h \in Int /\ h \in tagged /\ (b < h => b + HEADER + size[b] <= h)
    BY HeapAssumption DEF IInv, TypeOK, Addr, HeadersIntact, HeapTiled, End
  <2> QED  BY <1>1, <2>1, HeapAssumption DEF HeadersIntact, Spared
<1> QED  BY <1>2, <1>3 DEF IInv

(* Every step keeps the invariant. *)
LEMMA NextInv ==
  ASSUME NoWrap, IInv, FirstFit, [Next]_vars
  PROVE  IInv' /\ FirstFit'
<1>1. CASE UNCHANGED vars
  BY <1>1 DEF IInv, TypeOK, HeapTiled, HeadersIntact, HeldSound, CallOK, FirstFit,
              End, Fits, vars, heap
<1>2. CASE Next
  BY <1>2, KmallocInv, WalkInv, TakeInv, KfreeInv, FreeMarkInv, CoalesceInv,
     KreallocInv, ClientWriteInv
  DEF Next
<1> QED  BY <1>1, <1>2

(* For every heap size, header, alignment and set of requests that align_up *)
(* does not wrap: the blocks tile the window, and no header is overwritten *)
(* by its clients or by krealloc.                                          *)
THEOREM HeapSafe == NoWrap => (Spec => [](TypeOK /\ HeapTiled /\ HeadersIntact))
<1> SUFFICES ASSUME NoWrap PROVE Spec => [](TypeOK /\ HeapTiled /\ HeadersIntact)
  OBVIOUS
<1>1. IInv /\ FirstFit /\ [Next]_vars => (IInv /\ FirstFit)'  BY NextInv
<1>2. IInv => TypeOK /\ HeapTiled /\ HeadersIntact  BY DEF IInv
<1> QED  BY InitInv, <1>1, <1>2, PTL DEF Spec

(* Under the same condition a block is in use exactly while the client     *)
(* that asked for it holds it, and it is as large as was asked for, through *)
(* every split, coalescing and move of krealloc.                           *)
THEOREM BlocksMatchOwners == NoWrap => (Spec => []HeldSound)
<1> SUFFICES ASSUME NoWrap PROVE Spec => []HeldSound
  OBVIOUS
<1>1. IInv /\ FirstFit /\ [Next]_vars => (IInv /\ FirstFit)'  BY NextInv
<1>2. IInv => HeldSound  BY DEF IInv
<1> QED  BY InitInv, <1>1, <1>2, PTL DEF Spec

(* Under the same condition kmalloc takes the first block that fits, and   *)
(* fails only if none does.                                                *)
THEOREM FirstFitSafe == NoWrap => (Spec => []FirstFit)
<1> SUFFICES ASSUME NoWrap PROVE Spec => []FirstFit
  OBVIOUS
<1>1. IInv /\ FirstFit /\ [Next]_vars => (IInv /\ FirstFit)'  BY NextInv
<1> QED  BY InitInv, <1>1, PTL DEF Spec
=============================================================================
