-------------------------------- MODULE Heap --------------------------------
(***************************************************************************)
(* The kernel heap of memory/heap.c: a first-fit allocator whose block     *)
(* headers live in the memory it manages.  Addresses are offsets from      *)
(* KERNEL_HEAP_START; a block is named by the address of its header.  The  *)
(* list walks of kmalloc and kfree take one step per block visited.        *)
(***************************************************************************)
EXTENDS Integers, FiniteSets

CONSTANTS
  HEAP_SIZE,     \* KERNEL_HEAP_INITIAL_SIZE
  HEADER,        \* sizeof(struct heap_block)
  HEAP_ALIGN,
  SIZE_MOD,      \* 2^64, the modulus of size_t
  Request        \* the sizes clients ask for

ASSUME HeapAssumption ==
  /\ HEAP_SIZE \in Nat /\ HEADER \in Nat \ {0} /\ HEAP_ALIGN \in Nat \ {0}
  /\ HEADER < HEAP_SIZE
  /\ SIZE_MOD \in Nat /\ SIZE_MOD > HEAP_SIZE
  /\ Request \subseteq 1 .. SIZE_MOD - 1

(* No request is so large that align_up wraps around. *)
NoWrap == \A n \in Request : n + HEAP_ALIGN - 1 < SIZE_MOD

NULL == -1
Addr == 0 .. HEAP_SIZE - 1

VARIABLES
  size, next, free,  \* struct heap_block, by the address of the header
  blocks,            \* the headers that are in the list
  tagged,            \* those of them whose magic is intact
  held,              \* bytes a client asked for, by header; 0 when not held
  op,                \* the call in progress
  cur,               \* the block its loop is at
  asked,             \* the size kmalloc was called with
  old                \* the block krealloc replaces, or NULL

heap == <<size, next, free, tagged, blocks>>
vars == <<heap, held, op, cur, asked, old>>

align_up(n) ==
  LET m == (n + HEAP_ALIGN - 1) % SIZE_MOD
  IN  m - (m % HEAP_ALIGN)

End(b) == b + HEADER + size[b]

(* The headers of hs left whole by a write of n bytes to the payload of b. *)
Spared(hs, b, n) == {h \in hs : h <= b \/ h >= b + HEADER + n}

(* heap_init *)
Init ==
  /\ size = [a \in Addr |-> IF a = 0 THEN HEAP_SIZE - HEADER ELSE 0]
  /\ next = [a \in Addr |-> NULL]
  /\ free = [a \in Addr |-> TRUE]
  /\ tagged = {0}
  /\ blocks = {0}
  /\ held = [a \in Addr |-> 0]
  /\ op = "idle" /\ cur = NULL /\ asked = 0 /\ old = NULL

-----------------------------------------------------------------------------
kmalloc(n) ==
  /\ op = "idle"
  /\ op' = "malloc"
  /\ cur' = 0
  /\ asked' = n
  /\ old' = NULL
  /\ UNCHANGED <<heap, held>>

(* The call returns; its locals are gone. *)
Return == op' = "idle" /\ cur' = NULL /\ asked' = 0 /\ old' = NULL

Fits(b) == free[b] /\ size[b] >= align_up(asked)

(* Mutant: a block that does not fit is tried again. *)
Walk_Mutant ==
  /\ op = "malloc"
  /\ \/ /\ cur \notin tagged
        /\ Return
     \/ /\ cur \in tagged
        /\ ~ Fits(cur)
        /\ UNCHANGED <<cur, op, asked, old>>
  /\ UNCHANGED <<heap, held>>

(* The loop moves on, or gives up at the end of the list or at a header    *)
(* without its magic.                                                      *)
Walk ==
  /\ op = "malloc"
  /\ \/ /\ cur \notin tagged
        /\ Return
     \/ /\ cur \in tagged
        /\ ~ Fits(cur)
        /\ cur' = next[cur]
        /\ UNCHANGED <<op, asked, old>>
  /\ UNCHANGED <<heap, held>>

(* The rest of b can be a block of its own. *)
Splittable(b, want) == size[b] - want > HEADER + HEAP_ALIGN

(* Mutant: the tail's header is not taken off the remainder. *)
Split_Mutant(b, want) ==
  LET tail == b + HEADER + want
  IN  /\ size' = [size EXCEPT ![tail] = size[b] - want, ![b] = want]
      /\ next' = [next EXCEPT ![tail] = next[b], ![b] = tail]
      /\ free' = [free EXCEPT ![tail] = TRUE, ![b] = FALSE]
      /\ blocks' = blocks \cup {tail}

Split(b, want) ==
  LET tail == b + HEADER + want
  IN  /\ size' = [size EXCEPT ![tail] = size[b] - want - HEADER, ![b] = want]
      /\ next' = [next EXCEPT ![tail] = next[b], ![b] = tail]
      /\ free' = [free EXCEPT ![tail] = TRUE, ![b] = FALSE]
      /\ blocks' = blocks \cup {tail}

(* Bytes krealloc copies into the new block. *)
Copied == IF old = NULL THEN 0 ELSE size[old]

(* The block found is split if the rest is large enough.  Under krealloc   *)
(* the old payload is then copied and the old block freed.                 *)
Take ==
  /\ op = "malloc"
  /\ cur \in tagged
  /\ Fits(cur)
  /\ LET want == align_up(asked)
     IN  IF Splittable(cur, want)
           THEN /\ Split(cur, want)
                /\ tagged' = Spared(tagged \cup {cur + HEADER + want}, cur, Copied)
           ELSE /\ free' = [free EXCEPT ![cur] = FALSE]
                /\ tagged' = Spared(tagged, cur, Copied)
                /\ UNCHANGED <<size, next, blocks>>
  /\ held' = [held EXCEPT ![cur] = asked]
  /\ IF old = NULL THEN Return
                   ELSE op' = "free" /\ cur' = old /\ asked' = 0 /\ old' = NULL

(* kfree of a block that is still in the list, held or already free. *)
kfree(b) ==
  /\ op = "idle"
  /\ op' = "free"
  /\ cur' = b
  /\ UNCHANGED <<heap, held, asked, old>>

FreeMark ==
  /\ op = "free"
  /\ IF cur \notin tagged \/ free[cur]
       THEN Return /\ UNCHANGED <<free, held>>
       ELSE /\ op' = "coalesce"
            /\ free' = [free EXCEPT ![cur] = TRUE]
            /\ held' = [held EXCEPT ![cur] = 0]
            /\ UNCHANGED <<cur, asked, old>>
  /\ UNCHANGED <<size, next, tagged, blocks>>

(* cur takes over its list neighbour n, whose header becomes plain memory. *)
Absorb(n) ==
  /\ size' = [size EXCEPT ![cur] = @ + HEADER + size[n], ![n] = 0]
  /\ next' = [next EXCEPT ![cur] = next[n], ![n] = NULL]
  /\ blocks' = blocks \ {n}
  /\ tagged' = tagged \ {n}
  /\ UNCHANGED free

(* Mutant: the next block is absorbed without looking at its free flag. *)
Coalesce_Mutant ==
  /\ op = "coalesce"
  /\ LET n == next[cur]
     IN  IF n # NULL /\ n \in tagged
           THEN Absorb(n) /\ UNCHANGED <<op, cur, asked, old>>
           ELSE Return /\ UNCHANGED heap
  /\ UNCHANGED held

Coalesce ==
  /\ op = "coalesce"
  /\ LET n == next[cur]
     IN  IF n # NULL /\ free[n] /\ n \in tagged
           THEN Absorb(n) /\ UNCHANGED <<op, cur, asked, old>>
           ELSE Return /\ UNCHANGED heap
  /\ UNCHANGED held

krealloc(b, n) ==
  /\ op = "idle"
  /\ held[b] > 0
  /\ b \in tagged
  /\ IF size[b] >= n
       THEN held' = [held EXCEPT ![b] = n] /\ UNCHANGED <<op, cur, asked, old>>
       ELSE /\ op' = "malloc"
            /\ cur' = 0
            /\ asked' = n
            /\ old' = b
            /\ UNCHANGED held
  /\ UNCHANGED heap

(* A client writes the bytes it asked for. *)
ClientWrite(b) ==
  /\ op = "idle"
  /\ held[b] > 0
  /\ tagged' = Spared(tagged, b, held[b])
  /\ UNCHANGED <<size, next, free, blocks, held, op, cur, asked, old>>

Next ==
  \/ \E n \in Request : kmalloc(n)
  \/ Walk
  \/ Take
  \/ \E b \in blocks : kfree(b)
  \/ FreeMark
  \/ Coalesce
  \/ \E b \in blocks, n \in Request : krealloc(b, n)
  \/ \E b \in blocks : ClientWrite(b)

Spec == Init /\ [][Next]_vars

FairSpec == Spec /\ WF_vars(Walk \/ Take \/ FreeMark \/ Coalesce)

-----------------------------------------------------------------------------
(* Properties. *)

TypeOK ==
  /\ size \in [Addr -> Nat]
  /\ next \in [Addr -> Addr \cup {NULL}]
  /\ free \in [Addr -> BOOLEAN]
  /\ tagged \subseteq Addr
  /\ blocks \subseteq Addr
  /\ held \in [Addr -> Nat]
  /\ op \in {"idle", "malloc", "free", "coalesce"}
  /\ cur \in blocks \cup {NULL}
  /\ asked \in Nat
  /\ old \in blocks \cup {NULL}

(* The blocks tile the window: each one ends where the next in the list    *)
(* begins, the last at the end, and none overlap.  kfree merges list       *)
(* neighbours without comparing addresses, so it depends on this.          *)
HeapTiled ==
  /\ 0 \in blocks
  /\ \A b \in blocks :
       \/ next[b] = NULL /\ End(b) = HEAP_SIZE
       \/ next[b] \in blocks /\ End(b) = next[b]
  /\ \A a, b \in blocks : a < b => End(a) <= b

(* No header in the list ever loses its magic: neither a client writing    *)
(* what it asked for nor krealloc's copy reaches one.                      *)
HeadersIntact == blocks \subseteq tagged

(* Blocks and owners agree: what a client holds is in the list, in use and *)
(* large enough, and nothing else is in use (no leak, and nothing lost,    *)
(* also when krealloc fails half way).                                     *)
HeldSound ==
  /\ \A a \in Addr : held[a] > 0 => a \in blocks /\ ~ free[a] /\ size[a] >= held[a]
  /\ \A b \in blocks : ~ free[b] => held[b] > 0

(* "A simple first-fit linked-list allocator" (heap.h:9): the walk leaves  *)
(* no block behind that would have fitted, so kmalloc takes the first and  *)
(* fails only if there is none.                                            *)
FirstFit ==
  op = "malloc" => \A b \in blocks : cur = NULL \/ b < cur => ~ Fits(b)

(* Every call returns: the walks of kmalloc and kfree terminate. *)
CallsReturn == op # "idle" ~> op = "idle"
=============================================================================
