----------------------------- MODULE ReadyQueue -----------------------------
(***************************************************************************)
(* The intrusive list of process/queue.c, one statement per step, under    *)
(* the operations that reach it: process_create (queue_push), yield        *)
(* (queue_push, then queue_pop) and process_kill (queue_remove).           *)
(*                                                                         *)
(* They run in the kernel's thread with interrupts enabled.  Under FCFS    *)
(* (Spec) the timer interrupt leaves the queue alone.  Under a policy with *)
(* a tick (PreemptiveSpec) its yield() may come between any two of those   *)
(* statements.                                                             *)
(***************************************************************************)
EXTENDS Naturals, Sequences

CONSTANTS
  Proc,        \* the PCBs
  Idle,        \* the one with pid 1, which rr_tick never preempts
  NULL

ASSUME QueueAssumption ==
  /\ Idle \in Proc
  /\ NULL \notin Proc

VARIABLES
  head, tail, count,   \* process_queue_t
  next,                \* pcb_t.next
  current,             \* current_process
  pc, proc,            \* the statement the thread is at, and its argument
  prev, curr,          \* the cursors of queue_push and queue_remove
  fifo                 \* what the completed calls should have left queued

queue == <<head, tail, count, next>>
vars  == <<queue, current, pc, proc, prev, curr, fifo>>

Members == {fifo[i] : i \in 1 .. Len(fifo)}

Without(s, p) ==
  LET k == CHOOSE i \in 1 .. Len(s) : s[i] = p
  IN  [i \in 1 .. Len(s) - 1 |-> IF i < k THEN s[i] ELSE s[i + 1]]

Init ==
  /\ head = NULL /\ tail = NULL /\ count = 0
  /\ next = [p \in Proc |-> NULL]
  /\ current = Idle
  /\ pc = "idle" /\ proc = NULL /\ prev = NULL /\ curr = NULL
  /\ fifo = << >>

-----------------------------------------------------------------------------
(* queue_push.  PushLink reads q->tail twice in the code; it is one step.  *)

Push(p, at) ==
  /\ next' = [next EXCEPT ![p] = NULL]
  /\ proc' = p
  /\ pc' = at
  /\ UNCHANGED <<head, tail, count, current, prev, curr, fifo>>

process_create(p) ==
  /\ pc = "idle"
  /\ p \notin Members \cup {current}
  /\ Push(p, "create: link")

yield ==
  /\ pc = "idle"
  /\ Push(current, "yield: link")

(* Mutant: an empty queue's head is not set. *)
PushLink_Mutant ==
  /\ pc \in {"create: link", "yield: link"}
  /\ next' = IF tail = NULL THEN next ELSE [next EXCEPT ![tail] = proc]
  /\ pc' = IF pc = "create: link" THEN "create: tail" ELSE "yield: tail"
  /\ UNCHANGED <<head, tail, count, current, proc, prev, curr, fifo>>

PushLink ==
  /\ pc \in {"create: link", "yield: link"}
  /\ IF tail # NULL
       THEN next' = [next EXCEPT ![tail] = proc] /\ UNCHANGED head
       ELSE head' = proc /\ UNCHANGED next
  /\ pc' = IF pc = "create: link" THEN "create: tail" ELSE "yield: tail"
  /\ UNCHANGED <<tail, count, current, proc, prev, curr, fifo>>

PushTail ==
  /\ pc \in {"create: tail", "yield: tail"}
  /\ tail' = proc
  /\ pc' = IF pc = "create: tail" THEN "create: count" ELSE "yield: count"
  /\ UNCHANGED <<head, count, next, current, proc, prev, curr, fifo>>

PushCount ==
  /\ pc \in {"create: count", "yield: count"}
  /\ count' = count + 1
  /\ fifo' = Append(fifo, proc)
  /\ pc' = IF pc = "create: count" THEN "idle" ELSE "pop"
  /\ UNCHANGED <<head, tail, next, current, proc, prev, curr>>

-----------------------------------------------------------------------------
(* queue_pop, as yield calls it: the popped process becomes current.  With *)
(* nothing to pop yield would take the caller out of the queue again.      *)

PopHead ==
  /\ pc = "pop"
  /\ IF head = NULL
       THEN /\ pc' = "remove: scan"
            /\ proc' = current
            /\ prev' = NULL
            /\ curr' = head
            /\ UNCHANGED head
       ELSE /\ pc' = "pop: tail"
            /\ proc' = head
            /\ head' = next[head]
            /\ UNCHANGED <<prev, curr>>
  /\ UNCHANGED <<tail, count, next, current, fifo>>

PopTail ==
  /\ pc = "pop: tail"
  /\ tail' = IF head = NULL THEN NULL ELSE tail
  /\ pc' = "pop: unlink"
  /\ UNCHANGED <<head, count, next, current, proc, prev, curr, fifo>>

PopUnlink ==
  /\ pc = "pop: unlink"
  /\ next' = [next EXCEPT ![proc] = NULL]
  /\ pc' = "pop: count"
  /\ UNCHANGED <<head, tail, count, current, proc, prev, curr, fifo>>

(* Mutant: current_process is not updated. *)
PopCount_Mutant ==
  /\ pc = "pop: count"
  /\ count' = count - 1
  /\ fifo' = Tail(fifo)
  /\ pc' = "idle"
  /\ UNCHANGED <<head, tail, next, current, proc, prev, curr>>

PopCount ==
  /\ pc = "pop: count"
  /\ count' = count - 1
  /\ current' = proc
  /\ fifo' = Tail(fifo)
  /\ pc' = "idle"
  /\ UNCHANGED <<head, tail, next, proc, prev, curr>>

-----------------------------------------------------------------------------
(* queue_remove, as process_kill calls it. *)

process_kill(p) ==
  /\ pc = "idle"
  /\ p \notin {Idle, current}
  /\ proc' = p
  /\ prev' = NULL
  /\ curr' = head
  /\ pc' = "remove: scan"
  /\ UNCHANGED <<queue, current, fifo>>

(* Mutant: the cursor does not advance. *)
RemoveScan_Stuck ==
  /\ pc = "remove: scan"
  /\ pc' = IF curr \in {NULL, proc} THEN "idle" ELSE pc
  /\ prev' = curr
  /\ UNCHANGED <<queue, current, proc, curr, fifo>>

RemoveScan ==
  /\ pc = "remove: scan"
  /\ CASE curr = NULL -> pc' = "idle" /\ UNCHANGED <<head, next, prev, curr>>
       [] curr = proc -> /\ IF prev # NULL
                              THEN next' = [next EXCEPT ![prev] = next[curr]] /\ UNCHANGED head
                              ELSE head' = next[curr] /\ UNCHANGED next
                         /\ pc' = "remove: tail"
                         /\ UNCHANGED <<prev, curr>>
       [] OTHER       -> /\ prev' = curr
                         /\ curr' = next[curr]
                         /\ UNCHANGED <<pc, head, next>>
  /\ UNCHANGED <<tail, count, current, proc, fifo>>

RemoveTail ==
  /\ pc = "remove: tail"
  /\ tail' = IF next[curr] = NULL THEN prev ELSE tail
  /\ pc' = "remove: unlink"
  /\ UNCHANGED <<head, count, next, current, proc, prev, curr, fifo>>

RemoveUnlink ==
  /\ pc = "remove: unlink"
  /\ next' = [next EXCEPT ![curr] = NULL]
  /\ pc' = "remove: count"
  /\ UNCHANGED <<head, tail, count, current, proc, prev, curr, fifo>>

RemoveCount ==
  /\ pc = "remove: count"
  /\ count' = count - 1
  /\ fifo' = Without(fifo, proc)
  /\ pc' = "idle"
  /\ UNCHANGED <<head, tail, next, current, proc, prev, curr>>

-----------------------------------------------------------------------------
(* The timer interrupt's yield(): with interrupts off it runs to the end.  *)
TimerYield ==
  /\ current # Idle
  /\ LET n1 == [next EXCEPT ![current] = NULL]
         n2 == IF tail = NULL THEN n1 ELSE [n1 EXCEPT ![tail] = current]
         p  == IF tail = NULL THEN current ELSE head
     IN  IF p = NULL
           THEN /\ next' = n2
                /\ tail' = current
                /\ count' = count + 1
                /\ fifo' = Append(fifo, current)
                /\ UNCHANGED <<head, current>>
           ELSE /\ next' = [n2 EXCEPT ![p] = NULL]
                /\ head' = n2[p]
                /\ tail' = IF n2[p] = NULL THEN NULL ELSE current
                /\ current' = p
                /\ fifo' = Tail(Append(fifo, current))
                /\ UNCHANGED count
  /\ UNCHANGED <<pc, proc, prev, curr>>

Next ==
  \/ \E p \in Proc : process_create(p) \/ process_kill(p)
  \/ yield
  \/ PushLink \/ PushTail \/ PushCount
  \/ PopHead \/ PopTail \/ PopUnlink \/ PopCount
  \/ RemoveScan \/ RemoveTail \/ RemoveUnlink \/ RemoveCount

Spec == Init /\ [][Next]_vars

FairSpec == Spec /\ WF_vars(Next)

PreemptiveSpec == Init /\ [][Next \/ TimerYield]_vars

-----------------------------------------------------------------------------
(* Properties. *)

TypeOK ==
  /\ head \in Proc \cup {NULL}
  /\ tail \in Proc \cup {NULL}
  /\ count \in Nat
  /\ next \in [Proc -> Proc \cup {NULL}]
  /\ current \in Proc
  /\ proc \in Proc \cup {NULL}
  /\ prev \in Proc \cup {NULL}
  /\ curr \in Proc \cup {NULL}
  /\ fifo \in Seq(Proc)

(* The links spell out the sequence s: head, next and tail agree with it,  *)
(* and whoever is not in it has a clear next field.                        *)
Linked(s) ==
  /\ head = IF s = << >> THEN NULL ELSE s[1]
  /\ tail = IF s = << >> THEN NULL ELSE s[Len(s)]
  /\ \A i \in 1 .. Len(s) : next[s[i]] = IF i = Len(s) THEN NULL ELSE s[i + 1]
  /\ \A p \in Proc : (\A i \in 1 .. Len(s) : s[i] # p) => next[p] = NULL

(* "Simple intrusive FIFO queue for process control blocks" (queue.h:6):   *)
(* between calls the links and the count are exactly the processes pushed  *)
(* and not yet popped or removed, in the order they were pushed.           *)
QueueIsFifo ==
  pc = "idle" => Linked(fifo) /\ count = Len(fifo)

(* No process is queued twice, and the current one is not queued: what     *)
(* keeps the list acyclic, since a PCB has a single next field.            *)
NoDuplicates ==
  /\ TypeOK
  /\ \A i, j \in 1 .. Len(fifo) : fifo[i] = fifo[j] => i = j
  /\ pc = "idle" => current \notin Members

(* queue_remove's scan ends: the list it walks never becomes circular.     *)
ScanEnds == pc = "remove: scan" ~> pc # "remove: scan"
=============================================================================
