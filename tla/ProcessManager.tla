--------------------------- MODULE ProcessManager ---------------------------
(***************************************************************************)
(* The process table, the four scheduling policies and the dispatcher of   *)
(* ARES (process/process.c, process/pcb.c, scheduler/*.c), driven by the   *)
(* code that really calls them: kernel_main, the shell's `bench' and       *)
(* `test' commands, the system calls and the timer interrupt.              *)
(*                                                                         *)
(* Every call is one step here; the instruction-level interleaving of the  *)
(* timer interrupt with queue.c is the subject of module ReadyQueue.  The  *)
(* policies' statistics, process names and the never-used blocked_queue    *)
(* and PROCESS_BLOCKED state are left out.                                 *)
(***************************************************************************)
EXTENDS Integers, Sequences, FiniteSets

CONSTANTS
  MAX_PROCESSES,   \* size of pcb_table
  MaxPid,          \* bound: process_create stops being called at this pid
  Priority,        \* the priorities callers pass to process_create
  BenchPolicy      \* the policies `bench' switches to

PRIORITY_LOW      == 0
PRIORITY_REALTIME == 3

Policy == {"FCFS", "RR", "PRIORITY", "MLQ"}

ASSUME ProcessAssumption ==
  /\ MAX_PROCESSES \in Nat \ {0}
  /\ MaxPid \in Nat
  /\ Priority \subseteq Nat
  /\ BenchPolicy \subseteq Policy

NULL  == -1
NONE  == "NONE"                       \* g_scheduler = NULL
Slot  == 0 .. MAX_PROCESSES - 1       \* a pcb_t * is its index in pcb_table
Level == 0 .. 3
BOOT  == MAX_PROCESSES                \* the stack boot.asm gave kernel_main
Stack == Slot \cup {BOOT}             \* process_stacks[s], or the boot stack

VARIABLES
  pid, state, prio,    \* pcb_t fields, per slot
  rsp,                 \* pcb_t.rsp: the stack the saved pointer points into
  free,                \* slot_free_map
  next_pid, process_count,
  current,             \* current_process
  policy,              \* g_scheduler
  ready,               \* the queues of the active policy
  ticks,               \* the quantum counters of the active policy
  sp,                  \* the stack the CPU is executing on
  pc                   \* where kernel_main is, or "panic"

table == <<pid, state, prio, rsp, free, next_pid, process_count>>
sched == <<policy, ready, ticks>>
vars  == <<table, sched, current, sp, pc>>

-----------------------------------------------------------------------------
(* The policies.  FCFS and RR have one queue, PRIORITY and MLQ one per     *)
(* priority; PRIORITY scans them downwards and MLQ upwards.                *)

NoTicks == [l \in Level |-> 0]
Empty   == [l \in Level |-> << >>]

LevelOf(p, pr) ==
  LET clamped == IF pr >= PRIORITY_REALTIME THEN PRIORITY_REALTIME ELSE pr
  IN  CASE p = "PRIORITY" -> clamped
        [] p = "MLQ"      -> PRIORITY_REALTIME - clamped
        [] OTHER          -> 0

(* Mutant: MLQ scans its queues like PRIORITY does. *)
Before_Mutant(p, l, m) == l > m

Before(p, l, m) == IF p = "MLQ" THEN l < m ELSE l > m

NextLevel(q) ==
  CHOOSE l \in Level :
    /\ q[l] # << >>
    /\ \A m \in Level : q[m] # << >> => ~ Before(policy, m, l)

queue_contains(q, s) == \E i \in 1 .. Len(q) : q[i] = s

(* Mutant: what follows the node is lost. *)
queue_remove_Truncates(q, s) ==
  SelectSeq(q, LAMBDA t : \A i, j \in 1 .. Len(q) : q[i] = s /\ q[j] = t => j < i)

queue_remove(q, s) ==
  LET i == CHOOSE i \in 1 .. Len(q) : q[i] = s /\ \A j \in 1 .. i - 1 : q[j] # s
  IN  IF queue_contains(q, s)
        THEN [j \in 1 .. Len(q) - 1 |-> IF j < i THEN q[j] ELSE q[j + 1]]
        ELSE q

(* Mutant: the process is pushed at the head. *)
scheduler_add_Mutant(s) ==
  IF policy = NONE THEN ready
  ELSE [ready EXCEPT ![LevelOf(policy, prio[s])] = <<s>> \o @]

scheduler_add(s) ==
  IF policy = NONE THEN ready
  ELSE [ready EXCEPT ![LevelOf(policy, prio[s])] = Append(@, s)]

(* Only the first queue that holds the process is changed. *)
scheduler_remove(s) ==
  [l \in Level |->
     IF \A m \in 0 .. l - 1 : ~ queue_contains(ready[m], s)
       THEN queue_remove(ready[l], s)
       ELSE ready[l]]

Quantum(l) == IF policy = "MLQ" THEN 2 * (l + 1) ELSE 3

(* scheduler_set initialises the new policy's queues; the processes of the *)
(* old one stay behind in queues nobody reads any more.                    *)
scheduler_set(p) ==
  /\ policy' = p
  /\ ready'  = Empty
  /\ ticks'  = NoTicks

-----------------------------------------------------------------------------
(* The dispatcher. *)

IsLive(s)  == state[s] # "TERMINATED"

pcb_by_pid(n) ==
  IF \E s \in Slot : pid[s] = n /\ IsLive(s)
    THEN CHOOSE s \in Slot : /\ pid[s] = n /\ IsLive(s)
                             /\ \A t \in 0 .. s - 1 : ~ (pid[t] = n /\ IsLive(t))
    ELSE NULL

process_by_pid(n) ==
  IF current # NULL /\ pid[current] = n THEN current ELSE pcb_by_pid(n)

(* switch.asm stores rsp through current_process and then loads rsp from   *)
(* its argument; every caller has already made current_process the next.   *)
context_switch(n) ==
  /\ rsp' = [rsp EXCEPT ![current'] = sp]
  /\ sp'  = rsp'[n]

(* yield() by the process c = current_process, with quantum counters tk.   *)
Yield(c, tk) ==
  LET st == [state EXCEPT ![c] = "READY"]
      q  == scheduler_add(c)
      l  == NextLevel(q)
      n  == Head(q[l])
  IN  IF q = Empty
        THEN /\ state' = st
             /\ current' = c
             /\ ticks' = tk
             /\ UNCHANGED <<ready, rsp, sp>>
        ELSE /\ ready' = [q EXCEPT ![l] = Tail(@)]
             /\ ticks' = NoTicks
             /\ state' = [st EXCEPT ![n] = "RUNNING"]
             /\ current' = n
             /\ context_switch(n)

Frame == UNCHANGED <<pid, prio, free, next_pid, process_count, policy>>

-----------------------------------------------------------------------------
(* process_init runs before the first scheduler_init, so the idle process  *)
(* is created while g_scheduler is NULL.                                   *)
Init ==
  /\ pid   = [s \in Slot |-> IF s = 0 THEN 1 ELSE 0]
  /\ state = [s \in Slot |-> IF s = 0 THEN "READY" ELSE "TERMINATED"]
  /\ prio  = [s \in Slot |-> PRIORITY_LOW]
  /\ rsp   = [s \in Slot |-> s]
  /\ free  = Slot \ {0}
  /\ next_pid = 2
  /\ process_count = 1
  /\ current = NULL
  /\ policy = NONE
  /\ ready = Empty
  /\ ticks = NoTicks
  /\ sp = BOOT
  /\ pc = "init"

(* kernel_main: scheduler_init(SCHED_FCFS), then sti. *)
Boot ==
  /\ pc = "init"
  /\ scheduler_set("FCFS")
  /\ pc' = "boot"
  /\ UNCHANGED <<table, current, sp>>

(* With no free slot process_create returns NULL and changes nothing. *)
process_create(pr) ==
  /\ pc \in {"boot", "shell", "bench"}
  /\ free # {}
  /\ next_pid <= MaxPid
  /\ LET s == CHOOSE s \in free : \A t \in free : s <= t
     IN  /\ pid'   = [pid EXCEPT ![s] = next_pid]
         /\ state' = [state EXCEPT ![s] = "READY"]
         /\ prio'  = [prio EXCEPT ![s] = pr]
         /\ rsp'   = [rsp EXCEPT ![s] = s]
         /\ free'  = free \ {s}
         /\ ready' = IF policy = NONE THEN ready
                     ELSE [ready EXCEPT ![LevelOf(policy, pr)] = Append(@, s)]
  /\ next_pid' = next_pid + 1
  /\ process_count' = process_count + 1
  /\ UNCHANGED <<current, policy, ticks, sp, pc>>

(* current_process = process_by_pid(1); yield(): the end of kernel_main's  *)
(* demo and of every bench_scheduler_variant.                              *)
YieldAsIdle ==
  LET idle == process_by_pid(1)
  IN  IF idle = NULL
        THEN /\ current' = NULL
             /\ UNCHANGED <<state, ready, ticks, rsp, sp>>
        ELSE Yield(idle, ticks)

StartDemos ==
  /\ pc = "boot"
  /\ YieldAsIdle
  /\ pc' = "shell"
  /\ Frame

(* bench_scheduler_variant: scheduler_init, process_create five times,     *)
(* then YieldAsIdle.                                                       *)
BenchInit(p) ==
  /\ pc = "shell"
  /\ scheduler_set(p)
  /\ pc' = "bench"
  /\ UNCHANGED <<table, current, sp>>

(* Mutant: idle is not made current before the yield. *)
BenchStart_Mutant ==
  /\ pc = "bench"
  /\ current # NULL
  /\ Yield(current, ticks)
  /\ pc' = "shell"
  /\ Frame

BenchStart ==
  /\ pc = "bench"
  /\ YieldAsIdle
  /\ pc' = "shell"
  /\ Frame

yield ==
  /\ pc = "shell"
  /\ current # NULL
  /\ Yield(current, ticks)
  /\ UNCHANGED pc
  /\ Frame

(* Mutant: pcb_free(dead) is forgotten. *)
Exit_Mutant ==
  LET st == [state EXCEPT ![current] = "TERMINATED"]
      l  == NextLevel(ready)
      n  == Head(ready[l])
  IN  /\ ready # Empty
      /\ ready' = [ready EXCEPT ![l] = Tail(@)]
      /\ ticks' = NoTicks
      /\ state' = [st EXCEPT ![n] = "RUNNING"]
      /\ current' = n
      /\ context_switch(n)
      /\ process_count' = process_count - 1
      /\ UNCHANGED <<pid, prio, free, next_pid, policy, pc>>

(* process_exit of the current process. *)
Exit ==
  LET st == [state EXCEPT ![current] = "TERMINATED"]
      l  == NextLevel(ready)
      n  == Head(ready[l])
  IN  /\ process_count' = process_count - 1
      /\ IF ready = Empty
           THEN /\ pc' = "panic"
                /\ state' = st
                /\ UNCHANGED <<free, ready, ticks, current, rsp, sp>>
           ELSE /\ ready' = [ready EXCEPT ![l] = Tail(@)]
                /\ ticks' = NoTicks
                /\ state' = [st EXCEPT ![n] = "RUNNING"]
                /\ free' = free \cup {current}
                /\ current' = n
                /\ context_switch(n)
                /\ UNCHANGED pc
      /\ UNCHANGED <<pid, prio, next_pid, policy>>

process_exit ==
  /\ pc = "shell"
  /\ current # NULL
  /\ Exit

(* Mutant: the victim is freed but stays queued. *)
process_kill_Mutant(n) ==
  /\ pc = "shell"
  /\ n # 1
  /\ current = NULL \/ pid[current] # n
  /\ pcb_by_pid(n) # NULL
  /\ state' = [state EXCEPT ![pcb_by_pid(n)] = "TERMINATED"]
  /\ free'  = free \cup {pcb_by_pid(n)}
  /\ process_count' = process_count - 1
  /\ UNCHANGED <<pid, prio, rsp, next_pid, current, policy, ready, ticks, sp, pc>>

process_kill(n) ==
  /\ pc = "shell"
  /\ n # 1
  /\ \/ /\ current # NULL
        /\ pid[current] = n
        /\ Exit
     \/ /\ ~ (current # NULL /\ pid[current] = n)
        /\ LET s == pcb_by_pid(n)
           IN  /\ s # NULL
               /\ ready' = scheduler_remove(s)
               /\ state' = [state EXCEPT ![s] = "TERMINATED"]
               /\ free'  = free \cup {s}
        /\ process_count' = process_count - 1
        /\ UNCHANGED <<pid, prio, rsp, next_pid, current, policy, ticks, sp, pc>>

(* Mutant: the tick compares with > and not with >=. *)
TimerIRQ_Mutant ==
  /\ pc \in {"boot", "shell", "bench"}
  /\ policy # "FCFS"
  /\ current # NULL
  /\ pid[current] > 1
  /\ LET l == IF policy = "MLQ" THEN LevelOf("MLQ", prio[current]) ELSE 0
         t == [ticks EXCEPT ![l] = @ + 1]
     IN  IF t[l] > Quantum(l)
           THEN Yield(current, t)
           ELSE /\ ticks' = t
                /\ UNCHANGED <<state, ready, current, rsp, sp>>
  /\ UNCHANGED pc
  /\ Frame

(* The timer interrupt: the policy's tick, then isr_common's yield if the  *)
(* tick set scheduler_need_resched.  FCFS has no tick; without a current   *)
(* process, or with the idle one (pid 1), the ticks only count as idle.    *)
TimerIRQ ==
  /\ pc \in {"boot", "shell", "bench"}
  /\ policy # "FCFS"
  /\ current # NULL
  /\ pid[current] > 1
  /\ LET l == IF policy = "MLQ" THEN LevelOf("MLQ", prio[current]) ELSE 0
         t == [ticks EXCEPT ![l] = @ + 1]
     IN  IF t[l] >= Quantum(l)
           THEN Yield(current, t)
           ELSE /\ ticks' = t
                /\ UNCHANGED <<state, ready, current, rsp, sp>>
  /\ UNCHANGED pc
  /\ Frame

Next ==
  \/ Boot
  \/ \E pr \in Priority : process_create(pr)
  \/ StartDemos
  \/ \E p \in BenchPolicy : BenchInit(p)
  \/ BenchStart
  \/ yield
  \/ process_exit
  \/ \E n \in 1 .. next_pid - 1 : process_kill(n)
  \/ TimerIRQ

Spec == Init /\ [][Next]_vars

FairSpec == Spec /\ WF_vars(TimerIRQ)

-----------------------------------------------------------------------------
(* Properties. *)

Queued(s) == \E l \in Level : queue_contains(ready[l], s)
Rank(s) == LevelOf("PRIORITY", prio[s])

TypeOK ==
  /\ pid   \in [Slot -> Nat]
  /\ state \in [Slot -> {"READY", "RUNNING", "TERMINATED"}]
  /\ prio  \in [Slot -> Nat]
  /\ rsp   \in [Slot -> Stack]
  /\ free  \in SUBSET Slot
  /\ next_pid \in Nat
  /\ process_count \in Int
  /\ current \in Slot \cup {NULL}
  /\ policy \in Policy \cup {NONE}
  /\ ready \in [Level -> Seq(Slot)]
  /\ ticks \in [Level -> Nat]
  /\ sp \in Stack
  /\ pc \in {"init", "boot", "shell", "bench", "panic"}

(* The ready queues hold only READY processes, each of them once and in    *)
(* the queue of its priority, and never the current process: what the      *)
(* intrusive links of queue.c need, since a PCB has a single next field.   *)
(* yield, process_exit, process_kill, the assignment of current_process    *)
(* in kernel_main and bench, and the timer must all keep it.               *)
ReadyQueueSound ==
  \A l \in Level :
    /\ \A i \in 1 .. Len(ready[l]) :
         /\ state[ready[l][i]] = "READY"
         /\ LevelOf(policy, prio[ready[l][i]]) = l
         /\ ready[l][i] # current
    /\ \A i, j \in 1 .. Len(ready[l]) : ready[l][i] = ready[l][j] => i = j

(* slot_free_map and process_count agree with the process states, and no   *)
(* two live processes share a pid (what pcb_by_pid relies on), however     *)
(* creation, exit, kill and slot reuse are mixed.                          *)
LiveAccounting ==
  /\ process_count = Cardinality({s \in Slot : IsLive(s)})
  /\ pc # "panic" => free = {s \in Slot : ~ IsLive(s)}
  /\ \A s, t \in Slot : IsLive(s) /\ IsLive(t) /\ pid[s] = pid[t] => s = t

(* Outside a policy swap the idle process, while it lives, is current or   *)
(* ready, so process_exit can only run out of processes once idle itself   *)
(* has exited: "Should not happen - idle process should always be ready"   *)
(* (process.c:114), although process_init never gets to enqueue it and     *)
(* scheduler_set drops it.                                                 *)
IdleIsSafetyNet ==
  \A s \in Slot :
    pid[s] = 1 /\ IsLive(s) =>
      /\ pc # "panic"
      /\ pc = "shell" => Queued(s) \/ current = s

(* A process other than idle never keeps the CPU for a whole quantum       *)
(* without being rescheduled, across policy swaps, exits and dispatches:   *)
(* no stale count is left when *_next hands the CPU over.                  *)
QuantumRespected ==
  \A l \in Level : ticks[l] < Quantum(l)

(* The CPU never leaves the boot stack: since yield and process_exit set   *)
(* current_process before they call context_switch, switch.asm saves the   *)
(* running stack pointer in the PCB it is about to load it from.           *)
StaysOnBootStack == sp = BOOT

(* Whoever is queued stays so, is dispatched, dies, or is dropped with the *)
(* queues that scheduler_set leaves behind.                                *)
Kept ==
  \A s \in Slot :
    Queued(s) => \/ Queued(s)'
                 \/ current' = s
                 \/ state'[s] = "TERMINATED"
                 \/ \E p \in BenchPolicy : BenchInit(p)

(* A queued process leaves the ready queues only by being dispatched, by   *)
(* dying, or because scheduler_set dropped the queues: no other call       *)
(* (process_create reusing a slot, a kill of a neighbour, a preemption)    *)
(* loses it.                                                               *)
NoneLostButBySwap == [][Kept]_vars

(* Under PRIORITY and MLQ, which scan their queues in opposite directions, *)
(* a process is never dispatched while one of higher priority is ready.    *)
DispatchesHighestPriority ==
  [][ current' # current /\ current' # NULL /\ policy \in {"PRIORITY", "MLQ"}
        => \A s \in Slot : Queued(s)' => Rank(s) <= Rank(current') ]_vars

(* Under round robin the timer alone brings every queued process to the    *)
(* CPU, unless it is killed, the policy is swapped, or the CPU is with the *)
(* idle process (or none), whose ticks rr_tick does not count.             *)
RoundRobinProgress ==
  \A s \in Slot :
    (policy = "RR" /\ Queued(s))
      ~> (~ Queued(s) \/ policy # "RR" \/ pc = "panic"
            \/ current = NULL \/ pid[current] = 1)
=============================================================================
