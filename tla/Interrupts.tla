----------------------------- MODULE Interrupts -----------------------------
(***************************************************************************)
(* Interrupt delivery: the two cascaded 8259A controllers as irq_init      *)
(* programs them, isr_handler's dispatch, and the handlers of irq.c.  All  *)
(* gates are interrupt gates, so a handler is never interrupted and is one *)
(* step; only sys_sleep turns interrupts on again and waits for the timer. *)
(***************************************************************************)
EXTENDS Integers, FiniteSets

CONSTANTS
  Line,       \* the interrupt lines that devices raise, in 0..15
  MaxSleep    \* the longest sleep asked for, in ticks

ASSUME LineAssumption ==
  Line \subseteq (0 .. 15) \ {2} /\ 0 \in Line /\ MaxSleep \in Nat

TIMER == 0
KEYBOARD == 1
CASCADE == 2

VARIABLES
  irr,             \* lines raised and not yet delivered
  master, slave,   \* lines in service on each controller (8..15 on the slave)
  registered,      \* lines with an entry in isr_handlers
  ticks,           \* timer_ticks, modulo 2
  halted,          \* exception_default_handler ran
  IF_flag,         \* the CPU takes interrupts
  pc,              \* of the process: "run", or in sys_sleep "test" or "hlt"
  left,            \* ticks from now to sys_sleep's target, 0 when it is past
  asked, slept     \* the ticks asked for, and those since then

controllers == <<irr, master, slave, registered>>
sleep == <<pc, left, asked, slept>>
irq_vars == <<controllers, ticks, halted, IF_flag, sleep>>

(* After irq_init: initialised, all lines unmasked, two handlers. *)
IrqInit ==
  /\ irr = {} /\ master = {} /\ slave = {}
  /\ registered = {TIMER, KEYBOARD}
  /\ ticks = 0
  /\ halted = FALSE /\ IF_flag = TRUE
  /\ pc = "run" /\ left = 0 /\ asked = 0 /\ slept = 0

Raise(l) ==
  /\ ~ halted
  /\ irr' = irr \cup {l}
  /\ UNCHANGED <<master, slave, registered, ticks, halted, IF_flag, sleep>>

-----------------------------------------------------------------------------
OnMaster(l) == IF l >= 8 THEN CASCADE ELSE l

(* Where a line stands in the order of priority: the slave's lines take    *)
(* the place of the master's line 2.                                       *)
Rank(l) == 16 * OnMaster(l) + l

(* Fully nested mode: a request waits for every line in service of the     *)
(* same or a higher priority, and for a higher one that is also raised.    *)
Deliverable(l) ==
  /\ l \in irr
  /\ \A s \in master : s > OnMaster(l)
  /\ l >= 8 => \A s \in slave : s > l
  /\ \A m \in irr : Rank(l) <= Rank(m)

(* The controller drops the highest-priority line from those in service.   *)
EOI(inService) ==
  {s \in inService : \E t \in inService : t < s}

Tick ==
  /\ ticks' = 1 - ticks
  /\ left' = IF left > 0 THEN left - 1 ELSE 0
  /\ slept' = IF slept < MaxSleep THEN slept + 1 ELSE slept

NoTick == UNCHANGED <<ticks, left, slept>>

(* timer_handler; scheduler_tick is part of ProcessManager. *)
timer_handler(m, s) ==
  /\ Tick
  /\ master' = EOI(m)
  /\ slave' = s

(* keyboard_handler; keyboard_irq_handler is part of Keyboard. *)
keyboard_handler(m, s) ==
  /\ master' = m
  /\ slave' = s
  /\ NoTick

(* Mutant: lines of the slave are acknowledged on the master only. *)
unregistered_Mutant(l, m, s) ==
  /\ master' = EOI(m)
  /\ slave' = s
  /\ NoTick

(* isr_handler for a line without a handler. *)
unregistered(l, m, s) ==
  /\ slave' = IF l >= 8 THEN EOI(s) ELSE s
  /\ master' = EOI(m)
  /\ NoTick

isr_handler(l) ==
  LET m == master \cup {OnMaster(l)}
      s == IF l >= 8 THEN slave \cup {l} ELSE slave
  IN  /\ ~ halted /\ IF_flag
      /\ Deliverable(l)
      /\ irr' = irr \ {l}
      /\ CASE l = TIMER /\ l \in registered -> timer_handler(m, s)
           [] l = KEYBOARD /\ l \in registered -> keyboard_handler(m, s)
           [] l \notin registered -> unregistered(l, m, s)
      /\ pc' = IF pc = "hlt" THEN "test" ELSE pc
      /\ UNCHANGED <<registered, halted, IF_flag, asked>>

(* A CPU exception without a handler: registers are printed and the        *)
(* machine halts with interrupts off.                                      *)
exception_default_handler ==
  /\ ~ halted
  /\ halted' = TRUE
  /\ UNCHANGED <<controllers, ticks, IF_flag, sleep>>

-----------------------------------------------------------------------------
(* sys_sleep, entered through an interrupt gate.  timer_ticks + rdi does   *)
(* not overflow here.                                                      *)

(* Mutant: interrupts stay off, as the gate left them. *)
Sti_Mutant == IF_flag' = FALSE

Sti == IF_flag' = TRUE

sys_sleep(n) ==
  /\ ~ halted /\ pc = "run"
  /\ pc' = "test" /\ left' = n /\ asked' = n /\ slept' = 0
  /\ Sti
  /\ UNCHANGED <<controllers, ticks, halted>>

Halt ==
  /\ ~ halted /\ pc = "test" /\ left > 0
  /\ pc' = "hlt"
  /\ UNCHANGED <<controllers, ticks, halted, IF_flag, left, asked, slept>>

(* timer_ticks has reached the target. *)
Past == left = 0

(* cli, and the caller's flags come back with iretq. *)
SleepReturns ==
  /\ ~ halted /\ pc = "test" /\ Past
  /\ pc' = "run"
  /\ IF_flag' = TRUE
  /\ UNCHANGED <<controllers, ticks, halted, left, asked, slept>>

IrqNext ==
  \/ \E l \in Line : Raise(l)
  \/ \E l \in Line : isr_handler(l)
  \/ exception_default_handler
  \/ \E n \in 0 .. MaxSleep : sys_sleep(n)
  \/ Halt
  \/ SleepReturns

IrqSpec == IrqInit /\ [][IrqNext]_irq_vars

(* The CPU runs with interrupts on, as kernel_main leaves it, and takes an *)
(* interrupt that the controller presents; the PIT ticks on; code that is  *)
(* not waiting runs on.                                                    *)
FairIrqSpec ==
  /\ IrqSpec
  /\ WF_irq_vars(\E l \in Line : isr_handler(l))
  /\ WF_irq_vars(Raise(TIMER))
  /\ WF_irq_vars(Halt \/ SleepReturns)

-----------------------------------------------------------------------------
(* Properties. *)

(* Each acknowledgement clears the line it is meant for: apart from the    *)
(* keyboard's, no interrupt leaves a trace in either controller, and none  *)
(* acknowledges another line's interrupt in its place.  interrupt.c:143    *)
(* says handlers "are responsible for EOI"; keyboard_handler sends none.   *)
AcknowledgesOwnLine ==
  master \subseteq {KEYBOARD} /\ slave = {}

(* A sleep ends: interrupts are on while it waits, and a tick that comes   *)
(* between sys_sleep's test and its hlt delays it by one tick at most.     *)
SleepEnds == pc # "run" ~> (pc = "run" \/ halted)

(* And it lasts: an interrupt of another line ends the hlt, never the      *)
(* sleep.                                                                  *)
SleepLasts == [][pc = "test" /\ pc' = "run" => slept >= asked]_irq_vars
=============================================================================
