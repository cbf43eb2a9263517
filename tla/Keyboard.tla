------------------------------ MODULE Keyboard ------------------------------
(***************************************************************************)
(* The PS/2 keyboard: keys that go down and up and the bytes they send,    *)
(* the interrupt handler and ring buffer of drivers/keyboard.c, and the    *)
(* reading loop the shell, the editor and the login prompt share.  The     *)
(* handler runs with interrupts off and is one step; the reader can be     *)
(* interrupted between any two of its accesses to the ring.                *)
(***************************************************************************)
EXTENDS Integers, Sequences

CONSTANTS
  KBD_BUF_SIZE,
  Key,          \* the keys of the keyboard: [scan: 0..127, ext: BOOLEAN]
  MaxWire       \* bytes that may wait for the handler

KEY_NONE == 0
KEY_LCTRL == 153
KEY_LSHIFT == 154
KEY_RSHIFT == 157
KEY_LALT == 155
KEY_UP == 128
EXTENDED == 224
MAX_SCAN == 96

(* In scancode set 1 no key has the scancode whose release would read as   *)
(* the prefix.                                                             *)
ASSUME KeyboardAssumption ==
  /\ KBD_BUF_SIZE \in Nat \ {0}
  /\ Key \subseteq [scan : 0 .. 127, ext : BOOLEAN]
  /\ \A k \in Key : k.scan + 128 # EXTENDED

VARIABLES
  down, wire,           \* keys held down, bytes sent and not yet handled
  modifiers, extended,  \* the driver's state
  kbd_buffer, buf_head, buf_tail,
  pc, c,                \* the reader: where it is, the key it has read
  out                   \* the key it was given last

ring == <<kbd_buffer, buf_head, buf_tail>>
driver == <<modifiers, extended, ring>>
reader == <<pc, c, out>>
vars == <<down, wire, driver, reader>>

Init ==
  /\ down = {} /\ wire = <<>>
  /\ modifiers = {} /\ extended = FALSE
  /\ kbd_buffer = [i \in 0 .. KBD_BUF_SIZE - 1 |-> KEY_NONE]
  /\ buf_head = 0 /\ buf_tail = 0
  /\ pc = "halted" /\ c = KEY_NONE /\ out = KEY_NONE

-----------------------------------------------------------------------------
(* Scancode set 1: a release has bit 7 set, an extended key a prefix. *)
Bytes(k, release) ==
  (IF k.ext THEN <<EXTENDED>> ELSE <<>>) \o <<IF release THEN k.scan + 128 ELSE k.scan>>

(* A key goes down, or repeats while it is held. *)
Press(k) ==
  /\ Len(wire) + Len(Bytes(k, FALSE)) <= MaxWire
  /\ down' = down \cup {k}
  /\ wire' = wire \o Bytes(k, FALSE)
  /\ UNCHANGED <<driver, reader>>

Release(k) ==
  /\ k \in down
  /\ Len(wire) + Len(Bytes(k, TRUE)) <= MaxWire
  /\ down' = down \ {k}
  /\ wire' = wire \o Bytes(k, TRUE)
  /\ UNCHANGED <<driver, reader>>

-----------------------------------------------------------------------------
(* The handler. *)

(* KBD_MOD_*: a modifier is named by its scancode and prefix. *)
modifier_for_scancode(scan, ext) ==
  IF scan \in (IF ext THEN {29, 56, 91, 92} ELSE {29, 42, 54, 56})
    THEN {[scan |-> scan, ext |-> ext]} ELSE {}

(* keymap_ext, in order, and the lookup that reads it as pairs. *)
keymap_ext ==
  <<13, 156, 47, 161, 158, 132, 128, 134, 130, 131, 133, 129, 135, 137, 136, 159, 160>>

lookup_extended(scan) ==
  IF \E i \in 1 .. 8 : keymap_ext[2 * i - 1] = scan
    THEN keymap_ext[2 * (CHOOSE i \in 1 .. 8 : keymap_ext[2 * i - 1] = scan)]
    ELSE KEY_NONE

(* keymap_us and keymap_us_shift: a letter differs by case, and the tables *)
(* are empty at 84..86 and from 89 on.                                     *)
keymap(scan, shifted) ==
  IF scan \in {0} \cup 84 .. 86 \cup 89 .. MAX_SCAN THEN KEY_NONE
  ELSE IF shifted THEN 1000 + scan ELSE 2000 + scan

(* The codes buffer_put is given for modifiers pressed without prefix. *)
ModifierKey(scan) ==
  CASE scan = 29 -> KEY_LCTRL [] scan = 42 -> KEY_LSHIFT
    [] scan = 54 -> KEY_RSHIFT [] OTHER -> KEY_LALT

(* Mutant: full and empty are not told apart. *)
buffer_put_Mutant(key) ==
  /\ kbd_buffer' = [kbd_buffer EXCEPT ![buf_head] = key]
  /\ buf_head' = (buf_head + 1) % KBD_BUF_SIZE
  /\ UNCHANGED buf_tail

buffer_put(key) ==
  LET next == (buf_head + 1) % KBD_BUF_SIZE
  IN  /\ IF key # KEY_NONE /\ next # buf_tail
           THEN /\ kbd_buffer' = [kbd_buffer EXCEPT ![buf_head] = key]
                /\ buf_head' = next
           ELSE UNCHANGED <<kbd_buffer, buf_head>>
      /\ UNCHANGED buf_tail

(* The reader sleeps in hlt until any interrupt. *)
Wake == pc' = IF pc = "halted" THEN "test" ELSE pc

(* Mutant: the prefix is forgotten only when a key is pressed. *)
ClearExtended_Mutant(release) == extended' = (extended /\ release)

ClearExtended(release) == extended' = FALSE

keyboard_irq_handler ==
  /\ wire # <<>>
  /\ wire' = Tail(wire)
  /\ LET scancode == Head(wire)
         release == scancode >= 128
         scan == scancode % 128
         mod == modifier_for_scancode(scan, extended)
         shifted == \E m \in modifiers : m.scan \in {42, 54}
     IN  IF scancode = EXTENDED
           THEN extended' = TRUE /\ UNCHANGED <<modifiers, ring>>
           ELSE /\ ClearExtended(release)
                /\ modifiers' = IF release THEN modifiers \ mod ELSE modifiers \cup mod
                /\ CASE release -> UNCHANGED ring
                     [] ~ release /\ mod # {} /\ extended -> UNCHANGED ring
                     [] ~ release /\ mod # {} /\ ~ extended -> buffer_put(ModifierKey(scan))
                     [] ~ release /\ mod = {} /\ extended -> buffer_put(lookup_extended(scan))
                     [] ~ release /\ mod = {} /\ ~ extended ->
                          IF scan < MAX_SCAN THEN buffer_put(keymap(scan, shifted))
                                             ELSE UNCHANGED ring
  /\ Wake
  /\ UNCHANGED <<down, c, out>>

(* Mutant: the tick does not end the reader's hlt. *)
TimerTick_Mutant == pc = "halted" /\ UNCHANGED vars

(* A timer interrupt, as the reader sees it. *)
TimerTick ==
  /\ pc = "halted"
  /\ Wake
  /\ UNCHANGED <<down, wire, driver, c, out>>

-----------------------------------------------------------------------------
(* The reader: hlt; while (keyboard_has_data()) c = keyboard_getchar(). *)

keyboard_has_data ==
  /\ pc = "test"
  /\ pc' = IF buf_head # buf_tail THEN "read" ELSE "leave"
  /\ UNCHANGED <<down, wire, driver, c, out>>

(* Between the last look and the hlt an interrupt can slip in. *)
Halt ==
  /\ pc = "leave"
  /\ pc' = "halted"
  /\ UNCHANGED <<down, wire, driver, c, out>>

(* keyboard_getchar up to the read of the slot. *)
ReadSlot ==
  /\ pc = "read"
  /\ c' = kbd_buffer[buf_tail]
  /\ pc' = "advance"
  /\ UNCHANGED <<down, wire, driver, out>>

AdvanceTail ==
  /\ pc = "advance"
  /\ buf_tail' = (buf_tail + 1) % KBD_BUF_SIZE
  /\ out' = c
  /\ c' = KEY_NONE
  /\ pc' = "test"
  /\ UNCHANGED <<down, wire, modifiers, extended, kbd_buffer, buf_head>>

Reader == keyboard_has_data \/ Halt \/ ReadSlot \/ AdvanceTail

Next ==
  \/ \E k \in Key : Press(k) \/ Release(k)
  \/ keyboard_irq_handler
  \/ TimerTick
  \/ Reader

Spec == Init /\ [][Next]_vars

(* Interrupts are on while the reader waits, the timer keeps ticking, and  *)
(* the reader is the process that runs.                                    *)
FairSpec ==
  Spec /\ WF_vars(keyboard_irq_handler) /\ WF_vars(TimerTick) /\ WF_vars(Reader)

-----------------------------------------------------------------------------
(* Properties. *)

(* Both indices stay within the buffer. *)
TypeOK ==
  /\ down \subseteq Key /\ wire \in Seq(0 .. 255)
  /\ modifiers \subseteq [scan : 0 .. 127, ext : BOOLEAN]
  /\ extended \in BOOLEAN
  /\ buf_head \in 0 .. KBD_BUF_SIZE - 1 /\ buf_tail \in 0 .. KBD_BUF_SIZE - 1
  /\ pc \in {"leave", "halted", "test", "read", "advance"}

(* The keys in the ring, oldest first. *)
Contents ==
  LET n == (buf_head - buf_tail) % KBD_BUF_SIZE
  IN  [i \in 1 .. n |-> kbd_buffer[(buf_tail + i - 1) % KBD_BUF_SIZE]]

(* The codes that keys can give. *)
KeyCode ==
  {ModifierKey(k.scan) : k \in Key} \cup {lookup_extended(k.scan) : k \in Key}
    \cup {keymap(k.scan, b) : k \in Key, b \in BOOLEAN}

Queue == INSTANCE KeyQueue WITH
  queue <- Contents, out <- out, Capacity <- KBD_BUF_SIZE - 1, Keys <- KeyCode

(* The ring, with its reader interrupted anywhere, is a bounded FIFO: a    *)
(* key that entered it is given to the reader once and in order, and none  *)
(* is overwritten between the reader's look at the slot and its move of    *)
(* the tail.                                                               *)
RingIsQueue == Queue!Spec

(* Once the bytes sent have been handled the driver's modifiers are the    *)
(* modifier keys held down, whatever was pressed or released in between    *)
(* and however full the ring was.                                          *)
ModifiersTrackKeys ==
  /\ TypeOK
  /\ wire = <<>> => modifiers = UNION {modifier_for_scancode(k.scan, k.ext) : k \in down}

(* A key in the ring is read in the end, also one that arrives between the *)
(* reader's last look and its hlt: the next tick ends the hlt.             *)
KeysAreRead == buf_head # buf_tail ~> pc = "advance"
=============================================================================
