--------------------------- MODULE KeyboardProofs ---------------------------
(***************************************************************************)
(* The ring buffer of drivers/keyboard.c implements the bounded FIFO of    *)
(* KeyQueue, and the modifier bits are those of the keys held down, for    *)
(* every size of the ring and every set of keys.                           *)
(***************************************************************************)
EXTENDS Keyboard, SequenceTheorems, TLAPS

Index == 0 .. KBD_BUF_SIZE - 1
Inc(i) == (i + 1) % KBD_BUF_SIZE
Size(h, t) == (h - t) % KBD_BUF_SIZE
At(t, i) == (t + i - 1) % KBD_BUF_SIZE

(* The remainders that the ring takes, without division. *)
LEMMA Wrapped ==
  /\ \A i \in Index : Inc(i) = IF i + 1 < KBD_BUF_SIZE THEN i + 1 ELSE 0
  /\ \A h, t \in Index : Size(h, t) = IF h >= t THEN h - t ELSE h - t + KBD_BUF_SIZE
  /\ \A t \in Index, i \in 1 .. KBD_BUF_SIZE :
       At(t, i) = IF t + i - 1 < KBD_BUF_SIZE THEN t + i - 1 ELSE t + i - 1 - KBD_BUF_SIZE
<1> USE KeyboardAssumption DEF Index
<1>1. ASSUME NEW x \in Int
      PROVE  /\ 0 <= x /\ x < KBD_BUF_SIZE => x % KBD_BUF_SIZE = x
             /\ KBD_BUF_SIZE <= x /\ x < 2 * KBD_BUF_SIZE => x % KBD_BUF_SIZE = x - KBD_BUF_SIZE
             /\ - KBD_BUF_SIZE <= x /\ x < 0 => x % KBD_BUF_SIZE = x + KBD_BUF_SIZE
  <2>1. 0 <= x /\ x < KBD_BUF_SIZE => x % KBD_BUF_SIZE = x  BY SMTT(20)
  <2>2. KBD_BUF_SIZE <= x /\ x < 2 * KBD_BUF_SIZE => x % KBD_BUF_SIZE = x - KBD_BUF_SIZE
    BY SMTT(20)
  <2>3. - KBD_BUF_SIZE <= x /\ x < 0 => x % KBD_BUF_SIZE = x + KBD_BUF_SIZE  BY SMTT(20)
  <2> QED  BY <2>1, <2>2, <2>3
<1>2. ASSUME NEW i \in Index PROVE Inc(i) = IF i + 1 < KBD_BUF_SIZE THEN i + 1 ELSE 0
  <2>1. i + 1 \in Int /\ 0 <= i + 1 /\ i + 1 <= KBD_BUF_SIZE  OBVIOUS
  <2> QED  BY <1>1, <2>1 DEF Inc
<1>3. ASSUME NEW h \in Index, NEW t \in Index
      PROVE  Size(h, t) = IF h >= t THEN h - t ELSE h - t + KBD_BUF_SIZE
  <2>1. h - t \in Int /\ - KBD_BUF_SIZE <= h - t /\ h - t < KBD_BUF_SIZE  OBVIOUS
  <2> QED  BY <1>1, <2>1 DEF Size
<1>4. ASSUME NEW t \in Index, NEW i \in 1 .. KBD_BUF_SIZE
      PROVE  At(t, i) = IF t + i - 1 < KBD_BUF_SIZE THEN t + i - 1 ELSE t + i - 1 - KBD_BUF_SIZE
  <2>1. t + i - 1 \in Int /\ 0 <= t + i - 1 /\ t + i - 1 < 2 * KBD_BUF_SIZE  OBVIOUS
  <2> QED  BY <1>1, <2>1 DEF At
<1> QED  BY <1>2, <1>3, <1>4

(* Where the slots in use are, and how a step of either index moves them. *)
LEMMA RingFacts ==
  ASSUME NEW h \in Index, NEW t \in Index
  PROVE  /\ Inc(h) \in Index /\ Inc(t) \in Index
         /\ Size(h, t) \in 0 .. KBD_BUF_SIZE - 1 /\ (Size(h, t) = 0 <=> h = t)
         /\ \A i \in 1 .. Size(h, t) : At(t, i) \in Index \ {h}
         /\ At(t, Size(h, t) + 1) = h /\ At(t, 1) = t
         /\ Inc(h) # t => Size(Inc(h), t) = Size(h, t) + 1 /\ Size(h, t) < KBD_BUF_SIZE - 1
         /\ h # t => /\ Size(h, Inc(t)) = Size(h, t) - 1
                     /\ \A i \in 1 .. Size(h, t) - 1 : At(Inc(t), i) = At(t, i + 1)
<1> DEFINE N == KBD_BUF_SIZE
<1>n. N \in Nat \ {0} /\ h \in Int /\ t \in Int /\ 0 <= h /\ h < N /\ 0 <= t /\ t < N
  BY KeyboardAssumption DEF Index
<1>i. /\ Inc(h) = IF h + 1 < N THEN h + 1 ELSE 0
      /\ Inc(t) = IF t + 1 < N THEN t + 1 ELSE 0
      /\ Size(h, t) = IF h >= t THEN h - t ELSE h - t + N
  BY Wrapped
<1>1. Inc(h) \in Index /\ Inc(t) \in Index  BY <1>n, <1>i DEF Index
<1>2. Size(h, t) \in 0 .. N - 1 /\ (Size(h, t) = 0 <=> h = t)  BY <1>n, <1>i
<1>3. ASSUME NEW i \in 1 .. Size(h, t) PROVE At(t, i) \in Index \ {h}
  <2>1. i \in 1 .. N  BY <1>n, <1>2
  <2>2. At(t, i) = IF t + i - 1 < N THEN t + i - 1 ELSE t + i - 1 - N  BY <2>1, Wrapped
  <2> QED  BY <1>n, <1>i, <2>1, <2>2 DEF Index
<1>4. At(t, Size(h, t) + 1) = h /\ At(t, 1) = t
  <2>1. Size(h, t) + 1 \in 1 .. N /\ 1 \in 1 .. N  BY <1>n, <1>2
  <2>2. /\ At(t, Size(h, t) + 1) =
             IF t + (Size(h, t) + 1) - 1 < N THEN t + (Size(h, t) + 1) - 1
                                             ELSE t + (Size(h, t) + 1) - 1 - N
        /\ At(t, 1) = IF t + 1 - 1 < N THEN t + 1 - 1 ELSE t + 1 - 1 - N
    BY <2>1, Wrapped
  <2> QED  BY <1>n, <1>i, <2>2
<1>5. Inc(h) # t => Size(Inc(h), t) = Size(h, t) + 1 /\ Size(h, t) < N - 1
  <2>1. Size(Inc(h), t) = IF Inc(h) >= t THEN Inc(h) - t ELSE Inc(h) - t + N  BY <1>1, Wrapped
  <2> QED  BY <1>n, <1>i, <2>1
<1>6. h # t => Size(h, Inc(t)) = Size(h, t) - 1
  <2>1. Size(h, Inc(t)) = IF h >= Inc(t) THEN h - Inc(t) ELSE h - Inc(t) + N  BY <1>1, Wrapped
  <2> QED  BY <1>n, <1>i, <2>1
<1>7. ASSUME h # t, NEW i \in 1 .. Size(h, t) - 1 PROVE At(Inc(t), i) = At(t, i + 1)
  <2>1. i \in 1 .. N /\ i + 1 \in 1 .. N  BY <1>n, <1>2
  <2>2. At(Inc(t), i) = IF Inc(t) + i - 1 < N THEN Inc(t) + i - 1 ELSE Inc(t) + i - 1 - N
    BY <1>1, <2>1, Wrapped
  <2>3. At(t, i + 1) = IF t + (i + 1) - 1 < N THEN t + (i + 1) - 1 ELSE t + (i + 1) - 1 - N
    BY <2>1, Wrapped
  <2> QED  BY <1>n, <1>i, <1>1, <2>1, <2>2, <2>3 DEF Index
<1> QED  BY <1>1, <1>2, <1>3, <1>4, <1>5, <1>6, <1>7

-----------------------------------------------------------------------------
(* What is on the wire was sent by a key. *)
Byte == {EXTENDED} \cup {k.scan : k \in Key} \cup {k.scan + 128 : k \in Key}

Slots == KeyCode \cup {KEY_NONE}

(* The reader stands at a slot that is in use and has read what is in it:  *)
(* the handler writes only slots that are not in use.                      *)
IInv ==
  /\ wire \in Seq(Byte)
  /\ buf_head \in Index /\ buf_tail \in Index /\ kbd_buffer \in [Index -> Slots]
  /\ pc \in {"read", "advance"} => buf_head # buf_tail
  /\ pc = "advance" => c = kbd_buffer[buf_tail]

LEMMA InitIInv == Init => IInv /\ Queue!Init
<1> SUFFICES ASSUME Init PROVE IInv /\ Queue!Init  OBVIOUS
<1>1. 0 \in Index  BY KeyboardAssumption DEF Index
<1>2. wire \in Seq(Byte)  BY DEF Init
<1>3. IInv  BY <1>1, <1>2 DEF Init, IInv, Index, Slots
<1>4. Size(buf_head, buf_tail) = 0  BY <1>1, RingFacts DEF Init
<1>5. Contents = <<>>  BY <1>4 DEF Contents, Size
<1> QED  BY <1>3, <1>5 DEF Init, Queue!Init

(* The ring as a sequence. *)
LEMMA ContentsSeq ==
  ASSUME IInv
  PROVE  /\ Contents \in Seq(Slots) /\ Len(Contents) = Size(buf_head, buf_tail)
         /\ \A i \in 1 .. Size(buf_head, buf_tail) : Contents[i] = kbd_buffer[At(buf_tail, i)]
<1> DEFINE n == Size(buf_head, buf_tail)
<1>1. /\ n \in Nat /\ Contents = [i \in 1 .. n |-> kbd_buffer[At(buf_tail, i)]]
  BY RingFacts, KeyboardAssumption DEF IInv, Contents, Size, At
<1>2. \A i \in 1 .. n : kbd_buffer[At(buf_tail, i)] \in Slots  BY RingFacts DEF IInv
<1> HIDE DEF n
<1>3. Contents \in Seq(Slots) /\ Len(Contents) = n  BY <1>1, <1>2
<1>4. \A i \in 1 .. n : Contents[i] = kbd_buffer[At(buf_tail, i)]  BY <1>1
<1> QED  BY <1>3, <1>4 DEF n

(* A byte that is handled is dropped or puts the code of a key. *)
LEMMA HandlerPuts ==
  ASSUME IInv, keyboard_irq_handler
  PROVE  UNCHANGED ring \/ \E key \in KeyCode : buffer_put(key)
<1> DEFINE scancode == Head(wire)
           scan == scancode % 128
           mod == modifier_for_scancode(scan, extended)
           shifted == \E m \in modifiers : m.scan \in {42, 54}
<1> SUFFICES ASSUME ~ UNCHANGED ring PROVE \E key \in KeyCode : buffer_put(key)  OBVIOUS
<1>1. scancode \in Byte /\ scancode # EXTENDED /\ ~ (scancode >= 128)
  <2>1. scancode \in Byte  BY HeadTailProperties DEF IInv, keyboard_irq_handler
  <2> QED  BY <2>1 DEF keyboard_irq_handler
<1>2. PICK k \in Key : scan = k.scan
  <2>1. PICK k \in Key : scancode = k.scan
    BY <1>1, KeyboardAssumption DEF Byte, EXTENDED
  <2>2. k.scan \in 0 .. 127  BY KeyboardAssumption
  <2> QED  BY <2>1, <2>2
<1>3. \/ buffer_put(ModifierKey(scan)) \/ buffer_put(lookup_extended(scan))
      \/ buffer_put(keymap(scan, shifted))
  BY <1>1 DEF keyboard_irq_handler
<1>4. shifted \in BOOLEAN  OBVIOUS
<1> HIDE DEF scan, shifted
<1>5. {ModifierKey(scan), lookup_extended(scan), keymap(scan, shifted)} \subseteq KeyCode
  BY <1>2, <1>4 DEF KeyCode
<1> QED  BY <1>3, <1>5

(* buffer_put writes no slot in use, and appends if there is room. *)
LEMMA PutStep ==
  ASSUME IInv, NEW key \in KeyCode, buffer_put(key)
  PROVE  /\ buf_head' \in Index /\ buf_tail' = buf_tail /\ kbd_buffer' \in [Index -> Slots]
         /\ buf_head # buf_tail => /\ buf_head' # buf_tail'
                                   /\ kbd_buffer'[buf_tail'] = kbd_buffer[buf_tail]
         /\ Contents' = Contents \/ (Len(Contents) < KBD_BUF_SIZE - 1
                                       /\ Contents' = Append(Contents, key))
<1> USE DEF IInv
<1>1. CASE UNCHANGED ring  BY <1>1 DEF ring, Contents
<1>2. CASE ~ UNCHANGED ring
  <2>1. /\ Inc(buf_head) # buf_tail /\ buf_head' = Inc(buf_head) /\ buf_tail' = buf_tail
        /\ kbd_buffer' = [kbd_buffer EXCEPT ![buf_head] = key]
    BY <1>2 DEF buffer_put, Inc, ring
  <2> DEFINE n == Size(buf_head, buf_tail)
  <2>2. /\ Inc(buf_head) \in Index /\ n \in 0 .. KBD_BUF_SIZE - 1
        /\ Size(buf_head', buf_tail') = n + 1 /\ n < KBD_BUF_SIZE - 1
        /\ \A i \in 1 .. n : At(buf_tail, i) \in Index \ {buf_head}
        /\ At(buf_tail, n + 1) = buf_head
    BY <2>1, RingFacts
  <2>3. kbd_buffer' \in [Index -> Slots]  BY <2>1 DEF Slots
  <2>4. buf_head # buf_tail => kbd_buffer'[buf_tail'] = kbd_buffer[buf_tail]  BY <2>1
  <2>5. /\ Contents \in Seq(Slots) /\ Len(Contents) = n
        /\ \A i \in 1 .. n : Contents[i] = kbd_buffer[At(buf_tail, i)]
    BY ContentsSeq
  <2>6. Contents' = [i \in 1 .. n + 1 |-> kbd_buffer'[At(buf_tail, i)]]
    BY <2>1, <2>2 DEF Contents, Size, At
  <2>7. /\ \A i \in 1 .. n : kbd_buffer'[At(buf_tail, i)] = Contents[i]
        /\ kbd_buffer'[At(buf_tail, n + 1)] = key
    BY <2>1, <2>2, <2>5
  <2>8. n \in Nat  BY <2>2, KeyboardAssumption
  <2> HIDE DEF n, IInv
  <2>9. /\ Append(Contents, key) \in Seq(Slots) /\ Len(Append(Contents, key)) = n + 1
        /\ \A i \in 1 .. n : Append(Contents, key)[i] = Contents[i]
        /\ Append(Contents, key)[n + 1] = key
    BY <2>5, AppendProperties DEF Slots
  <2>10. ASSUME NEW i \in 1 .. n + 1
         PROVE  kbd_buffer'[At(buf_tail, i)] = Append(Contents, key)[i]
    <3>1. i \in 1 .. n \/ i = n + 1  BY <2>8
    <3> QED  BY <2>7, <2>9, <3>1
  <2>11. Contents' = Append(Contents, key)
    <3>1. n + 1 \in Nat /\ \A i \in 1 .. n + 1 : kbd_buffer'[At(buf_tail, i)] \in Slots
      BY <2>8, <2>9, <2>10, ElementOfSeq
    <3>2. Contents' \in Seq(Slots) /\ Len(Contents') = n + 1  BY <2>6, <3>1
    <3>3. \A i \in 1 .. n + 1 : Contents'[i] = Append(Contents, key)[i]  BY <2>6, <2>10
    <3> QED  BY <2>9, <3>2, <3>3, SeqEqual
  <2> QED  BY <2>1, <2>2, <2>3, <2>4, <2>5, <2>11
<1> QED  BY <1>1, <1>2

(* The reader takes the oldest key. *)
LEMMA GetStep ==
  ASSUME IInv, AdvanceTail
  PROVE  /\ buf_tail' \in Index
         /\ Contents # <<>> /\ out' = Head(Contents) /\ Contents' = Tail(Contents)
<1> USE DEF IInv
<1> DEFINE n == Size(buf_head, buf_tail)
<1>1. /\ buf_head # buf_tail /\ buf_tail' = Inc(buf_tail) /\ out' = kbd_buffer[buf_tail]
      /\ buf_head' = buf_head /\ kbd_buffer' = kbd_buffer
  BY DEF AdvanceTail, Inc
<1>2. /\ buf_tail' \in Index /\ n \in Nat /\ n # 0 /\ At(buf_tail, 1) = buf_tail
      /\ Size(buf_head', buf_tail') = n - 1
      /\ \A i \in 1 .. n - 1 : At(buf_tail', i) = At(buf_tail, i + 1)
  <2>1. buf_head \in Index /\ buf_tail \in Index  OBVIOUS
  <2> HIDE DEF IInv
  <2>2. /\ Inc(buf_tail) \in Index /\ n \in 0 .. KBD_BUF_SIZE - 1 /\ n # 0
        /\ At(buf_tail, 1) = buf_tail
    BY <1>1, <2>1, RingFacts
  <2>3. /\ Size(buf_head, Inc(buf_tail)) = n - 1
        /\ \A i \in 1 .. n - 1 : At(Inc(buf_tail), i) = At(buf_tail, i + 1)
    BY <1>1, <2>1, RingFacts
  <2> HIDE DEF n
  <2> QED  BY <1>1, <2>2, <2>3, KeyboardAssumption
<1>3. /\ Contents \in Seq(Slots) /\ Len(Contents) = n
      /\ \A i \in 1 .. n : Contents[i] = kbd_buffer[At(buf_tail, i)]
  BY ContentsSeq
<1>4. Contents' = [i \in 1 .. n - 1 |-> kbd_buffer[At(buf_tail', i)]]
  BY <1>1, <1>2 DEF Contents, Size, At
<1> HIDE DEF n, IInv
<1>5. Contents # <<>> /\ Head(Contents) = kbd_buffer[buf_tail]  BY <1>2, <1>3
<1>6. ASSUME NEW i \in 1 .. n - 1 PROVE kbd_buffer[At(buf_tail', i)] = Contents[i + 1]
  <2>1. i + 1 \in 1 .. n  BY <1>2
  <2> QED  BY <1>2, <1>3, <2>1
<1>7. /\ Tail(Contents) \in Seq(Slots) /\ Len(Tail(Contents)) = n - 1
      /\ \A i \in 1 .. n - 1 : Tail(Contents)[i] = Contents[i + 1]
  BY <1>3, <1>5, HeadTailProperties
<1>8. Contents' = Tail(Contents)
  <2>1. ASSUME NEW i \in 1 .. n - 1 PROVE Tail(Contents)[i] \in Slots
    BY <1>7, ElementOfSeq
  <2>2. Contents' \in Seq(Slots) /\ Len(Contents') = n - 1  BY <1>2, <1>4, <1>6, <1>7, <2>1
  <2>3. \A i \in 1 .. n - 1 : Contents'[i] = Tail(Contents)[i]  BY <1>4, <1>6, <1>7
  <2> QED  BY <1>7, <2>2, <2>3, SeqEqual
<1> QED  BY <1>1, <1>2, <1>5, <1>8
-----------------------------------------------------------------------------
(* What a key sends are bytes of keys. *)
LEMMA BytesAreByte ==
  ASSUME NEW k \in Key, NEW release \in BOOLEAN
  PROVE  Bytes(k, release) \in Seq(Byte)
<1>1. EXTENDED \in Byte /\ k.scan \in Byte /\ k.scan + 128 \in Byte  BY DEF Byte
<1> QED  BY <1>1 DEF Bytes

(* The steps that leave the ring and what was read alone. *)
LEMMA RingUnchanged ==
  ASSUME IInv, UNCHANGED ring, wire' \in Seq(Byte),
         pc' \in {"read", "advance"} => buf_head # buf_tail,
         pc' = "advance" => c' = kbd_buffer[buf_tail]
  PROVE  IInv' /\ UNCHANGED Contents
<1> QED  BY DEF IInv, ring, Contents

(* The handler interrupts the reader between any two of its accesses, and  *)
(* neither moves the reader nor disturbs the slot it stands at.            *)
LEMMA HandlerStep ==
  ASSUME IInv, keyboard_irq_handler
  PROVE  IInv' /\ (UNCHANGED <<Contents, out>> \/ \E key \in KeyCode : Queue!Put(key))
<1>1. wire' \in Seq(Byte)  BY HeadTailProperties DEF IInv, keyboard_irq_handler
<1>2. UNCHANGED <<c, out>> /\ (pc' \in {"read", "advance"} => pc' = pc)
  BY DEF keyboard_irq_handler, Wake
<1>3. CASE UNCHANGED ring
  <2>1. /\ pc' \in {"read", "advance"} => buf_head # buf_tail
        /\ pc' = "advance" => c' = kbd_buffer[buf_tail]
    BY <1>2 DEF IInv
  <2> QED  BY <1>1, <1>2, <1>3, <2>1, RingUnchanged
<1>4. ASSUME NEW key \in KeyCode, buffer_put(key)
      PROVE  IInv' /\ (UNCHANGED <<Contents, out>> \/ Queue!Put(key))
  <2>1. /\ buf_head' \in Index /\ buf_tail' = buf_tail /\ kbd_buffer' \in [Index -> Slots]
        /\ buf_head # buf_tail => /\ buf_head' # buf_tail'
                                  /\ kbd_buffer'[buf_tail'] = kbd_buffer[buf_tail]
        /\ Contents' = Contents \/ (Len(Contents) < KBD_BUF_SIZE - 1
                                      /\ Contents' = Append(Contents, key))
    BY <1>4, PutStep
  <2>2. IInv'  BY <1>1, <1>2, <2>1 DEF IInv
  <2> QED  BY <1>2, <2>1, <2>2 DEF Queue!Put
<1> QED  BY <1>3, <1>4, HandlerPuts

(* Every step keeps the invariant and is a step of the queue. *)
LEMMA NextStep ==
  ASSUME IInv, [Next]_vars
  PROVE  IInv' /\ [Queue!Next]_<<Contents, out>>
<1>1. ASSUME NEW k \in Key, Press(k) \/ Release(k) PROVE IInv' /\ UNCHANGED <<Contents, out>>
  <2>1. wire' \in Seq(Byte)
    <3>1. wire \in Seq(Byte)  BY DEF IInv
    <3>2. PICK r \in BOOLEAN : wire' = wire \o Bytes(k, r)  BY <1>1 DEF Press, Release
    <3>3. Bytes(k, r) \in Seq(Byte)  BY BytesAreByte
    <3> QED  BY <3>1, <3>2, <3>3, ConcatProperties
  <2>2. UNCHANGED <<ring, pc, c, out>>  BY <1>1 DEF Press, Release, driver, reader
  <2> QED  BY <2>1, <2>2, RingUnchanged DEF IInv
<1>2. CASE keyboard_irq_handler  BY <1>2, HandlerStep DEF Queue!Next
<1>3. CASE TimerTick \/ keyboard_has_data \/ Halt
  <2>1. UNCHANGED <<wire, ring, c, out>>
    BY <1>3 DEF TimerTick, keyboard_has_data, Halt, driver
  <2>2. /\ pc' # "advance" \/ pc' = pc
        /\ pc' = "read" => buf_head # buf_tail \/ pc' = pc
    BY <1>3 DEF TimerTick, keyboard_has_data, Halt, Wake
  <2> QED  BY <2>1, <2>2, RingUnchanged DEF IInv
<1>4. CASE ReadSlot
  <2>1. UNCHANGED <<wire, ring, out>> /\ pc = "read" /\ c' = kbd_buffer[buf_tail]
    BY <1>4 DEF ReadSlot, driver
  <2> QED  BY <2>1, RingUnchanged DEF IInv
<1>5. CASE AdvanceTail
  <2>1. buf_tail' \in Index /\ Queue!Get  BY <1>5, GetStep DEF Queue!Get
  <2>2. pc' = "test" /\ UNCHANGED <<wire, buf_head, kbd_buffer>>  BY <1>5 DEF AdvanceTail
  <2> QED  BY <2>1, <2>2 DEF IInv, Queue!Next
<1>6. CASE UNCHANGED vars
  <2>1. UNCHANGED <<wire, ring, pc, c, out>>  BY <1>6 DEF vars, driver, reader
  <2> QED  BY <2>1, RingUnchanged DEF IInv
<1> QED  BY <1>1, <1>2, <1>3, <1>4, <1>5, <1>6 DEF Next, Reader

(* buffer_put in the interrupt handler and keyboard_getchar in the code it *)
(* interrupts, sharing the ring without a lock, implement a bounded FIFO,  *)
(* whatever the size of the ring and the keys: every key that enters it is *)
(* given to the reader once and in order.                                  *)
THEOREM RingImplementsQueue == Spec => RingIsQueue
<1>1. Spec => []IInv  BY InitIInv, NextStep, PTL DEF Spec
<1> QED  BY <1>1, InitIInv, NextStep, PTL DEF Spec, RingIsQueue, Queue!Spec

-----------------------------------------------------------------------------
(* The modifiers. *)

Modifier ==
  {m \in [scan : 0 .. 127, ext : BOOLEAN] :
     m.scan \in (IF m.ext THEN {29, 56, 91, 92} ELSE {29, 42, 54, 56})}

(* Whether the handler sees byte i of w after a prefix, extended being e. *)
Prefixed(w, e, i) == (i = 1 /\ e = TRUE) \/ (i # 1 /\ w[i - 1] = EXTENDED)

(* Byte i tells of modifier m. *)
Tells(w, e, i, m) ==
  w[i] \in {m.scan, m.scan + 128} /\ (Prefixed(w, e, i) <=> m.ext = TRUE)

(* The last byte on the wire that tells of m says whether m is held down,  *)
(* and if there is none the driver knows.                                  *)
Follows(w, e, mods, held, m) ==
  /\ \A i \in 1 .. Len(w) :
       /\ Tells(w, e, i, m)
       /\ \A j \in 1 .. Len(w) : j > i => ~ Tells(w, e, j, m)
       => (w[i] = m.scan <=> m \in held)
  /\ (\A i \in 1 .. Len(w) : ~ Tells(w, e, i, m)) => (m \in mods <=> m \in held)

(* No prefix without the byte that it belongs to. *)
PrefixesPaired ==
  /\ extended = TRUE => wire # <<>>
  /\ wire # <<>> => wire[Len(wire)] # EXTENDED

MInv ==
  /\ TypeOK /\ modifiers \subseteq Modifier
  /\ PrefixesPaired
  /\ \A m \in Modifier : Follows(wire, extended, modifiers, down, m)

(* A modifier is known by its scancode and prefix. *)
LEMMA ModifierKnown ==
  ASSUME NEW scan \in 0 .. 127, NEW ext \in BOOLEAN
  PROVE  /\ modifier_for_scancode(scan, ext) \subseteq Modifier
         /\ \A m \in Modifier :
              m \in modifier_for_scancode(scan, ext) <=> m.scan = scan /\ m.ext = ext
<1> DEFINE k == [scan |-> scan, ext |-> ext]
<1>1. k \in [scan : 0 .. 127, ext : BOOLEAN] /\ k.scan = scan /\ k.ext = ext  OBVIOUS
<1>2. \A m \in [scan : 0 .. 127, ext : BOOLEAN] : m = k <=> m.scan = scan /\ m.ext = ext
  OBVIOUS
<1> HIDE DEF k
<1>3. modifier_for_scancode(scan, ext) = IF k \in Modifier THEN {k} ELSE {}
  BY <1>1 DEF modifier_for_scancode, Modifier, k
<1> QED  BY <1>2, <1>3 DEF Modifier

LEMMA InitMInv == Init => MInv
<1> SUFFICES ASSUME Init PROVE MInv  OBVIOUS
<1>1. TypeOK  BY KeyboardAssumption DEF Init, TypeOK
<1>2. PrefixesPaired /\ modifiers \subseteq Modifier  BY DEF Init, PrefixesPaired
<1>3. \A m \in Modifier : Follows(wire, extended, modifiers, down, m)  BY DEF Init, Follows
<1> QED  BY <1>1, <1>2, <1>3 DEF MInv

LEMMA ByteOfKey ==
  ASSUME NEW k \in Key, NEW b \in {k.scan, k.scan + 128}
  PROVE  b \in 0 .. 255 /\ b # EXTENDED /\ EXTENDED \in 0 .. 255
<1>1. k.scan \in 0 .. 127 /\ k.scan + 128 # EXTENDED  BY KeyboardAssumption
<1> QED  BY <1>1 DEF EXTENDED

(* The wire v is w with a last byte b, after a prefix or not, as ext says. *)
Extends(v, w, e, b, ext) ==
  /\ Len(v) \in Nat /\ Len(w) \in Nat /\ Len(w) < Len(v) /\ v[Len(v)] = b
  /\ Prefixed(v, e, Len(v)) <=> ext = TRUE
  /\ \A i \in 1 .. Len(w) : v[i] = w[i] /\ (Prefixed(v, e, i) <=> Prefixed(w, e, i))
  /\ \A i \in 1 .. Len(v) : i \in 1 .. Len(w) \/ i = Len(v) \/ v[i] = EXTENDED

LEMMA SendsPlain ==
  ASSUME NEW w \in Seq(0 .. 255), NEW e, e = TRUE => w # <<>>,
         w # <<>> => w[Len(w)] # EXTENDED, NEW b \in 0 .. 255, NEW v, v = Append(w, b),
         NEW ext, ext = FALSE
  PROVE  v \in Seq(0 .. 255) /\ Extends(v, w, e, b, ext)
<1> DEFINE n == Len(w)
<1>1. n \in Nat /\ (n = 0 => w = <<>>) /\ (n # 0 => w # <<>>)  BY EmptySeq, LenProperties
<1>2. /\ v \in Seq(0 .. 255) /\ Len(v) = n + 1
      /\ \A i \in 1 .. n : v[i] = w[i]
      /\ v[n + 1] = b
  BY AppendProperties
<1>3. (w # <<>> => w[n] # EXTENDED) /\ Len(w) = n  OBVIOUS
<1> HIDE DEF n
<1>4. \A i \in 1 .. n : i # 1 => i - 1 \in 1 .. n  BY <1>1
<1>5. \A i \in 1 .. n : Prefixed(v, e, i) <=> Prefixed(w, e, i)  BY <1>2, <1>4 DEF Prefixed
<1>6. ~ Prefixed(v, e, n + 1)
  <2>1. CASE n = 0  BY <1>1, <2>1 DEF Prefixed
  <2>2. CASE n # 0
    <3>1. n \in 1 .. n /\ n + 1 # 1 /\ (n + 1) - 1 = n  BY <1>1, <2>2
    <3> QED  BY <1>1, <1>2, <1>3, <2>2, <3>1 DEF Prefixed
  <2> QED  BY <2>1, <2>2
<1>7. \A i \in 1 .. n + 1 : i \in 1 .. n \/ i = n + 1  BY <1>1
<1>8. n + 1 \in Nat /\ n < n + 1  BY <1>1
<1> QED  BY <1>1, <1>2, <1>3, <1>5, <1>6, <1>7, <1>8 DEF Extends

LEMMA SendsPrefixed ==
  ASSUME NEW w \in Seq(0 .. 255), NEW e, NEW b \in 0 .. 255,
         EXTENDED \in 0 .. 255, NEW v, v = Append(Append(w, EXTENDED), b),
         NEW ext, ext = TRUE
  PROVE  v \in Seq(0 .. 255) /\ Extends(v, w, e, b, ext)
<1> DEFINE n == Len(w)
           u == Append(w, EXTENDED)
<1>1. n \in Nat /\ Len(w) = n  BY LenProperties
<1>2. /\ u \in Seq(0 .. 255) /\ Len(u) = n + 1
      /\ \A i \in 1 .. n : u[i] = w[i]
      /\ u[n + 1] = EXTENDED
  BY AppendProperties
<1>3. v = Append(u, b)  OBVIOUS
<1> HIDE DEF n, u
<1>4. /\ v \in Seq(0 .. 255) /\ Len(v) = Len(u) + 1
      /\ \A i \in 1 .. Len(u) : v[i] = u[i]
      /\ v[Len(u) + 1] = b
  BY <1>2, <1>3, AppendProperties
<1>5. n + 1 \in 1 .. n + 1 /\ \A i \in 1 .. n : i \in 1 .. n + 1  BY <1>1
<1>6. /\ Len(v) = n + 2 /\ v[n + 2] = b /\ v[n + 1] = EXTENDED
      /\ \A i \in 1 .. n : v[i] = w[i]
  <2>1. (n + 1) + 1 = n + 2  BY <1>1
  <2> QED  BY <1>2, <1>4, <1>5, <2>1
<1>7. \A i \in 1 .. n : i # 1 => i - 1 \in 1 .. n  BY <1>1
<1>8. \A i \in 1 .. n : Prefixed(v, e, i) <=> Prefixed(w, e, i)  BY <1>6, <1>7 DEF Prefixed
<1>9. Prefixed(v, e, n + 2)
  <2>1. n + 2 # 1 /\ (n + 2) - 1 = n + 1  BY <1>1
  <2> QED  BY <1>6, <2>1 DEF Prefixed
<1>10. \A i \in 1 .. n + 2 : i \in 1 .. n \/ i = n + 1 \/ i = n + 2  BY <1>1
<1>11. n + 2 \in Nat /\ n < n + 2  BY <1>1
<1> QED  BY <1>1, <1>4, <1>6, <1>8, <1>9, <1>10, <1>11 DEF Extends

(* A key that is pressed or released is followed. *)
LEMMA KeyFollowed ==
  ASSUME NEW w, NEW v, NEW e, NEW k \in Key, NEW b \in {k.scan, k.scan + 128},
         Extends(v, w, e, b, k.ext), NEW mods, NEW held, NEW held2,
         k \in held2 <=> b = k.scan, \A x : x # k => (x \in held2 <=> x \in held),
         NEW m \in Modifier, Follows(w, e, mods, held, m)
  PROVE  Follows(v, e, mods, held2, m)
<1>1. /\ m \in [scan : 0 .. 127, ext : BOOLEAN] /\ k \in [scan : 0 .. 127, ext : BOOLEAN]
      /\ EXTENDED \notin {m.scan, m.scan + 128}
  BY KeyboardAssumption DEF Modifier, EXTENDED
<1>2. m = k <=> b \in {m.scan, m.scan + 128} /\ (k.ext = TRUE <=> m.ext = TRUE)
  <2>1. b \in {m.scan, m.scan + 128} <=> k.scan = m.scan  BY <1>1
  <2>2. (k.ext = TRUE <=> m.ext = TRUE) <=> k.ext = m.ext  BY <1>1
  <2>3. m = k <=> k.scan = m.scan /\ k.ext = m.ext  BY <1>1
  <2> QED  BY <2>1, <2>2, <2>3
<1>3. Tells(v, e, Len(v), m) <=> m = k  BY <1>2 DEF Tells, Extends
<1>4. \A i \in 1 .. Len(w) : Tells(v, e, i, m) <=> Tells(w, e, i, m)  BY DEF Tells, Extends
<1>5. \A i \in 1 .. Len(v) : i \notin 1 .. Len(w) /\ i # Len(v) => ~ Tells(v, e, i, m)
  BY <1>1 DEF Tells, Extends
<1>6. Len(v) \in Nat /\ Len(w) \in Nat /\ Len(w) < Len(v) /\ v[Len(v)] = b
  BY DEF Extends
<1>7. CASE m = k
  <2>1. Len(v) \in 1 .. Len(v) /\ \A i \in 1 .. Len(v) : i = Len(v) \/ Len(v) > i  BY <1>6
  <2>2. b = m.scan <=> m \in held2  BY <1>7
  <2>3. Tells(v, e, Len(v), m)  BY <1>3, <1>7
  <2> QED  BY <1>6, <2>1, <2>2, <2>3 DEF Follows
<1>8. CASE m # k
  <2>1. m \in held2 <=> m \in held  BY <1>8
  <2>2. ~ Tells(v, e, Len(v), m)  BY <1>3, <1>8
  <2>3. \A i \in 1 .. Len(v) : Tells(v, e, i, m) => i \in 1 .. Len(w) /\ Tells(w, e, i, m)
    BY <1>4, <1>5, <2>2
  <2>4. \A i \in 1 .. Len(w) : i \in 1 .. Len(v) /\ v[i] = w[i]
    BY <1>6 DEF Extends
  <2>5. (\A i \in 1 .. Len(v) : ~ Tells(v, e, i, m)) => (m \in mods <=> m \in held2)
    BY <1>4, <2>1, <2>4 DEF Follows
  <2>6. ASSUME NEW i \in 1 .. Len(v), Tells(v, e, i, m),
               \A j \in 1 .. Len(v) : j > i => ~ Tells(v, e, j, m)
        PROVE  v[i] = m.scan <=> m \in held2
    <3>1. i \in 1 .. Len(w) /\ Tells(w, e, i, m)  BY <2>3, <2>6
    <3>2. \A j \in 1 .. Len(w) : j > i => ~ Tells(w, e, j, m)  BY <1>4, <2>4, <2>6
    <3> QED  BY <2>1, <2>4, <3>1, <3>2 DEF Follows
  <2> QED  BY <2>5, <2>6 DEF Follows
<1> QED  BY <1>7, <1>8

(* So is a key when the handler takes the first byte off the wire. *)
LEMMA HandledFollowed ==
  ASSUME NEW w, NEW v, NEW e, NEW f, Len(w) \in Nat \ {0}, Len(v) = Len(w) - 1,
         \A i \in 1 .. Len(v) : v[i] = w[i + 1], f = TRUE <=> w[1] = EXTENDED,
         NEW mods, NEW mods2, NEW held, NEW m, Follows(w, e, mods, held, m),
         Tells(w, e, 1, m) => (m \in mods2 <=> w[1] = m.scan),
         ~ Tells(w, e, 1, m) => (m \in mods2 <=> m \in mods)
  PROVE  Follows(v, f, mods2, held, m)
<1>1. /\ \A i \in 1 .. Len(v) : i + 1 \in 1 .. Len(w)
      /\ \A i \in 1 .. Len(w) : i = 1 \/ (i - 1 \in 1 .. Len(v) /\ (i - 1) + 1 = i)
      /\ 1 \in 1 .. Len(w)
  OBVIOUS
<1>2. \A i \in 1 .. Len(v) : Prefixed(v, f, i) <=> Prefixed(w, e, i + 1)
  <2> TAKE i \in 1 .. Len(v)
  <2>1. CASE i = 1  BY <2>1 DEF Prefixed
  <2>2. CASE i # 1
    <3>1. i - 1 \in 1 .. Len(v) /\ i + 1 # 1 /\ (i + 1) - 1 = (i - 1) + 1  BY <2>2
    <3> QED  BY <2>2, <3>1 DEF Prefixed
  <2> QED  BY <2>1, <2>2
<1>3. \A i \in 1 .. Len(v) : Tells(v, f, i, m) <=> Tells(w, e, i + 1, m)
  BY <1>2 DEF Tells
<1>4. ASSUME NEW i \in 1 .. Len(v), Tells(v, f, i, m),
             \A j \in 1 .. Len(v) : j > i => ~ Tells(v, f, j, m)
      PROVE  v[i] = m.scan <=> m \in held
  <2>1. i + 1 \in 1 .. Len(w) /\ Tells(w, e, i + 1, m)  BY <1>1, <1>3, <1>4
  <2>2. ASSUME NEW j \in 1 .. Len(w), j > i + 1 PROVE ~ Tells(w, e, j, m)
    <3>1. j - 1 \in 1 .. Len(v) /\ (j - 1) + 1 = j /\ j - 1 > i  BY <2>2
    <3> QED  BY <1>3, <1>4, <3>1
  <2> QED  BY <2>1, <2>2 DEF Follows
<1>5. ASSUME \A i \in 1 .. Len(v) : ~ Tells(v, f, i, m)
      PROVE  m \in mods2 <=> m \in held
  <2>1. ASSUME NEW j \in 1 .. Len(w), j # 1 PROVE ~ Tells(w, e, j, m)
    <3>1. j - 1 \in 1 .. Len(v) /\ (j - 1) + 1 = j  BY <1>1, <2>1
    <3> QED  BY <1>3, <1>5, <3>1
  <2>2. \A j \in 1 .. Len(w) : j > 1 => j # 1  OBVIOUS
  <2>3. CASE Tells(w, e, 1, m)
    <3>1. w[1] = m.scan <=> m \in held  BY <1>1, <2>1, <2>2, <2>3 DEF Follows
    <3> QED  BY <2>3, <3>1
  <2>4. CASE ~ Tells(w, e, 1, m)
    <3>1. \A j \in 1 .. Len(w) : ~ Tells(w, e, j, m)  BY <2>1, <2>4
    <3>2. m \in mods <=> m \in held  BY <3>1 DEF Follows
    <3> QED  BY <2>4, <3>2
  <2> QED  BY <2>3, <2>4
<1> QED  BY <1>4, <1>5 DEF Follows

(* Byte x tells of m when the handler finds m for it. *)
LEMMA HandlerFinds ==
  ASSUME NEW w, NEW e \in BOOLEAN, w[1] \in 0 .. 255, w[1] # EXTENDED
  PROVE  /\ w[1] % 128 \in 0 .. 127
         /\ \A m \in Modifier :
              /\ m \in modifier_for_scancode(w[1] % 128, e) <=> Tells(w, e, 1, m)
              /\ Tells(w, e, 1, m) => (w[1] = m.scan <=> ~ (w[1] >= 128))
<1> DEFINE x == w[1]
<1>1. x % 128 = IF x >= 128 THEN x - 128 ELSE x  OBVIOUS
<1>2. x % 128 \in 0 .. 127  BY <1>1
<1>3. ASSUME NEW m \in Modifier
      PROVE  /\ m \in modifier_for_scancode(x % 128, e) <=> Tells(w, e, 1, m)
             /\ Tells(w, e, 1, m) => (w[1] = m.scan <=> ~ (x >= 128))
  <2>1. m.scan \in 0 .. 127 /\ m.ext \in BOOLEAN  BY DEF Modifier
  <2>2. x \in {m.scan, m.scan + 128} <=> m.scan = x % 128  BY <1>1, <2>1
  <2>3. x \in {m.scan, m.scan + 128} => (x = m.scan <=> ~ (x >= 128))  BY <2>1
  <2>4. (Prefixed(w, e, 1) <=> m.ext = TRUE) <=> m.ext = e
    <3>1. Prefixed(w, e, 1) <=> e = TRUE  BY DEF Prefixed
    <3> QED  BY <2>1, <3>1
  <2>5. m \in modifier_for_scancode(x % 128, e) <=> m.scan = x % 128 /\ m.ext = e
    BY <1>2, ModifierKnown
  <2> QED  BY <2>2, <2>3, <2>4, <2>5 DEF Tells
<1> QED  BY <1>2, <1>3

LEMMA ConcatOneTwo ==
  ASSUME NEW S, NEW w \in Seq(S), NEW a \in S, NEW b \in S
  PROVE  w \o <<b>> = Append(w, b) /\ w \o <<a, b>> = Append(Append(w, a), b)
<1> DEFINE u == Append(w, a)
           t == w \o <<a, b>>
<1>1. w \o <<b>> = Append(w, b)  OBVIOUS
<1>2. Len(w) \in Nat  BY LenProperties
<1>3. <<a, b>> \in Seq(S) /\ Len(<<a, b>>) = 2 /\ <<a, b>>[1] = a /\ <<a, b>>[2] = b
  OBVIOUS
<1>4. /\ t \in Seq(S) /\ Len(t) = Len(w) + 2
      /\ \A i \in 1 .. Len(w) + 2 : t[i] = IF i <= Len(w) THEN w[i] ELSE <<a, b>>[i - Len(w)]
  BY <1>3, ConcatProperties
<1>5. /\ u \in Seq(S) /\ Len(u) = Len(w) + 1 /\ u[Len(w) + 1] = a
      /\ \A i \in 1 .. Len(w) : u[i] = w[i]
  BY AppendProperties
<1> HIDE DEF u, t
<1>6. /\ Append(u, b) \in Seq(S) /\ Len(Append(u, b)) = Len(u) + 1
      /\ Append(u, b)[Len(u) + 1] = b /\ \A i \in 1 .. Len(u) : Append(u, b)[i] = u[i]
  BY <1>5, AppendProperties
<1>7. ASSUME NEW i \in 1 .. Len(w) + 2 PROVE t[i] = Append(u, b)[i]
  <2>1. CASE i \in 1 .. Len(w)
    <3>1. i <= Len(w) /\ i \in 1 .. Len(w) + 1  BY <1>2, <2>1
    <3> QED  BY <1>4, <1>5, <1>6, <2>1, <3>1
  <2>2. CASE i = Len(w) + 1
    <3>1. ~ (i <= Len(w)) /\ i - Len(w) = 1 /\ i \in 1 .. Len(w) + 1  BY <1>2, <2>2
    <3> QED  BY <1>3, <1>4, <1>5, <1>6, <2>2, <3>1
  <2>3. CASE i = Len(w) + 2
    <3>1. ~ (i <= Len(w)) /\ i - Len(w) = 2 /\ i = (Len(w) + 1) + 1  BY <1>2, <2>3
    <3> QED  BY <1>3, <1>4, <1>5, <1>6, <2>3, <3>1
  <2>4. i \in 1 .. Len(w) \/ i = Len(w) + 1 \/ i = Len(w) + 2  BY <1>2
  <2> QED  BY <2>1, <2>2, <2>3, <2>4
<1>8. Len(u) + 1 = Len(w) + 2  BY <1>2, <1>5
<1>9. t = Append(u, b)  BY <1>4, <1>6, <1>7, <1>8, SeqEqual
<1> QED  BY <1>1, <1>9 DEF u, t

LEMMA BytesOfKey ==
  ASSUME NEW k, NEW r, NEW b, b = IF r THEN k.scan + 128 ELSE k.scan
  PROVE  /\ k.ext = TRUE => Bytes(k, r) = <<EXTENDED, b>>
         /\ k.ext = FALSE => Bytes(k, r) = <<b>>
<1>1. Bytes(k, r) = (IF k.ext THEN <<EXTENDED>> ELSE <<>>) \o <<b>>  BY DEF Bytes
<1>2. <<EXTENDED>> \o <<b>> = <<EXTENDED, b>>
  <2> DEFINE S == {EXTENDED, b}
             u == <<EXTENDED>>
  <2>1. u \in Seq(S) /\ b \in S /\ EXTENDED \in S /\ Len(u) = 1 /\ u[1] = EXTENDED
    OBVIOUS
  <2>2. u \o <<b>> = Append(u, b)  BY <2>1, ConcatOneTwo
  <2>3. /\ Append(u, b) \in Seq(S) /\ Len(Append(u, b)) = 2
        /\ Append(u, b)[1] = EXTENDED /\ Append(u, b)[2] = b
    BY <2>1, AppendProperties
  <2>4. /\ <<EXTENDED, b>> \in Seq(S) /\ Len(<<EXTENDED, b>>) = 2
        /\ <<EXTENDED, b>>[1] = EXTENDED /\ <<EXTENDED, b>>[2] = b
    OBVIOUS
  <2>5. \A i \in 1 .. 2 : Append(u, b)[i] = <<EXTENDED, b>>[i]  BY <2>3, <2>4
  <2>6. Append(u, b) = <<EXTENDED, b>>  BY <2>3, <2>4, <2>5, SeqEqual
  <2> QED  BY <2>2, <2>6
<1>3. \A y : <<>> \o <<y>> = <<y>>  BY ONLY TRUE
<1> QED  BY <1>1, <1>2, <1>3

LEMMA KeyMInv ==
  ASSUME MInv, NEW k \in Key, Press(k) \/ Release(k)
  PROVE  /\ wire' \in Seq(0 .. 255) /\ down' \subseteq Key /\ UNCHANGED <<driver, reader>>
         /\ PrefixesPaired'
         /\ \A m \in Modifier : Follows(wire', extended', modifiers', down', m)
<1>1. PICK b \in {k.scan, k.scan + 128}, r \in BOOLEAN :
        /\ wire' = wire \o Bytes(k, r) /\ b = (IF r THEN k.scan + 128 ELSE k.scan)
        /\ k \in down' <=> b = k.scan
        /\ \A x : x # k => (x \in down' <=> x \in down)
        /\ down' \subseteq down \cup {k}
        /\ UNCHANGED <<driver, reader>>
  <2>1. k.scan \in 0 .. 127  BY KeyboardAssumption
  <2>2. CASE Press(k)  BY <2>1, <2>2 DEF Press
  <2>3. CASE Release(k)
    <3>1. k.scan + 128 # k.scan  BY <2>1
    <3> QED  BY <2>3, <3>1 DEF Release
  <2> QED  BY <2>2, <2>3
<1>2. b \in 0 .. 255 /\ b # EXTENDED /\ EXTENDED \in 0 .. 255  BY ByteOfKey
<1>3. k.ext \in BOOLEAN  BY KeyboardAssumption
<1>4. wire \in Seq(0 .. 255)  BY DEF MInv, TypeOK
<1>5. wire' \in Seq(0 .. 255) /\ Extends(wire', wire, extended, b, k.ext)
  <2>1. CASE k.ext = TRUE
    <3>1. Bytes(k, r) = <<EXTENDED, b>>  BY ONLY <1>1, <2>1, BytesOfKey
    <3>2. wire \o <<EXTENDED, b>> = Append(Append(wire, EXTENDED), b)
      BY ONLY <1>2, <1>4, ConcatOneTwo
    <3>3. wire' = Append(Append(wire, EXTENDED), b)  BY ONLY <1>1, <3>1, <3>2
    <3> QED  BY ONLY <1>2, <1>4, <2>1, <3>3, SendsPrefixed
  <2>2. CASE k.ext = FALSE
    <3>1. Bytes(k, r) = <<b>>  BY ONLY <1>1, <2>2, BytesOfKey
    <3>2. wire \o <<b>> = Append(wire, b)  BY ONLY <1>2, <1>4, ConcatOneTwo
    <3>3. wire' = Append(wire, b)  BY ONLY <1>1, <3>1, <3>2
    <3>4. /\ extended = TRUE => wire # <<>>
          /\ wire # <<>> => wire[Len(wire)] # EXTENDED
      BY DEF MInv, PrefixesPaired
    <3> QED  BY ONLY <1>2, <1>4, <2>2, <3>3, <3>4, SendsPlain, ZenonT(60)
  <2> QED  BY <1>3, <2>1, <2>2
<1>6. extended' = extended /\ modifiers' = modifiers  BY <1>1 DEF driver
<1>7. \A m \in Modifier : Follows(wire', extended', modifiers', down', m)
  <2> TAKE m \in Modifier
  <2>1. Follows(wire, extended, modifiers, down, m)  BY DEF MInv
  <2>2. Follows(wire', extended, modifiers, down', m)
    BY <1>1, <1>5, <2>1, KeyFollowed
  <2> QED  BY <1>6, <2>2
<1>8. PrefixesPaired'
  <2>1. wire' # <<>>
    <3>1. Len(wire') > 0  BY <1>5 DEF Extends
    <3> QED  BY <3>1
  <2>2. wire'[Len(wire')] = b  BY <1>5 DEF Extends
  <2> QED  BY <1>2, <2>1, <2>2 DEF PrefixesPaired
<1>9. down' \subseteq Key  BY <1>1 DEF MInv, TypeOK
<1> QED  BY <1>1, <1>5, <1>7, <1>8, <1>9

LEMMA HandlerMInv ==
  ASSUME MInv, keyboard_irq_handler
  PROVE  /\ wire' \in Seq(0 .. 255) /\ extended' \in BOOLEAN /\ UNCHANGED down
         /\ modifiers' \subseteq Modifier /\ PrefixesPaired'
         /\ \A m \in Modifier : Follows(wire', extended', modifiers', down', m)
<1> DEFINE x == wire[1]
           mod == modifier_for_scancode(x % 128, extended)
<1>1. /\ wire \in Seq(0 .. 255) /\ wire # <<>> /\ wire' = Tail(wire) /\ x = Head(wire)
      /\ extended \in BOOLEAN /\ UNCHANGED down
  BY DEF MInv, TypeOK, keyboard_irq_handler
<1>2. /\ Len(wire) \in Nat \ {0} /\ x \in 0 .. 255
      /\ wire' \in Seq(0 .. 255) /\ Len(wire') = Len(wire) - 1
      /\ \A i \in 1 .. Len(wire') : wire'[i] = wire[i + 1]
  <2>1. Len(wire) \in Nat \ {0}  BY <1>1, EmptySeq, LenProperties
  <2>2. /\ Head(wire) \in 0 .. 255 /\ Tail(wire) \in Seq(0 .. 255)
        /\ Len(Tail(wire)) = Len(wire) - 1
        /\ \A i \in 1 .. Len(Tail(wire)) : Tail(wire)[i] = wire[i + 1]
    BY <1>1, HeadTailProperties
  <2> QED  BY <1>1, <2>1, <2>2
<1>3. /\ extended' \in BOOLEAN /\ (extended' = TRUE <=> x = EXTENDED)
      /\ x = EXTENDED => modifiers' = modifiers
      /\ x # EXTENDED => modifiers' = IF x >= 128 THEN modifiers \ mod ELSE modifiers \cup mod
  <2>1. CASE x = EXTENDED  BY <1>1, <2>1 DEF keyboard_irq_handler
  <2>2. CASE x # EXTENDED  BY <1>1, <2>2 DEF keyboard_irq_handler, ClearExtended
  <2> QED  BY <2>1, <2>2
<1>4. x # EXTENDED => /\ x % 128 \in 0 .. 127
                      /\ \A m \in Modifier :
                           /\ m \in mod <=> Tells(wire, extended, 1, m)
                           /\ Tells(wire, extended, 1, m) => (x = m.scan <=> ~ (x >= 128))
  <2> SUFFICES ASSUME x # EXTENDED
               PROVE  /\ x % 128 \in 0 .. 127
                      /\ \A m \in Modifier :
                           /\ m \in mod <=> Tells(wire, extended, 1, m)
                           /\ Tells(wire, extended, 1, m) => (x = m.scan <=> ~ (x >= 128))
    OBVIOUS
  <2> QED  BY <1>1, <1>2, HandlerFinds
<1>5. x # EXTENDED => mod \subseteq Modifier  BY ONLY <1>1, <1>4, ModifierKnown
<1>6. modifiers' \subseteq Modifier
  <2>1. modifiers \subseteq Modifier  BY DEF MInv
  <2> HIDE DEF mod, x
  <2> QED  BY <1>3, <1>5, <2>1
<1>7. ASSUME NEW m \in Modifier PROVE Follows(wire', extended', modifiers', down', m)
  <2>1. x = EXTENDED => ~ Tells(wire, extended, 1, m)  BY DEF Tells, Modifier, EXTENDED
  <2>2. /\ Tells(wire, extended, 1, m) => (m \in modifiers' <=> x = m.scan)
        /\ ~ Tells(wire, extended, 1, m) => (m \in modifiers' <=> m \in modifiers)
    <3> HIDE DEF mod, x
    <3>1. CASE x = EXTENDED  BY <1>3, <2>1, <3>1
    <3>2. CASE x # EXTENDED
      <4>1. m \in mod <=> Tells(wire, extended, 1, m)  BY <1>4, <3>2
      <4>2. Tells(wire, extended, 1, m) => (x = m.scan <=> ~ (x >= 128))  BY <1>4, <3>2
      <4>3. CASE x >= 128
        <5>1. modifiers' = modifiers \ mod  BY <1>3, <3>2, <4>3
        <5> QED  BY <4>1, <4>2, <4>3, <5>1
      <4>4. CASE ~ (x >= 128)
        <5>1. modifiers' = modifiers \cup mod  BY <1>3, <3>2, <4>4
        <5> QED  BY <4>1, <4>2, <4>4, <5>1
      <4> QED  BY <4>3, <4>4
    <3> QED  BY <3>1, <3>2
  <2>3. Follows(wire, extended, modifiers, down, m)  BY DEF MInv
  <2>4. Follows(wire', extended', modifiers', down, m)
    BY <1>2, <1>3, <2>2, <2>3, HandledFollowed
  <2> QED  BY <1>1, <2>4
<1>8. PrefixesPaired'
  <2>1. wire[Len(wire)] # EXTENDED  BY <1>1 DEF MInv, PrefixesPaired
  <2>2. (wire' = <<>> <=> Len(wire') = 0) /\ Len(wire') \in Nat
    BY <1>2, EmptySeq, LenProperties
  <2>3. x = EXTENDED => Len(wire) # 1  BY <2>1
  <2>4. x = EXTENDED => Len(wire') # 0  BY <1>2, <2>3
  <2>5. ASSUME wire' # <<>> PROVE wire'[Len(wire')] = wire[Len(wire)]
    <3>1. Len(wire') \in 1 .. Len(wire') /\ Len(wire') + 1 = Len(wire)  BY <1>2, <2>2, <2>5
    <3> QED  BY <1>2, <3>1
  <2> QED  BY <1>3, <2>1, <2>2, <2>4, <2>5 DEF PrefixesPaired
<1> QED  BY <1>1, <1>2, <1>3, <1>6, <1>7, <1>8

LEMMA NextMInv ==
  ASSUME IInv, MInv, [Next]_vars
  PROVE  MInv'
<1>1. buf_head' \in 0 .. KBD_BUF_SIZE - 1 /\ buf_tail' \in 0 .. KBD_BUF_SIZE - 1
  <2>1. IInv'  BY NextStep
  <2> QED  BY <2>1 DEF IInv, Index
<1>2. ASSUME NEW k \in Key, Press(k) \/ Release(k) PROVE MInv'
  <2>1. UNCHANGED <<modifiers, extended, pc>>  BY <1>2, KeyMInv DEF driver, reader
  <2>2. TypeOK'  BY <1>1, <1>2, <2>1, KeyMInv DEF MInv, TypeOK
  <2> QED  BY <1>2, <2>1, <2>2, KeyMInv DEF MInv
<1>3. CASE keyboard_irq_handler
  <2>1. pc' \in {"leave", "halted", "test", "read", "advance"}
    BY <1>3 DEF keyboard_irq_handler, Wake, MInv, TypeOK
  <2>2. modifiers' \subseteq [scan : 0 .. 127, ext : BOOLEAN]
    BY <1>3, HandlerMInv DEF Modifier
  <2>3. TypeOK'  BY <1>1, <1>3, <2>1, <2>2, HandlerMInv DEF MInv, TypeOK
  <2> QED  BY <1>3, <2>3, HandlerMInv DEF MInv
<1>4. CASE TimerTick \/ Reader \/ UNCHANGED vars
  <2>1. /\ UNCHANGED <<down, wire, modifiers, extended>>
        /\ pc' \in {"leave", "halted", "test", "read", "advance"}
    BY <1>4 DEF TimerTick, Wake, Reader, keyboard_has_data, Halt, ReadSlot, AdvanceTail,
         vars, driver, reader, MInv, TypeOK
  <2>2. TypeOK'  BY <1>1, <2>1 DEF MInv, TypeOK
  <2>3. PrefixesPaired'  BY <2>1 DEF MInv, PrefixesPaired
  <2> QED  BY <2>1, <2>2, <2>3 DEF MInv
<1> QED  BY <1>2, <1>3, <1>4 DEF Next

(* The driver keeps one bit per modifier key and changes it on every press *)
(* and release the handler sees, also on those whose code the full ring    *)
(* drops: once the wire is empty the bits are those of the keys held down, *)
(* whatever the keys, the ring and the order they were pressed in.         *)
THEOREM ModifiersFollowKeys == Spec => []ModifiersTrackKeys
<1>1. Spec => [](IInv /\ MInv)  BY InitIInv, InitMInv, NextStep, NextMInv, PTL DEF Spec
<1>2. MInv => ModifiersTrackKeys
  <2> SUFFICES ASSUME MInv, wire = <<>>
               PROVE  modifiers = UNION {modifier_for_scancode(k.scan, k.ext) : k \in down}
    BY DEF MInv, ModifiersTrackKeys
  <2>1. Len(wire) = 0  OBVIOUS
  <2>2. \A m \in Modifier : m \in modifiers <=> m \in down
    <3> TAKE m \in Modifier
    <3>1. Follows(wire, extended, modifiers, down, m)  BY DEF MInv
    <3> QED  BY <2>1, <3>1 DEF Follows
  <2>3. ASSUME NEW k \in down
        PROVE  /\ modifier_for_scancode(k.scan, k.ext) \subseteq Modifier
               /\ \A m \in Modifier : m \in modifier_for_scancode(k.scan, k.ext) <=> m = k
    <3>1. k \in [scan : 0 .. 127, ext : BOOLEAN]  BY <2>3, KeyboardAssumption DEF MInv, TypeOK
    <3>2. k.scan \in 0 .. 127 /\ k.ext \in BOOLEAN  BY <3>1
    <3>3. \A m \in Modifier : m = k <=> m.scan = k.scan /\ m.ext = k.ext
      BY <3>1 DEF Modifier
    <3> QED  BY <3>2, <3>3, ModifierKnown
  <2>4. modifiers \subseteq Modifier  BY DEF MInv
  <2> QED  BY <2>2, <2>3, <2>4
<1> QED  BY <1>1, <1>2, PTL
=============================================================================
