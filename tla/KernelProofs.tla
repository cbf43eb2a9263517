---------------------------- MODULE KernelProofs ----------------------------
(***************************************************************************)
(* Three parts of the kernel that share no state: the page allocator,      *)
(* proved for every memory size and list of reserved regions; the          *)
(* interrupt controllers and sys_sleep, for every set of lines that        *)
(* devices raise and sleeps of any length; and the account table, the      *)
(* passwords and the session, for every size of the table and every set of *)
(* names and passwords.                                                    *)
(***************************************************************************)
EXTENDS Pmm, Interrupts, Auth, TLAPS, FiniteSetTheorems

(* What a division truncates. *)
LEMMA DivBounds ==
  ASSUME NEW m \in Nat, NEW k \in Nat \ {0}
  PROVE  /\ m \div k \in Nat
         /\ (m \div k) * k <= m
         /\ m < (m \div k + 1) * k
  OBVIOUS

LEMMA MulMono ==
  ASSUME NEW a \in Int, NEW b \in Int, NEW k \in Nat, a <= b
  PROVE  a * k <= b * k
  OBVIOUS

(* Page indices are natural numbers, and there are finitely many. *)
LEMMA PageFinite ==
  /\ total_pages \in Nat
  /\ IsFiniteSet(Page) /\ Cardinality(Page) = total_pages
  /\ \A S \in SUBSET Page : IsFiniteSet(S) /\ Cardinality(S) \in Nat
<1>1. total_pages \in Nat
  <2>1. MemTop \div PAGE_SIZE \in Nat  BY PmmAssumption, DivBounds
  <2> QED  BY <2>1, PmmAssumption DEF total_pages
<1>2. IsFiniteSet(Page) /\ Cardinality(Page) = total_pages
  BY <1>1, FS_Interval DEF Page
<1>3. \A S \in SUBSET Page : IsFiniteSet(S) /\ Cardinality(S) \in Nat
  BY <1>2, FS_Subset, FS_CardinalityType
<1> QED  BY <1>1, <1>2, <1>3

(* mark_range_used covers every page that has a byte in the range. *)
LEMMA RangeCovered ==
  ASSUME NEW s \in Nat, NEW e \in Nat, NEW p \in Page, p \notin PagesOf(s, e)
  PROVE  (p + 1) * PAGE_SIZE <= s \/ p * PAGE_SIZE >= e
<1> DEFINE k == PAGE_SIZE
           first == s \div k
           last == (e + k - 1) \div k
<1>1. k \in Nat \ {0} /\ p \in Nat  BY PmmAssumption, PageFinite DEF Page
<1>2. first \in Nat /\ first * k <= s  BY <1>1, DivBounds
<1>3. e + k - 1 \in Nat  BY <1>1
<1>4. last \in Nat /\ e + k - 1 < (last + 1) * k  BY <1>1, <1>3, DivBounds
<1>5. p < first \/ p >= last
  BY <1>1, <1>2, <1>4 DEF PagesOf
<1> HIDE DEF k, first, last
<1>6. CASE p < first
  <2>1. (p + 1) * k <= first * k  BY <1>1, <1>2, <1>6, MulMono
  <2>2. (p + 1) * k <= s  BY <1>1, <1>2, <2>1
  <2> QED  BY <2>2 DEF k
<1>7. CASE p >= last
  <2>1. last * k <= p * k  BY <1>1, <1>4, <1>7, MulMono
  <2>2. (last + 1) * k = last * k + k  BY <1>1, <1>4
  <2>3. last * k \in Nat /\ p * k \in Nat  BY <1>1, <1>4
  <2>4. e <= last * k  BY <1>1, <1>4, <2>2, <2>3
  <2>5. p * k >= e  BY <2>1, <2>3, <2>4
  <2> QED  BY <2>5 DEF k
<1> QED  BY <1>5, <1>6, <1>7

-----------------------------------------------------------------------------
(* The regions are reserved before the first page is handed out: without   *)
(* this conjunct a page could be in use when its region is marked.         *)
NoneHeldBeforeReady == ~ Ready => held = {}

PmmInv ==
  PmmTypeOK /\ NeverTwice /\ CountsExact /\ ReservedNeverHandedOut /\ NoneHeldBeforeReady

LEMMA PmmInitInv == PmmInit => PmmInv
<1> SUFFICES ASSUME PmmInit PROVE PmmInv  OBVIOUS
<1>1. PmmTypeOK /\ NeverTwice  BY PageFinite DEF PmmInit, PmmTypeOK, NeverTwice
<1>2. CountsExact  BY PageFinite, FS_EmptySet DEF PmmInit, CountsExact
<1>3. ReservedNeverHandedOut  BY PmmAssumption DEF PmmInit, ReservedNeverHandedOut
<1>4. NoneHeldBeforeReady  BY DEF PmmInit, NoneHeldBeforeReady
<1> QED  BY <1>1, <1>2, <1>3, <1>4 DEF PmmInv

LEMMA MarkInv == PmmInv /\ mark_range_used => PmmInv'
<1> SUFFICES ASSUME PmmInv, mark_range_used PROVE PmmInv'  OBVIOUS
<1> DEFINE s == Regions[region][1]
           e == Regions[region][2]
           range == PagesOf(s, e) \cap free
<1>1. /\ region \in DOMAIN Regions /\ Regions[region] \in Nat \X Nat
      /\ s \in Nat /\ e \in Nat
  <2>1. region \in 1 .. Len(Regions)
    BY PmmAssumption DEF mark_range_used, Ready, PmmInv, PmmTypeOK
  <2>2. Regions[region] \in Nat \X Nat  BY <2>1, PmmAssumption
  <2> QED  BY <2>1, <2>2, PmmAssumption
<1>2. /\ free' = free \ range /\ free_pages' = free_pages - Cardinality(range)
      /\ reserved_pages' = reserved_pages + Cardinality(range)
      /\ region' = region + 1 /\ held' = held
  BY DEF mark_range_used
<1>3. free \subseteq Page /\ range \subseteq Page /\ range \subseteq free
      /\ range = free \cap range
  BY DEF PmmInv, PmmTypeOK
<1>4. Cardinality(range) \in Nat /\ IsFiniteSet(free)
      /\ Cardinality(free \ range) \in Nat
  BY <1>3, PageFinite
<1>5. Cardinality(free \ range) = Cardinality(free) - Cardinality(range)
  <2>1. Cardinality(free \ range) = Cardinality(free) - Cardinality(free \cap range)
    BY <1>4, FS_Difference, Zenon
  <2> QED  BY <2>1, <1>3
<1>6. ReservedNeverHandedOut'
  <2> SUFFICES ASSUME NEW r \in DOMAIN Regions, r < region', NEW p \in free' \cup held'
               PROVE  \/ (p + 1) * PAGE_SIZE <= Regions[r][1]
                      \/ p * PAGE_SIZE >= Regions[r][2]
    BY DEF ReservedNeverHandedOut
  <2>1. p \in free \cup held /\ p \in Page  BY <1>2, <1>3 DEF PmmInv, PmmTypeOK
  <2>2. CASE r < region  BY <2>1, <2>2 DEF PmmInv, ReservedNeverHandedOut
  <2>3. CASE r = region /\ p \in free'
    <3>1. p \notin PagesOf(s, e)  BY <2>3, <1>2
    <3> QED  BY <3>1, <2>1, <2>3, <1>1, RangeCovered
  <2>4. CASE r = region /\ p \in held
    BY <2>4 DEF PmmInv, NoneHeldBeforeReady, mark_range_used
  <2>5. r \in Int /\ region \in Int /\ r < region + 1
    BY <1>2, PmmAssumption DEF PmmInv, PmmTypeOK
  <2> QED  BY <2>1, <2>2, <2>3, <2>4, <2>5, <1>2
<1> HIDE DEF range
<1>7. PmmTypeOK' /\ NeverTwice'
  BY <1>2, <1>3, <1>4, <1>5 DEF PmmInv, PmmTypeOK, NeverTwice, CountsExact
<1>8. CountsExact'
  BY <1>2, <1>4, <1>5, PageFinite DEF PmmInv, PmmTypeOK, CountsExact
<1>9. NoneHeldBeforeReady'
  BY <1>2 DEF PmmInv, NoneHeldBeforeReady, mark_range_used
<1> QED  BY <1>6, <1>7, <1>8, <1>9 DEF PmmInv

LEMMA AllocInv == ASSUME PmmInv, NEW p \in Page, pmm_alloc_page(p) PROVE PmmInv'
<1>1. /\ p \in free /\ p \notin held /\ Ready
      /\ free' = free \ {p} /\ free_pages' = free_pages - 1 /\ held' = held \cup {p}
      /\ UNCHANGED <<reserved_pages, region>>
  BY DEF pmm_alloc_page, PmmInv, NeverTwice
<1>2. IsFiniteSet(free) /\ IsFiniteSet(held) /\ Cardinality(free) \in Nat
      /\ Cardinality(held) \in Nat /\ Cardinality(free \ {p}) \in Nat
  BY PageFinite DEF PmmInv, PmmTypeOK
<1>3. Cardinality(free \ {p}) = Cardinality(free) - 1
      /\ Cardinality(held \cup {p}) = Cardinality(held) + 1
  BY <1>1, <1>2, FS_RemoveElement, FS_AddElement, Zenon
<1>4. PmmTypeOK' /\ NeverTwice'
  BY <1>1, <1>2, <1>3 DEF PmmInv, PmmTypeOK, NeverTwice, CountsExact
<1>5. CountsExact'
  BY <1>1, <1>2, <1>3, PageFinite DEF PmmInv, PmmTypeOK, CountsExact
<1>6. ReservedNeverHandedOut' /\ NoneHeldBeforeReady'
  BY <1>1 DEF PmmInv, ReservedNeverHandedOut, NoneHeldBeforeReady, Ready
<1> QED  BY <1>4, <1>5, <1>6 DEF PmmInv

LEMMA FreeInv == ASSUME PmmInv, NEW p \in held \cup free, pmm_free_page(p) PROVE PmmInv'
<1>1. /\ p \in held /\ p \notin free /\ Ready
      /\ free' = free \cup {p} /\ free_pages' = free_pages + 1 /\ held' = held \ {p}
      /\ UNCHANGED <<reserved_pages, region>>
  BY DEF pmm_free_page
<1>2. IsFiniteSet(free) /\ IsFiniteSet(held) /\ Cardinality(free) \in Nat
      /\ Cardinality(held) \in Nat
  BY PageFinite DEF PmmInv, PmmTypeOK
<1>3. Cardinality(held \ {p}) = Cardinality(held) - 1
      /\ Cardinality(free \cup {p}) = Cardinality(free) + 1
  BY <1>1, <1>2, FS_RemoveElement, FS_AddElement, Zenon
<1>4. PmmTypeOK' /\ NeverTwice'
  BY <1>1 DEF PmmInv, PmmTypeOK, NeverTwice
<1>5. CountsExact'
  BY <1>1, <1>2, <1>3, PageFinite DEF PmmInv, PmmTypeOK, CountsExact
<1>6. ReservedNeverHandedOut' /\ NoneHeldBeforeReady'
  BY <1>1 DEF PmmInv, ReservedNeverHandedOut, NoneHeldBeforeReady, Ready
<1> QED  BY <1>4, <1>5, <1>6 DEF PmmInv

LEMMA PmmNextInv == PmmInv /\ [PmmNext]_pmm_vars => PmmInv'
<1> SUFFICES ASSUME PmmInv, [PmmNext]_pmm_vars PROVE PmmInv'  OBVIOUS
<1>1. CASE PmmNext  BY <1>1, MarkInv, AllocInv, FreeInv DEF PmmNext
<1>2. CASE UNCHANGED pmm_vars
  BY <1>2 DEF PmmInv, PmmTypeOK, NeverTwice, CountsExact, ReservedNeverHandedOut,
              NoneHeldBeforeReady, Ready, pmm_vars
<1> QED  BY <1>1, <1>2

(* For every memory size and list of regions: the counters of pmm.c equal  *)
(* what they count and no page is both free and in use.                    *)
THEOREM PagesAccounted == PmmSpec => [](PmmTypeOK /\ NeverTwice /\ CountsExact)
<1>1. PmmInv => PmmTypeOK /\ NeverTwice /\ CountsExact  BY DEF PmmInv
<1> QED  BY PmmInitInv, PmmNextInv, <1>1, PTL DEF PmmSpec

(* For every list of regions, no page with a byte in a reserved region is  *)
(* ever handed out, wherever the region begins and ends within a page.     *)
THEOREM ReservedSafe == PmmSpec => []ReservedNeverHandedOut
<1>1. PmmInv => ReservedNeverHandedOut  BY DEF PmmInv
<1> QED  BY PmmInitInv, PmmNextInv, <1>1, PTL DEF PmmSpec

-----------------------------------------------------------------------------
(* The interrupt controllers. *)

LinesTypeOK ==
  /\ irr \subseteq Line
  /\ registered = {TIMER, KEYBOARD}
  /\ pc \in {"run", "test", "hlt"}
  /\ left \in Nat /\ asked \in 0 .. MaxSleep /\ slept \in 0 .. MaxSleep

(* While a sleep waits, the ticks gone and those to come make up the ones  *)
(* asked for.                                                              *)
TicksAddUp == pc # "run" => left + slept >= asked

LinesInv == LinesTypeOK /\ AcknowledgesOwnLine /\ TicksAddUp

LEMMA LineTyped ==
  ASSUME NEW l \in Line
  PROVE  /\ l \in 0 .. 15 /\ l # CASCADE
         /\ OnMaster(l) \in 0 .. 7
         /\ l < 8 => OnMaster(l) = l
         /\ l >= 8 => OnMaster(l) = CASCADE
BY LineAssumption DEF OnMaster, CASCADE

(* A line that is served joins a master with at most the keyboard's line   *)
(* in service, and joins that one only if it is the timer.                 *)
LEMMA Nested ==
  ASSUME AcknowledgesOwnLine, NEW l \in Line, Deliverable(l)
  PROVE  /\ master = {} \/ master = {KEYBOARD}
         /\ master = {KEYBOARD} => l = TIMER
<1>1. master = {} \/ master = {KEYBOARD}
  BY DEF AcknowledgesOwnLine
<1>2. ASSUME master = {KEYBOARD} PROVE l = TIMER
  <2>1. KEYBOARD > OnMaster(l)  BY <1>2 DEF Deliverable
  <2> QED  BY <2>1, LineTyped DEF KEYBOARD, TIMER, CASCADE
<1> QED  BY <1>1, <1>2

LEMMA TickTyped ==
  ASSUME LinesTypeOK, Tick \/ NoTick
  PROVE  /\ left' \in Nat /\ slept' \in 0 .. MaxSleep
         /\ left + slept >= asked => left' + slept' >= asked
<1>1. MaxSleep \in Nat  BY LineAssumption
<1>2. CASE NoTick  BY <1>2 DEF NoTick, LinesTypeOK
<1>3. CASE Tick  BY <1>1, <1>3 DEF Tick, LinesTypeOK
<1> QED  BY <1>2, <1>3

LEMMA ServedInv ==
  ASSUME LinesInv, NEW l \in Line, isr_handler(l)
  PROVE  LinesInv'
<1> DEFINE m == master \cup {OnMaster(l)}
           s == IF l >= 8 THEN slave \cup {l} ELSE slave
<1>1. /\ Deliverable(l)
      /\ irr' = irr \ {l}
      /\ CASE l = TIMER /\ l \in registered -> timer_handler(m, s)
           [] l = KEYBOARD /\ l \in registered -> keyboard_handler(m, s)
           [] l \notin registered -> unregistered(l, m, s)
      /\ pc' = IF pc = "hlt" THEN "test" ELSE pc
      /\ UNCHANGED <<registered, halted, IF_flag, asked>>
  BY DEF isr_handler
<1>2. /\ registered = {TIMER, KEYBOARD} /\ slave = {}
      /\ master = {} \/ master = {KEYBOARD}
      /\ master = {KEYBOARD} => l = TIMER
  BY <1>1, Nested DEF LinesInv, LinesTypeOK, AcknowledgesOwnLine
<1> HIDE DEF m, s
<1>3. (Tick \/ NoTick) /\ AcknowledgesOwnLine'
  <2>1. CASE l = TIMER
    <3>1. timer_handler(m, s)  BY <1>1, <1>2, <2>1 DEF TIMER, KEYBOARD
    <3>2. s = {} /\ m = master \cup {0}
      BY <1>2, <2>1 DEF s, m, TIMER, OnMaster
    <3>3. EOI(m) = master
      BY <1>2, <3>2 DEF EOI, KEYBOARD
    <3> QED  BY <1>2, <3>1, <3>2, <3>3 DEF timer_handler, AcknowledgesOwnLine
  <2>2. CASE l = KEYBOARD
    <3>1. keyboard_handler(m, s)  BY <1>1, <1>2, <2>2 DEF TIMER, KEYBOARD
    <3>2. s = {} /\ m = {KEYBOARD}
      BY <1>2, <2>2 DEF s, m, TIMER, KEYBOARD, OnMaster
    <3> QED  BY <3>1, <3>2 DEF keyboard_handler, NoTick, AcknowledgesOwnLine
  <2>3. CASE l \notin {TIMER, KEYBOARD}
    <3>1. unregistered(l, m, s)  BY <1>1, <1>2, <2>3
    <3>2. m = {OnMaster(l)} /\ OnMaster(l) \in Nat
      BY <1>2, <2>3, LineTyped DEF m
    <3>3. EOI(m) = {}  BY <3>2 DEF EOI
    <3>4. (IF l >= 8 THEN EOI(s) ELSE s) = {}
      <4>1. l \in Nat  BY LineTyped
      <4>2. CASE l >= 8  BY <1>2, <4>1, <4>2 DEF s, EOI
      <4>3. CASE ~ (l >= 8)  BY <1>2, <4>3 DEF s
      <4> QED  BY <4>2, <4>3
    <3> QED  BY <3>1, <3>3, <3>4 DEF unregistered, NoTick, AcknowledgesOwnLine
  <2> QED  BY <2>1, <2>2, <2>3
<1>4. /\ left' \in Nat /\ slept' \in 0 .. MaxSleep
      /\ left + slept >= asked => left' + slept' >= asked
  BY <1>3, TickTyped DEF LinesInv
<1>5. LinesTypeOK'  BY <1>1, <1>4 DEF LinesInv, LinesTypeOK
<1>6. TicksAddUp'  BY <1>1, <1>4 DEF LinesInv, LinesTypeOK, TicksAddUp
<1> QED  BY <1>3, <1>5, <1>6 DEF LinesInv

LEMMA LinesInitInv == IrqInit => LinesInv
BY LineAssumption DEF IrqInit, LinesInv, LinesTypeOK, AcknowledgesOwnLine, TicksAddUp

LEMMA LinesNextInv == LinesInv /\ [IrqNext]_irq_vars => LinesInv'
<1> SUFFICES ASSUME LinesInv, [IrqNext]_irq_vars PROVE LinesInv'  OBVIOUS
<1> USE DEF LinesInv, LinesTypeOK, AcknowledgesOwnLine, TicksAddUp
<1>1. ASSUME NEW l \in Line, Raise(l) PROVE LinesInv'
  BY <1>1 DEF Raise, sleep
<1>2. ASSUME NEW l \in Line, isr_handler(l) PROVE LinesInv'
  BY <1>2, ServedInv
<1>3. CASE exception_default_handler
  BY <1>3 DEF exception_default_handler, controllers, sleep
<1>4. ASSUME NEW n \in 0 .. MaxSleep, sys_sleep(n) PROVE LinesInv'
  BY <1>4, LineAssumption DEF sys_sleep, controllers
<1>5. CASE Halt  BY <1>5 DEF Halt, controllers
<1>6. CASE SleepReturns  BY <1>6 DEF SleepReturns, controllers
<1>7. CASE UNCHANGED irq_vars  BY <1>7 DEF irq_vars, controllers, sleep
<1> QED  BY <1>1, <1>2, <1>3, <1>4, <1>5, <1>6, <1>7 DEF IrqNext

(* No handler but the keyboard's leaves a line in service or acknowledges  *)
(* another's, whichever lines devices raise.                               *)
THEOREM LinesAcknowledged == IrqSpec => []AcknowledgesOwnLine
<1>1. LinesInv => AcknowledgesOwnLine  BY DEF LinesInv
<1> QED  BY <1>1, LinesInitInv, LinesNextInv, PTL DEF IrqSpec

(* sys_sleep lasts as long as it was asked to, whatever interrupts it.     *)
THEOREM SleepLastsLongEnough == IrqSpec => SleepLasts
<1>1. LinesInv /\ [IrqNext]_irq_vars => [pc = "test" /\ pc' = "run" => slept >= asked]_irq_vars
  <2> SUFFICES ASSUME LinesInv, [IrqNext]_irq_vars, pc = "test", pc' = "run" PROVE slept >= asked
    OBVIOUS
  <2>1. ASSUME NEW l \in Line, Raise(l) PROVE FALSE  BY <2>1 DEF Raise, sleep
  <2>2. ASSUME NEW l \in Line, isr_handler(l) PROVE FALSE  BY <2>2 DEF isr_handler
  <2>3. CASE exception_default_handler  BY <2>3 DEF exception_default_handler, sleep
  <2>4. ASSUME NEW n \in 0 .. MaxSleep, sys_sleep(n) PROVE FALSE  BY <2>4 DEF sys_sleep
  <2>5. CASE Halt  BY <2>5 DEF Halt
  <2>6. CASE SleepReturns
    BY <2>6 DEF SleepReturns, Past, LinesInv, LinesTypeOK, TicksAddUp
  <2>7. CASE UNCHANGED irq_vars  BY <2>7 DEF irq_vars, sleep
  <2> QED  BY <2>1, <2>2, <2>3, <2>4, <2>5, <2>6, <2>7 DEF IrqNext
<1> QED  BY <1>1, LinesInitInv, LinesNextInv, PTL DEF IrqSpec, SleepLasts

-----------------------------------------------------------------------------
(* The accounts. *)

Hash == [0 .. PASS_HASH_LEN - 1 -> SUBSET (0 .. ByteBits - 1)]
Uid == 0 .. MaxUid \cup 0 .. 2

(* Each live account's hash is that of the password last given to it. *)
HashOfSecret ==
  \A s \in Live : g_users[s].password_hash = auth_hash_password(secret[s], Zero)

(* Some live account has the session's uid and the name logged in with. *)
SessionLive ==
  /\ attempt = Out => g_current_uid >= 0
  /\ who # NoOne => \E s \in Live : UidOf(s) = g_current_uid /\ NameOf(s) = who

AccountsInv == TypeOK /\ AccountsDistinct /\ HashOfSecret /\ SessionLive

LEMMA HashType ==
  ASSUME NEW password, NEW old
  PROVE  /\ auth_hash_password(password, old) \in Hash
         /\ auth_hash_password(password, old) = auth_hash_password(password, Zero)
BY DEF auth_hash_password, Mixed, Hash

LEMMA AccountTyped ==
  ASSUME NEW name \in Username, NEW password, NEW uid \in Uid, NEW gid \in Nat,
         NEW is_root \in BOOLEAN
  PROVE  /\ Account(name, password, uid, gid, is_root) \in AccountType
         /\ Account(name, password, uid, gid, is_root).active
         /\ Account(name, password, uid, gid, is_root).username = name
         /\ Account(name, password, uid, gid, is_root).uid = uid
         /\ Account(name, password, uid, gid, is_root).password_hash
              = auth_hash_password(password, Zero)
<1> DEFINE h == auth_hash_password(password, Zero)
<1>1. h \in Hash  BY HashType
<1>2. Account(name, password, uid, gid, is_root)
        = [active |-> TRUE, username |-> name, uid |-> uid, gid |-> gid, is_root |-> is_root,
           password_hash |-> h]
  BY DEF Account
<1> HIDE DEF h
<1>3. Account(name, password, uid, gid, is_root) \in AccountType
  BY <1>1, <1>2 DEF AccountType, Hash, Uid
<1> QED  BY <1>2, <1>3 DEF h

(* What the type says of one slot. *)
LEMMA SlotTyped ==
  ASSUME TypeOK, NEW s \in Live
  PROVE  /\ s \in Slot /\ g_users[s] \in AccountType
         /\ UidOf(s) \in Uid /\ UidOf(s) \in Nat /\ NameOf(s) \in Username
<1>1. s \in Slot /\ g_users[s] \in AccountType \cup {Free} /\ g_users[s].active
  BY DEF Live, TypeOK
<1>2. g_users[s] \in AccountType  BY <1>1 DEF Free
<1>3. g_users[s].uid \in Uid /\ g_users[s].username \in Username
  BY <1>2 DEF AccountType, Uid
<1>4. Uid \subseteq Nat  BY AuthAssumption DEF Uid
<1> QED  BY <1>1, <1>2, <1>3, <1>4 DEF UidOf, NameOf

LEMMA LiveFinite == IsFiniteSet(Live) /\ Cardinality(Live) \in Nat
<1>1. IsFiniteSet(Slot)  BY AuthAssumption, FS_Interval DEF Slot
<1>2. Live \subseteq Slot  BY DEF Live
<1> QED  BY <1>1, <1>2, FS_Subset, FS_CardinalityType

(* A login that succeeds names the one account with that name. *)
LEMMA LoginFinds ==
  ASSUME TypeOK, AccountsDistinct, NEW name, NEW password, auth_login(name, password) >= 0
  PROVE  \E s \in Live : /\ NameOf(s) = name /\ UidOf(s) = auth_login(name, password)
<1> DEFINE hits == {s \in Live : /\ NameOf(s) = name
                                 /\ g_users[s].password_hash = auth_hash_password(password, Zero)}
           first == CHOOSE s \in hits : \A t \in hits : s <= t
<1>1. hits # {}  BY DEF auth_login
<1>2. PICK s \in hits : TRUE  BY <1>1
<1>3. \A t \in hits : s = t  BY <1>2 DEF AccountsDistinct
<1>4. s \in Nat  BY <1>2, AuthAssumption DEF Live, Slot
<1>a. s <= s  BY <1>4
<1>b. \A t \in hits : s <= t  BY <1>3, <1>a, Zenon
<1>5. first \in hits  BY <1>2, <1>b, Zenon
<1>6. auth_login(name, password) = UidOf(first)  BY <1>1 DEF auth_login
<1> QED  BY <1>5, <1>6

LEMMA OwnPassword ==
  ASSUME TypeOK, AccountsDistinct, HashOfSecret
  PROVE  OwnPasswordLogsIn
<1> SUFFICES ASSUME NEW u \in Live PROVE auth_login(NameOf(u), secret[u]) = UidOf(u)
  BY DEF OwnPasswordLogsIn
<1> DEFINE hits == {s \in Live : /\ NameOf(s) = NameOf(u)
                                 /\ g_users[s].password_hash = auth_hash_password(secret[u], Zero)}
<1>1. u \in hits  BY DEF HashOfSecret
<1>2. \A t \in hits : t = u  BY DEF AccountsDistinct
<1>3. u \in Nat  BY AuthAssumption DEF Live, Slot
<1>a. u <= u  BY <1>3
<1>b. \A t \in hits : u <= t  BY <1>2, <1>a, Zenon
<1> DEFINE first == CHOOSE s \in hits : \A t \in hits : s <= t
<1>c. first \in hits  BY <1>1, <1>b, Zenon
<1>4. first = u  BY <1>2, <1>c
<1> QED  BY <1>1, <1>4 DEF auth_login

LEMMA SessionName ==
  ASSUME TypeOK, AccountsDistinct, SessionLive
  PROVE  SessionIsAccount
<1> SUFFICES ASSUME who # NoOne PROVE auth_username(g_current_uid) = who
  BY DEF SessionLive, SessionIsAccount
<1>1. PICK u \in Live : UidOf(u) = g_current_uid /\ NameOf(u) = who  BY DEF SessionLive
<1> DEFINE P(s) == UidOf(s) = g_current_uid /\ \A t \in Live : UidOf(t) = g_current_uid => s <= t
<1>2. \A t \in Live : UidOf(t) = g_current_uid => t = u  BY <1>1 DEF AccountsDistinct
<1>3. u \in Nat  BY AuthAssumption DEF Live, Slot
<1>a. u <= u  BY <1>3
<1>b. P(u)  BY <1>1, <1>2, <1>a, Zenon
<1> DEFINE first == CHOOSE s \in Live : P(s)
<1>c. first \in Live /\ UidOf(first) = g_current_uid  BY <1>b, Zenon
<1>4. first = u  BY <1>2, <1>c
<1> QED  BY <1>1, <1>4 DEF auth_username

-----------------------------------------------------------------------------

(* The three default accounts. *)
LEMMA AccountsInitInv == Init => AccountsInv
<1> SUFFICES ASSUME Init PROVE AccountsInv  OBVIOUS
<1> DEFINE A0 == Account("root", FirstPassword["root"], 0, 0, TRUE)
           A1 == Account("admin", FirstPassword["admin"], 1, 1, TRUE)
           A2 == Account("user", FirstPassword["user"], 2, USER_GID, FALSE)
<1>1. /\ 0 \in Slot /\ 1 \in Slot /\ 2 \in Slot /\ 0 \in Uid /\ 1 \in Uid /\ 2 \in Uid
      /\ "root" \in Username /\ "admin" \in Username /\ "user" \in Username
      /\ FirstPassword["root"] \in Password /\ FirstPassword["admin"] \in Password
      /\ FirstPassword["user"] \in Password
      /\ 0 \in Nat /\ 1 \in Nat /\ USER_GID \in Nat
      /\ TRUE \in BOOLEAN /\ FALSE \in BOOLEAN
  BY AuthAssumption DEF Slot, Uid, Default, USER_GID
<1>2. /\ A0 \in AccountType /\ A0.active = TRUE /\ A0.username = "root" /\ A0.uid = 0
      /\ A0.password_hash = auth_hash_password(FirstPassword["root"], Zero)
  <2>1. "root" \in Username /\ 0 \in Uid /\ 0 \in Nat /\ TRUE \in BOOLEAN  BY <1>1, Zenon
  <2> DEFINE h == auth_hash_password(FirstPassword["root"], Zero)
  <2>2. h \in Hash  BY HashType
  <2> HIDE DEF h
  <2>3. A0 = [active |-> TRUE, username |-> "root", uid |-> 0, gid |-> 0, is_root |-> TRUE,
              password_hash |-> h]
    BY DEF Account, h
  <2> HIDE DEF A0
  <2>4. A0 \in AccountType  BY <2>1, <2>2, <2>3 DEF AccountType, Hash, Uid
  <2>5. A0.active = TRUE /\ A0.username = "root" /\ A0.uid = 0 /\ A0.password_hash = h
    BY <2>3
  <2> QED  BY <2>4, <2>5 DEF h
<1>3. /\ A1 \in AccountType /\ A1.active = TRUE /\ A1.username = "admin" /\ A1.uid = 1
      /\ A1.password_hash = auth_hash_password(FirstPassword["admin"], Zero)
  <2>1. "admin" \in Username /\ 1 \in Uid /\ 1 \in Nat /\ TRUE \in BOOLEAN  BY <1>1, Zenon
  <2> DEFINE h == auth_hash_password(FirstPassword["admin"], Zero)
  <2>2. h \in Hash  BY HashType
  <2> HIDE DEF h
  <2>3. A1 = [active |-> TRUE, username |-> "admin", uid |-> 1, gid |-> 1, is_root |-> TRUE,
              password_hash |-> h]
    BY DEF Account, h
  <2> HIDE DEF A1
  <2>4. A1 \in AccountType  BY <2>1, <2>2, <2>3 DEF AccountType, Hash, Uid
  <2>5. A1.active = TRUE /\ A1.username = "admin" /\ A1.uid = 1 /\ A1.password_hash = h
    BY <2>3
  <2> QED  BY <2>4, <2>5 DEF h
<1>4. /\ A2 \in AccountType /\ A2.active = TRUE /\ A2.username = "user" /\ A2.uid = 2
      /\ A2.password_hash = auth_hash_password(FirstPassword["user"], Zero)
  <2>1. "user" \in Username /\ 2 \in Uid /\ USER_GID \in Nat /\ FALSE \in BOOLEAN  BY <1>1, Zenon
  <2> DEFINE h == auth_hash_password(FirstPassword["user"], Zero)
  <2>2. h \in Hash  BY HashType
  <2> HIDE DEF h
  <2>3. A2 = [active |-> TRUE, username |-> "user", uid |-> 2, gid |-> USER_GID, is_root |-> FALSE,
              password_hash |-> h]
    BY DEF Account, h
  <2> HIDE DEF A2
  <2>4. A2 \in AccountType  BY <2>1, <2>2, <2>3 DEF AccountType, Hash, Uid
  <2>5. A2.active = TRUE /\ A2.username = "user" /\ A2.uid = 2 /\ A2.password_hash = h
    BY <2>3
  <2> QED  BY <2>4, <2>5 DEF h
<1>5. /\ g_users = [s \in Slot |-> CASE s = 0 -> A0 [] s = 1 -> A1 [] s = 2 -> A2 [] OTHER -> Free]
      /\ secret = [s \in Slot |-> CASE s = 1 -> FirstPassword["admin"]
                                    [] s = 2 -> FirstPassword["user"]
                                    [] OTHER -> FirstPassword["root"]]
      /\ g_user_count = 3 /\ g_current_uid = -1 /\ attempt = 0 /\ locked = FALSE /\ who = NoOne
  BY DEF Init
<1> HIDE DEF A0, A1, A2
<1>6. /\ g_users[0] = A0 /\ g_users[1] = A1 /\ g_users[2] = A2
      /\ \A s \in Slot : s \notin {0, 1, 2} => g_users[s] = Free
  BY <1>1, <1>5
<1>7. Live = {0, 1, 2}  BY <1>1, <1>2, <1>3, <1>4, <1>6 DEF Live, Free
<1>8. TypeOK
  <2>1. g_users \in [Slot -> AccountType \cup {Free}]
    BY <1>2, <1>3, <1>4, <1>5
  <2>2. secret \in [Slot -> Password]  BY <1>1, <1>5
  <2>3. g_current_uid \in -1 .. MaxUid \cup 0 .. 2  BY <1>5, AuthAssumption
  <2>4. locked \in BOOLEAN /\ who \in Username \cup {NoOne}  BY <1>5, Zenon
  <2>5. attempt \in {Out, 0, 1, 2} /\ g_user_count \in Int  BY <1>5
  <2> QED  BY <2>1, <2>2, <2>3, <2>4, <2>5, Zenon DEF TypeOK
<1>9. AccountsDistinct
  <2>1. \A s, t \in Live : s # t => UidOf(s) # UidOf(t) /\ NameOf(s) # NameOf(t)
    BY <1>2, <1>3, <1>4, <1>6, <1>7 DEF UidOf, NameOf
  <2>2. \E s \in Live : UidOf(s) = 0 /\ NameOf(s) = "root"
    BY <1>2, <1>6, <1>7 DEF UidOf, NameOf
  <2>3. {0, 1, 2} = 0 .. 2  OBVIOUS
  <2>4. Cardinality(0 .. 2) = 3
    <3>1. 0 \in Int /\ 2 \in Int  OBVIOUS
    <3>2. Cardinality(0 .. 2) = IF 0 > 2 THEN 0 ELSE 2 - 0 + 1  BY <3>1, FS_Interval, Zenon
    <3> QED  BY <3>2
  <2> QED  BY <1>5, <1>7, <2>1, <2>2, <2>3, <2>4 DEF AccountsDistinct
<1>10. HashOfSecret
  <2>1. /\ secret[0] = FirstPassword["root"] /\ secret[1] = FirstPassword["admin"]
        /\ secret[2] = FirstPassword["user"]
    BY <1>1, <1>5
  <2> QED  BY <1>2, <1>3, <1>4, <1>6, <1>7, <2>1 DEF HashOfSecret
<1>11. SessionLive  BY <1>5 DEF SessionLive, Out
<1> QED  BY <1>8, <1>9, <1>10, <1>11 DEF AccountsInv

(* A new account takes a free slot, a new name and a uid above the others. *)
LEMMA CreateInv ==
  ASSUME AccountsInv, NEW name, NEW password \in Password, NEW is_root \in BOOLEAN,
         auth_create_user(name, password, is_root)
  PROVE  AccountsInv'
<1> USE DEF AccountsInv
<1>1. PICK slot \in Slot \ Live, uid \in 0 .. MaxUid :
        /\ IsNextUid(uid)
        /\ g_users' = [g_users EXCEPT ![slot] =
                         Account(name, password, uid, IF is_root THEN uid ELSE USER_GID, is_root)]
        /\ secret' = [secret EXCEPT ![slot] = password]
  BY DEF auth_create_user
<1> DEFINE gid == IF is_root THEN uid ELSE USER_GID
           A == Account(name, password, uid, gid, is_root)
<1>2. /\ name \in Username /\ \A s \in Live : NameOf(s) # name
      /\ g_user_count' = g_user_count + 1
      /\ UNCHANGED <<g_current_uid, attempt, locked, who>>
  BY DEF auth_create_user
<1>3. uid \in Uid /\ uid \in Nat /\ gid \in Nat  BY AuthAssumption DEF Uid, USER_GID
<1>4. /\ A \in AccountType /\ A.active /\ A.username = name /\ A.uid = uid
      /\ A.password_hash = auth_hash_password(password, Zero)
  BY <1>2, <1>3, AccountTyped
<1>5. g_users' = [g_users EXCEPT ![slot] = A]  BY <1>1
<1> HIDE DEF A, gid
<1>6. /\ g_users \in [Slot -> AccountType \cup {Free}] /\ secret \in [Slot -> Password]
      /\ g_users' \in [Slot -> AccountType \cup {Free}] /\ secret' \in [Slot -> Password]
  BY <1>1, <1>4, <1>5 DEF TypeOK
<1>7. /\ g_users'[slot] = A /\ secret'[slot] = password
      /\ \A s \in Slot : s # slot => g_users'[s] = g_users[s] /\ secret'[s] = secret[s]
  BY <1>1, <1>5, <1>6
<1>8. Live' = Live \cup {slot}  BY <1>4, <1>7 DEF Live
<1>9. slot \notin Live /\ slot \in Slot /\ Live \subseteq Slot  BY DEF Live
<1>10. \A s \in Live : UidOf(s)' = UidOf(s) /\ NameOf(s)' = NameOf(s)
  BY <1>7, <1>9 DEF UidOf, NameOf
<1>11. UidOf(slot)' = uid /\ NameOf(slot)' = name  BY <1>4, <1>7 DEF UidOf, NameOf
<1>12. TypeOK'  BY <1>2, <1>6 DEF TypeOK
<1>13. AccountsDistinct'
  <2>1. \A s \in Live : UidOf(s) # uid
    <3> SUFFICES ASSUME NEW s \in Live PROVE UidOf(s) # uid  OBVIOUS
    <3>1. UidOf(s) \in Nat  BY SlotTyped
    <3>2. UidOf(s) < uid  BY <1>1 DEF IsNextUid
    <3> QED  BY <1>3, <3>1, <3>2
  <2>2. \A s, t \in Live' : s # t => UidOf(s)' # UidOf(t)' /\ NameOf(s)' # NameOf(t)'
    BY <1>2, <1>8, <1>10, <1>11, <2>1 DEF AccountsDistinct
  <2>3. \E s \in Live' : UidOf(s)' = 0 /\ NameOf(s)' = "root"
    BY <1>8, <1>10 DEF AccountsDistinct
  <2>4. Cardinality(Live') = Cardinality(Live) + 1
    BY <1>8, <1>9, LiveFinite, FS_AddElement
  <2>5. g_user_count' = Cardinality(Live')  BY <1>2, <2>4 DEF AccountsDistinct
  <2> QED  BY <2>2, <2>3, <2>5 DEF AccountsDistinct
<1>14. HashOfSecret'
  <2>1. \A s \in Live' : g_users'[s].password_hash = auth_hash_password(secret'[s], Zero)
    BY <1>4, <1>7, <1>8, <1>9 DEF HashOfSecret
  <2> QED  BY <2>1 DEF HashOfSecret, auth_hash_password, Mixed, Zero
<1>15. SessionLive'  BY <1>2, <1>8, <1>10 DEF SessionLive
<1> QED  BY <1>12, <1>13, <1>14, <1>15

(* A slot that is freed keeps nothing; root's is never freed. *)
LEMMA DeleteInv ==
  ASSUME AccountsInv, NEW uid \in Int, auth_delete_user(uid)
  PROVE  AccountsInv'
<1> USE DEF AccountsInv
<1>1. PICK d \in Live : UidOf(d) = uid /\ g_users' = [g_users EXCEPT ![d] = Free]
  BY DEF auth_delete_user
<1>2. /\ uid # 0
      /\ g_user_count' = IF g_user_count > 0 THEN g_user_count - 1 ELSE g_user_count
      /\ who' = IF uid = g_current_uid THEN NoOne ELSE who
      /\ UNCHANGED <<g_current_uid, attempt, locked, secret>>
  BY DEF auth_delete_user
<1>3. g_users \in [Slot -> AccountType \cup {Free}] /\ Live \subseteq Slot
  BY DEF TypeOK, Live
<1>4. g_users'[d] = Free /\ \A s \in Slot : s # d => g_users'[s] = g_users[s]
  BY <1>1, <1>3
<1>5. Live' = Live \ {d}  BY <1>3, <1>4 DEF Live, Free
<1>6. \A s \in Live' : UidOf(s)' = UidOf(s) /\ NameOf(s)' = NameOf(s)
  BY <1>3, <1>4, <1>5 DEF UidOf, NameOf
<1>7. TypeOK'
  <2>1. g_users' \in [Slot -> AccountType \cup {Free}]  BY <1>1, <1>3
  <2>2. who' \in Username \cup {NoOne}  BY <1>2 DEF TypeOK
  <2>3. g_user_count' \in Int  BY <1>2 DEF TypeOK
  <2> QED  BY <1>2, <2>1, <2>2, <2>3 DEF TypeOK
<1>8. AccountsDistinct'
  <2>1. \A s, t \in Live' : s # t => UidOf(s)' # UidOf(t)' /\ NameOf(s)' # NameOf(t)'
    BY <1>5, <1>6 DEF AccountsDistinct
  <2>2. \E s \in Live' : UidOf(s)' = 0 /\ NameOf(s)' = "root"
    BY <1>1, <1>2, <1>5, <1>6 DEF AccountsDistinct
  <2>3. /\ Cardinality(Live') = Cardinality(Live) - 1
        /\ Cardinality(Live') \in Nat /\ Cardinality(Live) \in Nat
    BY <1>1, <1>5, LiveFinite, FS_RemoveElement, FS_CardinalityType
  <2>4. g_user_count' = Cardinality(Live')  BY <1>2, <2>3 DEF AccountsDistinct
  <2> QED  BY <2>1, <2>2, <2>4 DEF AccountsDistinct
<1>9. HashOfSecret'
  <2>1. \A s \in Live' : g_users'[s].password_hash = auth_hash_password(secret'[s], Zero)
    BY <1>2, <1>3, <1>4, <1>5 DEF HashOfSecret
  <2> QED  BY <2>1 DEF HashOfSecret, auth_hash_password, Mixed, Zero
<1>10. SessionLive'
  <2> SUFFICES ASSUME who' # NoOne
               PROVE  \E s \in Live' : UidOf(s)' = g_current_uid' /\ NameOf(s)' = who'
    BY <1>2 DEF SessionLive
  <2>1. PICK s \in Live : UidOf(s) = g_current_uid /\ NameOf(s) = who
    BY <1>2 DEF SessionLive
  <2>2. s # d  BY <1>1, <1>2, <2>1
  <2> QED  BY <1>2, <1>5, <1>6, <2>1, <2>2
<1> QED  BY <1>7, <1>8, <1>9, <1>10

(* A new password overwrites what the hash held. *)
LEMMA ChangeInv ==
  ASSUME AccountsInv, NEW uid \in Int, NEW password \in Password, auth_change_password(uid, password)
  PROVE  AccountsInv'
<1> USE DEF AccountsInv
<1>1. PICK c \in Live :
        /\ g_users' = [g_users EXCEPT ![c].password_hash = auth_hash_password(password, @)]
        /\ secret' = [secret EXCEPT ![c] = password]
  BY DEF auth_change_password
<1>2. UNCHANGED <<g_user_count, g_current_uid, attempt, locked, who>>
  BY DEF auth_change_password
<1> DEFINE h == auth_hash_password(password, g_users[c].password_hash)
           A == [g_users[c] EXCEPT !.password_hash = h]
<1>3. h \in Hash /\ h = auth_hash_password(password, Zero)  BY HashType
<1>4. g_users' = [g_users EXCEPT ![c] = A]  BY <1>1
<1> HIDE DEF h
<1>5. /\ g_users \in [Slot -> AccountType \cup {Free}] /\ secret \in [Slot -> Password]
      /\ Live \subseteq Slot /\ c \in Slot /\ g_users[c] \in AccountType
  BY SlotTyped DEF TypeOK, Live
<1>6. /\ A \in AccountType /\ A.active /\ A.username = NameOf(c) /\ A.uid = UidOf(c)
      /\ A.password_hash = h
  BY <1>3, <1>5 DEF AccountType, Hash, NameOf, UidOf
<1> HIDE DEF A
<1>7. /\ g_users'[c] = A /\ secret'[c] = password
      /\ \A s \in Slot : s # c => g_users'[s] = g_users[s] /\ secret'[s] = secret[s]
  BY <1>1, <1>4, <1>5
<1>8. Live' = Live  BY <1>5, <1>6, <1>7 DEF Live
<1>9. \A s \in Live : UidOf(s)' = UidOf(s) /\ NameOf(s)' = NameOf(s)
  BY <1>5, <1>6, <1>7 DEF UidOf, NameOf
<1>10. TypeOK'
  <2>1. g_users' \in [Slot -> AccountType \cup {Free}] /\ secret' \in [Slot -> Password]
    BY <1>1, <1>4, <1>5, <1>6
  <2> QED  BY <1>2, <2>1 DEF TypeOK
<1>11. AccountsDistinct'  BY <1>2, <1>8, <1>9 DEF AccountsDistinct
<1>12. HashOfSecret'
  <2>1. \A s \in Live' : g_users'[s].password_hash = auth_hash_password(secret'[s], Zero)
    BY <1>3, <1>5, <1>6, <1>7, <1>8 DEF HashOfSecret
  <2> QED  BY <2>1 DEF HashOfSecret, auth_hash_password, Mixed, Zero
<1>13. SessionLive'  BY <1>2, <1>8, <1>9 DEF SessionLive
<1> QED  BY <1>10, <1>11, <1>12, <1>13

(* What leaves the accounts alone keeps what is said of them. *)
LEMMA TableUnchanged ==
  ASSUME UNCHANGED <<g_users, g_user_count, secret>>, AccountsDistinct, HashOfSecret
  PROVE  /\ AccountsDistinct' /\ HashOfSecret' /\ Live' = Live
         /\ \A s \in Live : UidOf(s)' = UidOf(s) /\ NameOf(s)' = NameOf(s)
<1>1. Live' = Live /\ \A s : UidOf(s)' = UidOf(s) /\ NameOf(s)' = NameOf(s)
  BY DEF Live, UidOf, NameOf
<1>2. AccountsDistinct'  BY <1>1 DEF AccountsDistinct
<1>3. \A s \in Live' : g_users'[s].password_hash = auth_hash_password(secret'[s], Zero)
  BY <1>1 DEF HashOfSecret
<1>4. HashOfSecret'  BY <1>3 DEF HashOfSecret, auth_hash_password, Mixed, Zero
<1> QED  BY <1>1, <1>2, <1>4

LEMMA LoginInv ==
  ASSUME AccountsInv, NEW name \in Username \cup {BadName}, NEW password \in Password,
         attempt # Out, auth_run_login(name, password)
  PROVE  AccountsInv'
<1> USE DEF AccountsInv
<1>1. UNCHANGED <<g_users, g_user_count, secret>>  BY DEF auth_run_login
<1>2. /\ AccountsDistinct' /\ HashOfSecret' /\ Live' = Live
      /\ \A s \in Live : UidOf(s)' = UidOf(s) /\ NameOf(s)' = NameOf(s)
  BY <1>1, TableUnchanged
<1>3. CASE auth_login(name, password) >= 0
  <2>1. PICK s \in Live : NameOf(s) = name /\ UidOf(s) = auth_login(name, password)
    BY <1>3, LoginFinds
  <2>2. UidOf(s) \in Uid /\ UidOf(s) \in Nat /\ name \in Username  BY <2>1, SlotTyped
  <2>3. ~ (auth_login(name, password) < 0)  BY <2>1, <2>2
  <2>4. g_current_uid' = UidOf(s) /\ who' = name /\ attempt' = Out /\ UNCHANGED locked
    BY <2>1, <2>3 DEF auth_run_login, Welcome
  <2>5. g_current_uid' \in -1 .. MaxUid \cup 0 .. 2  BY <2>2, <2>4, AuthAssumption DEF Uid
  <2>6. TypeOK'  BY <1>1, <2>2, <2>4, <2>5 DEF TypeOK
  <2>7. SessionLive'  BY <1>2, <2>1, <2>2, <2>4 DEF SessionLive
  <2> QED  BY <1>2, <2>6, <2>7
<1>4. CASE ~ (auth_login(name, password) >= 0)
  <2>1. Incorrect /\ UNCHANGED <<g_current_uid, who>>
    BY <1>4 DEF auth_run_login
  <2>2. attempt' \in {0, 1, 2} /\ locked' \in BOOLEAN  BY <2>1 DEF Incorrect, TypeOK, Out
  <2>3. TypeOK'  BY <1>1, <2>1, <2>2 DEF TypeOK
  <2>4. SessionLive'  BY <1>2, <2>1, <2>2 DEF SessionLive, Out
  <2> QED  BY <1>2, <2>3, <2>4
<1> QED  BY <1>3, <1>4

LEMMA AccountsNextInv == AccountsInv /\ [Next]_vars => AccountsInv'
<1> SUFFICES ASSUME AccountsInv, [Next]_vars PROVE AccountsInv'  OBVIOUS
<1>1. CASE UNCHANGED vars
  <2>1. /\ AccountsDistinct' /\ HashOfSecret' /\ Live' = Live
        /\ \A s \in Live : UidOf(s)' = UidOf(s) /\ NameOf(s)' = NameOf(s)
    BY <1>1, TableUnchanged DEF vars, AccountsInv
  <2> QED  BY <1>1, <2>1 DEF vars, AccountsInv, TypeOK, SessionLive
<1>2. CASE RunLogin
  <2>1. /\ AccountsDistinct' /\ HashOfSecret' /\ Live' = Live
        /\ \A s \in Live : UidOf(s)' = UidOf(s) /\ NameOf(s)' = NameOf(s)
    BY <1>2, TableUnchanged DEF RunLogin, AccountsInv
  <2> QED  BY <1>2, <2>1 DEF RunLogin, AccountsInv, TypeOK, SessionLive, Out
<1>3. ASSUME NEW name, NEW password \in Password, NEW is_root \in BOOLEAN,
             auth_create_user(name, password, is_root)
      PROVE  AccountsInv'
  BY <1>3, CreateInv
<1>4. ASSUME NEW uid \in 0 .. MaxUid, auth_delete_user(uid)
      PROVE  AccountsInv'
  BY <1>4, DeleteInv
<1>5. ASSUME NEW uid \in 0 .. MaxUid, NEW password \in Password,
             auth_change_password(uid, password)
      PROVE  AccountsInv'
  BY <1>5, ChangeInv
<1>6. ASSUME NEW name \in Username \cup {BadName}, NEW password \in Password,
             attempt # Out, auth_run_login(name, password)
      PROVE  AccountsInv'
  BY <1>6, LoginInv
<1> QED  BY <1>1, <1>2, <1>3, <1>4, <1>5, <1>6 DEF Next, Call

(* auth_create_user, auth_delete_user and the login keep the accounts      *)
(* distinct and counted, for a table of any size.                          *)
THEOREM AccountsStayDistinct == Spec => [](TypeOK /\ AccountsDistinct)
<1>1. AccountsInv => TypeOK /\ AccountsDistinct  BY DEF AccountsInv
<1> QED  BY <1>1, AccountsInitInv, AccountsNextInv, PTL DEF Spec

(* The password last given to an account logs it in, for passwords and a   *)
(* hash of any length.                                                     *)
THEOREM OwnPasswordAlwaysLogsIn == Spec => []OwnPasswordLogsIn
<1>1. AccountsInv => OwnPasswordLogsIn  BY OwnPassword DEF AccountsInv
<1> QED  BY <1>1, AccountsInitInv, AccountsNextInv, PTL DEF Spec

(* The session's uid stands for the account logged into while that account *)
(* exists.                                                                 *)
THEOREM SessionStaysAccount == Spec => []SessionIsAccount
<1>1. AccountsInv => SessionIsAccount  BY SessionName DEF AccountsInv
<1> QED  BY <1>1, AccountsInitInv, AccountsNextInv, PTL DEF Spec

(* The bit of a mode that a mask selects is set. *)
Granted(mode, mask) == (mode \div mask) % 2 = 1

(* The digit of a class, and the digits that allow reading or writing. *)
Digit(mode, owner, group) ==
  IF owner THEN mode \div 64 ELSE IF group THEN (mode \div 8) % 8 ELSE mode % 8
Need(is_write) == IF is_write THEN {2, 3, 6, 7} ELSE {4, 5, 6, 7}

(* The bit that the mask of a class selects is one of the class's digit. *)
LEMMA MaskIsDigit ==
  ASSUME NEW mode \in 0 .. 511, NEW owner \in BOOLEAN, NEW group \in BOOLEAN,
         NEW is_write \in BOOLEAN
  PROVE  Granted(mode, Mask(owner, group, is_write))
           <=> Digit(mode, owner, group) \in Need(is_write)
BY SMTT(60) DEF Granted, Mask, Digit, Need

(* auth_check_permission grants what the digit of the session's class      *)
(* says, for every file, mode and table of accounts.                       *)
THEOREM PermissionFollowsClass == Spec => []PermissionByClass
<1>1. AccountsInv => PermissionByClass
  <2> SUFFICES ASSUME AccountsInv, NEW file_uid \in Nat, NEW file_gid \in Nat,
                      NEW mode \in 0 .. 511, NEW is_write \in BOOLEAN
               PROVE  LET digit(s) == IF UidOf(s) = file_uid THEN mode \div 64
                                      ELSE IF g_users[s].gid = file_gid THEN (mode \div 8) % 8
                                      ELSE mode % 8
                          need == IF is_write THEN {2, 3, 6, 7} ELSE {4, 5, 6, 7}
                          session == {s \in Live : UidOf(s) = g_current_uid}
                      IN  auth_check_permission(file_uid, file_gid, mode, is_write)
                            <=> (g_current_uid = 0 \/ \E s \in session : digit(s) \in need)
    BY DEF PermissionByClass
  <2> DEFINE owner == g_current_uid = file_uid
             group(s) == g_users[s].gid = file_gid
  <2>1. ASSUME NEW s \in Live, UidOf(s) = g_current_uid
        PROVE  /\ g_current_uid >= 0
               /\ Granted(mode, Mask(owner, group(s), is_write))
                    <=> Digit(mode, owner, group(s)) \in Need(is_write)
    <3>1. g_current_uid >= 0  BY <2>1, SlotTyped DEF AccountsInv
    <3>2. owner \in BOOLEAN /\ group(s) \in BOOLEAN  OBVIOUS
    <3> HIDE DEF owner, group
    <3> QED  BY <3>1, <3>2, MaskIsDigit
  <2> QED  BY <2>1 DEF auth_check_permission, Granted, Digit, Need
<1> QED  BY <1>1, AccountsInitInv, AccountsNextInv, PTL DEF Spec
=============================================================================
