----------------------------- MODULE AtaProofs ------------------------------
(***************************************************************************)
(* What reaches the medium, and what reads and writes that report success  *)
(* have done, proved for every size of the disk, every transfer and every  *)
(* number of polls and attempts.                                           *)
(***************************************************************************)
EXTENDS Ata, TLAPS

(* The drive has a sector of the current write, the one the driver moved   *)
(* last.                                                                   *)
Storing ==
  drive.cmd = "store" =>
    /\ drive.bsy /\ call.op = "write"
    /\ pc \in {"drq", "flush_cmd", "flush"} /\ (pc # "drq" => s = call.count)
    /\ s >= 1 /\ s <= call.count
    /\ drive.lba = call.lba + s - 1 /\ drive.left = call.count - s + 1
    /\ drive.data = <<call.tag, s - 1>>

(* The drive expects the sector that the driver moves next. *)
Expecting ==
  drive.cmd = "write" =>
    /\ pc = "drq" /\ call.op = "write" /\ s < call.count
    /\ drive.lba = call.lba + s /\ drive.left = call.count - s

(* The drive works on what the driver waits for. *)
InStep ==
  /\ pc = "drq" => drive.cmd \in {call.op, "store", "none"}
  /\ pc \in {"start", "drq", "flush_cmd", "flush"} => call.op # "init"
  /\ pc \notin {"boot", "idle"} /\ call.op # "init" => call.count > 0
  /\ drive.drq => drive.cmd \in {"identify", "read", "write"}
  /\ kind = "none" => drive.cmd = "none"

IInv == TypeOK /\ Storing /\ Expecting /\ InStep

LEMMA DriveTyped ==
  /\ Idle \in DriveType /\ Failed \in DriveType
  /\ Idle.cmd = "none" /\ Failed.cmd = "none" /\ ~ Idle.drq /\ ~ Failed.drq
  /\ ~ Idle.bsy /\ ~ Failed.bsy
<1>1. <<0, 0>> \in Data  BY DEF Data
<1>2. Idle \in DriveType /\ Idle.cmd = "none" /\ ~ Idle.drq /\ ~ Idle.bsy
  BY <1>1 DEF Idle, DriveType, NoData
<1>3. ASSUME NEW b \in BOOLEAN
      PROVE  /\ [Idle EXCEPT !.err = b] \in DriveType
             /\ [Idle EXCEPT !.err = b].cmd = Idle.cmd
             /\ [Idle EXCEPT !.err = b].drq = Idle.drq
             /\ [Idle EXCEPT !.err = b].bsy = Idle.bsy
  BY <1>2 DEF DriveType
<1>4. Failed \in DriveType /\ Failed.cmd = "none" /\ ~ Failed.drq /\ ~ Failed.bsy
  BY <1>2, <1>3 DEF Failed
<1> QED  BY <1>2, <1>4

LEMMA BusyTyped ==
  ASSUME NEW cmd \in {"reset", "identify", "read", "write", "store", "flush"},
         NEW lba \in Nat, NEW n \in Int
  PROVE  /\ Busy(cmd, lba, n) \in DriveType
         /\ Busy(cmd, lba, n).cmd = cmd /\ Busy(cmd, lba, n).bsy /\ ~ Busy(cmd, lba, n).drq
         /\ Busy(cmd, lba, n).lba = lba /\ Busy(cmd, lba, n).left = n
BY DEF Busy, Idle, DriveType, NoData, Data

LEMMA InitIInv == Init => IInv
<1> SUFFICES ASSUME Init PROVE IInv  OBVIOUS
<1>1. TypeOK  BY DriveTyped DEF Init, TypeOK, NoData, Data
<1> QED  BY <1>1, DriveTyped DEF Init, IInv, Storing, Expecting, InStep

(* A reset takes the place of what the drive was doing. *)
LEMMA Reset ==
  ASSUME IInv, ata_soft_reset
  PROVE  /\ drive' \in DriveType /\ ~ drive'.drq
         /\ drive'.cmd \in {"reset", "none"} /\ (kind = "none" => drive'.cmd = "none")
         /\ pc' = "reset"
<1>1. pc' = "reset"  BY DEF ata_soft_reset, WaitIn
<1>2. CASE kind = "none"
  BY <1>1, <1>2 DEF ata_soft_reset, IInv, TypeOK, InStep
<1>3. CASE kind # "none"
  <2>1. drive' = Busy("reset", 0, 0)  BY <1>3 DEF ata_soft_reset
  <2> QED  BY <1>1, <1>3, <2>1, BusyTyped
<1> QED  BY <1>2, <1>3

LEMMA AnswersIInv == ASSUME IInv, DriveAnswers PROVE IInv'
<1> USE DEF IInv
<1>1. kind # "none" /\ drive.bsy /\ UNCHANGED <<kind, driver>>  BY DEF DriveAnswers
<1>2. UNCHANGED <<pc, call, s>>  BY <1>1 DEF driver
<1>3. CASE drive' \in {Idle, Failed} /\ medium' \in [Sector -> Data]
  BY <1>1, <1>2, <1>3, DriveTyped DEF TypeOK, Storing, Expecting, InStep
<1>4. CASE drive.cmd \in {"identify", "read", "write"} /\ drive' = Ready /\ UNCHANGED medium
  <2>1. /\ drive' \in DriveType /\ drive'.cmd = drive.cmd /\ drive'.lba = drive.lba
        /\ drive'.left = drive.left
    BY <1>4 DEF Ready, TypeOK, DriveType
  <2> QED  BY <1>1, <1>2, <1>4, <2>1 DEF TypeOK, Storing, Expecting, InStep
<1>5. CASE /\ drive.cmd = "store" /\ drive.left # 1
           /\ medium' \in [Sector -> Data] /\ drive' = Advance("write")
  <2>1. drive.lba + 1 \in Nat /\ drive.left - 1 \in Int  BY DEF TypeOK, DriveType
  <2>2. /\ drive' \in DriveType /\ drive'.cmd = "write" /\ ~ drive'.drq
        /\ drive'.lba = drive.lba + 1 /\ drive'.left = drive.left - 1
    BY <1>5, <2>1, BusyTyped DEF Advance
  <2>3. pc = "drq" /\ s < call.count  BY <1>5 DEF Storing, TypeOK
  <2> QED  BY <1>1, <1>2, <1>5, <2>2, <2>3 DEF TypeOK, Storing, Expecting, InStep
<1>6. drive.cmd = "store" => [medium EXCEPT ![drive.lba] = drive.data] \in [Sector -> Data]
  BY DEF TypeOK, DriveType
<1>7. medium \in [Sector -> Data]  BY DEF TypeOK
<1> QED  BY <1>3, <1>4, <1>5, <1>6, <1>7 DEF DriveAnswers

LEMMA StartIInv == ASSUME IInv, StartAttempt PROVE IInv'
<1> USE DEF IInv
<1>1. /\ pc = "start" /\ kind # "none" /\ ~ drive.bsy
      /\ s' = 0 /\ pc' = "drq" /\ UNCHANGED <<kind, medium, call>>
      /\ drive' = Busy(call.op, call.lba, call.count)
  BY DEF StartAttempt, InVain, StatusBusy, WaitIn, Command
<1>2. /\ call.op \in {"read", "write"} /\ call.lba \in Nat /\ call.count \in Nat
      /\ call.count > 0
  BY <1>1 DEF TypeOK, InStep
<1>3. /\ drive' \in DriveType /\ drive'.cmd = call.op /\ ~ drive'.drq
      /\ drive'.lba = call.lba /\ drive'.left = call.count
  BY <1>1, <1>2, BusyTyped
<1> QED  BY <1>1, <1>2, <1>3 DEF TypeOK, Storing, Expecting, InStep

LEMMA ReadIInv == ASSUME IInv, ata_pio_read_sector PROVE IInv'
<1> USE DEF IInv
<1>1. /\ pc = "drq" /\ call.op = "read" /\ kind # "none" /\ ~ drive.bsy
      /\ s' = s + 1 /\ pc' \in {"idle", "drq"} /\ UNCHANGED <<kind, medium, call>>
      /\ drive' = Idle \/ drive' = Busy("read", drive.lba + 1, drive.left - 1)
  BY DEF ata_pio_read_sector, InVain, StatusBusy, WaitIn, Return, Advance
<1>2. drive.lba + 1 \in Nat /\ drive.left - 1 \in Int /\ s' \in Nat
  BY <1>1 DEF TypeOK, DriveType
<1>3. drive' \in DriveType /\ drive'.cmd \in {"none", "read"} /\ ~ drive'.drq
  BY <1>1, <1>2, DriveTyped, BusyTyped
<1> QED  BY <1>1, <1>2, <1>3 DEF TypeOK, Storing, Expecting, InStep

LEMMA WriteIInv == ASSUME IInv, ata_pio_write_sector PROVE IInv'
<1> USE DEF IInv
<1>1. /\ pc = "drq" /\ call.op = "write" /\ kind # "none" /\ ~ drive.bsy /\ drive.drq
      /\ s' = s + 1 /\ pc' = (IF s + 1 = call.count THEN "flush_cmd" ELSE "drq")
      /\ UNCHANGED <<kind, medium, call>>
      /\ drive' = [Busy("store", drive.lba, drive.left) EXCEPT !.data = <<call.tag, s>>]
  BY DEF ata_pio_write_sector, InVain, StatusBusy, WaitIn
<1>2. drive.cmd = "write"  BY <1>1 DEF InStep
<1>3. s < call.count /\ drive.lba = call.lba + s /\ drive.left = call.count - s
  BY <1>2 DEF Expecting
<1>4. drive.lba \in Nat /\ drive.left \in Int /\ s \in Nat /\ call.count \in Nat
      /\ call.lba \in Nat /\ <<call.tag, s>> \in Data
  BY DEF TypeOK, DriveType, Data
<1>5. /\ drive' \in DriveType /\ drive'.cmd = "store" /\ drive'.bsy /\ ~ drive'.drq
      /\ drive'.lba = drive.lba /\ drive'.left = drive.left
      /\ drive'.data = <<call.tag, s>>
  BY <1>1, <1>4, BusyTyped DEF DriveType
<1>6. s' - 1 = s /\ s' \in Nat  BY <1>1, <1>4
<1>7. TypeOK'  BY <1>1, <1>5, <1>6 DEF TypeOK
<1>8. drive'.data = <<call'.tag, s' - 1>>  BY <1>1, <1>5, <1>6
<1>9. /\ pc' \in {"drq", "flush_cmd", "flush"} /\ (pc' # "drq" => s' = call'.count)
      /\ s' >= 1 /\ s' <= call'.count
      /\ drive'.lba = call'.lba + s' - 1 /\ drive'.left = call'.count - s' + 1
  BY <1>1, <1>3, <1>4, <1>5
<1>10. Storing'  BY <1>1, <1>5, <1>8, <1>9 DEF Storing
<1>11. Expecting' /\ InStep'  BY <1>1, <1>5 DEF Expecting, InStep
<1> QED  BY <1>7, <1>10, <1>11

LEMMA FlushIInv == ASSUME IInv, Flush PROVE IInv'
<1> USE DEF IInv
<1>1. /\ pc = "flush_cmd" /\ pc' = "flush" /\ UNCHANGED <<kind, medium, call, s>>
      /\ drive' = Command("flush", 0, 0)
  BY DEF Flush, WaitIn
<1>2. CASE kind = "none" \/ drive.bsy
  <2>1. drive' = drive  BY <1>1, <1>2 DEF Command
  <2> QED  BY <1>1, <2>1 DEF TypeOK, Storing, Expecting, InStep
<1>3. CASE ~ (kind = "none" \/ drive.bsy)
  <2>1. drive' = Busy("flush", 0, 0)  BY <1>1, <1>3 DEF Command
  <2>2. drive' \in DriveType /\ drive'.cmd = "flush" /\ ~ drive'.drq
    BY <2>1, BusyTyped
  <2> QED  BY <1>1, <1>3, <2>2 DEF TypeOK, Storing, Expecting, InStep
<1> QED  BY <1>2, <1>3

LEMMA IdentifyIInv ==
  ASSUME IInv, ata_identify_master \/ IdentifyNotBusy \/ IdentifyDrain \/ IdentifyFails
  PROVE  IInv'
<1> USE DEF IInv
<1>1. CASE ata_identify_master
  <2>1. /\ pc = "reset" /\ call.op = "init" /\ pc' \in {"idle", "id_busy"}
        /\ UNCHANGED <<kind, medium, call, s>> /\ drive' = Command("identify", 0, 1)
    BY <1>1 DEF ata_identify_master, Return, WaitIn
  <2>2. CASE kind = "none" \/ drive.bsy
    <3>1. drive' = drive  BY <2>1, <2>2 DEF Command
    <3> QED  BY <2>1, <3>1 DEF TypeOK, Storing, Expecting, InStep
  <2>3. CASE ~ (kind = "none" \/ drive.bsy)
    <3>1. drive' = Busy("identify", 0, 1)  BY <2>1, <2>3 DEF Command
    <3>2. drive' \in DriveType /\ drive'.cmd = "identify" /\ ~ drive'.drq
      BY <3>1, BusyTyped
    <3> QED  BY <2>1, <2>3, <3>2 DEF TypeOK, Storing, Expecting, InStep
  <2> QED  BY <2>2, <2>3
<1>2. CASE IdentifyNotBusy
  BY <1>2 DEF IdentifyNotBusy, Return, WaitIn, bus, TypeOK, Storing, Expecting, InStep
<1>3. CASE IdentifyDrain
  BY <1>3, DriveTyped DEF IdentifyDrain, Return, WaitIn, TypeOK, Storing, Expecting, InStep
<1>4. CASE IdentifyFails
  BY <1>4 DEF IdentifyFails, Return, WaitIn, bus, TypeOK, Storing, Expecting, InStep
<1> QED  BY <1>1, <1>2, <1>3, <1>4

LEMMA NextIInv == IInv /\ [Next]_vars => IInv'
<1> SUFFICES ASSUME IInv, [Next]_vars PROVE IInv'  OBVIOUS
<1> USE DEF IInv
<1>1. CASE DriveAnswers  BY <1>1, AnswersIInv
<1>2. CASE Destage
  BY <1>2 DEF Destage, driver, TypeOK, Storing, Expecting, InStep
<1>3. CASE ata_init
  <2>1. /\ UNCHANGED <<kind, medium, s>> /\ ata_soft_reset
        /\ call' = [op |-> "init", lba |-> 0, count |-> 1, tag |-> 0]
    BY <1>3 DEF ata_init
  <2>2. /\ drive' \in DriveType /\ ~ drive'.drq
        /\ drive'.cmd \in {"reset", "none"} /\ (kind = "none" => drive'.cmd = "none")
        /\ pc' = "reset"
    BY <2>1, Reset
  <2> QED  BY <2>1, <2>2 DEF TypeOK, Storing, Expecting, InStep
<1>4. ASSUME NEW op \in {"read", "write"}, NEW lba \in Nat, NEW count \in Nat,
             NEW tag \in Tag \cup {0}, Call(op, lba, count, tag)
      PROVE  IInv'
  <2>1. /\ pc = "idle" /\ UNCHANGED <<kind, drive, medium, s>>
        /\ call' = [op |-> op, lba |-> lba, count |-> count, tag |-> tag]
        /\ pc' = "idle" \/ (pc' = "start" /\ count # 0)
    BY <1>4 DEF Call, Return, WaitIn, bus
  <2> QED  BY <1>4, <2>1 DEF TypeOK, Storing, Expecting, InStep
<1>5. CASE LookAgain
  BY <1>5 DEF LookAgain, bus, TypeOK, Storing, Expecting, InStep
<1>6. CASE ata_identify_master \/ IdentifyNotBusy \/ IdentifyDrain \/ IdentifyFails
  BY <1>6, IdentifyIInv
<1>7. CASE StartAttempt  BY <1>7, StartIInv
<1>8. CASE ata_pio_read_sector  BY <1>8, ReadIInv
<1>9. CASE ata_pio_write_sector  BY <1>9, WriteIInv
<1>10. CASE Flush  BY <1>10, FlushIInv
<1>11. CASE FlushNotBusy
  <2>1. /\ pc = "flush" /\ ~ drive.bsy /\ pc' = "idle"
        /\ UNCHANGED <<kind, drive, medium, call, s>>
    BY <1>11 DEF FlushNotBusy, InVain, StatusBusy, Return, WaitIn, bus
  <2> QED  BY <2>1 DEF TypeOK, Storing, Expecting, InStep
<1>12. CASE AttemptFails
  <2>1. /\ pc \in {"start", "drq", "flush"} /\ UNCHANGED <<kind, medium, call, s>>
        /\ ata_soft_reset
    BY <1>12 DEF AttemptFails
  <2>2. /\ drive' \in DriveType /\ ~ drive'.drq
        /\ drive'.cmd \in {"reset", "none"} /\ (kind = "none" => drive'.cmd = "none")
        /\ pc' = "reset"
    BY <2>1, Reset
  <2> QED  BY <2>1, <2>2 DEF TypeOK, Storing, Expecting, InStep
<1>13. CASE AfterReset
  BY <1>13 DEF AfterReset, Return, WaitIn, bus, TypeOK, Storing, Expecting, InStep
<1>14. CASE UNCHANGED vars
  BY <1>14 DEF vars, bus, driver, TypeOK, Storing, Expecting, InStep
<1>15. \A lba \in 0 .. ATA_MAX_LBA28 + 1, count \in 0 .. MaxCount : lba \in Nat /\ count \in Nat
  BY AtaAssumption
<1>16. ASSUME NEW lba \in 0 .. ATA_MAX_LBA28 + 1, NEW count \in 0 .. MaxCount,
              \/ Call("read", lba, count, 0)
              \/ \E tag \in Tag : Call("write", lba, count, tag)
       PROVE  IInv'
  BY <1>4, <1>15, <1>16
<1> QED
  BY <1>1, <1>2, <1>3, <1>5, <1>6, <1>7, <1>8, <1>9, <1>10, <1>11, <1>12, <1>13, <1>14, <1>16
  DEF Next, Driver

(* Only the drive writes to the medium, and only a sector of the current   *)
(* call with that call's data for it.                                      *)
LEMMA MediumStep ==
  ASSUME IInv, [Next]_vars, NEW x \in Sector, medium'[x] # medium[x]
  PROVE  /\ pc # "idle" /\ call.op = "write" /\ x \in Span(call)
         /\ medium'[x] = <<call.tag, x - call.lba>>
<1>1. CASE medium' = medium  BY <1>1
<1>2. CASE drive.cmd = "store" /\ medium' = [medium EXCEPT ![drive.lba] = drive.data]
  <2>1. medium \in [Sector -> Data]  BY DEF IInv, TypeOK
  <2>2. x = drive.lba /\ medium'[x] = drive.data  BY <1>2, <2>1
  <2>3. /\ call.op = "write" /\ pc \in {"drq", "flush_cmd", "flush"}
        /\ s >= 1 /\ s <= call.count /\ drive.lba = call.lba + s - 1
        /\ drive.data = <<call.tag, s - 1>>
    BY <1>2 DEF IInv, Storing
  <2>4. s \in Nat /\ call.lba \in Nat /\ call.count \in Nat  BY DEF IInv, TypeOK
  <2>5. x \in Span(call)  BY <2>2, <2>3, <2>4 DEF Span
  <2>6. x - call.lba = s - 1  BY <2>2, <2>3, <2>4
  <2> QED  BY <2>2, <2>3, <2>5, <2>6
<1>3. CASE DriveAnswers  BY <1>1, <1>2, <1>3 DEF DriveAnswers
<1>4. CASE Destage \/ ata_init \/ LookAgain \/ AfterReset \/ AttemptFails \/ UNCHANGED vars
  BY <1>1, <1>4 DEF Destage, ata_init, LookAgain, AfterReset, AttemptFails, vars, bus
<1>5. CASE ata_identify_master \/ IdentifyNotBusy \/ IdentifyDrain \/ IdentifyFails
  BY <1>1, <1>5 DEF ata_identify_master, IdentifyNotBusy, IdentifyDrain, IdentifyFails, bus
<1>6. CASE StartAttempt \/ ata_pio_read_sector \/ ata_pio_write_sector \/ Flush \/ FlushNotBusy
  BY <1>1, <1>6
  DEF StartAttempt, ata_pio_read_sector, ata_pio_write_sector, Flush, FlushNotBusy, bus
<1>7. ASSUME NEW op, NEW lba, NEW count, NEW tag, Call(op, lba, count, tag)
      PROVE  medium' = medium
  BY <1>7 DEF Call, bus
<1> QED  BY <1>1, <1>3, <1>4, <1>5, <1>6, <1>7 DEF Next, Driver

(* A sector changes only to what the caller of a write has for it: no      *)
(* retry and no late answer of the drive puts data elsewhere, and none     *)
(* after the call has returned.                                            *)
THEOREM MediumSafe == Spec => []TypeOK /\ OnlyWhatWasWritten
<1>1. IInv /\ [Next]_vars =>
        [\A x \in Sector : medium'[x] # medium[x] =>
           /\ pc # "idle" /\ call.op = "write" /\ x \in Span(call)
           /\ medium'[x] = <<call.tag, x - call.lba>>]_vars
  BY MediumStep
<1>2. IInv => TypeOK  BY DEF IInv
<1> QED  BY <1>1, <1>2, InitIInv, NextIInv, PTL DEF Spec, OnlyWhatWasWritten

-----------------------------------------------------------------------------
(* What a call has moved so far. *)

(* The first n sectors of the current call are the caller's. *)
Got(n) ==
  \A i \in 0 .. n - 1 : call.lba + i \in Sector /\ buffer[i] = medium[call.lba + i]

Stored(n) ==
  \A i \in 0 .. n - 1 : call.lba + i \in Sector /\ medium[call.lba + i] = <<call.tag, i>>

(* The drive offers a sector that exists, for a buffer with room for it,   *)
(* and is the one that the driver talks to.                                *)
InBounds ==
  /\ drive.drq => drive.lba \in Sector
  /\ call.count <= MaxCount \/ call.op = "init"
  /\ call.op # "init" => buffer \in [0 .. MaxCount - 1 -> Data]
  /\ pc \in {"drq", "flush_cmd", "flush"} => kind # "none"
  /\ pc \in {"id_busy", "id_drq"} => call.op = "init"
  /\ pc = "reset" => drive.cmd \in {"none", "reset"}

(* A read has the sectors before the one that the drive reads next. *)
Reading ==
  /\ drive.cmd = "read" =>
       /\ pc = "drq" /\ call.op = "read" /\ s < call.count
       /\ drive.lba = call.lba + s /\ drive.left = call.count - s
  /\ pc = "drq" /\ call.op = "read" => Got(s)
  /\ pc = "idle" /\ call.op = "read" /\ result = 0 => Got(call.count)

(* A write has stored the sectors before the one that the drive works on,  *)
(* and all of them once the drive is past the last one without an error.   *)
Writing ==
  /\ drive.cmd = "store" => drive.lba \in Sector /\ Stored(s - 1)
  /\ drive.cmd = "write" => Stored(s)
  /\ pc = "flush_cmd" /\ ~ late => drive.cmd = "store" \/ Stored(call.count)
  /\ pc \in {"flush_cmd", "flush"} => call.op = "write"
  /\ pc = "idle" /\ call.op = "write" /\ result = 0 /\ ~ late => Stored(call.count)

(* The cache is empty of the call's sectors once a flush was answered. *)
Flushing ==
  /\ drive.cmd = "flush" => drive.bsy /\ pc = "flush"
  /\ pc = "flush" /\ ~ late =>
       /\ Stored(call.count)
       /\ drive.cmd = "flush" \/ (drive.cmd = "none" /\ Span(call) \cap cached = {})
  /\ pc = "idle" /\ call.op = "write" /\ result = 0 /\ ~ late =>
       Span(call) \cap cached = {}

EInv == IInv /\ InBounds /\ Reading /\ Writing /\ Flushing

LEMMA InitEInv == Init => EInv
<1> SUFFICES ASSUME Init PROVE EInv  OBVIOUS
<1> QED  BY InitIInv, DriveTyped
         DEF Init, EInv, InBounds, Reading, Writing, Flushing

(* A step that leaves the bus, the call and the buffer alone. *)
LEMMA QuietEInv ==
  ASSUME EInv, IInv', UNCHANGED <<kind, drive, medium, cached, late, call, s, buffer>>,
         \/ pc' = pc /\ result' = result
         \/ pc = "id_busy" /\ pc' = "id_drq"
         \/ pc = "reset" /\ pc' = "start"
         \/ pc \in {"id_busy", "id_drq", "reset"} /\ pc' = "idle" /\ result' = -1
  PROVE  EInv'
<1>1. InBounds'  BY DEF EInv, InBounds
<1>2. Reading'
  <2>1. (Got(s)' <=> Got(s)) /\ (Got(call.count)' <=> Got(call.count))  BY DEF Got
  <2>2. ~ (-1 = 0)  OBVIOUS
  <2> QED  BY <2>1, <2>2 DEF EInv, Reading
<1>3. Writing' /\ Flushing'
  <2>1. /\ Stored(s)' <=> Stored(s)
        /\ Stored(s - 1)' <=> Stored(s - 1)
        /\ Stored(call.count)' <=> Stored(call.count)
    BY DEF Stored
  <2>2. ~ (-1 = 0)  OBVIOUS
  <2>3. Writing'  BY <2>1, <2>2 DEF EInv, Writing
  <2>4. Flushing'  BY <2>1, <2>2 DEF EInv, Flushing, Span
  <2> QED  BY <2>3, <2>4
<1> QED  BY <1>1, <1>2, <1>3 DEF EInv

(* The drive takes up a reset, or a command of ata_init. *)
LEMMA ResetEInv ==
  ASSUME EInv, IInv', UNCHANGED <<kind, medium, cached, late, s, buffer>>,
         drive'.cmd \in {"none", "reset", "identify"}, ~ drive'.drq,
         pc' \in {"reset", "id_busy", "idle"}, pc' # "reset" => call'.op = "init",
         pc' = "reset" => drive'.cmd # "identify", call'.op = "init" \/ call' = call
  PROVE  EInv'
<1>1. InBounds'  BY DEF EInv, InBounds
<1>2. Reading' /\ Writing' /\ Flushing'
  BY DEF Reading, Writing, Flushing
<1> QED  BY <1>1, <1>2 DEF EInv

LEMMA CallEInv ==
  ASSUME EInv, IInv', NEW op \in {"read", "write"}, NEW lba \in Nat,
         NEW count \in 0 .. MaxCount, NEW tag, Call(op, lba, count, tag)
  PROVE  EInv'
<1>1. /\ pc = "idle" /\ UNCHANGED <<kind, drive, medium, cached, late, s>>
      /\ call' = [op |-> op, lba |-> lba, count |-> count, tag |-> tag]
      /\ buffer' = [i \in 0 .. MaxCount - 1 |-> NoData]
      /\ pc' = "start" \/ (pc' = "idle" /\ result' = -1)
  BY DEF Call, Return, WaitIn, bus
<1>2. <<0, 0>> \in Data  BY DEF Data
<1>3. buffer' \in [0 .. MaxCount - 1 -> Data]  BY <1>1, <1>2 DEF NoData
<1>4. call'.count <= MaxCount  BY <1>1, AtaAssumption
<1>5. drive.cmd \notin {"read", "write", "store", "flush"}
  BY <1>1 DEF EInv, IInv, Storing, Expecting, Reading, Flushing
<1>6. InBounds'  BY <1>1, <1>3, <1>4 DEF EInv, InBounds
<1>7. Reading' /\ Writing' /\ Flushing'
  BY <1>1, <1>5 DEF Reading, Writing, Flushing
<1> QED  BY <1>6, <1>7 DEF EInv

LEMMA StartEInv == ASSUME EInv, IInv', StartAttempt PROVE EInv'
<1>1. /\ pc = "start" /\ kind # "none" /\ ~ drive.bsy
      /\ s' = 0 /\ pc' = "drq" /\ UNCHANGED <<kind, medium, call, cached, buffer>>
      /\ drive' = Busy(call.op, call.lba, call.count)
  BY DEF StartAttempt, InVain, StatusBusy, WaitIn, Command
<1>2. /\ call.op \in {"read", "write"} /\ call.lba \in Nat /\ call.count \in Nat
      /\ call.count > 0
  BY <1>1 DEF EInv, IInv, TypeOK, InStep
<1>3. /\ drive'.cmd = call.op /\ ~ drive'.drq
      /\ drive'.lba = call.lba /\ drive'.left = call.count
  BY <1>1, <1>2, BusyTyped
<1>4. InBounds'  BY <1>1, <1>3 DEF EInv, InBounds
<1>5. 0 .. s' - 1 = {}  BY <1>1
<1>6. Got(s)' /\ Stored(s)'  BY <1>5 DEF Got, Stored
<1>7. Reading'  BY <1>1, <1>2, <1>3, <1>6 DEF Reading
<1>8. Writing' /\ Flushing'  BY <1>1, <1>2, <1>3, <1>6 DEF Writing, Flushing
<1> QED  BY <1>4, <1>7, <1>8 DEF EInv

(* A sector more has come in. *)
LEMMA ReadEInv == ASSUME EInv, IInv', ata_pio_read_sector PROVE EInv'
<1>1. /\ pc = "drq" /\ call.op = "read" /\ kind # "none" /\ ~ drive.bsy /\ drive.drq
      /\ buffer' = [buffer EXCEPT ![s] = medium[drive.lba]]
      /\ s' = s + 1 /\ UNCHANGED <<kind, medium, call, cached, late>>
      /\ drive' = IF drive.left = 1 THEN Idle ELSE Advance("read")
      /\ pc' = IF s + 1 = call.count THEN "idle" ELSE "drq"
  BY DEF ata_pio_read_sector, InVain, StatusBusy, WaitIn, Return
<1>2. drive.cmd = "read"  BY <1>1 DEF EInv, IInv, InStep
<1>3. s < call.count /\ drive.lba = call.lba + s /\ drive.left = call.count - s
  BY <1>2 DEF EInv, Reading
<1>4. s \in Nat /\ call.lba \in Nat /\ call.count \in Nat /\ drive.lba \in Nat
      /\ medium \in [Sector -> Data] /\ call.count <= MaxCount /\ MaxCount \in Nat
      /\ buffer \in [0 .. MaxCount - 1 -> Data] /\ drive.lba \in Sector
  BY <1>1, AtaAssumption DEF EInv, IInv, TypeOK, InBounds, DriveType
<1>5. s \in 0 .. MaxCount - 1  BY <1>3, <1>4
<1>6. /\ buffer' \in [0 .. MaxCount - 1 -> Data] /\ buffer'[s] = medium[call.lba + s]
      /\ \A i \in 0 .. MaxCount - 1 : i # s => buffer'[i] = buffer[i]
  BY <1>1, <1>3, <1>4, <1>5
<1>7. /\ ~ drive'.drq
      /\ drive'.cmd = "none" \/ /\ drive'.cmd = "read" /\ s + 1 < call.count
                                /\ drive'.lba = call.lba + (s + 1)
                                /\ drive'.left = call.count - (s + 1)
  <2>1. CASE drive.left = 1  BY <1>1, <2>1, DriveTyped
  <2>2. CASE drive.left # 1
    <3>1. drive.lba + 1 \in Nat /\ drive.left - 1 \in Int  BY <1>3, <1>4
    <3>2. /\ ~ drive'.drq /\ drive'.cmd = "read" /\ drive'.lba = drive.lba + 1
          /\ drive'.left = drive.left - 1
      BY <1>1, <2>2, <3>1, BusyTyped DEF Advance
    <3> QED  BY <1>3, <1>4, <2>2, <3>2, SMTT(30)
  <2> QED  BY <2>1, <2>2
<1>8. Got(s)  BY <1>1 DEF EInv, Reading
<1>9. Got(s)'
  <2> SUFFICES ASSUME NEW i \in 0 .. s' - 1
               PROVE  call'.lba + i \in Sector /\ buffer'[i] = medium'[call'.lba + i]
    BY DEF Got
  <2>1. CASE i = s  BY <1>1, <1>3, <1>4, <1>6, <2>1
  <2>2. CASE i # s
    <3>1. i \in 0 .. s - 1 /\ i \in 0 .. MaxCount - 1  BY <1>1, <1>3, <1>4, <2>2
    <3> QED  BY <1>1, <1>6, <1>8, <2>2, <3>1 DEF Got
  <2> QED  BY <2>1, <2>2
<1>10. InBounds'  BY <1>1, <1>4, <1>6, <1>7 DEF EInv, InBounds
<1>11. pc' = "idle" => s' = call'.count  BY <1>1
<1>12. Reading'
  <2>1. pc' # "drq" => drive'.cmd = "none"  BY <1>1, <1>4, <1>7
  <2> QED  BY <1>1, <1>7, <1>9, <1>11, <2>1 DEF Reading
<1>13. Writing' /\ Flushing'  BY <1>1, <1>7 DEF Writing, Flushing
<1> QED  BY <1>10, <1>12, <1>13 DEF EInv

(* The driver hands over the sector that the drive asks for. *)
LEMMA WriteEInv == ASSUME EInv, IInv', ata_pio_write_sector PROVE EInv'
<1>1. /\ pc = "drq" /\ call.op = "write" /\ kind # "none" /\ drive.drq
      /\ s' = s + 1 /\ pc' \in {"flush_cmd", "drq"}
      /\ UNCHANGED <<kind, medium, call, buffer>>
      /\ drive' = [Busy("store", drive.lba, drive.left) EXCEPT !.data = <<call.tag, s>>]
  BY DEF ata_pio_write_sector, InVain, StatusBusy, WaitIn
<1>2. drive.cmd = "write"  BY <1>1 DEF EInv, IInv, InStep
<1>3. drive.lba \in Nat /\ drive.left \in Int /\ s \in Nat /\ drive.lba \in Sector
  BY <1>1 DEF EInv, IInv, TypeOK, DriveType, InBounds
<1>4. drive'.cmd = "store" /\ ~ drive'.drq /\ drive'.lba = drive.lba
  BY <1>1, <1>3, BusyTyped DEF DriveType
<1>5. Stored(s)  BY <1>2 DEF EInv, Writing
<1>6. s' - 1 = s  BY <1>1, <1>3
<1>7. Stored(s - 1)'  BY <1>1, <1>5, <1>6 DEF Stored
<1>8. InBounds'  BY <1>1, <1>4 DEF EInv, InBounds
<1>9. Reading' /\ Flushing'  BY <1>1, <1>4 DEF Reading, Flushing
<1>10. Writing'  BY <1>1, <1>3, <1>4, <1>7 DEF Writing
<1> QED  BY <1>8, <1>9, <1>10 DEF EInv

(* A flush that the drive does not take is late. *)
LEMMA FlushEInv == ASSUME EInv, IInv', Flush PROVE EInv'
<1>1. /\ pc = "flush_cmd" /\ pc' = "flush"
      /\ UNCHANGED <<kind, medium, cached, call, s, buffer>>
      /\ drive' = Command("flush", 0, 0) /\ late' = (late \/ drive.bsy)
  BY DEF Flush, WaitIn
<1>2. call.op = "write" /\ kind # "none"  BY <1>1 DEF EInv, Writing, InBounds
<1>3. drive.cmd = "store" => drive.bsy  BY DEF EInv, IInv, Storing
<1>4. Stored(call.count)' <=> Stored(call.count)  BY <1>1 DEF Stored
<1>5. CASE drive.bsy
  <2>1. drive' = drive /\ late'  BY <1>1, <1>5 DEF Command
  <2>2. InBounds'  BY <1>1, <1>2, <2>1 DEF EInv, InBounds
  <2>3. drive.cmd \notin {"read", "write", "flush"}
    BY <1>1 DEF EInv, IInv, Expecting, Reading, Flushing
  <2>4. Stored(s - 1)' <=> Stored(s - 1)  BY <1>1 DEF Stored
  <2>5. Reading' /\ Flushing'  BY <1>1, <1>2, <2>1, <2>3 DEF Reading, Flushing
  <2>6. Writing'  BY <1>1, <1>2, <2>1, <2>3, <2>4 DEF EInv, Writing
  <2> QED  BY <2>2, <2>5, <2>6 DEF EInv
<1>6. CASE ~ drive.bsy
  <2>1. drive' = Busy("flush", 0, 0)  BY <1>1, <1>2, <1>6 DEF Command
  <2>2. drive'.cmd = "flush" /\ drive'.bsy /\ ~ drive'.drq  BY <2>1, BusyTyped
  <2>3. ~ late' => Stored(call.count)'  BY <1>1, <1>3, <1>4, <1>6 DEF EInv, Writing
  <2>4. InBounds'  BY <1>1, <1>2, <2>2 DEF EInv, InBounds
  <2>5. Reading' /\ Writing'  BY <1>1, <1>2, <2>2 DEF Reading, Writing
  <2>6. Flushing'  BY <1>1, <2>2, <2>3 DEF Flushing
  <2> QED  BY <2>4, <2>5, <2>6 DEF EInv
<1> QED  BY <1>5, <1>6

LEMMA FlushedEInv == ASSUME EInv, IInv', FlushNotBusy PROVE EInv'
<1>1. /\ pc = "flush" /\ ~ drive.bsy /\ pc' = "idle"
      /\ UNCHANGED <<kind, drive, medium, cached, late, call, s, buffer>>
  BY DEF FlushNotBusy, InVain, StatusBusy, Return, WaitIn, bus
<1>2. call.op = "write"  BY <1>1 DEF EInv, Writing
<1>3. drive.cmd \notin {"read", "write", "store", "flush"}
  BY <1>1 DEF EInv, IInv, Expecting, Storing, Reading, Flushing
<1>4. ~ late => Stored(call.count) /\ Span(call) \cap cached = {}
  BY <1>1, <1>3 DEF EInv, Flushing
<1>5. Stored(call.count)' <=> Stored(call.count)  BY <1>1 DEF Stored
<1>6. InBounds'  BY <1>1 DEF EInv, InBounds
<1>7. Reading' /\ Writing' /\ Flushing'
  BY <1>1, <1>2, <1>3, <1>4, <1>5 DEF Reading, Writing, Flushing, Span
<1> QED  BY <1>6, <1>7 DEF EInv

(* The drive has written the sector that it was given. *)
LEMMA StoreEInv ==
  ASSUME EInv, IInv', UNCHANGED <<kind, pc, call, s, buffer, result, late>>,
         drive.cmd = "store", medium' = [medium EXCEPT ![drive.lba] = drive.data],
         drive' = IF drive.left = 1 THEN Idle ELSE Advance("write")
  PROVE  EInv'
<1>1. /\ call.op = "write" /\ pc \in {"drq", "flush_cmd", "flush"}
      /\ pc # "drq" => s = call.count
      /\ s >= 1 /\ s <= call.count /\ drive.lba = call.lba + s - 1
      /\ drive.left = call.count - s + 1 /\ drive.data = <<call.tag, s - 1>>
  BY DEF EInv, IInv, Storing
<1>2. /\ s \in Nat /\ call.lba \in Nat /\ call.count \in Nat
      /\ medium \in [Sector -> Data] /\ drive.lba \in Sector
      /\ drive.lba \in Nat /\ drive.left \in Int
  BY DEF EInv, IInv, TypeOK, DriveType, Writing
<1>3. Stored(s - 1)  BY DEF EInv, Writing
<1>4. Stored(s)'
  <2> SUFFICES ASSUME NEW i \in 0 .. s - 1
               PROVE  call.lba + i \in Sector /\ medium'[call.lba + i] = <<call.tag, i>>
    BY DEF Stored
  <2>1. CASE i = s - 1
    <3>1. call.lba + i = drive.lba  BY <1>1, <1>2, <2>1
    <3>2. medium'[drive.lba] = drive.data  BY <1>2
    <3> QED  BY <1>1, <1>2, <2>1, <3>1, <3>2
  <2>2. CASE i # s - 1
    <3>1. i \in 0 .. (s - 1) - 1 /\ call.lba + i # drive.lba  BY <1>1, <1>2, <2>2
    <3>2. call.lba + i \in Sector /\ medium[call.lba + i] = <<call.tag, i>>
      BY <1>3, <3>1 DEF Stored
    <3> QED  BY <1>2, <3>1, <3>2
  <2> QED  BY <2>1, <2>2
<1>5. ~ drive'.drq /\ drive'.cmd \in {"none", "write"}
  <2>1. drive.lba + 1 \in Nat /\ drive.left - 1 \in Int  BY <1>2
  <2> QED  BY <2>1, DriveTyped, BusyTyped DEF Advance
<1>6. pc # "drq" => Stored(call.count)'  BY <1>1, <1>4 DEF Stored
<1>7. InBounds'  BY <1>5 DEF EInv, InBounds
<1>8. Reading'  BY <1>1, <1>5 DEF Reading
<1>9. Writing'  BY <1>1, <1>4, <1>5, <1>6 DEF Writing
<1>10. pc = "flush" => late  BY DEF EInv, Flushing
<1>11. Flushing'  BY <1>1, <1>5, <1>10 DEF Flushing
<1> QED  BY <1>7, <1>8, <1>9, <1>11 DEF EInv

LEMMA AnswersEInv == ASSUME EInv, IInv', DriveAnswers PROVE EInv'
<1>1. UNCHANGED <<kind, pc, call, s, buffer, result>> /\ kind # "none"
  BY DEF DriveAnswers, driver
<1>2. CASE /\ drive.cmd = "store" /\ UNCHANGED late
           /\ medium' = [medium EXCEPT ![drive.lba] = drive.data]
           /\ drive' = IF drive.left = 1 THEN Idle ELSE Advance("write")
  BY <1>1, <1>2, StoreEInv
<1>3. ASSUME UNCHANGED medium
      PROVE  /\ Got(s)' <=> Got(s)
             /\ Got(call.count)' <=> Got(call.count)
             /\ Stored(s)' <=> Stored(s)
             /\ Stored(s - 1)' <=> Stored(s - 1)
             /\ Stored(call.count)' <=> Stored(call.count)
  BY <1>1, <1>3 DEF Got, Stored
<1>4. CASE drive.cmd = "reset" /\ drive' = Idle /\ UNCHANGED <<medium, cached, late>>
  <2>1. drive'.cmd = "none" /\ ~ drive'.drq  BY <1>4, DriveTyped
  <2>2. InBounds'  BY <1>1, <2>1 DEF EInv, InBounds
  <2>3. Reading'  BY <1>1, <1>3, <1>4, <2>1 DEF EInv, Reading
  <2>4. Writing'  BY <1>1, <1>3, <1>4, <2>1 DEF EInv, Writing
  <2>5. Flushing'  BY <1>1, <1>3, <1>4, <2>1 DEF EInv, Flushing, Span
  <2> QED  BY <2>2, <2>3, <2>4, <2>5 DEF EInv
<1>5. CASE /\ drive.cmd \in {"identify", "read", "write"}
           /\ drive' \in {Failed} \cup (IF drive.lba \in Sector THEN {Ready} ELSE {})
           /\ UNCHANGED <<medium, cached, late>>
  <2>1. \/ drive'.cmd = "none" /\ ~ drive'.drq
        \/ /\ drive.lba \in Sector /\ drive'.cmd = drive.cmd /\ drive'.lba = drive.lba
           /\ drive'.left = drive.left
    <3>1. drive' = Failed \/ (drive' = Ready /\ drive.lba \in Sector)  BY <1>5
    <3>2. CASE drive' = Failed  BY <3>2, DriveTyped
    <3>3. CASE drive' = Ready /\ drive.lba \in Sector
      BY <3>3 DEF Ready, EInv, IInv, TypeOK, DriveType
    <3> QED  BY <3>1, <3>2, <3>3
  <2>2. InBounds'  BY <1>1, <2>1 DEF EInv, InBounds
  <2>3. Reading'  BY <1>1, <1>3, <1>5, <2>1 DEF EInv, Reading
  <2>4. Writing'  BY <1>1, <1>3, <1>5, <2>1 DEF EInv, Writing
  <2>5. Flushing'  BY <1>1, <1>3, <1>5, <2>1 DEF EInv, Flushing, Span
  <2> QED  BY <2>2, <2>3, <2>4, <2>5 DEF EInv
<1>6. CASE /\ drive.cmd = "flush" /\ drive' = Idle /\ cached' = {}
           /\ UNCHANGED <<medium, late>>
  <2>1. drive'.cmd = "none" /\ ~ drive'.drq /\ Span(call') \cap cached' = {}
    BY <1>6, DriveTyped
  <2>2. InBounds'  BY <1>1, <2>1 DEF EInv, InBounds
  <2>3. Reading'  BY <1>1, <1>3, <1>6, <2>1 DEF EInv, Reading
  <2>4. Writing'  BY <1>1, <1>3, <1>6, <2>1 DEF EInv, Writing
  <2>5. Flushing'  BY <1>1, <1>3, <1>6, <2>1 DEF EInv, Flushing, Span
  <2> QED  BY <2>2, <2>3, <2>4, <2>5 DEF EInv
<1>7. CASE /\ drive.cmd \in {"store", "flush"} /\ drive' = Failed
           /\ late' = (pc # "drq") /\ UNCHANGED <<medium, cached>>
  <2>1. drive'.cmd = "none" /\ ~ drive'.drq  BY <1>7, DriveTyped
  <2>2. pc \in {"drq", "flush_cmd", "flush"} /\ (pc = "drq" => call.op = "write")
    BY <1>7 DEF EInv, IInv, Storing, Flushing
  <2>3. InBounds'  BY <1>1, <2>1 DEF EInv, InBounds
  <2>4. Reading' /\ Flushing'  BY <1>1, <1>7, <2>1, <2>2 DEF Reading, Flushing
  <2>5. Writing'  BY <1>1, <1>7, <2>1, <2>2 DEF EInv, Writing
  <2> QED  BY <2>3, <2>4, <2>5 DEF EInv
<1> QED  BY <1>2, <1>4, <1>5, <1>6, <1>7 DEF DriveAnswers

LEMMA IdentifyEInv ==
  ASSUME EInv, IInv',
         ata_identify_master \/ IdentifyNotBusy \/ IdentifyDrain \/ IdentifyFails
  PROVE  EInv'
<1>1. CASE ata_identify_master
  <2>1. /\ pc = "reset" /\ call.op = "init" /\ pc' \in {"idle", "id_busy"}
        /\ UNCHANGED <<kind, medium, cached, late, call, s, buffer>>
        /\ drive' = Command("identify", 0, 1)
    BY <1>1 DEF ata_identify_master, Return, WaitIn
  <2>2. drive'.cmd \in {"none", "reset", "identify"} /\ ~ drive'.drq
    <3>1. CASE kind = "none" \/ drive.bsy
      <4>1. drive' = drive  BY <2>1, <3>1 DEF Command
      <4> QED  BY <2>1, <4>1 DEF EInv, InBounds, IInv, InStep
    <3>2. CASE ~ (kind = "none" \/ drive.bsy)
      <4>1. drive' = Busy("identify", 0, 1)  BY <2>1, <3>2 DEF Command
      <4> QED  BY <4>1, BusyTyped
    <3> QED  BY <3>1, <3>2
  <2> QED  BY <2>1, <2>2, ResetEInv
<1>2. CASE IdentifyNotBusy
  BY <1>2, QuietEInv DEF IdentifyNotBusy, Return, WaitIn, bus
<1>3. CASE IdentifyDrain
  <2>1. /\ pc = "id_drq" /\ pc' = "idle" /\ drive' = Idle
        /\ UNCHANGED <<kind, medium, cached, late, call, s, buffer>>
    BY <1>3 DEF IdentifyDrain, Return, WaitIn
  <2>2. call.op = "init"  BY <2>1 DEF EInv, InBounds
  <2> QED  BY <2>1, <2>2, DriveTyped, ResetEInv
<1>4. CASE IdentifyFails
  BY <1>4, QuietEInv DEF IdentifyFails, Return, WaitIn, bus
<1> QED  BY <1>1, <1>2, <1>3, <1>4

LEMMA NextEInv == EInv /\ [Next]_vars => EInv'
<1> SUFFICES ASSUME EInv, [Next]_vars PROVE EInv'  OBVIOUS
<1>1. IInv'  BY NextIInv DEF EInv
<1>2. CASE DriveAnswers  BY <1>1, <1>2, AnswersEInv
<1>3. CASE Destage
  <2>1. /\ UNCHANGED <<kind, drive, medium, late, pc, call, s, buffer, result>>
        /\ cached' \subseteq cached
    BY <1>3 DEF Destage, driver
  <2>2. /\ Got(s)' <=> Got(s)
        /\ Got(call.count)' <=> Got(call.count)
        /\ Stored(s)' <=> Stored(s)
        /\ Stored(s - 1)' <=> Stored(s - 1)
        /\ Stored(call.count)' <=> Stored(call.count)
    BY <2>1 DEF Got, Stored
  <2>3. InBounds' /\ Reading'  BY <2>1, <2>2 DEF EInv, InBounds, Reading
  <2>4. Writing'  BY <2>1, <2>2 DEF EInv, Writing
  <2>5. Flushing'  BY <2>1, <2>2 DEF EInv, Flushing, Span
  <2> QED  BY <1>1, <2>3, <2>4, <2>5 DEF EInv
<1>4. CASE ata_init
  <2>1. /\ UNCHANGED <<kind, medium, cached, late, s, buffer>> /\ ata_soft_reset
        /\ call' = [op |-> "init", lba |-> 0, count |-> 1, tag |-> 0]
    BY <1>4 DEF ata_init
  <2>2. ~ drive'.drq /\ drive'.cmd \in {"reset", "none"} /\ pc' = "reset"
    BY <2>1, Reset DEF EInv
  <2> QED  BY <1>1, <2>1, <2>2, ResetEInv
<1>5. ASSUME NEW lba \in 0 .. ATA_MAX_LBA28 + 1, NEW count \in 0 .. MaxCount,
             \/ Call("read", lba, count, 0)
             \/ \E tag \in Tag : Call("write", lba, count, tag)
      PROVE  EInv'
  <2>1. lba \in Nat  BY AtaAssumption
  <2> QED  BY <1>1, <1>5, <2>1, CallEInv
<1>6. CASE LookAgain  BY <1>1, <1>6, QuietEInv DEF LookAgain, bus
<1>7. CASE ata_identify_master \/ IdentifyNotBusy \/ IdentifyDrain \/ IdentifyFails
  BY <1>1, <1>7, IdentifyEInv
<1>8. CASE StartAttempt  BY <1>1, <1>8, StartEInv
<1>9. CASE ata_pio_read_sector  BY <1>1, <1>9, ReadEInv
<1>10. CASE ata_pio_write_sector  BY <1>1, <1>10, WriteEInv
<1>11. CASE Flush  BY <1>1, <1>11, FlushEInv
<1>12. CASE FlushNotBusy  BY <1>1, <1>12, FlushedEInv
<1>13. CASE AttemptFails
  <2>1. UNCHANGED <<kind, medium, cached, late, call, s, buffer>> /\ ata_soft_reset
    BY <1>13 DEF AttemptFails
  <2>2. ~ drive'.drq /\ drive'.cmd \in {"reset", "none"} /\ pc' = "reset"
    BY <2>1, Reset DEF EInv
  <2> QED  BY <1>1, <2>1, <2>2, ResetEInv
<1>14. CASE AfterReset  BY <1>1, <1>14, QuietEInv DEF AfterReset, Return, WaitIn, bus
<1>15. CASE UNCHANGED vars  BY <1>1, <1>15, QuietEInv DEF vars, bus, driver
<1> QED
  BY <1>2, <1>3, <1>4, <1>5, <1>6, <1>7, <1>8, <1>9, <1>10, <1>11, <1>12, <1>13, <1>14, <1>15
  DEF Next, Driver

(* A read that returns 0 has given its caller the sectors asked for, all   *)
(* and in order, whatever attempts, resets and late answers came before.   *)
THEOREM ReadsAreExact == Spec => []ReadExact
<1>1. EInv => ReadExact
  <2> SUFFICES ASSUME EInv, pc = "idle", call.op = "read", result = 0, NEW x \in Span(call)
               PROVE  x \in Sector /\ buffer[x - call.lba] = medium[x]
    BY DEF ReadExact
  <2>1. call.lba \in Nat /\ call.count \in Nat  BY DEF EInv, IInv, TypeOK
  <2>2. x - call.lba \in 0 .. call.count - 1 /\ call.lba + (x - call.lba) = x
    BY <2>1 DEF Span
  <2>3. Got(call.count)  BY DEF EInv, Reading
  <2> QED  BY <2>2, <2>3 DEF Got
<1> QED  BY <1>1, InitEInv, NextEInv, PTL DEF Spec

(* A write that returns 0 has stored every sector on the medium, and none  *)
(* of them is left in the drive's cache, unless the drive failed or        *)
(* refused the flush where ata_write_once does not look.                   *)
THEOREM WritesAreExact == Spec => []WriteExact
<1>1. EInv => WriteExact
  <2> SUFFICES ASSUME EInv, pc = "idle", call.op = "write", result = 0, ~ late
               PROVE  /\ Span(call) \cap cached = {}
                      /\ \A x \in Span(call) :
                           x \in Sector /\ medium[x] = <<call.tag, x - call.lba>>
    BY DEF WriteExact
  <2>1. call.lba \in Nat /\ call.count \in Nat  BY DEF EInv, IInv, TypeOK
  <2>2. Stored(call.count) /\ Span(call) \cap cached = {}  BY DEF EInv, Writing, Flushing
  <2>3. ASSUME NEW x \in Span(call)
        PROVE  x \in Sector /\ medium[x] = <<call.tag, x - call.lba>>
    <3>1. x - call.lba \in 0 .. call.count - 1 /\ call.lba + (x - call.lba) = x
      BY <2>1 DEF Span
    <3> QED  BY <2>2, <3>1 DEF Stored
  <2> QED  BY <2>2, <2>3
<1> QED  BY <1>1, InitEInv, NextEInv, PTL DEF Spec
=============================================================================
