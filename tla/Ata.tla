-------------------------------- MODULE Ata ---------------------------------
(***************************************************************************)
(* The polled disk driver of drivers/ata.c and the drive behind it.  The   *)
(* drive answers when it likes, never, or with an error at any sector, and *)
(* takes no command while it is busy; a wait of the driver runs out after  *)
(* ATA_POLL_LIMIT looks at the status.  A sector is moved as a whole.      *)
(***************************************************************************)
EXTENDS Integers, Sequences, FiniteSetsExt

CONSTANTS
  ATA_POLL_LIMIT, ATA_RETRY_COUNT, ATA_MAX_LBA28,
  MaxCount,     \* sectors that a caller moves at most
  Tag           \* what callers write: a sector is its tag and its place in the buffer

ASSUME AtaAssumption ==
  /\ ATA_POLL_LIMIT \in Nat /\ ATA_RETRY_COUNT \in Nat
  /\ ATA_MAX_LBA28 \in Nat /\ MaxCount \in Nat

VARIABLES
  kind,         \* what is on the bus: "ata", "atapi" or "none"
  drive,        \* its status and the command it works on
  medium,       \* the sectors, as a read would give them
  cached,       \* sectors not yet committed to the medium
  late,         \* a failure or a refused flush that the driver does not see
  g_ata_present,
  pc, polls,    \* where the driver waits, and how often it has looked
  call,         \* the arguments: op, lba, count, tag
  s, attempt,   \* next sector, attempts made
  buffer, result

bus == <<kind, drive, medium, cached, late>>
driver == <<g_ata_present, pc, polls, call, s, attempt, buffer, result>>
vars == <<bus, driver>>

Sector == 0 .. ATA_MAX_LBA28
Span(c) == c.lba .. c.lba + c.count - 1
NoData == <<0, 0>>
Idle == [bsy |-> FALSE, drq |-> FALSE, err |-> FALSE,
         cmd |-> "none", lba |-> 0, left |-> 0, data |-> NoData]
Busy(cmd, lba, left) == [Idle EXCEPT !.bsy = TRUE, !.cmd = cmd, !.lba = lba, !.left = left]

Init ==
  /\ kind \in {"ata", "atapi", "none"}
  /\ drive = Idle
  /\ medium = [x \in Sector |-> NoData] /\ cached = {} /\ late = FALSE
  /\ g_ata_present = FALSE
  /\ pc = "boot" /\ polls = 0
  /\ call = [op |-> "init", lba |-> 0, count |-> 1, tag |-> 0]
  /\ s = 0 /\ attempt = 0 /\ buffer = <<>> /\ result = -1

-----------------------------------------------------------------------------
(* The drive. *)

(* The command register: a drive that is busy does not look at it. *)
Command(cmd, lba, count) ==
  IF kind = "none" \/ drive.bsy THEN drive ELSE Busy(cmd, lba, count)

Failed == [Idle EXCEPT !.err = TRUE]
Ready == [drive EXCEPT !.bsy = FALSE, !.drq = TRUE]

(* The next sector of a transfer, which has to exist. *)
Advance(cmd) == Busy(cmd, drive.lba + 1, drive.left - 1)

(* The drive ends what it is busy with, well or not.  While it is busy     *)
(* with "store" it has the data of a sector and has yet to write it.       *)
DriveAnswers ==
  /\ kind # "none" /\ drive.bsy
  /\ \/ /\ drive.cmd = "reset"
        /\ drive' = Idle
        /\ UNCHANGED <<medium, cached, late>>
     \/ /\ drive.cmd \in {"identify", "read", "write"}
        /\ drive' \in {Failed} \cup (IF drive.lba \in Sector THEN {Ready} ELSE {})
        /\ UNCHANGED <<medium, cached, late>>
     \/ /\ drive.cmd = "store"
        /\ medium' = [medium EXCEPT ![drive.lba] = drive.data]
        /\ cached' = cached \cup {drive.lba}
        /\ drive' = IF drive.left = 1 THEN Idle ELSE Advance("write")
        /\ UNCHANGED late
     \/ /\ drive.cmd = "flush"
        /\ drive' = Idle /\ cached' = {}
        /\ UNCHANGED <<medium, late>>
     \/ /\ drive.cmd \in {"store", "flush"}
        /\ drive' = Failed
        /\ late' = (pc # "drq")
        /\ UNCHANGED <<medium, cached>>
  /\ UNCHANGED <<kind, driver>>

(* The drive writes back what it has cached when it likes. *)
Destage ==
  /\ kind = "ata" /\ cached # {}
  /\ \E x \in cached : cached' = cached \ {x}
  /\ UNCHANGED <<kind, drive, medium, late, driver>>
-----------------------------------------------------------------------------
(* The driver's waits.  One that is not over looks again or runs out. *)

StatusBusy == kind = "none" \/ drive.bsy

InVain ==
  \/ StatusBusy
  \/ pc \in {"drq", "id_drq"} /\ ~ drive.drq /\ ~ drive.err

(* Mutant: the looks are not counted. *)
LookAgain_Mutant ==
  /\ pc \notin {"boot", "idle", "flush_cmd"}
  /\ InVain /\ polls < ATA_POLL_LIMIT
  /\ UNCHANGED vars

LookAgain ==
  /\ pc \notin {"boot", "idle", "flush_cmd"}
  /\ InVain /\ polls < ATA_POLL_LIMIT
  /\ polls' = polls + 1
  /\ UNCHANGED <<bus, g_ata_present, pc, call, s, attempt, buffer, result>>

TimedOut == InVain /\ polls = ATA_POLL_LIMIT

WaitIn(next) == pc' = next /\ polls' = 0

Return(r) == WaitIn("idle") /\ result' = r

(* SRST ends whatever the drive is doing. *)
ata_soft_reset ==
  /\ drive' = IF kind = "none" THEN drive ELSE Busy("reset", 0, 0)
  /\ WaitIn("reset")

-----------------------------------------------------------------------------
(* ata_init, at boot and whenever the file system is mounted anew. *)

ata_init ==
  /\ pc \in {"boot", "idle"}
  /\ g_ata_present' = FALSE
  /\ ata_soft_reset
  /\ call' = [op |-> "init", lba |-> 0, count |-> 1, tag |-> 0]
  /\ attempt' = 0 /\ result' = -1
  /\ UNCHANGED <<kind, medium, cached, late, s, buffer>>

(* Up to the first look at the status; a bus without a drive reads 0xFF. *)
ata_identify_master ==
  /\ pc = "reset" /\ call.op = "init"
  /\ ~ InVain \/ TimedOut
  /\ drive' = Command("identify", 0, 1)
  /\ IF kind = "none" THEN Return(-1) ELSE WaitIn("id_busy") /\ UNCHANGED result
  /\ UNCHANGED <<kind, medium, cached, late, g_ata_present, call, s, attempt, buffer>>

IdentifyNotBusy ==
  /\ pc = "id_busy"
  /\ ~ InVain
  /\ IF kind = "atapi" THEN Return(-1) ELSE WaitIn("id_drq") /\ UNCHANGED result
  /\ UNCHANGED <<bus, g_ata_present, call, s, attempt, buffer>>

IdentifyDrain ==
  /\ pc = "id_drq"
  /\ ~ InVain /\ ~ drive.err
  /\ drive' = Idle
  /\ g_ata_present' = TRUE
  /\ Return(0)
  /\ UNCHANGED <<kind, medium, cached, late, call, s, attempt, buffer>>

IdentifyFails ==
  /\ \/ pc \in {"id_busy", "id_drq"} /\ TimedOut
     \/ pc = "id_drq" /\ ~ StatusBusy /\ drive.err
  /\ Return(-1)
  /\ UNCHANGED <<bus, g_ata_present, call, s, attempt, buffer>>

-----------------------------------------------------------------------------
(* ata_read_sectors and ata_write_sectors. *)

Call(op, lba, count, tag) ==
  /\ pc = "idle"
  /\ call' = [op |-> op, lba |-> lba, count |-> count, tag |-> tag]
  /\ attempt' = 0
  /\ buffer' = [i \in 0 .. MaxCount - 1 |-> NoData]
  /\ IF count = 0 \/ lba > ATA_MAX_LBA28 \/ ~ g_ata_present THEN Return(-1)
     ELSE WaitIn("start") /\ UNCHANGED result
  /\ UNCHANGED <<bus, g_ata_present, s>>

(* Mutant: a further attempt to write goes on with the sector that failed. *)
StartAttempt_Mutant ==
  /\ pc = "start"
  /\ ~ InVain
  /\ drive' = Command(call.op, call.lba, call.count)
  /\ late' = FALSE
  /\ s' = IF attempt = 0 \/ call.op = "read" THEN 0 ELSE s
  /\ WaitIn("drq")
  /\ UNCHANGED <<kind, medium, cached, g_ata_present, call, attempt, buffer, result>>

(* ata_program_lba and the command. *)
StartAttempt ==
  /\ pc = "start"
  /\ ~ InVain
  /\ drive' = Command(call.op, call.lba, call.count)
  /\ late' = FALSE
  /\ s' = 0
  /\ WaitIn("drq")
  /\ UNCHANGED <<kind, medium, cached, g_ata_present, call, attempt, buffer, result>>

(* Mutant: every sector is put at the start of the buffer. *)
ata_pio_read_sector_Mutant ==
  /\ pc = "drq" /\ call.op = "read"
  /\ ~ InVain /\ ~ drive.err
  /\ buffer' = [buffer EXCEPT ![0] = medium[drive.lba]]
  /\ drive' = IF drive.left = 1 THEN Idle ELSE Advance("read")
  /\ s' = s + 1
  /\ IF s + 1 = call.count THEN Return(0) ELSE WaitIn("drq") /\ UNCHANGED result
  /\ UNCHANGED <<kind, medium, cached, late, g_ata_present, call, attempt>>

ata_pio_read_sector ==
  /\ pc = "drq" /\ call.op = "read"
  /\ ~ InVain /\ ~ drive.err
  /\ buffer' = [buffer EXCEPT ![s] = medium[drive.lba]]
  /\ drive' = IF drive.left = 1 THEN Idle ELSE Advance("read")
  /\ s' = s + 1
  /\ IF s + 1 = call.count THEN Return(0) ELSE WaitIn("drq") /\ UNCHANGED result
  /\ UNCHANGED <<kind, medium, cached, late, g_ata_present, call, attempt>>

ata_pio_write_sector ==
  /\ pc = "drq" /\ call.op = "write"
  /\ ~ InVain /\ ~ drive.err
  /\ drive' = [Busy("store", drive.lba, drive.left) EXCEPT !.data = <<call.tag, s>>]
  /\ s' = s + 1
  /\ WaitIn(IF s + 1 = call.count THEN "flush_cmd" ELSE "drq")
  /\ UNCHANGED <<kind, medium, cached, late, g_ata_present, call, attempt, buffer, result>>

(* Mutant: no flush. *)
Flush_Mutant ==
  /\ pc = "flush_cmd"
  /\ WaitIn("flush")
  /\ UNCHANGED <<bus, g_ata_present, call, s, attempt, buffer, result>>

(* The flush is commanded without a wait, whatever the status. *)
Flush ==
  /\ pc = "flush_cmd"
  /\ drive' = Command("flush", 0, 0)
  /\ late' = (late \/ drive.bsy)
  /\ WaitIn("flush")
  /\ UNCHANGED <<kind, medium, cached, g_ata_present, call, s, attempt, buffer, result>>

FlushNotBusy ==
  /\ pc = "flush"
  /\ ~ InVain
  /\ Return(0)
  /\ UNCHANGED <<bus, g_ata_present, call, s, attempt, buffer>>

AttemptFails ==
  /\ \/ pc \in {"start", "drq", "flush"} /\ TimedOut
     \/ pc = "drq" /\ ~ StatusBusy /\ drive.err
  /\ attempt' = attempt + 1
  /\ ata_soft_reset
  /\ UNCHANGED <<kind, medium, cached, late, g_ata_present, call, s, buffer, result>>

(* Whether or not the reset was over in time. *)
AfterReset ==
  /\ pc = "reset" /\ call.op # "init"
  /\ ~ InVain \/ TimedOut
  /\ IF attempt < ATA_RETRY_COUNT THEN WaitIn("start") /\ UNCHANGED result ELSE Return(-1)
  /\ UNCHANGED <<bus, g_ata_present, call, s, attempt, buffer>>

Driver ==
  \/ LookAgain
  \/ ata_identify_master \/ IdentifyNotBusy \/ IdentifyDrain \/ IdentifyFails
  \/ StartAttempt \/ ata_pio_read_sector \/ ata_pio_write_sector
  \/ Flush \/ FlushNotBusy \/ AttemptFails \/ AfterReset

Next ==
  \/ DriveAnswers
  \/ Destage
  \/ ata_init
  \/ \E lba \in 0 .. ATA_MAX_LBA28 + 1, count \in 0 .. MaxCount :
       \/ Call("read", lba, count, 0)
       \/ \E tag \in Tag : Call("write", lba, count, tag)
  \/ Driver

Spec == Init /\ [][Next]_vars

(* The CPU goes on with the driver; nothing is assumed of the drive. *)
FairSpec == Spec /\ WF_vars(Driver)

-----------------------------------------------------------------------------
(* Properties. *)

Data == (Tag \cup {0}) \X Nat

DriveType ==
  [bsy : BOOLEAN, drq : BOOLEAN, err : BOOLEAN,
   cmd : {"none", "reset", "identify", "read", "write", "store", "flush"},
   lba : Nat, left : Int, data : Data]

(* What drive, medium and driver hold. *)
TypeOK ==
  /\ drive \in DriveType
  /\ medium \in [Sector -> Data]
  /\ call \in [op : {"init", "read", "write"}, lba : Nat, count : Nat, tag : Tag \cup {0}]
  /\ s \in Nat

(* A read that returns 0 has given its caller the sectors asked for, all   *)
(* and in order, after whatever attempts, resets and late answers.         *)
ReadExact ==
  pc = "idle" /\ call.op = "read" /\ result = 0 =>
    Span(call) \subseteq Sector /\ \A x \in Span(call) : buffer[x - call.lba] = medium[x]

(* A write that returns 0 has stored every sector, and the drive has       *)
(* committed them.  The exception, late, is what ata_write_once does not   *)
(* look at: an error after the last sector or the flush, and a flush that  *)
(* the drive did not take because it was busy with the last sector.        *)
WriteExact ==
  pc = "idle" /\ call.op = "write" /\ result = 0 /\ ~ late =>
    /\ Span(call) \subseteq Sector /\ Span(call) \cap cached = {}
    /\ \A x \in Span(call) : medium[x] = <<call.tag, x - call.lba>>

(* A sector changes only to what the caller of a write has for it: neither *)
(* a retry of a transfer that was cut short nor a late answer of the drive *)
(* puts data elsewhere, and never after the call has returned.             *)
OnlyWhatWasWritten ==
  [][\A x \in Sector : medium'[x] # medium[x] =>
       /\ pc # "idle" /\ call.op = "write" /\ x \in Span(call)
       /\ medium'[x] = <<call.tag, x - call.lba>>]_vars

(* Every call returns, whatever the drive does. *)
CallsReturn == pc \notin {"boot", "idle"} ~> pc = "idle"
=============================================================================
