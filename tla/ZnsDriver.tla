----------------------------- MODULE ZnsDriver ------------------------------
(***************************************************************************)
(* zns_driver.c on top of the bridge: zns_process_nvme_command, one clock  *)
(* tick per step.  A command is submitted by storing its LBA, its hardware *)
(* opcode and the trigger in the CSRs; the driver polls the status (every  *)
(* poll is a tick), reads the error code, drops the trigger and ticks      *)
(* twice.  The die temperature can cross the limit between commands        *)
(* (thermal_manager.cpp); the program is single-threaded, so not during    *)
(* one.                                                                    *)
(***************************************************************************)
EXTENDS HardwareBridge, FiniteSets

CONSTANTS Sqes,     \* the submission queue entries hosts send
          ZoneIds   \* values of the 32-bit zone number the CSRs carry (2^32)

ASSUME ZoneIdsAssumption == ZoneIds \in Nat /\ ZoneIds >= NumZones

\* Opcodes and zone actions by the driver's names; OTHER is any other value.
Opcodes == {"READ", "WRITE", "ZONE_MGMT", "OTHER"}
Actions == {"RESET", "OTHER"}

ASSUME SqeAssumption == Sqes \subseteq [opcode : Opcodes, zsa : Actions, lba : Nat]

\* NVMe status codes (SC) of the completion, 0 for success.
BAD_OPCODE == 1
BAD_ACTION == 2
StatusCode(hwError) ==
    IF hwError = 1              THEN 130    \* 0x82
    ELSE IF hwError = 2         THEN 129    \* 0x81
    ELSE IF hwError = 3         THEN 128    \* 0x80
    ELSE IF hwError \in {5, 8}  THEN 36     \* 0x24
    ELSE IF hwError = 7         THEN 131    \* 0x83
    ELSE 6                                  \* 0x06
StatusCodes == {0, BAD_OPCODE, BAD_ACTION, 6, 36, 128, 129, 130, 131}

VARIABLES pc,      \* "ready", "poll", "drain1", "drain2"
          sqe,     \* the command in hand, or the last one
          cqe,     \* status code of its completion
          hot      \* the controller's temperature is at or over 85 C

driverVars == <<pc, sqe, cqe, hot>>
vars == <<bridgeVars, driverVars>>

\* The zone number of an LBA is cut to 32 bits on its way to the pins, so LBAs
\* that are ZoneIds * ZoneSize apart name the same zone.
ZoneId(lba) == (lba \div ZoneSize) % ZoneIds

\* For the opcodes Accepts lets through.
HardwareCmd(e) == IF e.opcode = "READ" THEN READ
                  ELSE IF e.opcode = "WRITE" THEN WRITE ELSE RESET

Init ==
    /\ BridgeInit
    /\ pc = "ready"
    /\ sqe \in Sqes
    /\ cqe = 0
    /\ hot = FALSE

\* Controller::set_temperature; the bridge samples it at every tick.
SetTemperature ==
    /\ pc = "ready"
    /\ hot' = ~hot
    /\ UNCHANGED <<bridgeVars, pc, sqe, cqe>>

\* The switch returns before any register is written.
RefuseCommand(e) ==
    /\ pc = "ready"
    /\ \/ e.opcode = "OTHER" /\ cqe' = BAD_OPCODE
       \/ e.opcode = "ZONE_MGMT" /\ e.zsa # "RESET" /\ cqe' = BAD_ACTION
    /\ sqe' = e
    /\ UNCHANGED <<bridgeVars, pc, hot>>

Accepts(e) == \/ e.opcode \in {"READ", "WRITE"}
              \/ e.opcode = "ZONE_MGMT" /\ e.zsa = "RESET"

\* csr_write32 of the LBA halves, the opcode and the trigger.
SubmitCommand(e) ==
    /\ pc = "ready"
    /\ Accepts(e)
    /\ io' = [io EXCEPT !.trigger = TRUE, !.cmd = HardwareCmd(e),
                        !.zone = ZoneId(e.lba),
                        !.page = e.lba % ZoneSize]
    /\ sqe' = e
    /\ pc' = "poll"
    /\ UNCHANGED <<rtl, addr, latch, bram, cqe, hot>>

\* The pins during a tick: the bridge refreshes the thermal input.
Driven == [io EXCEPT !.thermal = hot]

\* Mutant: the loop leaves on any status that is not FREE.
PollUntilBusy ==
    /\ pc = "poll"
    /\ Tick(Driven)
    /\ \/ /\ rtl'.status = FREE
          /\ io' = Driven
          /\ UNCHANGED <<pc, cqe>>
       \/ /\ rtl'.status # FREE
          /\ cqe' = IF rtl'.status = DONE THEN 0 ELSE StatusCode(rtl'.err)
          /\ io' = [Driven EXCEPT !.trigger = FALSE]
          /\ pc' = "drain1"
    /\ UNCHANGED <<sqe, hot>>

\* One round of the polling loop: csr_read32(OUT_STATUS) ticks once.  When
\* the status is final the completion is filled in and the trigger dropped.
PollStatus ==
    /\ pc = "poll"
    /\ Tick(Driven)
    /\ \/ /\ rtl'.status \in {FREE, BUSY}
          /\ io' = Driven
          /\ UNCHANGED <<pc, cqe>>
       \/ /\ rtl'.status \in {DONE, FAIL}
          /\ cqe' = IF rtl'.status = DONE THEN 0 ELSE StatusCode(rtl'.err)
          /\ io' = [Driven EXCEPT !.trigger = FALSE]
          /\ pc' = "drain1"
    /\ UNCHANGED <<sqe, hot>>

\* Mutant: one tick after the trigger is dropped.
DrainOnce ==
    /\ pc \in {"drain1", "drain2"}
    /\ Tick(Driven)
    /\ io' = Driven
    /\ pc' = "ready"
    /\ UNCHANGED <<sqe, cqe, hot>>

\* The two ticks after the trigger is dropped.
Drain ==
    /\ pc \in {"drain1", "drain2"}
    /\ Tick(Driven)
    /\ io' = Driven
    /\ pc' = IF pc = "drain1" THEN "drain2" ELSE "ready"
    /\ UNCHANGED <<sqe, cqe, hot>>

\* zns_controller_init clears the pins without a tick.
ControllerInit ==
    /\ pc = "ready"
    /\ io' = [io EXCEPT !.trigger = FALSE, !.cmd = READ, !.zone = 0, !.page = 0]
    /\ UNCHANGED <<rtl, addr, latch, bram, driverVars>>

Next ==
    \/ SetTemperature
    \/ ControllerInit
    \/ \E e \in Sqes : RefuseCommand(e) \/ SubmitCommand(e)
    \/ PollStatus
    \/ Drain

\* The driver's loop runs on; hosts need not send commands.
Spec == Init /\ [][Next]_vars /\ WF_vars(PollStatus \/ Drain)

-----------------------------------------------------------------------------
TypeOK ==
    /\ BridgeTypeOK
    /\ pc \in {"ready", "poll", "drain1", "drain2"}
    /\ sqe \in Sqes
    /\ cqe \in StatusCodes
    /\ hot \in BOOLEAN

(***************************************************************************)
(* Safety with every command, reads included.                              *)
(***************************************************************************)
WellFormed(w) ==
    /\ w.wptr <= ZoneSize
    /\ w.full <=> (w.wptr = ZoneSize)
    /\ w.erase <= WearLimit

\* No sequence of commands leaves a metadata word no zone can have: a pointer
\* past the end, a full flag that disagrees with the pointer (the checker
\* trusts the flag, the state machine the pointer) or an erase count over the
\* limit.
MetadataOK == \A z \in Zones : WellFormed(bram[z])

\* The 4-bit tracker never passes the limit it is compared with, so it cannot
\* wrap.  (It may refuse first writes for good: a write to the first page of a
\* zone outside the array is counted, opens no zone and is never given back.)
CountBounded == rtl.count <= MaxOpen

\* Between commands the machine is back in IDLE, not writing, with its
\* trigger low: the next command starts a fresh metadata read.
QuietBetweenCommands ==
    pc = "ready" => /\ rtl.state = "IDLE" /\ rtl.status = FREE
                    /\ ~rtl.we /\ ~io.trigger

\* The rules are applied to the target zone's current word, never to a word
\* latched for another address or an earlier version of it.
Word(z) == IF InArray(z) THEN bram[z] ELSE ZeroWord
FreshMetadata ==
    rtl.state \in {"VALIDATE", "EXECUTE"} => Rdata = Word(io.zone)

\* Metadata changes only while a command that is being polled executes, and
\* only the word of the zone whose number is the low bits of the command's:
\* the zone the LBA lies in when the number fits, another one, whatever the
\* array's size, when it does not.
OnlyTargetZone ==
    [][\A z \in Zones : bram'[z] # bram[z] =>
          /\ pc = "poll" /\ rtl.state = "EXECUTE"
          /\ z = ZoneId(sqe.lba)
          /\ sqe.lba \div ZoneSize < ZoneIds => z = sqe.lba \div ZoneSize]_vars

\* A command reported as failed did not reach EXECUTE: when the driver sees
\* an error status, the checker still finds an error for the metadata as it
\* is, and the code handed to the host is that error's.
FailureIsGenuine ==
    pc = "drain1" /\ cqe # 0 =>
        /\ rtl.state = "ERROR"
        /\ cqe = StatusCode(ErrorCode(io, Word(io.zone), rtl.count))
        /\ HasError(io, Word(io.zone), rtl.count)

\* Every command the driver starts is completed: the polling loop, which has
\* no limit of its own, always sees a final status.
CommandCompletes == pc = "poll" ~> pc = "ready"

(***************************************************************************)
(* Without reads and with LBAs inside the array the driver implements the  *)
(* abstract zoned device.                                                  *)
(***************************************************************************)
AppendOnly == \A e \in Sqes : e.opcode # "READ" /\ InArray(e.lba \div ZoneSize)

\* The tracker's count is the number of zones that are open, at every tick: the
\* edge that leaves EXECUTE changes the counter and the metadata word together.
CountIsOpenZones == rtl.count = Cardinality(OpenZones)

\* The command is decided at the tick that leaves VALIDATE for ERROR, or the
\* one that leaves EXECUTE.
Decided == rtl.state \in {"UPDATE_BRAM", "ERROR"} \/ pc \in {"drain1", "drain2"}

Device == INSTANCE ZonedDevice WITH
    zone  <- [z \in Zones |-> [wp |-> bram[z].wptr, erases |-> bram[z].erase]],
    phase <- IF pc = "ready" THEN "ready" ELSE IF Decided THEN "done" ELSE "busy",
    cmd   <- sqe,
    code  <- IF pc = "poll" /\ Decided
             THEN IF rtl.state = "UPDATE_BRAM" THEN 0
                  ELSE StatusCode(ErrorCode(Driven, Rdata, rtl.count))
             ELSE cqe

\* Every behaviour of driver, bridge and RTL is one of the abstract device:
\* same effects on zones, same status codes, every command answered.
ImplementsDevice == Device!Spec

\* README: at most MaxOpen zones are written but not full at any time.
OpenZonesWithinLimit == Cardinality(OpenZones) <= MaxOpen
=============================================================================
