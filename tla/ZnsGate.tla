------------------------------ MODULE ZnsGate -------------------------------
(***************************************************************************)
(* Controller::direct_zns_gate (ssd_controller.cpp): the entry point of    *)
(* the high-level tests.  It builds a submission queue entry, runs the     *)
(* driver to completion and, on success, copies the effect into the        *)
(* software array zns_zones by raw bytes: byte 0 of the structure is the   *)
(* low byte of wptr, byte 2 its third byte.                                *)
(***************************************************************************)
EXTENDS ZnsDriver

CONSTANTS GateLbas, GateOps    \* arguments of the calls

VARIABLES is_write,   \* the operation of the call in progress
          mirror,     \* zns_zones: wptr as bytes 0 and 2, erase_count
          result      \* what the last call returned

gateVars == <<is_write, mirror, result>>
allVars  == <<vars, gateVars>>

\* 1 writes, 0 reads, 2 resets; any other value leaves opcode 0.
Entry(lba, op) ==
    [opcode |-> CASE op = 1 -> "WRITE" [] op = 0 -> "READ"
                  [] op = 2 -> "ZONE_MGMT" [] OTHER -> "OTHER",
     zsa    |-> IF op = 2 THEN "RESET" ELSE "OTHER",
     lba    |-> lba]

GateEntries == {Entry(l, op) : l \in GateLbas, op \in GateOps}

ASSUME GateAssumption ==
    GateLbas \subseteq Nat /\ GateOps \subseteq Nat /\ GateEntries \subseteq Sqes

GateInit ==
    /\ Init
    /\ is_write = 0
    /\ mirror = [z \in Zones |-> [b0 |-> 0, b2 |-> 0, erase_count |-> 0]]
    /\ result = "SUCCESS"

Call(lba, op) ==
    /\ \/ SubmitCommand(Entry(lba, op)) /\ UNCHANGED result
       \/ RefuseCommand(Entry(lba, op)) /\ result' = "FAILURE"
    /\ is_write' = op
    /\ UNCHANGED mirror

\* The software copy after a successful command; a zone outside the array
\* is left alone.
Mirrored ==
    LET z == ZoneId(sqe.lba)
    IN  CASE ~InArray(z)     -> mirror
          [] InArray(z) /\ is_write = 1 ->
               [mirror EXCEPT ![z].b0 = (@ + 1) % ByteMod]
          [] InArray(z) /\ is_write = 2 ->
               [mirror EXCEPT ![z].b0 = 0, ![z].b2 = (@ + 1) % ByteMod]
          [] OTHER           -> mirror

\* Mutant: the software copy is updated whatever the completion says.
ReturnMirrorsAll ==
    /\ pc = "drain2"
    /\ Drain
    /\ mirror' = Mirrored
    /\ result' = IF cqe = 0 THEN "SUCCESS" ELSE "FAILURE"
    /\ UNCHANGED is_write

Return ==
    /\ pc = "drain2"
    /\ Drain
    /\ mirror' = IF cqe = 0 THEN Mirrored ELSE mirror
    /\ result' = IF cqe = 0 THEN "SUCCESS" ELSE "FAILURE"
    /\ UNCHANGED is_write

Step ==
    /\ \/ SetTemperature
       \/ ControllerInit
       \/ PollStatus
       \/ pc = "drain1" /\ Drain
    /\ UNCHANGED gateVars

GateNext == Step \/ Return \/ \E lba \in GateLbas, op \in GateOps : Call(lba, op)

\* The driver's loop runs on; tests need not call.
GateSpec == GateInit /\ [][GateNext]_allVars /\ WF_allVars(Step \/ Return)

-----------------------------------------------------------------------------
\* Between calls the software pointer of every zone is the hardware's, after
\* any mix of accepted and refused commands: no refused command is mirrored
\* and no accepted one is missed.
MirrorFollowsPointer ==
    pc = "ready" => \A z \in Zones : mirror[z].b0 = bram[z].wptr
=============================================================================
