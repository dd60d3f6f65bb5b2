------------------------------- MODULE ZnsRtl -------------------------------
(***************************************************************************)
(* The synthesised part of the ZNS validator, as operators: the rules      *)
(* checker (zns_rules_checker.v, combinational), the open-zone tracker     *)
(* (zns_resources_tracker.v) and the seven-state machine of                *)
(* zns_fsm_validator.v.  A clock edge is the function Posedge from the     *)
(* registers, the input pins and the metadata word on bram_rdata to the    *)
(* new registers.                                                          *)
(*                                                                         *)
(* The RTL is written for 64-page zones, 4 open zones and 10 erasures.     *)
(* The limits are constants, the range of the counter too; field widths    *)
(* follow ZoneSize: the write pointer has one bit more than a page number  *)
(* (7 bits for 64 pages) and a byte counts 4 * ZoneSize values.            *)
(***************************************************************************)
EXTENDS Integers

CONSTANTS ZoneSize,    \* pages in a zone (64)
          MaxOpen,     \* open-zone limit of the rules checker (4)
          WearLimit,   \* erasures after which a reset is refused (10)
          CountMod     \* values of the open-zone counter, 4 bits (16)

ASSUME RtlAssumption ==
    /\ ZoneSize \in Nat /\ ZoneSize >= 2
    /\ CountMod \in Nat /\ MaxOpen \in 1..(CountMod - 1)
    /\ WearLimit \in Nat /\ 1 <= WearLimit /\ WearLimit < 4 * ZoneSize

WptrMod  == 2 * ZoneSize     \* 7-bit write pointer
ByteMod  == 4 * ZoneSize     \* 8-bit fields

\* io_cmd values the rules know.  Any other command falls through them.
READ  == 0
WRITE == 1
RESET == 2
BAD   == 99

\* out_status values.
FREE == 0
FAIL == 1
BUSY == 2
DONE == 3

States == {"IDLE", "BRAM_READ", "BRAM_WAIT", "VALIDATE", "EXECUTE",
           "UPDATE_BRAM", "ERROR"}

\* A metadata word: wptr = bits 6:0, full = bit 7, erase = bits 23:16.
Words    == [wptr : 0..(WptrMod - 1), full : BOOLEAN, erase : 0..(ByteMod - 1)]
ZeroWord == [wptr |-> 0, full |-> FALSE, erase |-> 0]

(***************************************************************************)
(* zns_rules_checker.v: the first rule that applies decides; code 0 is "no *)
(* error".  in is the record of input pins, w the word on bram_rdata.      *)
(***************************************************************************)
OpensZone(cmd, w) == cmd = WRITE /\ w.wptr = 0 /\ ~w.full

\* Mutant: no rule limits the number of open zones.
ErrorCodeNoLimit(in, w, count) ==
    IF in.thermal                                        THEN 8
    ELSE IF in.cmd = WRITE /\ w.full                     THEN 7
    ELSE IF in.cmd = WRITE /\ in.page # w.wptr           THEN 1
    ELSE IF in.cmd = READ /\ in.page >= w.wptr           THEN 3
    ELSE IF in.cmd = RESET /\ w.erase >= WearLimit       THEN 5
    ELSE 0

\* Mutant: the pointer rule is tested before the full flag.
ErrorCodeSwapped(in, w, count) ==
    IF in.thermal                                        THEN 8
    ELSE IF in.cmd = WRITE /\ in.page # w.wptr           THEN 1
    ELSE IF in.cmd = WRITE /\ w.full                     THEN 7
    ELSE IF OpensZone(in.cmd, w) /\ count >= MaxOpen     THEN 2
    ELSE IF in.cmd = READ /\ in.page >= w.wptr           THEN 3
    ELSE IF in.cmd = RESET /\ w.erase >= WearLimit       THEN 5
    ELSE 0

ErrorCode(in, w, count) ==
    IF in.thermal                                        THEN 8
    ELSE IF in.cmd = BAD                                 THEN 6
    ELSE IF in.cmd = WRITE /\ w.full                     THEN 7
    ELSE IF in.cmd = WRITE /\ in.page # w.wptr           THEN 1
    ELSE IF OpensZone(in.cmd, w) /\ count >= MaxOpen     THEN 2
    ELSE IF in.cmd = READ /\ in.page >= w.wptr           THEN 3
    ELSE IF in.cmd = RESET /\ w.erase >= WearLimit       THEN 5
    ELSE IF in.bound                                     THEN 7
    ELSE 0

HasError(in, w, count) == ErrorCode(in, w, count) # 0

\* Mutant: a reset of a partly written zone keeps its slot.
GivesBackOnFull(cmd, w) == cmd = WRITE /\ w.wptr = ZoneSize - 1

(***************************************************************************)
(* zns_resources_tracker.v: in the EXECUTE state a first write takes a     *)
(* slot; a last write, or a reset of a partly written zone, gives one back *)
(* unless the count is already 0 (the later assignment wins).              *)
(***************************************************************************)
GivesBack(cmd, w) ==
    \/ cmd = WRITE /\ w.wptr = ZoneSize - 1
    \/ cmd = RESET /\ w.wptr > 0 /\ ~w.full

\* Mutant: the count is decremented at 0 too.
NewCountNoFloor(cmd, w, count) ==
    IF GivesBack(cmd, w)      THEN count - 1
    ELSE IF OpensZone(cmd, w) THEN (count + 1) % CountMod
    ELSE count

NewCount(cmd, w, count) ==
    IF GivesBack(cmd, w) /\ count > 0 THEN count - 1
    ELSE IF OpensZone(cmd, w)         THEN (count + 1) % CountMod
    ELSE count

\* Mutant: EXECUTE returns to IDLE without the completion state.
NextStateNoUpdate(st, trigger, err) ==
    IF st = "IDLE"            THEN IF trigger THEN "BRAM_READ" ELSE "IDLE"
    ELSE IF st = "BRAM_READ"  THEN "BRAM_WAIT"
    ELSE IF st = "BRAM_WAIT"  THEN "VALIDATE"
    ELSE IF st = "VALIDATE"   THEN IF err THEN "ERROR" ELSE "EXECUTE"
    ELSE IF st = "EXECUTE"    THEN "IDLE"
    ELSE IF trigger           THEN st
    ELSE "IDLE"

(***************************************************************************)
(* zns_fsm_validator.v.                                                    *)
(***************************************************************************)
NextState(st, trigger, err) ==
    IF st = "IDLE"            THEN IF trigger THEN "BRAM_READ" ELSE "IDLE"
    ELSE IF st = "BRAM_READ"  THEN "BRAM_WAIT"
    ELSE IF st = "BRAM_WAIT"  THEN "VALIDATE"
    ELSE IF st = "VALIDATE"   THEN IF err THEN "ERROR" ELSE "EXECUTE"
    ELSE IF st = "EXECUTE"    THEN "UPDATE_BRAM"
    ELSE IF trigger           THEN st      \* UPDATE_BRAM, ERROR
    ELSE "IDLE"

\* Mutant: the last page does not set the full flag.
WrittenNeverFull(w) ==
    [wptr |-> (w.wptr + 1) % WptrMod, full |-> FALSE, erase |-> w.erase]

\* The word a write or a reset stores.
Written(w) == IF w.wptr = ZoneSize - 1
              THEN [wptr |-> ZoneSize, full |-> TRUE, erase |-> w.erase]
              ELSE [wptr |-> (w.wptr + 1) % WptrMod, full |-> FALSE,
                    erase |-> w.erase]
Erased(w)  == [wptr |-> 0, full |-> FALSE, erase |-> (w.erase + 1) % ByteMod]

\* bram_wdata after EXECUTE: a command that is neither a write nor a reset
\* assigns nothing, so the register keeps the word of the last one that was.
NewWdata(cmd, w, wdata) ==
    IF cmd = WRITE THEN Written(w) ELSE IF cmd = RESET THEN Erased(w) ELSE wdata

\* Mutant: the address is driven for the metadata read only.
BramAddrReadOnly(st, in) ==
    IF st \in {"BRAM_READ", "BRAM_WAIT", "VALIDATE"} THEN in.zone ELSE 0

\* bram_addr, a combinational output.
BramAddr(st, in) == IF st # "IDLE" \/ in.trigger THEN in.zone ELSE 0

\* The registers after a rising clock edge.
Posedge(r, in, w) ==
    [ state  |-> NextState(r.state, in.trigger, HasError(in, w, r.count)),
      status |-> IF r.state = "IDLE"             THEN FREE
                 ELSE IF r.state = "BRAM_READ"   THEN BUSY
                 ELSE IF r.state = "ERROR"       THEN FAIL
                 ELSE IF r.state = "UPDATE_BRAM" THEN DONE
                 ELSE r.status,
      err    |-> IF r.state = "ERROR"            THEN ErrorCode(in, w, r.count)
                 ELSE IF r.state = "UPDATE_BRAM" THEN 0
                 ELSE r.err,
      we     |-> IF r.state = "EXECUTE"                      THEN TRUE
                 ELSE IF r.state \in {"IDLE", "UPDATE_BRAM"} THEN FALSE
                 ELSE r.we,
      wdata  |-> IF r.state = "EXECUTE" THEN NewWdata(in.cmd, w, r.wdata)
                 ELSE r.wdata,
      count  |-> IF r.state = "EXECUTE" THEN NewCount(in.cmd, w, r.count)
                 ELSE r.count ]

\* The registers after rst.
ResetRegs == [state |-> "IDLE", status |-> FREE, err |-> 0, we |-> FALSE,
              wdata |-> ZeroWord, count |-> 0]

Regs == [state : States, status : {FREE, FAIL, BUSY, DONE}, err : 0..8,
         we : BOOLEAN, wdata : Words, count : 0..(CountMod - 1)]
=============================================================================
