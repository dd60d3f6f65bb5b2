------------------------------- MODULE ZnsTop -------------------------------
(***************************************************************************)
(* The controller as it is synthesised (zns_controller.py): the validator  *)
(* RTL of ZnsRtl behind the registered address resolver, the block RAM and *)
(* the thermal manager, where the simulator puts a bridge in C++.          *)
(* Every block is clocked by sys_clk, so one action, Clock, takes all      *)
(* registers from their old values to the new ones.                        *)
(*                                                                         *)
(* The host is tb_zns_controller.v: it sets address, command and trigger   *)
(* at once, holds them HoldTicks edges, looks at the verdict, and keeps    *)
(* the trigger low at least LowTicks edges.  The sensor may change at any  *)
(* time.  The testbench's crypto and EEPROM blocks share only the clock;   *)
(* the latter is module Eeprom.                                            *)
(***************************************************************************)
EXTENDS ZnsRtl

CONSTANTS NumZones,   \* cfg_total_zones, and the words of the block RAM (4096)
          LBAs,       \* addresses the host uses, some of them past the last zone
          HoldTicks,  \* edges with the trigger high (10: #100 at 100 MHz)
          LowTicks    \* edges with the trigger low (6: #60)

ASSUME TopAssumption ==
    /\ NumZones \in Nat \ {0}
    /\ LBAs \subseteq Nat
    /\ HoldTicks \in Nat /\ HoldTicks >= 6
    /\ LowTicks \in Nat /\ LowTicks >= 2

VARIABLES rtl,       \* registers of the validator
          lba, cmd, trigger,   \* host registers
          hot,       \* raw_temperature >= CRITICAL_TEMP_THRESHOLD
          resolved,  \* output registers of the resolver: zone, page, bound
          ram,       \* the metadata words
          rdata,     \* output register of the block RAM
          tripped,   \* out_thermal_shutdown_tripped
          ticks,     \* edges since the host last moved the trigger
          saved,     \* history: ram when the command began
          felt       \* history: sensor values since the command began

vars == <<rtl, lba, cmd, trigger, hot, resolved, ram, rdata, tripped, ticks, saved, felt>>

Zones == 0 .. NumZones - 1
Commands == {READ, WRITE, RESET, BAD}

Init ==
    /\ rtl = ResetRegs
    /\ lba = 0 /\ cmd = READ /\ trigger = FALSE /\ hot = FALSE
    /\ resolved = [zone |-> 0, page |-> 0, bound |-> FALSE]
    /\ ram = [z \in Zones |-> ZeroWord] /\ rdata = ZeroWord
    /\ tripped = FALSE
    /\ ticks = LowTicks
    /\ saved = ram /\ felt = {}

\* Mutant: the comparison lets the first zone past the last one through.
ResolveOffByOne(a) ==
    [zone |-> a \div ZoneSize, page |-> a % ZoneSize, bound |-> a \div ZoneSize > NumZones]

\* zns_address_resolver.v: shift, mask and comparison.
Resolve(a) ==
    [zone |-> a \div ZoneSize, page |-> a % ZoneSize, bound |-> a \div ZoneSize >= NumZones]

\* The pins of the validator.
Pins == [trigger |-> trigger, cmd |-> cmd, zone |-> resolved.zone, page |-> resolved.page,
         thermal |-> tripped, bound |-> resolved.bound]

\* Mutant: the block RAM is addressed only while the machine waits for it.
RamAddrLate == IF rtl.state = "BRAM_WAIT" THEN resolved.zone % NumZones ELSE 0

\* bram_addr[11:0]: the upper address bits are dropped.
RamAddr == BramAddr(rtl.state, Pins) % NumZones

\* Mutant: the trip register keeps its value once it is set.
TripSticky(isHot) == isHot \/ tripped

\* zns_thermal_manager.v: the trip follows the sensor by one edge.
Trip(isHot) == isHot

\* The verdict as the host reads it in nvme_status: 0 is success, 1 busy, and a
\* failure carries the error code under status code type 1.
NvmeStatus ==
    IF rtl.status = FAIL THEN 256 + rtl.err ELSE IF rtl.status = DONE THEN 0 ELSE 1

\* A rising edge of sys_clk.  The RAM shows the word from before the edge.
Clock ==
    /\ rtl' = Posedge(rtl, Pins, rdata)
    /\ resolved' = Resolve(lba)
    /\ ram' = IF rtl.we THEN [ram EXCEPT ![RamAddr] = rtl.wdata] ELSE ram
    /\ rdata' = ram[RamAddr]
    /\ tripped' = Trip(hot)

-----------------------------------------------------------------------------
\* The host gives a command: all its registers change between two edges.
Start(c, a) ==
    /\ ~trigger /\ ticks >= LowTicks
    /\ trigger' = TRUE /\ cmd' = c /\ lba' = a /\ ticks' = 0
    /\ saved' = ram /\ felt' = {hot}
    /\ UNCHANGED <<rtl, hot, resolved, ram, rdata, tripped>>

Hold ==
    /\ trigger /\ ticks < HoldTicks
    /\ Clock
    /\ ticks' = ticks + 1
    /\ UNCHANGED <<lba, cmd, trigger, hot, saved, felt>>

\* The host has read the verdict; it may clear the command with the trigger.
End ==
    /\ trigger /\ ticks = HoldTicks
    /\ trigger' = FALSE /\ ticks' = 0
    /\ cmd' \in {cmd, READ}
    /\ saved' = ram /\ felt' = {}
    /\ UNCHANGED <<rtl, lba, hot, resolved, ram, rdata, tripped>>

Pause ==
    /\ ~trigger
    /\ Clock
    /\ ticks' = IF ticks < LowTicks THEN ticks + 1 ELSE ticks
    /\ UNCHANGED <<lba, cmd, trigger, hot, saved, felt>>

\* The sensor, at any time.
Sense ==
    /\ hot' = ~hot
    /\ felt' = IF trigger THEN felt \cup {~hot} ELSE felt
    /\ UNCHANGED <<rtl, lba, cmd, trigger, resolved, ram, rdata, tripped, ticks, saved>>

Next ==
    \/ \E c \in Commands, a \in LBAs : Start(c, a)
    \/ Hold
    \/ End
    \/ Pause
    \/ Sense

Spec == Init /\ [][Next]_vars

-----------------------------------------------------------------------------
Target == lba \div ZoneSize

\* When the rules decide and when the command executes, the resolver has caught
\* up with the address and the RAM's register holds the current word of the
\* target zone: two registered stages lie between the address and that word,
\* and the machine has two states for them (BRAM_READ, BRAM_WAIT).
RulesSeeTarget ==
    rtl.state \in {"VALIDATE", "EXECUTE"} =>
        /\ resolved = Resolve(lba)
        /\ Target < NumZones => rdata = ram[Target]

\* The memory changes in one word at a time, the one of the zone the address
\* names, and never for an address past the last zone, although the dropped
\* address bits would alias it to a real zone.
StoresOnlyTarget ==
    [][\A z \in Zones : ram'[z] # ram[z] => trigger /\ z = Target]_vars

\* When the host looks, the verdict is there and tells what happened to the
\* memory: a failure stored nothing, a successful write advanced the pointer of
\* its zone from the page the address names, a successful reset emptied it.
VerdictMatchesMemory ==
    trigger /\ ticks = HoldTicks =>
        /\ NvmeStatus # 1
        /\ NvmeStatus # 0 => ram = saved
        /\ NvmeStatus = 0 /\ cmd = WRITE =>
              /\ saved[Target].wptr = lba % ZoneSize
              /\ ram = [saved EXCEPT ![Target] = Written(@)]
        /\ NvmeStatus = 0 /\ cmd = RESET => ram = [saved EXCEPT ![Target] = Erased(@)]

\* A die that is hot throughout a command refuses it with the thermal code; one
\* that is cool throughout never does, and then every failure has a code.
ThermalVerdict ==
    trigger /\ ticks = HoldTicks =>
        /\ felt = {TRUE} => NvmeStatus = 256 + 8
        /\ felt = {FALSE} => NvmeStatus \notin {256, 256 + 8}
=============================================================================
