--------------------------- MODULE HardwareBridge ---------------------------
(***************************************************************************)
(* hardware_bridge.cpp: the Verilator model of the validator with the      *)
(* array mock_bram_storage behind it.  One call of verilator_tick_hardware *)
(* is the action Tick; the sim_set_* functions only store an input pin,    *)
(* the combinational outputs follow at the next tick.                      *)
(***************************************************************************)
EXTENDS ZnsRtl

CONSTANT NumZones     \* words in mock_bram_storage (1024)

ASSUME BridgeAssumption == NumZones \in Nat /\ NumZones >= 1

VARIABLES io,      \* input pins of the validator
          rtl,     \* its registers, open_zones_count included
          addr,    \* bram_addr as the last eval left it
          latch,   \* bram_rdata_latch
          bram     \* mock_bram_storage

bridgeVars == <<io, rtl, addr, latch, bram>>

Zones   == 0..(NumZones - 1)
Pages   == 0..(ZoneSize - 1)
InArray(a) == a < NumZones

Pins == [trigger : BOOLEAN, cmd : {READ, WRITE, RESET, BAD}, zone : Nat,
         page : Nat, thermal : BOOLEAN, bound : {FALSE}]

BridgeTypeOK ==
    /\ io \in Pins
    /\ rtl \in Regs
    /\ addr \in Nat
    /\ latch \in Words
    /\ bram \in [Zones -> Words]

\* After the two reset ticks of main.
BridgeInit ==
    /\ io = [trigger |-> FALSE, cmd |-> READ, zone |-> 0, page |-> 0,
             thermal |-> FALSE, bound |-> FALSE]
    /\ rtl = ResetRegs
    /\ addr = 0
    /\ latch = ZeroWord
    /\ bram = [z \in Zones |-> ZeroWord]

\* Mutant: an address outside the array shows whatever was latched last.
RdataUnchecked == latch

(***************************************************************************)
(* verilator_tick_hardware with the pins in.  The word shown to the RTL is *)
(* the latch, filled by the previous tick from the address of that tick;   *)
(* both the latch and a metadata write use addr, the bram_addr evaluated   *)
(* before this tick.  Pins are assigned by the calling action.             *)
(***************************************************************************)
Rdata == IF InArray(addr) THEN latch ELSE ZeroWord

Tick(in) ==
    LET r == Posedge(rtl, in, Rdata)
    IN  /\ rtl'   = r
        /\ latch' = IF InArray(addr) THEN bram[addr] ELSE latch
        /\ bram'  = IF r.we /\ InArray(addr)
                    THEN [bram EXCEPT ![addr] = r.wdata]
                    ELSE bram
        /\ addr'  = BramAddr(r.state, in)

\* A zone counts against the limit while it is written but not full.
OpenZones == {z \in Zones : bram[z].wptr > 0 /\ ~bram[z].full}
=============================================================================
