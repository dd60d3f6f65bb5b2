------------------------------- MODULE Eeprom -------------------------------
(***************************************************************************)
(* The controller of the telemetry EEPROM (zns_eeprom_controller.v).  When *)
(* the supply fails it latches a word and shifts it out over SPI, the most *)
(* significant bit first.  The trigger and the word on the pins may change *)
(* at every edge: a failing supply flickers.                               *)
(*                                                                         *)
(* A word is the set of its bits that are one; a line or a register bit is *)
(* 0 or 1.                                                                 *)
(***************************************************************************)
EXTENDS Integers, Sequences

CONSTANTS WordBits,   \* 32
          Words,      \* telemetry words that occur
          WaitEdges   \* edges the testbench waits for the end (352: #20 and #3500)

ASSUME EepromAssumption ==
    /\ WordBits \in Nat \ {0} /\ Words \subseteq SUBSET (0 .. WordBits - 1)
    /\ WaitEdges \in Nat

\* A dump takes 8 edges to select the chip, 8 for each bit and 2 to begin and end.
ASSUME WaitAssumption == WaitEdges >= 8 * WordBits + 10

VARIABLES spi,        \* the registers
          received,   \* the bits the EEPROM has sampled since it was selected
          latched,    \* history: the word on the pins when the dump began
          edges,      \* history: edges since the trigger of the dump was seen
          low,        \* history: 1 if the trigger was low since the last dump began
          again       \* history: 1 if a dump began although it was not
eepromVars == <<spi, received, latched, edges, low, again>>

\* The register after loading word w: shift_reg[1] is the bit sent first.
Bit == {0, 1}
Load(w) == [i \in 1 .. WordBits |-> IF WordBits - i \in w THEN 1 ELSE 0]
ShiftLeft(r) == Tail(r) \o <<0>>

\* Reset.
EepromInit ==
    /\ spi = [state |-> "IDLE", shift_reg |-> Load({}), bit_counter |-> 0, clk_divider |-> 0,
              sck |-> 0, mosi |-> 0, cs_n |-> 1, busy |-> 0, done |-> 0]
    /\ received = << >> /\ latched = {} /\ edges = 0 /\ low = 1 /\ again = 0

BitTick == spi.clk_divider = 7
Divided == IF BitTick THEN 0 ELSE spi.clk_divider + 1

Idle(trigger, w) ==
    [spi EXCEPT !.sck = 0, !.mosi = 0, !.cs_n = 1, !.done = 0, !.clk_divider = 0,
                !.busy = trigger,
                !.state = IF trigger = 1 THEN "START" ELSE @,
                !.shift_reg = IF trigger = 1 THEN Load(w) ELSE @]

StartDump ==
    [spi EXCEPT !.cs_n = 0, !.mosi = spi.shift_reg[1], !.clk_divider = Divided,
                !.state = IF BitTick THEN "TRANSFER" ELSE @,
                !.bit_counter = IF BitTick THEN 0 ELSE @]

\* Mutant: the next bit is put on the line one position too early.
TransferAhead ==
    LET last == spi.bit_counter = WordBits - 1
        next == BitTick /\ ~last
    IN [state |-> IF BitTick /\ last THEN "DONE" ELSE spi.state,
        shift_reg |-> IF next THEN ShiftLeft(spi.shift_reg) ELSE spi.shift_reg,
        bit_counter |-> IF next THEN spi.bit_counter + 1 ELSE spi.bit_counter,
        clk_divider |-> Divided,
        sck |-> IF BitTick THEN 0 ELSE IF spi.clk_divider = 3 THEN 1 ELSE spi.sck,
        mosi |-> IF next THEN spi.shift_reg[1] ELSE IF BitTick THEN 0 ELSE spi.mosi,
        cs_n |-> spi.cs_n, busy |-> spi.busy, done |-> spi.done]

\* The clock line rises in the middle of a bit and falls at its end, where the
\* next bit is put on the data line.
Transfer ==
    LET last == spi.bit_counter = WordBits - 1
        next == BitTick /\ ~last
    IN [state |-> IF BitTick /\ last THEN "DONE" ELSE spi.state,
        shift_reg |-> IF next THEN ShiftLeft(spi.shift_reg) ELSE spi.shift_reg,
        bit_counter |-> IF next THEN spi.bit_counter + 1 ELSE spi.bit_counter,
        clk_divider |-> Divided,
        sck |-> IF BitTick THEN 0 ELSE IF spi.clk_divider = 3 THEN 1 ELSE spi.sck,
        mosi |-> IF next THEN spi.shift_reg[2] ELSE IF BitTick THEN 0 ELSE spi.mosi,
        cs_n |-> spi.cs_n, busy |-> spi.busy, done |-> spi.done]

DoneDump(trigger) ==
    [spi EXCEPT !.cs_n = 1, !.busy = 0, !.done = 1,
                !.state = IF trigger = 1 THEN @ ELSE "IDLE"]

\* The EEPROM: selected by cs_n, it samples the data line when the clock rises.
Sample(new) ==
    received' = IF spi.cs_n = 1 /\ new.cs_n = 0 THEN << >>
                ELSE IF new.cs_n = 0 /\ spi.sck = 0 /\ new.sck = 1 THEN Append(received, new.mosi)
                ELSE received

\* A rising edge of the clock with the trigger and the word w on the pins.
Edge(trigger, w) ==
    LET begins == spi.state = "IDLE" /\ trigger = 1
    IN /\ spi' = CASE spi.state = "IDLE" -> Idle(trigger, w)
                   [] spi.state = "START" -> StartDump
                   [] spi.state = "TRANSFER" -> Transfer
                   [] spi.state = "DONE" -> DoneDump(trigger)
       /\ Sample(spi')
       /\ latched' = IF begins THEN w ELSE latched
       /\ edges' = IF begins THEN 1 ELSE IF spi.busy = 1 THEN edges + 1 ELSE edges
       /\ low' = IF trigger = 0 THEN 1 ELSE IF begins THEN 0 ELSE low
       /\ again' = IF begins /\ low = 0 THEN 1 ELSE again

EepromNext == \E trigger \in Bit, w \in Words : Edge(trigger, w)

-----------------------------------------------------------------------------
\* When the controller reports a dump as done, the EEPROM has sampled the word
\* that was on the pins when the trigger came, bit for bit, however trigger and
\* word changed since; the chip is selected two edges after the trigger and the
\* dump is over within the time the testbench waits; and a trigger that stays
\* high is answered once.
DumpIsExact ==
    /\ spi.done = 1 => received = Load(latched) /\ spi.cs_n = 1
    /\ spi.cs_n = 0 => received = SubSeq(Load(latched), 1, Len(received))
    /\ spi.busy = 1 /\ edges >= 2 => spi.cs_n = 0
    /\ edges <= WaitEdges
    /\ again = 0
=============================================================================
