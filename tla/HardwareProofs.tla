--------------------------- MODULE HardwareProofs ---------------------------
(***************************************************************************)
(* Safety of the telemetry EEPROM, for every width and set of words, of    *)
(* the bus, for every number of channels, order of requests and set of     *)
(* durations, and of the flash array, for every geometry and endurance.    *)
(***************************************************************************)
EXTENDS Hardware, SequenceTheorems, FiniteSetTheorems, WellFoundedInduction, TLAPS

SpiType == [state : {"IDLE", "START", "TRANSFER", "DONE"},
            shift_reg : [1 .. WordBits -> Bit],
            bit_counter : 0 .. WordBits - 1, clk_divider : 0 .. 7,
            sck : Bit, mosi : Bit, cs_n : Bit, busy : Bit, done : Bit]

EepromType ==
    /\ spi \in SpiType
    /\ received \in Seq(Bit)
    /\ latched \in SUBSET (0 .. WordBits - 1)
    /\ edges \in Nat
    /\ low \in Bit /\ again \in Bit

\* The EEPROM has the first m bits of the latched word; the register has been
\* shifted k times.
HasBits(m) == /\ Len(received) = m
              /\ \A i \in 1 .. m : received[i] = Load(latched)[i]
Shifted(k) == \A i \in 1 .. WordBits - k : spi.shift_reg[i] = Load(latched)[i + k]

AtIdle == spi.state = "IDLE" => spi.cs_n = 1 /\ spi.busy = 0 /\ low = 1

AtStart ==
    spi.state = "START" =>
        /\ spi.busy = 1 /\ spi.done = 0 /\ spi.sck = 0
        /\ spi.cs_n = IF spi.clk_divider = 0 THEN 1 ELSE 0
        /\ edges = spi.clk_divider + 1
        /\ Shifted(0)
        /\ spi.clk_divider > 0 => HasBits(0) /\ spi.mosi = Load(latched)[1]

AtTransfer ==
    spi.state = "TRANSFER" =>
        /\ spi.busy = 1 /\ spi.done = 0 /\ spi.cs_n = 0
        /\ spi.sck = IF spi.clk_divider >= 4 THEN 1 ELSE 0
        /\ edges = 8 * spi.bit_counter + spi.clk_divider + 9
        /\ Shifted(spi.bit_counter)
        /\ spi.mosi = Load(latched)[spi.bit_counter + 1]
        /\ spi.clk_divider < 4 => HasBits(spi.bit_counter)
        /\ spi.clk_divider >= 4 => HasBits(spi.bit_counter + 1)

AtDone ==
    spi.state = "DONE" =>
        /\ HasBits(WordBits)
        /\ spi.busy = 1 => spi.cs_n = 0 /\ spi.done = 0 /\ edges = 8 * WordBits + 9
        /\ spi.busy = 0 => spi.cs_n = 1

Ended ==
    /\ spi.done = 1 => HasBits(WordBits) /\ spi.cs_n = 1
    /\ spi.state # "TRANSFER" => spi.sck = 0
    /\ edges <= 8 * WordBits + 10
    /\ again = 0

EepromInv == EepromType /\ AtIdle /\ AtStart /\ AtTransfer /\ AtDone /\ Ended
-----------------------------------------------------------------------------
LEMMA LoadType ==
    ASSUME NEW w
    PROVE  /\ Load(w) \in [1 .. WordBits -> Bit]
           /\ Load(w) \in Seq(Bit) /\ Len(Load(w)) = WordBits
  <1>1. Load(w) \in [1 .. WordBits -> Bit]
    BY DEF Load, Bit
  <1> QED BY <1>1, EepromAssumption, SeqDef

\* A register shifted by one: bit i is what bit i + 1 was.
LEMMA ShiftType ==
    ASSUME NEW r \in [1 .. WordBits -> Bit]
    PROVE  /\ ShiftLeft(r) \in [1 .. WordBits -> Bit]
           /\ \A i \in 1 .. WordBits - 1 : ShiftLeft(r)[i] = r[i + 1]
  <1> USE EepromAssumption DEF Bit
  <1>1. r \in Seq(Bit) /\ Len(r) = WordBits /\ r # << >>
    BY SeqDef
  <1>2. /\ Tail(r) \in Seq(Bit) /\ Len(Tail(r)) = WordBits - 1
        /\ \A i \in 1 .. WordBits - 1 : Tail(r)[i] = r[i + 1]
    BY <1>1, HeadTailProperties
  <1>3. <<0>> \in Seq(Bit) /\ Len(<<0>>) = 1
    OBVIOUS
  <1>4. /\ ShiftLeft(r) \in Seq(Bit) /\ Len(ShiftLeft(r)) = WordBits
        /\ \A i \in 1 .. WordBits - 1 : ShiftLeft(r)[i] = Tail(r)[i]
    BY <1>2, <1>3, ConcatProperties DEF ShiftLeft
  <1>5. ShiftLeft(r) \in [1 .. WordBits -> Bit]
    BY <1>4, LenProperties
  <1> QED BY <1>2, <1>4, <1>5

\* A record with the registers' fields, each of its type.
Spi(q) == [state |-> q.state, shift_reg |-> q.shift_reg, bit_counter |-> q.bit_counter,
           clk_divider |-> q.clk_divider, sck |-> q.sck, mosi |-> q.mosi, cs_n |-> q.cs_n,
           busy |-> q.busy, done |-> q.done]
LEMMA SpiFields ==
    ASSUME NEW q
    PROVE  q \in SpiType <=>
             /\ q = Spi(q)
             /\ q.state \in {"IDLE", "START", "TRANSFER", "DONE"}
             /\ q.shift_reg \in [1 .. WordBits -> Bit]
             /\ q.bit_counter \in 0 .. WordBits - 1 /\ q.clk_divider \in 0 .. 7
             /\ q.sck \in Bit /\ q.mosi \in Bit /\ q.cs_n \in Bit
             /\ q.busy \in Bit /\ q.done \in Bit
  BY DEF Spi, SpiType

\* What an edge in TRANSFER leaves in the registers: inside a bit, at the end of a
\* bit, and at the end of the last one.
LEMMA TransferFields ==
    ASSUME NEW t, t = Transfer, spi \in SpiType
    PROVE  /\ t = Spi(t) /\ t.busy = spi.busy /\ t.done = spi.done /\ t.cs_n = spi.cs_n
           /\ spi.clk_divider < 7 =>
                /\ t.state = spi.state /\ t.clk_divider = spi.clk_divider + 1
                /\ t.bit_counter = spi.bit_counter /\ t.shift_reg = spi.shift_reg
                /\ t.mosi = spi.mosi /\ t.sck = IF spi.clk_divider = 3 THEN 1 ELSE spi.sck
           /\ spi.clk_divider = 7 /\ spi.bit_counter # WordBits - 1 =>
                /\ t.state = spi.state /\ t.clk_divider = 0
                /\ t.bit_counter = spi.bit_counter + 1 /\ t.shift_reg = ShiftLeft(spi.shift_reg)
                /\ t.mosi = spi.shift_reg[2] /\ t.sck = 0
           /\ spi.clk_divider = 7 /\ spi.bit_counter = WordBits - 1 =>
                /\ t.state = "DONE" /\ t.clk_divider = 0
                /\ t.bit_counter = spi.bit_counter /\ t.shift_reg = spi.shift_reg
                /\ t.mosi = 0 /\ t.sck = 0
  <1>1. CASE spi.clk_divider < 7
    BY <1>1, SpiFields DEF Transfer, BitTick, Divided, Spi
  <1>2. CASE spi.clk_divider = 7 /\ spi.bit_counter # WordBits - 1
    BY <1>2, SpiFields DEF Transfer, BitTick, Divided, Spi
  <1>3. CASE spi.clk_divider = 7 /\ spi.bit_counter = WordBits - 1
    BY <1>3, SpiFields DEF Transfer, BitTick, Divided, Spi
  <1>4. spi.clk_divider \in 0 .. 7
    BY SpiFields
  <1> QED BY <1>1, <1>2, <1>3, <1>4

LEMMA SpiMember ==
    ASSUME NEW q, q = Spi(q),
           q.state \in {"IDLE", "START", "TRANSFER", "DONE"},
           q.shift_reg \in [1 .. WordBits -> Bit],
           q.bit_counter \in 0 .. WordBits - 1, q.clk_divider \in 0 .. 7,
           q.sck \in Bit, q.mosi \in Bit, q.cs_n \in Bit, q.busy \in Bit, q.done \in Bit
    PROVE  q \in SpiType
  BY DEF Spi, SpiType

LEMMA EepromInitInv == EepromInit => EepromInv
  <1> SUFFICES ASSUME EepromInit PROVE EepromInv
    OBVIOUS
  <1> USE EepromAssumption DEF Bit
  <1>1. EepromType
    BY LoadType DEF EepromInit, EepromType, SpiType
  <1> QED BY <1>1 DEF EepromInit, EepromInv, AtIdle, AtStart, AtTransfer, AtDone, Ended

\* The registers of an edge that begins a dump, or waits for a trigger.
LEMMA IdleEdge ==
    ASSUME EepromInv, NEW trigger \in Bit, NEW w \in Words, Edge(trigger, w),
           spi.state = "IDLE"
    PROVE  EepromInv'
  <1> USE EepromAssumption DEF EepromInv, Bit
  <1>1. spi' = Idle(trigger, w) /\ spi.cs_n = 1 /\ spi.busy = 0 /\ spi.sck = 0 /\ low = 1 /\ again = 0
        /\ edges <= 8 * WordBits + 10 /\ edges \in Nat
    BY DEF Edge, AtIdle, Ended, EepromType
  <1>2. /\ spi' = Spi(spi') /\ spi'.cs_n = 1 /\ spi'.sck = 0 /\ spi'.done = 0
        /\ spi'.clk_divider = 0 /\ spi'.mosi = 0 /\ spi'.busy = trigger
        /\ spi'.state = IF trigger = 1 THEN "START" ELSE "IDLE"
        /\ spi'.shift_reg = IF trigger = 1 THEN Load(w) ELSE spi.shift_reg
        /\ spi'.bit_counter = spi.bit_counter
    BY <1>1 DEF Idle, EepromType, SpiType, Spi
  <1>8. spi' \in SpiType
    BY <1>2, LoadType, SpiFields DEF EepromType
  <1>3. received' = received
    BY <1>1, <1>2 DEF Edge, Sample
  <1>4. /\ latched' = IF trigger = 1 THEN w ELSE latched
        /\ edges' = IF trigger = 1 THEN 1 ELSE edges
        /\ low' = IF trigger = 0 THEN 1 ELSE 0
        /\ again' = 0
    BY <1>1 DEF Edge
  <1>5. EepromType'
    BY <1>3, <1>4, <1>8 DEF EepromType
  <1>6. CASE trigger = 1
    <2>1. (Shifted(0))'
      BY <1>2, <1>4, <1>6, LoadType DEF Shifted
    <2> QED BY <1>2, <1>4, <1>5, <1>6, <2>1 DEF AtIdle, AtStart, AtTransfer, AtDone, Ended
  <1>7. CASE trigger = 0
    BY <1>1, <1>2, <1>4, <1>5, <1>7 DEF AtIdle, AtStart, AtTransfer, AtDone, Ended
  <1> QED BY <1>6, <1>7

LEMMA StartEdge ==
    ASSUME EepromInv, NEW trigger \in Bit, NEW w \in Words, Edge(trigger, w),
           spi.state = "START"
    PROVE  EepromInv'
  <1> USE EepromAssumption DEF EepromInv, Bit
  <1>1. /\ spi' = StartDump /\ spi.busy = 1 /\ spi.done = 0 /\ spi.sck = 0 /\ again = 0
        /\ edges = spi.clk_divider + 1 /\ Shifted(0) /\ spi.clk_divider \in 0 .. 7
        /\ spi.cs_n = IF spi.clk_divider = 0 THEN 1 ELSE 0
        /\ spi.clk_divider > 0 => HasBits(0)
    BY DEF Edge, AtStart, Ended, EepromType, SpiType
  <1>2. /\ spi' = Spi(spi') /\ spi'.cs_n = 0 /\ spi'.sck = 0 /\ spi'.done = 0 /\ spi'.busy = 1
        /\ spi'.mosi = spi.shift_reg[1]
        /\ spi'.shift_reg = spi.shift_reg
        /\ spi'.clk_divider = IF spi.clk_divider = 7 THEN 0 ELSE spi.clk_divider + 1
        /\ spi'.state = IF spi.clk_divider = 7 THEN "TRANSFER" ELSE "START"
        /\ spi'.bit_counter = IF spi.clk_divider = 7 THEN 0 ELSE spi.bit_counter
    BY <1>1 DEF StartDump, EepromType, SpiType, BitTick, Divided, Spi
  <1>11. spi' \in SpiType
    <2>1. /\ spi.shift_reg \in [1 .. WordBits -> Bit] /\ spi.bit_counter \in 0 .. WordBits - 1
          /\ spi.clk_divider \in 0 .. 7
      BY DEF EepromType, SpiType
    <2>2. spi'.mosi \in Bit
      BY <1>2, <2>1
    <2>3. spi'.clk_divider \in 0 .. 7
      BY <1>2, <2>1
    <2>4. spi'.bit_counter \in 0 .. WordBits - 1
      BY <1>2, <2>1
    <2> QED BY <1>2, <2>1, <2>2, <2>3, <2>4, SpiMember
  <1>3. received' = IF spi.clk_divider = 0 THEN << >> ELSE received
    BY <1>1, <1>2 DEF Edge, Sample
  <1>4. latched' = latched /\ edges' = edges + 1 /\ again' = 0 /\ low' \in Bit
    BY <1>1 DEF Edge, EepromType
  <1>5. EepromType'
    BY <1>1, <1>3, <1>4, <1>11 DEF EepromType
  <1>6. (HasBits(0))'
    BY <1>1, <1>3, <1>4 DEF HasBits
  <1>7. (Shifted(0))' /\ spi'.mosi = Load(latched)'[1]
    BY <1>1, <1>2, <1>4, LoadType DEF Shifted
  <1>8. AtIdle' /\ AtDone' /\ Ended'
    BY <1>1, <1>2, <1>4 DEF AtIdle, AtDone, Ended
  <1>9. AtStart'
    BY <1>1, <1>2, <1>4, <1>6, <1>7 DEF AtStart
  <1>10. AtTransfer'
    BY <1>1, <1>2, <1>4, <1>6, <1>7 DEF AtTransfer
  <1> QED BY <1>5, <1>8, <1>9, <1>10

LEMMA TransferEdge ==
    ASSUME EepromInv, NEW trigger \in Bit, NEW w \in Words, Edge(trigger, w),
           spi.state = "TRANSFER"
    PROVE  EepromInv'
  <1> USE EepromAssumption DEF Bit
  <1>0. spi \in SpiType /\ spi' = Transfer
    BY DEF EepromInv, EepromType, Edge
  <1>1. PICK b \in 0 .. WordBits - 1, d \in 0 .. 7, r \in [1 .. WordBits -> Bit], m \in Bit :
            b = spi.bit_counter /\ d = spi.clk_divider /\ r = spi.shift_reg /\ m = spi.mosi
    BY <1>0, SpiFields
  <1>2. /\ spi.busy = 1 /\ spi.done = 0 /\ spi.cs_n = 0 /\ again = 0
        /\ spi.sck = IF d >= 4 THEN 1 ELSE 0
        /\ edges = 8 * b + d + 9
        /\ Shifted(b) /\ m = Load(latched)[b + 1]
        /\ d < 4 => HasBits(b)
        /\ d >= 4 => HasBits(b + 1)
    BY <1>1 DEF AtTransfer, Ended, EepromInv
  <1>3. /\ received \in Seq(Bit) /\ latched \in SUBSET (0 .. WordBits - 1) /\ edges \in Nat
        /\ low \in Bit
    BY DEF EepromInv, EepromType
  <1>4. latched' = latched /\ edges' = edges + 1 /\ again' = 0 /\ low' \in Bit
    BY <1>2, <1>3 DEF Edge
  <1>5. /\ spi' = Spi(spi') /\ spi'.busy = 1 /\ spi'.done = 0 /\ spi'.cs_n = 0
        /\ d < 7 =>
             /\ spi'.state = "TRANSFER" /\ spi'.clk_divider = d + 1 /\ spi'.bit_counter = b
             /\ spi'.shift_reg = r /\ spi'.mosi = m
             /\ spi'.sck = IF d = 3 THEN 1 ELSE spi.sck
        /\ d = 7 /\ b # WordBits - 1 =>
             /\ spi'.state = "TRANSFER" /\ spi'.clk_divider = 0 /\ spi'.bit_counter = b + 1
             /\ spi'.shift_reg = ShiftLeft(r) /\ spi'.mosi = r[2] /\ spi'.sck = 0
        /\ d = 7 /\ b = WordBits - 1 =>
             /\ spi'.state = "DONE" /\ spi'.clk_divider = 0 /\ spi'.bit_counter = b
             /\ spi'.shift_reg = r /\ spi'.mosi = 0 /\ spi'.sck = 0
    <2>1. /\ spi' = Spi(spi') /\ spi'.busy = spi.busy /\ spi'.done = spi.done
          /\ spi'.cs_n = spi.cs_n
      BY <1>0, TransferFields
    <2>2. CASE d < 7
      BY <1>0, <1>1, <1>2, <2>1, <2>2, TransferFields
    <2>3. CASE d = 7 /\ b # WordBits - 1
      BY <1>0, <1>1, <1>2, <2>1, <2>3, TransferFields
    <2>4. CASE d = 7 /\ b = WordBits - 1
      BY <1>0, <1>1, <1>2, <2>1, <2>4, TransferFields
    <2> QED BY <2>2, <2>3, <2>4
  <1>6. received' = IF spi.sck = 0 /\ spi'.sck = 1 THEN Append(received, spi'.mosi) ELSE received
    BY <1>2, <1>5 DEF Edge, Sample
  <1>7. CASE d < 7
    <2>1. spi'.sck = IF d >= 3 THEN 1 ELSE 0
      BY <1>2, <1>5, <1>7
    <2>2. spi' \in SpiType
      <3>1. spi'.clk_divider \in 0 .. 7
        BY <1>5, <1>7, SMTT(30)
      <3>2. spi'.sck \in Bit
        BY <2>1
      <3> QED BY <1>5, <1>7, <3>1, <3>2, SpiMember
    <2>3. received' = IF d = 3 THEN Append(received, m) ELSE received
      BY <1>2, <1>5, <1>6, <1>7, <2>1
    <2>4. received' \in Seq(Bit)
      BY <1>3, <2>3, AppendProperties
    <2>5. d < 3 => (HasBits(b))'
      BY <1>2, <1>4, <2>3 DEF HasBits
    <2>6. d >= 3 => (HasBits(b + 1))'
      <3>1. CASE d = 3
        <4>1. Len(received) = b /\ \A i \in 1 .. b : received[i] = Load(latched)[i]
          BY <1>2, <3>1 DEF HasBits
        <4>2. /\ Len(received') = Len(received) + 1 /\ received'[Len(received) + 1] = m
              /\ \A i \in 1 .. Len(received) : received'[i] = received[i]
          BY <1>3, <2>3, <3>1, AppendProperties
        <4>3. /\ Len(received') = b + 1 /\ received'[b + 1] = Load(latched)[b + 1]
              /\ \A i \in 1 .. b : received'[i] = Load(latched)[i]
          BY <1>2, <4>1, <4>2
        <4>4. \A i \in 1 .. b + 1 : i = b + 1 \/ i \in 1 .. b
          OBVIOUS
        <4>5. \A i \in 1 .. b + 1 : received'[i] = Load(latched)[i]
          BY <4>3, <4>4
        <4>6. \A i \in 1 .. b + 1 : received'[i] = Load(latched')[i]
          BY <1>4, <4>5
        <4> QED BY <4>3, <4>6 DEF HasBits
      <3>2. CASE d > 3
        BY <1>2, <1>4, <2>3, <3>2 DEF HasBits
      <3> QED BY <3>1, <3>2
    <2>7. EepromType'
      BY <1>3, <1>4, <2>2, <2>4 DEF EepromType
    <2>8. (Shifted(b))' /\ spi'.mosi = Load(latched')[b + 1]
      BY <1>1, <1>2, <1>4, <1>5, <1>7 DEF Shifted
    <2>9. AtTransfer'
      <3>1. /\ spi'.sck = IF d + 1 >= 4 THEN 1 ELSE 0
            /\ edges' = 8 * b + (d + 1) + 9
            /\ d + 1 < 4 => (HasBits(b))'
            /\ d + 1 >= 4 => (HasBits(b + 1))'
        BY <1>2, <1>4, <2>1, <2>5, <2>6
      <3> QED BY <1>5, <1>7, <2>8, <3>1 DEF AtTransfer
    <2>10. AtIdle' /\ AtStart' /\ AtDone'
      BY <1>5, <1>7 DEF AtIdle, AtStart, AtDone
    <2>11. Ended'
      BY <1>2, <1>4, <1>5, <1>7 DEF Ended
    <2> QED BY <2>7, <2>9, <2>10, <2>11 DEF EepromInv
  <1>8. CASE d = 7 /\ b # WordBits - 1
    <2>1. 2 \in 1 .. WordBits /\ b + 1 \in 0 .. WordBits - 1
      BY <1>8
    <2>2. r[2] \in Bit /\ ShiftLeft(r) \in [1 .. WordBits -> Bit]
      BY <2>1, ShiftType
    <2>3. spi' \in SpiType
      <3>1. spi'.bit_counter \in 0 .. WordBits - 1 /\ spi'.clk_divider \in 0 .. 7
        BY <1>5, <1>8, <2>1
      <3> QED BY <1>5, <1>8, <2>2, <3>1, SpiMember
    <2>4. received' = received
      BY <1>5, <1>6, <1>8
    <2>5. (HasBits(b + 1))'
      BY <1>2, <1>4, <1>8, <2>4 DEF HasBits
    <2>6. ASSUME NEW i \in 1 .. WordBits - (b + 1)
          PROVE  ShiftLeft(r)[i] = Load(latched)[i + (b + 1)]
      <3>1. i \in 1 .. WordBits - 1 /\ i + 1 \in 1 .. WordBits - b
        BY <1>8
      <3>2. ShiftLeft(r)[i] = r[i + 1]
        BY <3>1, ShiftType
      <3>3. r[i + 1] = Load(latched)[(i + 1) + b]
        BY <1>1, <1>2, <3>1 DEF Shifted
      <3>4. (i + 1) + b = i + (b + 1)
        OBVIOUS
      <3> QED BY <3>2, <3>3, <3>4
    <2>7. (Shifted(b + 1))'
      BY <1>4, <1>5, <1>8, <2>6 DEF Shifted
    <2>8. spi'.mosi = Load(latched')[b + 2]
      <3>1. 2 \in 1 .. WordBits - b /\ 2 + b = b + 2
        BY <1>8
      <3>2. r[2] = Load(latched)[2 + b]
        BY <1>1, <1>2, <3>1 DEF Shifted
      <3> QED BY <1>4, <1>5, <1>8, <3>1, <3>2
    <2>9. EepromType'
      BY <1>3, <1>4, <2>3, <2>4 DEF EepromType
    <2>10. AtTransfer'
      BY <1>2, <1>4, <1>5, <1>8, <2>5, <2>7, <2>8, SMTT(30) DEF AtTransfer
    <2>11. AtIdle' /\ AtStart' /\ AtDone'
      BY <1>5, <1>8 DEF AtIdle, AtStart, AtDone
    <2>12. Ended'
      BY <1>2, <1>4, <1>5, <1>8 DEF Ended
    <2> QED BY <2>9, <2>10, <2>11, <2>12 DEF EepromInv
  <1>9. CASE d = 7 /\ b = WordBits - 1
    <2>1. spi' \in SpiType
      <3>1. spi'.clk_divider \in 0 .. 7
        BY <1>5, <1>9
      <3> QED BY <1>5, <1>9, <3>1, SpiMember
    <2>2. received' = received
      BY <1>5, <1>6, <1>9
    <2>3. (HasBits(WordBits))'
      BY <1>2, <1>4, <1>9, <2>2 DEF HasBits
    <2>4. EepromType'
      BY <1>3, <1>4, <2>1, <2>2 DEF EepromType
    <2>5. AtDone'
      BY <1>2, <1>4, <1>5, <1>9, <2>3 DEF AtDone
    <2>6. AtIdle' /\ AtStart' /\ AtTransfer'
      BY <1>5, <1>9 DEF AtIdle, AtStart, AtTransfer
    <2>7. Ended'
      BY <1>2, <1>4, <1>5, <1>9 DEF Ended
    <2> QED BY <2>4, <2>5, <2>6, <2>7 DEF EepromInv
  <1> QED BY <1>7, <1>8, <1>9

LEMMA DoneEdge ==
    ASSUME EepromInv, NEW trigger \in Bit, NEW w \in Words, Edge(trigger, w),
           spi.state = "DONE"
    PROVE  EepromInv'
  <1> USE EepromAssumption DEF EepromInv, Bit
  <1>1. /\ spi' = DoneDump(trigger) /\ HasBits(WordBits) /\ spi.sck = 0 /\ again = 0
        /\ spi.busy = 1 => edges = 8 * WordBits + 9
        /\ edges <= 8 * WordBits + 10 /\ edges \in Nat
    BY DEF Edge, AtDone, Ended, EepromType
  <1>2. /\ spi' = Spi(spi') /\ spi'.cs_n = 1 /\ spi'.busy = 0 /\ spi'.sck = 0 /\ spi'.done = 1
        /\ spi'.state = IF trigger = 1 THEN "DONE" ELSE "IDLE"
        /\ spi'.shift_reg = spi.shift_reg /\ spi'.mosi = spi.mosi
        /\ spi'.clk_divider = spi.clk_divider /\ spi'.bit_counter = spi.bit_counter
    BY <1>1 DEF DoneDump, EepromType, SpiType, Spi
  <1>9. spi' \in SpiType
    BY <1>2, SpiFields DEF EepromType
  <1>3. received' = received
    BY <1>1, <1>2 DEF Edge, Sample
  <1>4. /\ latched' = latched /\ again' = 0 /\ low' \in Bit /\ (trigger = 0 => low' = 1)
        /\ edges' = IF spi.busy = 1 THEN edges + 1 ELSE edges
    BY <1>1 DEF Edge, EepromType
  <1>5. EepromType'
    BY <1>1, <1>3, <1>4, <1>9 DEF EepromType
  <1>6. (HasBits(WordBits))'
    BY <1>1, <1>3, <1>4 DEF HasBits
  <1>7. Ended'
    BY <1>1, <1>2, <1>4, <1>6 DEF Ended
  <1>8. AtIdle' /\ AtStart' /\ AtTransfer' /\ AtDone'
    BY <1>2, <1>4, <1>6 DEF AtIdle, AtStart, AtTransfer, AtDone
  <1> QED BY <1>5, <1>7, <1>8

\* Every reachable state of the EEPROM's controller satisfies its invariant.
THEOREM EepromInvariant == Spec => []EepromInv
  <1>1. Init => EepromInv
    BY EepromInitInv DEF Init
  <1>2. EepromInv /\ [Next]_vars => EepromInv'
    <2> SUFFICES ASSUME EepromInv, [Next]_vars PROVE EepromInv'
      OBVIOUS
    <2>1. CASE EepromStep
      <3>1. PICK trigger \in Bit, w \in Words : Edge(trigger, w)
        BY <2>1 DEF EepromStep, EepromNext
      <3>2. spi.state \in {"IDLE", "START", "TRANSFER", "DONE"}
        BY DEF EepromInv, EepromType, SpiType
      <3> QED BY <3>1, <3>2, IdleEdge, StartEdge, TransferEdge, DoneEdge
    <2>2. CASE UNCHANGED eepromVars
      <3>1. /\ spi' = spi /\ received' = received /\ latched' = latched /\ edges' = edges
            /\ low' = low /\ again' = again
        BY <2>2 DEF eepromVars
      <3>2. EepromType'
        BY <3>1 DEF EepromInv, EepromType
      <3>3. /\ \A m : HasBits(m)' <=> HasBits(m)
            /\ \A k : Shifted(k)' <=> Shifted(k)
        BY <3>1 DEF HasBits, Shifted
      <3>4. AtIdle' /\ AtStart' /\ AtTransfer' /\ AtDone' /\ Ended'
        BY <3>1, <3>3 DEF EepromInv, AtIdle, AtStart, AtTransfer, AtDone, Ended
      <3> QED BY <3>2, <3>4 DEF EepromInv
    <2> QED BY <2>1, <2>2 DEF Next, BusStep, ArrayStep, vars
  <1> QED BY <1>1, <1>2, PTL DEF Spec

\* For every width, set of words and flicker of trigger and pins the EEPROM gets
\* the latched word, once for a trigger and within the testbench's time.
THEOREM DumpCorrect == Spec => []DumpIsExact
  <1>1. EepromInv => DumpIsExact
    <2> SUFFICES ASSUME EepromInv PROVE DumpIsExact
      OBVIOUS
    <2> USE EepromAssumption, WaitAssumption DEF EepromInv, Bit
    <2>1. received \in Seq(Bit) /\ Load(latched) \in Seq(Bit)
          /\ Len(Load(latched)) = WordBits
      BY LoadType DEF EepromType
    <2>2. spi.done = 1 => received = Load(latched) /\ spi.cs_n = 1
      BY <2>1, SeqEqual DEF Ended, HasBits
    <2>3. ASSUME spi.cs_n = 0 PROVE received = SubSeq(Load(latched), 1, Len(received))
      <3>1. PICK m \in 0 .. WordBits : HasBits(m)
        <4>1. spi.state \in {"START", "TRANSFER", "DONE"}
              /\ spi.clk_divider \in 0 .. 7 /\ spi.bit_counter \in 0 .. WordBits - 1
          BY <2>3 DEF AtIdle, EepromType, SpiType
        <4>2. CASE spi.state = "START"
          BY <2>3, <4>1, <4>2 DEF AtStart
        <4>3. CASE spi.state = "TRANSFER"
          BY <4>1, <4>3 DEF AtTransfer
        <4>4. CASE spi.state = "DONE"
          BY <4>4 DEF AtDone
        <4> QED BY <4>1, <4>2, <4>3, <4>4
      <3>2. Len(received) = m /\ \A i \in 1 .. m : received[i] = Load(latched)[i]
        BY <3>1 DEF HasBits
      <3>3. \A i \in 1 .. m : Load(latched)[i] \in Bit
        BY <2>1, ElementOfSeq
      <3>4. /\ SubSeq(Load(latched), 1, m) \in Seq(Bit)
            /\ Len(SubSeq(Load(latched), 1, m)) = m
            /\ \A i \in 1 .. m : SubSeq(Load(latched), 1, m)[i] = Load(latched)[i]
        BY <3>3, SubSeqProperties
      <3> QED BY <2>1, <3>2, <3>4, SeqEqual
    <2>4. spi.busy = 1 /\ edges >= 2 => spi.cs_n = 0
      <3>1. spi.state \in {"IDLE", "START", "TRANSFER", "DONE"} /\ spi.clk_divider \in 0 .. 7
        BY DEF EepromType, SpiType
      <3> QED BY <3>1 DEF AtIdle, AtStart, AtTransfer, AtDone
    <2>5. edges <= WaitEdges /\ again = 0
      BY DEF Ended, EepromType
    <2> QED BY <2>2, <2>3, <2>4, <2>5 DEF DumpIsExact
  <1> QED BY <1>1, EepromInvariant, PTL

-----------------------------------------------------------------------------
\* The bus.  An interval of a channel's table, and a table of disjoint ones.
Interval == [lock : Nat, unlock : Nat]
Grant == [channel : Channels, id : Nat, start : Nat, lock : Nat, unlock : Nat]
Table(T) == /\ T \subseteq Interval
            /\ \A e \in T : e.lock < e.unlock
            /\ \A e, f \in T : e = f \/ e.unlock <= f.lock \/ f.unlock <= e.lock

ChannelRecord == [timings : SUBSET Interval, ready_at : Nat \cup {Never},
                  num_connected : {NewChannel.num_connected}]

EventRecord == [id : Nat, start_time : Nat, time_taken : Nat, bus_wait_time : Nat]

BusType ==
    /\ channel \in [Channels -> ChannelRecord]
    /\ event \in EventRecord
    /\ granted \in Seq(Grant)

\* A table keeps what it was given, unless a later request made it forget.
Kept ==
    \A i \in 1 .. Len(granted) :
        \/ [lock |-> granted[i].lock, unlock |-> granted[i].unlock]
              \in channel[granted[i].channel].timings
        \/ \E k \in i + 1 .. Len(granted) : /\ granted[k].channel = granted[i].channel
                                             /\ granted[k].start >= granted[i].unlock

\* Channel, event and history agree on the times.
BusTimes ==
    /\ \A c \in Channels : Table(channel[c].timings)
    /\ \A c \in Channels : \A e \in channel[c].timings : e.unlock <= channel[c].ready_at
    /\ \A c \in Channels : channel[c].ready_at # Never =>
                             \E i \in 1 .. Len(granted) : granted[i].channel = c
    /\ \A i \in 1 .. Len(granted) :
          /\ granted[i].unlock <= channel[granted[i].channel].ready_at
          /\ granted[i].id <= event.id
          /\ granted[i].id = event.id => granted[i].unlock <= event.start_time + event.time_taken

InOrder ==
    \A i, j \in 1 .. Len(granted) :
        i < j /\ granted[i].id = granted[j].id => granted[i].unlock <= granted[j].lock

BusInv == BusType /\ Kept /\ BusTimes /\ InOrder /\ OverlapOnlyBehindExpiry

LEMMA NatMin ==
    ASSUME NEW S, S \subseteq Nat, S # {}
    PROVE  \E x \in S : \A y \in S : x <= y
  <1>1. PICK x \in S : \A y \in S : ~ (<<y, x>> \in OpToRel(<, Nat))
    BY NatLessThanWellFounded, WFMin
  <1>2. \A y \in S : ~ (y < x)
    BY <1>1 DEF OpToRel
  <1> QED BY <1>2

LEMMA EarliestIsFirst ==
    ASSUME NEW T, T \subseteq Interval, T # {}
    PROVE  Earliest(T) \in T /\ \A f \in T : Earliest(T).lock <= f.lock
  <1> DEFINE S == {e.lock : e \in T}
  <1>1. S \subseteq Nat /\ S # {}
    BY DEF Interval
  <1>2. PICK x \in S : \A y \in S : x <= y
    BY <1>1, NatMin
  <1>3. \E e \in T : \A f \in T : e.lock <= f.lock
    BY <1>2
  <1> QED BY <1>3 DEF Earliest

LEMMA LatestIsLast ==
    ASSUME NEW T, T \subseteq Interval, T # {}, NEW m \in Nat, \A e \in T : e.lock <= m
    PROVE  Latest(T) \in T /\ \A f \in T : f.lock <= Latest(T).lock
  <1> DEFINE S == {m - e.lock : e \in T}
  <1>1. S \subseteq Nat /\ S # {}
    BY DEF Interval
  <1>2. PICK x \in S : \A y \in S : x <= y
    BY <1>1, NatMin
  <1>3. \E e \in T : \A f \in T : f.lock <= e.lock
    <2>1. PICK e \in T : x = m - e.lock
      OBVIOUS
    <2>2. \A f \in T : m - e.lock <= m - f.lock
      BY <1>2, <2>1
    <2>3. \A f \in T : f.lock \in Nat
      BY DEF Interval
    <2> QED BY <2>2, <2>3
  <1> QED BY <1>3 DEF Latest

\* Channel::lock finds the first time, from start on, at which no interval of a
\* table without expired intervals is in the way.
LEMMA ScheduledFits ==
    ASSUME NEW T, Table(T), NEW m \in Nat, \A e \in T : e.lock <= m,
           NEW start \in Nat, \A e \in T : e.unlock > start, NEW d \in Nat \ {0}
    PROVE  /\ SchedTime(T, start, d) \in Nat /\ SchedTime(T, start, d) >= start
           /\ Fits(T, SchedTime(T, start, d), d)
           /\ \A t \in start .. SchedTime(T, start, d) - 1 : ~Fits(T, t, d)
  <1> DEFINE s == SchedTime(T, start, d)
  <1>1. /\ T \subseteq Interval
        /\ \A e \in T : e.lock \in Nat /\ e.unlock \in Nat /\ e.lock < e.unlock
        /\ \A e, f \in T : e = f \/ e.unlock <= f.lock \/ f.unlock <= e.lock
    BY DEF Table, Interval
  <1>2. CASE T = {}
    BY <1>2 DEF SchedTime, Fits
  <1>3. CASE T # {} /\ Earliest(T).lock > start /\ Earliest(T).lock - start >= d
    <2>1. s = start
      BY <1>3 DEF SchedTime
    <2>2. Earliest(T) \in T /\ \A f \in T : Earliest(T).lock <= f.lock
      BY <1>1, <1>3, EarliestIsFirst
    <2>3. Fits(T, s, d)
      BY <1>1, <1>3, <2>1, <2>2 DEF Fits
    <2> QED BY <2>1, <2>3
  <1>4. CASE T # {} /\ ~(Earliest(T).lock > start /\ Earliest(T).lock - start >= d)
    <2> DEFINE R == RoomAfter(T, d)
    <2>1. R \subseteq T
      BY DEF RoomAfter
    <2>2. PICK e \in T : /\ s = e.unlock
                         /\ \A f \in T : f.lock > e.lock => f.lock - e.unlock >= d
                         /\ \A g \in R : e.lock <= g.lock
      <3>1. CASE R # {}
        <4>1. Earliest(R) \in R /\ \A g \in R : Earliest(R).lock <= g.lock
          BY <1>1, <2>1, <3>1, EarliestIsFirst
        <4>2. s = Earliest(R).unlock
          BY <1>4, <3>1 DEF SchedTime
        <4> QED BY <2>1, <4>1, <4>2 DEF RoomAfter
      <3>2. CASE R = {}
        <4>1. Latest(T) \in T /\ \A f \in T : f.lock <= Latest(T).lock
          BY <1>1, <1>4, LatestIsLast
        <4>2. s = Latest(T).unlock
          BY <1>4, <3>2 DEF SchedTime
        <4>3. \A f \in T : ~(f.lock > Latest(T).lock)
          BY <1>1, <4>1
        <4> QED BY <3>2, <4>1, <4>2, <4>3
      <3> QED BY <3>1, <3>2
    <2>3. \A f \in T : f.lock <= e.lock => f.unlock <= e.unlock
      BY <1>1, <2>2
    <2>4. Fits(T, s, d)
      BY <1>1, <2>2, <2>3 DEF Fits
    <2>5. ASSUME NEW t \in start .. s - 1, Fits(T, t, d) PROVE FALSE
      <3> DEFINE A == {f \in T : f.unlock <= t}
      <3>1. \A f \in T : f \in A \/ t + d <= f.lock
        BY <2>5 DEF Fits
      <3>2. e \notin A /\ t + d <= e.lock
        BY <1>1, <2>2, <3>1
      <3>3. A # {}
        <4> SUFFICES ASSUME A = {} PROVE FALSE
          OBVIOUS
        <4>1. Earliest(T) \in T
          BY <1>1, <1>4, EarliestIsFirst
        <4>2. t + d <= Earliest(T).lock
          BY <3>1, <4>1
        <4> QED BY <1>1, <1>4, <4>1, <4>2
      <3>4. PICK g \in A : \A f \in A : f.lock <= g.lock
        <4>1. A \subseteq Interval /\ \A f \in A : f.lock <= m
          BY <1>1
        <4> QED BY <3>3, <4>1, LatestIsLast
      <3>5. g \in T /\ g.unlock <= t /\ g.lock < g.unlock /\ g.lock \in Nat /\ g.unlock \in Nat
        BY <1>1, <3>4
      <3>6. g.lock < e.lock /\ e.lock \in Nat
        BY <1>1, <3>2, <3>5
      <3>7. \A f \in T : f.lock > g.lock => f.lock - g.unlock >= d
        <4> SUFFICES ASSUME NEW f \in T, f.lock > g.lock PROVE f.lock - g.unlock >= d
          OBVIOUS
        <4>1. f \notin A
          BY <1>1, <3>4, <3>5
        <4> QED BY <1>1, <3>1, <3>5, <4>1
      <3>8. g \in R
        BY <3>5, <3>6, <3>7 DEF RoomAfter
      <3> QED BY <2>2, <3>5, <3>6, <3>8
    <2> QED BY <1>1, <2>2, <2>4, <2>5
  <1> QED BY <1>2, <1>3, <1>4

LEMMA BusInitInv == BusInit => BusInv
  <1> SUFFICES ASSUME BusInit PROVE BusInv
    OBVIOUS
  <1>1. PICK n : NewChannel = [timings |-> {}, ready_at |-> Never, num_connected |-> n]
    BY Zenon DEF NewChannel
  <1>2. NewChannel.timings = {} /\ NewChannel.ready_at = Never
        /\ NewChannel.num_connected = n
    BY <1>1
  <1>3. NewChannel \in ChannelRecord
    BY <1>1, <1>2 DEF ChannelRecord
  <1>4. \A c \in Channels : channel[c] = NewChannel
    BY DEF BusInit
  <1>5. channel \in [Channels -> ChannelRecord]
    BY <1>3 DEF BusInit
  <1>6. granted = << >> /\ Len(granted) = 0 /\ granted \in Seq(Grant)
    BY DEF BusInit
  <1>7. event \in EventRecord
    BY DEF BusInit, NewEvent, EventRecord
  <1>8. BusType
    BY <1>5, <1>6, <1>7 DEF BusType
  <1>9. BusTimes
    BY <1>2, <1>4, <1>6 DEF BusTimes, Table
  <1> QED BY <1>6, <1>8, <1>9 DEF BusInv, Kept, InOrder, OverlapOnlyBehindExpiry

\* The reservation a lock makes, in terms of the state before it.
LEMMA LockGrants ==
    ASSUME BusInv, NEW c \in Channels, NEW d \in Durations, Lock(c, d)
    PROVE  \E start, lock \in Nat :
             LET T == Unlock(channel[c].timings, start)
             IN /\ start = event.start_time + event.time_taken /\ lock >= start
                /\ Table(T) /\ Fits(T, lock, d)
                /\ \A t \in start .. lock - 1 : ~Fits(T, t, d)
                /\ LockAt(c, d, start, T, lock)
  <1> DEFINE start == event.start_time + event.time_taken
             T == Unlock(channel[c].timings, start)
  <1>1. start \in Nat /\ d \in Nat \ {0}
    BY BusAssumption DEF BusInv, BusType, EventRecord
  <1>2. Table(channel[c].timings)
    BY DEF BusInv, BusTimes
  <1>3. /\ T \subseteq channel[c].timings
        /\ \A e \in T : e.unlock > start
    BY DEF Unlock
  <1>4. Table(T)
    BY <1>2, <1>3 DEF Table
  <1>5. \E m \in Nat : \A e \in T : e.lock <= m
    <2>1. channel[c].ready_at \in Nat \cup {Never}
      BY DEF BusInv, BusType, ChannelRecord
    <2>2. \A e \in T : e.unlock <= channel[c].ready_at /\ e.lock < e.unlock
                        /\ e.lock \in Nat /\ e.unlock \in Nat
      BY <1>2, <1>3 DEF BusInv, BusTimes, Table, Interval
    <2>3. CASE channel[c].ready_at \in Nat
      BY <2>2, <2>3
    <2>4. CASE channel[c].ready_at = Never
      BY <2>2, <2>4 DEF Never
    <2> QED BY <2>1, <2>3, <2>4
  <1>6. /\ SchedTime(T, start, d) \in Nat /\ SchedTime(T, start, d) >= start
        /\ Fits(T, SchedTime(T, start, d), d)
        /\ \A t \in start .. SchedTime(T, start, d) - 1 : ~Fits(T, t, d)
    BY <1>1, <1>3, <1>4, <1>5, ScheduledFits
  <1>7. LockAt(c, d, start, T, SchedTime(T, start, d))
    BY DEF Lock
  <1> QED BY <1>1, <1>4, <1>6, <1>7

LEMMA ChargeFields ==
    ASSUME NEW ev \in EventRecord, NEW wait \in Nat, NEW d \in Nat \ {0}
    PROVE  /\ Charge(ev, wait, d) \in EventRecord
           /\ Charge(ev, wait, d).id = ev.id
           /\ Charge(ev, wait, d).start_time = ev.start_time
           /\ Charge(ev, wait, d).time_taken = ev.time_taken + wait + d
  <1>1. ev.bus_wait_time \in Nat /\ ev.time_taken \in Nat
    BY DEF EventRecord
  <1>2. PICK b \in Nat : b = IF wait > 0 THEN ev.bus_wait_time + wait ELSE ev.bus_wait_time
    BY <1>1
  <1>3. PICK t \in Nat : /\ t = IF wait + d > 0 THEN ev.time_taken + wait + d ELSE ev.time_taken
                         /\ t = ev.time_taken + wait + d
    BY <1>1
  <1>4. Charge(ev, wait, d) = [ev EXCEPT !.bus_wait_time = b, !.time_taken = t]
    BY <1>2, <1>3, Zenon DEF Charge
  <1>5. LET e == [ev EXCEPT !.bus_wait_time = b, !.time_taken = t]
        IN e \in EventRecord /\ e.id = ev.id /\ e.start_time = ev.start_time /\ e.time_taken = t
    BY DEF EventRecord
  <1> QED BY <1>3, <1>4, <1>5

\* The interval a lock reserves, and the channel's ready_at after it.
Slot(lock, d) == [lock |-> lock, unlock |-> lock + d]
Tables == SUBSET Interval
ReadyAfter(ch, lock, d) == IF lock + d > ch.ready_at THEN lock + d ELSE ch.ready_at

LEMMA ReserveFields ==
    ASSUME NEW ch \in ChannelRecord, NEW T \in Tables, NEW lock \in Nat,
           NEW d \in Nat \ {0}, NEW new, new = Reserve(ch, T, lock, d)
    PROVE  /\ new \in ChannelRecord
           /\ new.timings = T \cup {Slot(lock, d)}
           /\ new.ready_at = ReadyAfter(ch, lock, d)
  <1>1. [lock |-> lock, unlock |-> lock + d] \in Interval
    BY DEF Interval
  <1>2. ch.ready_at \in Nat \cup {Never}
    BY DEF ChannelRecord
  <1>3. PICK a \in Nat \cup {Never} : a = IF lock + d > ch.ready_at THEN lock + d ELSE ch.ready_at
    BY <1>2 DEF Never
  <1>4. PICK U \in SUBSET Interval : U = T \cup {[lock |-> lock, unlock |-> lock + d]}
    BY <1>1 DEF Tables
  <1>5. Reserve(ch, T, lock, d) = [ch EXCEPT !.timings = U, !.ready_at = a]
    BY <1>3, <1>4, Zenon DEF Reserve
  <1>6. LET e == [ch EXCEPT !.timings = U, !.ready_at = a]
        IN e \in ChannelRecord /\ e.timings = U /\ e.ready_at = a
    BY DEF ChannelRecord
  <1> QED BY <1>3, <1>4, <1>5, <1>6 DEF Slot, ReadyAfter

LEMMA LockInv ==
    ASSUME BusInv, NEW c \in Channels, NEW d \in Durations, Lock(c, d)
    PROVE  BusInv'
  <1>1. PICK start \in Nat, lock \in Nat :
             /\ start = event.start_time + event.time_taken /\ lock >= start
             /\ Table(Unlock(channel[c].timings, start))
             /\ Fits(Unlock(channel[c].timings, start), lock, d)
             /\ LockAt(c, d, start, Unlock(channel[c].timings, start), lock)
    BY LockGrants
  <1> DEFINE T == Unlock(channel[c].timings, start)
             new == [lock |-> lock, unlock |-> lock + d]
             g == [channel |-> c, id |-> event.id, start |-> start, lock |-> lock,
                   unlock |-> lock + d]
             n == Len(granted)
  <1>2. d \in Nat \ {0}
    BY BusAssumption
  <1>3. /\ channel \in [Channels -> ChannelRecord] /\ event \in EventRecord
        /\ granted \in Seq(Grant) /\ n \in Nat
        /\ \A i \in 1 .. n : granted[i] \in Grant
    BY DEF BusInv, BusType
  \* The history.
  <1>4. g \in Grant /\ g.channel = c /\ g.id = event.id /\ g.start = start /\ g.lock = lock
        /\ g.unlock = lock + d
    BY <1>2, <1>3 DEF Grant, EventRecord
  <1>5. /\ granted' \in Seq(Grant) /\ Len(granted') = n + 1 /\ granted'[n + 1] = g
        /\ \A i \in 1 .. n : granted'[i] = granted[i]
    <2>1. granted' = Append(granted, g)
      BY <1>1 DEF LockAt
    <2> QED BY <1>3, <1>4, <2>1, AppendProperties
  <1>6. \A i \in 1 .. n + 1 : i \in 1 .. n \/ i = n + 1
    BY <1>3
  \* The event.
  <1>7. /\ event' \in EventRecord /\ event'.id = event.id
        /\ event'.start_time + event'.time_taken = lock + d
    <2>1. event' = Charge(event, lock - start, d)
      BY <1>1 DEF LockAt
    <2>4. lock - start \in Nat
      BY <1>1
    <2>2. /\ event'.id = event.id /\ event'.start_time = event.start_time
          /\ event'.time_taken = event.time_taken + (lock - start) + d
          /\ event' \in EventRecord
      BY <1>2, <1>3, <2>1, <2>4, ChargeFields
    <2>3. event.start_time \in Nat /\ event.time_taken \in Nat
      BY <1>3 DEF EventRecord
    <2> QED BY <1>1, <1>2, <2>2, <2>3
  \* The channels.
  <1>8. new \in Interval /\ new.lock = lock /\ new.unlock = lock + d
    BY <1>2 DEF Interval
  <1>9. /\ channel' \in [Channels -> ChannelRecord]
        /\ channel'[c].timings = T \cup {new}
        /\ channel'[c].ready_at = IF lock + d > channel[c].ready_at THEN lock + d
                                  ELSE channel[c].ready_at
        /\ \A b \in Channels \ {c} : channel'[b] = channel[b]
    <2>1. channel' = [channel EXCEPT ![c] = Reserve(channel[c], T, lock, d)]
      BY <1>1 DEF LockAt
    <2>2. channel[c] \in ChannelRecord /\ T \in SUBSET Interval
      BY <1>1, <1>3 DEF Table
    <2>3. /\ Reserve(channel[c], T, lock, d) \in ChannelRecord
          /\ Reserve(channel[c], T, lock, d).timings = T \cup {new}
          /\ Reserve(channel[c], T, lock, d).ready_at =
                IF lock + d > channel[c].ready_at THEN lock + d ELSE channel[c].ready_at
      <3>1. PICK ch \in ChannelRecord, U \in Tables : ch = channel[c] /\ U = T
        BY <2>2 DEF Tables
      <3>2. PICK res : res = Reserve(ch, U, lock, d)
        OBVIOUS
      <3>3. /\ res \in ChannelRecord
            /\ res.timings = U \cup {Slot(lock, d)}
            /\ res.ready_at = ReadyAfter(ch, lock, d)
        BY <1>2, <3>2, ReserveFields
      <3> QED BY <3>1, <3>2, <3>3, Zenon DEF Slot, ReadyAfter
    <2> QED BY <1>3, <2>1, <2>3
  <1>10. \A e \in channel[c].timings : e \in T \/ e.unlock <= start
    BY <1>1 DEF Unlock, BusInv, BusTimes, Table, Interval
  <1>11. BusType'
    BY <1>5, <1>7, <1>9 DEF BusType
  <1>12. \A i \in 1 .. n : /\ granted[i].channel \in Channels /\ granted[i].id \in Nat
                           /\ granted[i].start \in Nat /\ granted[i].lock \in Nat
                           /\ granted[i].unlock \in Nat
    BY <1>3 DEF Grant
  <1>13. Kept'
    <2> SUFFICES ASSUME NEW i \in 1 .. n + 1
                 PROVE  \/ [lock |-> granted'[i].lock, unlock |-> granted'[i].unlock]
                             \in channel'[granted'[i].channel].timings
                        \/ \E k \in i + 1 .. n + 1 :
                               /\ granted'[k].channel = granted'[i].channel
                               /\ granted'[k].start >= granted'[i].unlock
      BY <1>5 DEF Kept
    <2>1. CASE i = n + 1
      BY <1>4, <1>5, <1>9, <2>1
    <2>2. CASE i \in 1 .. n
      <3>1. granted'[i] = granted[i]
        BY <1>5, <2>2
      <3>2. CASE \E k \in i + 1 .. n : /\ granted[k].channel = granted[i].channel
                                       /\ granted[k].start >= granted[i].unlock
        <4>1. PICK k \in i + 1 .. n : /\ granted[k].channel = granted[i].channel
                                      /\ granted[k].start >= granted[i].unlock
          BY <3>2
        <4>2. k \in 1 .. n /\ k \in i + 1 .. n + 1
          BY <1>3, <2>2
        <4>3. granted'[k] = granted[k]
          BY <1>5, <4>2
        <4> QED BY <3>1, <4>1, <4>2, <4>3
      <3>3. CASE [lock |-> granted[i].lock, unlock |-> granted[i].unlock]
                    \in channel[granted[i].channel].timings
        <4>1. CASE granted[i].channel # c
          BY <1>9, <1>12, <2>2, <3>1, <3>3, <4>1
        <4>2. CASE granted[i].channel = c
          <5>1. CASE [lock |-> granted[i].lock, unlock |-> granted[i].unlock] \in T
            BY <1>9, <3>1, <4>2, <5>1
          <5>2. CASE granted[i].unlock <= start
            <6>1. n + 1 \in i + 1 .. n + 1 /\ granted'[n + 1].channel = c
                  /\ granted'[n + 1].start = start
              BY <1>3, <1>4, <1>5, <2>2
            <6>2. start >= granted[i].unlock
              BY <1>12, <2>2, <5>2
            <6> QED BY <3>1, <4>2, <6>1, <6>2
          <5> QED BY <1>10, <3>3, <4>2, <5>1, <5>2
        <4> QED BY <4>1, <4>2
      <3> QED BY <2>2, <3>2, <3>3 DEF BusInv, Kept
    <2> QED BY <1>6, <2>1, <2>2
  <1>14. BusTimes'
    <2>1. ASSUME NEW b \in Channels PROVE Table(channel'[b].timings)
      <3>1. CASE b # c
        BY <1>9, <3>1 DEF BusInv, BusTimes
      <3>2. Table(T \cup {new})
        <4>1. Table(T) /\ Fits(T, lock, d)
          BY <1>1
        <4>2. T \cup {new} \subseteq Interval /\ \A e \in T \cup {new} : e.lock < e.unlock
          BY <1>2, <1>8, <4>1 DEF Table
        <4>3. \A e \in T : e.unlock <= new.lock \/ new.unlock <= e.lock
          BY <1>8, <4>1 DEF Fits
        <4> QED BY <4>1, <4>2, <4>3 DEF Table
      <3> QED BY <1>9, <3>1, <3>2
    <2>2. \A b \in Channels : /\ channel[b].ready_at \in Nat \cup {Never}
                              /\ channel'[b].ready_at \in Nat \cup {Never}
      BY <1>3, <1>9 DEF ChannelRecord
    <2>3. channel'[c].ready_at >= lock + d /\ channel'[c].ready_at >= channel[c].ready_at
      BY <1>2, <1>9, <2>2 DEF Never
    <2>4. ASSUME NEW b \in Channels, NEW e \in channel'[b].timings
          PROVE  e.unlock <= channel'[b].ready_at
      <3>1. CASE b # c
        BY <1>9, <2>4, <3>1 DEF BusInv, BusTimes
      <3>2. CASE b = c /\ e = new
        BY <1>2, <1>8, <2>2, <2>3, <3>2 DEF Never
      <3>3. CASE b = c /\ e \in T
        <4>1. e \in channel[c].timings
          BY <3>3 DEF Unlock
        <4>2. e.unlock <= channel[c].ready_at /\ e.unlock \in Nat
          BY <1>1, <3>3, <4>1 DEF BusInv, BusTimes, Table, Interval
        <4> QED BY <2>2, <2>3, <3>3, <4>2 DEF Never
      <3> QED BY <1>9, <2>4, <3>1, <3>2, <3>3
    <2>5. ASSUME NEW b \in Channels, channel'[b].ready_at # Never
          PROVE  \E i \in 1 .. n + 1 : granted'[i].channel = b
      <3>1. CASE b = c
        BY <1>3, <1>4, <1>5, <3>1
      <3>2. CASE b # c
        <4>1. PICK i \in 1 .. n : granted[i].channel = b
          BY <1>9, <2>5, <3>2 DEF BusInv, BusTimes
        <4> QED BY <1>3, <1>5, <4>1
      <3> QED BY <3>1, <3>2
    <2>6. ASSUME NEW i \in 1 .. n + 1
          PROVE  /\ granted'[i].unlock <= channel'[granted'[i].channel].ready_at
                 /\ granted'[i].id <= event'.id
                 /\ granted'[i].id = event'.id =>
                       granted'[i].unlock <= event'.start_time + event'.time_taken
      <3>1. CASE i = n + 1
        <4>1. event'.id \in Nat
          BY <1>7 DEF EventRecord
        <4> QED BY <1>2, <1>4, <1>5, <1>7, <2>2, <2>3, <3>1, <4>1 DEF Never
      <3>2. CASE i \in 1 .. n
        <4>1. granted'[i] = granted[i]
          BY <1>5, <3>2
        <4>2. /\ granted[i].unlock <= channel[granted[i].channel].ready_at
              /\ granted[i].id <= event.id
              /\ granted[i].id = event.id =>
                    granted[i].unlock <= event.start_time + event.time_taken
          BY <3>2 DEF BusInv, BusTimes
        <4>3. granted[i].unlock <= channel'[granted[i].channel].ready_at
          <5>1. CASE granted[i].channel = c
            BY <1>12, <2>2, <2>3, <3>2, <4>2, <5>1, SMTT(30) DEF Never
          <5>2. CASE granted[i].channel # c
            BY <1>9, <1>12, <3>2, <4>2, <5>2
          <5> QED BY <5>1, <5>2
        <4>4. granted[i].id = event.id => granted[i].unlock <= lock + d
          BY <1>1, <1>2, <1>12, <3>2, <4>2
        <4> QED BY <1>7, <4>1, <4>2, <4>3, <4>4
      <3> QED BY <1>6, <3>1, <3>2
    <2> QED BY <1>5, <2>1, <2>4, <2>5, <2>6 DEF BusTimes
  <1>15. InOrder'
    <2> SUFFICES ASSUME NEW i \in 1 .. n + 1, NEW j \in 1 .. n + 1, i < j,
                        granted'[i].id = granted'[j].id
                 PROVE  granted'[i].unlock <= granted'[j].lock
      BY <1>5 DEF InOrder
    <2>1. i \in 1 .. n /\ granted'[i] = granted[i]
      BY <1>3, <1>5
    <2>2. CASE j \in 1 .. n
      BY <1>5, <2>1, <2>2 DEF BusInv, InOrder
    <2>3. CASE j = n + 1
      <3>1. granted[i].unlock <= start
        BY <1>1, <1>4, <1>5, <2>1, <2>3 DEF BusInv, BusTimes
      <3> QED BY <1>1, <1>4, <1>5, <1>12, <2>1, <2>3, <3>1
    <2> QED BY <1>6, <2>2, <2>3
  <1>16. OverlapOnlyBehindExpiry'
    <2> SUFFICES ASSUME NEW i \in 1 .. n + 1, NEW j \in 1 .. n + 1, i < j,
                        granted'[i].channel = granted'[j].channel,
                        granted'[i].lock < granted'[j].unlock,
                        granted'[j].lock < granted'[i].unlock
                 PROVE  /\ granted'[j].start < granted'[i].unlock
                        /\ \E k \in i + 1 .. j - 1 :
                              /\ granted'[k].channel = granted'[i].channel
                              /\ granted'[k].start >= granted'[i].unlock
      BY <1>5 DEF OverlapOnlyBehindExpiry
    <2>1. i \in 1 .. n /\ granted'[i] = granted[i]
      BY <1>3, <1>5
    <2>2. CASE j \in 1 .. n
      <3>1. granted'[j] = granted[j]
        BY <1>5, <2>2
      <3>2. granted[j].start < granted[i].unlock
        BY <2>1, <2>2, <3>1 DEF BusInv, OverlapOnlyBehindExpiry
      <3>3. PICK k \in i + 1 .. j - 1 : /\ granted[k].channel = granted[i].channel
                                        /\ granted[k].start >= granted[i].unlock
        BY <2>1, <2>2, <3>1 DEF BusInv, OverlapOnlyBehindExpiry
      <3>4. k \in 1 .. n
        BY <1>3, <2>1, <2>2
      <3> QED BY <1>5, <2>1, <3>1, <3>2, <3>3, <3>4
    <2>3. CASE j = n + 1
      <3>1. /\ granted[i].channel = c /\ granted[i].lock < lock + d /\ lock < granted[i].unlock
            /\ granted'[j].start = start
        BY <1>4, <1>5, <2>1, <2>3
      <3>2. start < granted[i].unlock
        BY <1>1, <1>12, <2>1, <3>1
      <3>3. [lock |-> granted[i].lock, unlock |-> granted[i].unlock] \notin channel[c].timings
        <4> DEFINE e == [lock |-> granted[i].lock, unlock |-> granted[i].unlock]
        <4> SUFFICES ASSUME e \in channel[c].timings PROVE FALSE
          OBVIOUS
        <4>1. e.lock = granted[i].lock /\ e.unlock = granted[i].unlock
          OBVIOUS
        <4>2. e \in T
          BY <1>10, <1>12, <2>1, <3>2, <4>1
        <4>3. e.unlock <= lock \/ lock + d <= e.lock
          BY <1>1, <4>2 DEF Fits
        <4> QED BY <1>2, <1>12, <2>1, <3>1, <4>1, <4>3
      <3>4. PICK k \in i + 1 .. n : /\ granted[k].channel = granted[i].channel
                                    /\ granted[k].start >= granted[i].unlock
        BY <2>1, <3>1, <3>3 DEF BusInv, Kept
      <3>5. k \in 1 .. n /\ k \in i + 1 .. j - 1
        BY <1>3, <2>1, <2>3
      <3> QED BY <1>5, <2>1, <3>1, <3>2, <3>4, <3>5
    <2> QED BY <1>6, <2>2, <2>3
  <1> QED BY <1>11, <1>13, <1>14, <1>15, <1>16 DEF BusInv

LEMMA EventInv ==
    ASSUME BusInv, UNCHANGED <<channel, granted>>, event' \in EventRecord,
           \/ /\ event'.id = event.id
              /\ event'.start_time + event'.time_taken >= event.start_time + event.time_taken
           \/ event'.id > event.id
    PROVE  BusInv'
  <1>1. /\ granted \in Seq(Grant) /\ event \in EventRecord
        /\ \A i \in 1 .. Len(granted) : granted[i].id \in Nat /\ granted[i].unlock \in Nat
    <2>1. granted \in Seq(Grant) /\ event \in EventRecord
      BY DEF BusInv, BusType
    <2>2. \A i \in 1 .. Len(granted) : granted[i] \in Grant
      BY <2>1
    <2> QED BY <2>1, <2>2 DEF Grant
  <1>2. /\ event.id \in Nat /\ event'.id \in Nat
        /\ event.start_time + event.time_taken \in Nat
        /\ event'.start_time + event'.time_taken \in Nat
    BY <1>1 DEF EventRecord
  <1>3. \A i \in 1 .. Len(granted) :
           /\ granted[i].id <= event'.id
           /\ granted[i].id = event'.id =>
                 granted[i].unlock <= event'.start_time + event'.time_taken
    BY <1>1, <1>2 DEF BusInv, BusTimes
  <1>4. BusTimes'
    BY <1>3 DEF BusInv, BusTimes
  <1>5. BusType' /\ Kept' /\ InOrder' /\ OverlapOnlyBehindExpiry'
    BY DEF BusInv, BusType, Kept, InOrder, OverlapOnlyBehindExpiry
  <1> QED BY <1>4, <1>5 DEF BusInv

\* Every reachable state of the bus satisfies its invariant.
THEOREM BusInvariant == Spec => []BusInv
  <1>1. Init => BusInv
    BY BusInitInv DEF Init
  <1>2. BusInv /\ [Next]_vars => BusInv'
    <2> SUFFICES ASSUME BusInv, [Next]_vars PROVE BusInv'
      OBVIOUS
    <2>1. event \in EventRecord /\ event.id \in Nat
          /\ event.start_time + event.time_taken \in Nat
      BY DEF BusInv, BusType, EventRecord
    <2>2. CASE BusStep
      <3>1. ASSUME NEW t \in 0 .. MaxTime, Arrive(t) PROVE BusInv'
        <4>1. event' = NewEvent(event.id + 1, t) /\ UNCHANGED <<channel, granted>>
          BY <3>1 DEF Arrive
        <4>2. event' \in EventRecord /\ event'.id = event.id + 1
          BY <2>1, <4>1, BusAssumption DEF NewEvent, EventRecord
        <4>3. event'.id > event.id
          BY <2>1, <4>2
        <4> QED BY <4>1, <4>2, <4>3, EventInv
      <3>2. ASSUME NEW c \in Channels, NEW d \in Durations, Lock(c, d) PROVE BusInv'
        BY <3>2, LockInv
      <3>3. CASE RamAccess
        <4>1. event' = Charge(event, 0, RamDelay) /\ UNCHANGED <<channel, granted>>
          BY <3>3 DEF RamAccess
        <4>2. /\ event' \in EventRecord /\ event'.id = event.id
              /\ event'.start_time = event.start_time
              /\ event'.time_taken = event.time_taken + 0 + RamDelay
          BY <2>1, <4>1, BusAssumption, ChargeFields
        <4>3. event.start_time \in Nat /\ event.time_taken \in Nat /\ RamDelay \in Nat
          BY <2>1, BusAssumption DEF EventRecord
        <4>4. event'.start_time + event'.time_taken >= event.start_time + event.time_taken
          BY <4>2, <4>3
        <4> QED BY <4>1, <4>2, <4>4, EventInv
      <3> QED BY <2>2, <3>1, <3>2, <3>3 DEF BusStep, BusNext
    <2>3. CASE UNCHANGED busVars
      <3>1. event.start_time + event.time_taken >= event.start_time + event.time_taken
        BY <2>1
      <3> QED BY <2>1, <2>3, <3>1, EventInv DEF busVars
    <2> QED BY <2>2, <2>3 DEF Next, ArrayStep, EepromStep, vars
  <1> QED BY <1>1, <1>2, PTL DEF Spec

\* Channel::lock double-books a channel in one way only, whatever the requests:
\* behind an interval that a later request made it forget.
THEOREM OverlapCorrect == Spec => []OverlapOnlyBehindExpiry
  <1>1. BusInv => OverlapOnlyBehindExpiry
    BY DEF BusInv
  <1> QED BY <1>1, BusInvariant, PTL

\* An event's reservations follow each other, and at Ssd::ready_at a channel that
\* was used is done.
THEOREM TimesCorrect == Spec => []TimesAgree
  <1>1. BusInv => TimesAgree
    <2> SUFFICES ASSUME BusInv PROVE TimesAgree
      OBVIOUS
    <2>1. InOrder
      BY DEF BusInv
    <2>2. ASSUME granted # << >>
          PROVE  \E i \in 1 .. Len(granted) : \A j \in 1 .. Len(granted) :
                    granted[j].channel = granted[i].channel => granted[j].unlock <= ReadyAt
      <3> DEFINE used == {channel[c].ready_at : c \in Channels} \ {Never}
      <3>1. used \subseteq Nat
        BY DEF BusInv, BusType, ChannelRecord
      <3>2. 1 \in 1 .. Len(granted) /\ granted[1] \in Grant
        BY <2>2 DEF BusInv, BusType
      <3>3. used # {}
        <4>1. granted[1].channel \in Channels /\ granted[1].unlock \in Nat
          BY <3>2 DEF Grant
        <4>2. granted[1].unlock <= channel[granted[1].channel].ready_at
          BY <3>2 DEF BusInv, BusTimes
        <4>3. channel[granted[1].channel].ready_at # Never
          BY <4>1, <4>2 DEF Never
        <4> QED BY <4>1, <4>3
      <3>4. PICK t \in used : \A u \in used : t <= u
        BY <3>1, <3>3, NatMin
      <3>5. ReadyAt = CHOOSE x \in used : \A u \in used : x <= u
        BY <3>3 DEF ReadyAt
      <3>6. ReadyAt \in used
        BY <3>4, <3>5
      <3>7. PICK c \in Channels : ReadyAt = channel[c].ready_at /\ channel[c].ready_at # Never
        BY <3>6
      <3>8. PICK i \in 1 .. Len(granted) : granted[i].channel = c
        BY <3>7 DEF BusInv, BusTimes
      <3> QED BY <3>7, <3>8 DEF BusInv, BusTimes
    <2> QED BY <2>1, <2>2 DEF TimesAgree, InOrder
  <1> QED BY <1>1, BusInvariant, PTL

\* "event is sent across bus as soon as bus channel is available".
THEOREM EarliestFitCorrect == Spec => EarliestFit
  <1> DEFINE Fit == Len(granted') > Len(granted) =>
                      LET g == granted'[Len(granted')]
                          T == channel[g.channel].timings
                      IN /\ Fits(T, g.lock, g.unlock - g.lock)
                         /\ \A t \in g.start .. g.lock - 1 : ~Fits(T, t, g.unlock - g.lock)
  <1>1. BusInv /\ [Next]_vars => [Fit]_busVars
    <2> SUFFICES ASSUME BusInv, Next PROVE Fit \/ UNCHANGED busVars
      BY DEF vars, busVars
    <2>1. granted \in Seq(Grant) /\ Len(granted) \in Nat /\ event \in EventRecord
      BY DEF BusInv, BusType
    <2>2. ASSUME NEW c \in Channels, NEW d \in Durations, Lock(c, d) PROVE Fit
      <3>1. PICK start \in Nat, lock \in Nat :
             /\ start = event.start_time + event.time_taken /\ lock >= start
             /\ Fits(Unlock(channel[c].timings, start), lock, d)
             /\ \A t \in start .. lock - 1 : ~Fits(Unlock(channel[c].timings, start), t, d)
             /\ LockAt(c, d, start, Unlock(channel[c].timings, start), lock)
        BY <2>2, LockGrants
      <3> DEFINE T == channel[c].timings
                 g == [channel |-> c, id |-> event.id, start |-> start, lock |-> lock,
                       unlock |-> lock + d]
      <3>2. d \in Nat \ {0}
        BY BusAssumption
      <3>3. g \in Grant
        BY <2>1, <3>2 DEF Grant, EventRecord
      <3>4. granted' = Append(granted, g)
        BY <3>1 DEF LockAt
      <3>5. granted'[Len(granted')] = g
        BY <2>1, <3>3, <3>4, AppendProperties
      <3>6. g.channel = c /\ g.start = start /\ g.lock = lock /\ g.unlock - g.lock = d
        BY <3>2
      <3>7. \A e \in T : e.unlock \in Nat /\ (e \in Unlock(T, start) \/ e.unlock <= start)
        BY DEF Unlock, BusInv, BusTimes, Table, Interval
      <3>8. Fits(T, lock, d)
        BY <3>1, <3>7 DEF Fits
      <3>9. \A t \in start .. lock - 1 : ~Fits(T, t, d)
        BY <3>1 DEF Fits, Unlock
      <3> HIDE DEF T, g
      <3> QED BY <3>5, <3>6, <3>8, <3>9 DEF T
    <2>3. ASSUME UNCHANGED granted PROVE Fit
      BY <2>1, <2>3
    <2>4. CASE BusStep
      BY <2>2, <2>3, <2>4 DEF BusStep, BusNext, Arrive, RamAccess
    <2> QED BY <2>4 DEF Next, ArrayStep, EepromStep
  <1> QED BY <1>1, BusInvariant, PTL DEF Spec, EarliestFit

-----------------------------------------------------------------------------
\* Arithmetic of addresses: a quotient and a remainder are unique.
LEMMA Times ==
    ASSUME NEW a \in Nat, NEW b \in Nat
    PROVE  a * b \in Nat /\ a * b = b * a /\ (a + 1) * b = a * b + b
  OBVIOUS

LEMMA Scaled ==
    ASSUME NEW a \in Nat, NEW b \in Nat, NEW n \in Nat, a < b
    PROVE  a * n + n <= b * n
  <1>1. PICK k \in Nat : b = a + 1 + k
    <2>1. b - (a + 1) \in Nat /\ b = a + 1 + (b - (a + 1))
      OBVIOUS
    <2> QED BY <2>1
  <1>2. b * n = a * n + n + k * n /\ k * n \in Nat /\ a * n \in Nat
    BY <1>1
  <1> QED BY <1>2

LEMMA Quotient ==
    ASSUME NEW q \in Nat, NEW n \in Nat \ {0}, NEW r \in 0 .. n - 1
    PROVE  (q * n + r) \div n = q
  <1> DEFINE a == q * n + r
             k == a \div n
             m == a % n
  <1>1. a \in Nat /\ q * n \in Nat
    BY Times
  <1>2. k \in Nat /\ m \in 0 .. n - 1 /\ a = n * k + m
    BY <1>1
  <1>3. n * k = k * n /\ k * n \in Nat
    BY <1>2
  <1>4. q * n + r = k * n + m
    BY <1>2, <1>3
  <1> HIDE DEF k, m
  <1>5. CASE k < q
    <2>1. k * n + n <= q * n
      BY <1>2, <1>5, Scaled
    <2> QED BY <1>1, <1>2, <1>3, <1>4, <2>1
  <1>6. CASE q < k
    <2>1. q * n + n <= k * n
      BY <1>2, <1>6, Scaled
    <2> QED BY <1>1, <1>2, <1>3, <1>4, <2>1
  <1> QED BY <1>2, <1>5, <1>6 DEF k

LEMMA Split ==
    ASSUME NEW b \in Nat, NEW n \in Nat \ {0}
    PROVE  /\ b \div n \in Nat /\ b % n \in 0 .. n - 1
           /\ b = (b \div n) * n + (b % n)
  OBVIOUS

LEMMA QuotientBound ==
    ASSUME NEW b \in Nat, NEW n \in Nat \ {0}, NEW k \in Nat, b < k * n
    PROVE  b \div n \in Nat /\ b \div n < k
  <1> DEFINE u == b \div n
  <1>1. u \in Nat /\ b % n \in 0 .. n - 1 /\ b = u * n + (b % n)
    BY Split
  <1> HIDE DEF u
  <1>2. u * n \in Nat /\ k * n \in Nat /\ u * n <= b
    <2>1. u * n \in Nat /\ k * n \in Nat
      BY <1>1, Times
    <2> QED BY <1>1, <2>1
  <1>3. CASE u = k
    BY <1>2, <1>3
  <1>4. CASE k < u
    <2>1. k * n + n <= u * n
      BY <1>1, <1>4, Scaled
    <2> QED BY <1>2, <2>1
  <1> QED BY <1>1, <1>3, <1>4 DEF u

\* Every level divides the drive's blocks evenly.
LEMMA LevelSizes ==
    ASSUME NEW level \in Levels
    PROVE  /\ Unit[level] \in Nat \ {0} /\ Children[level] \in Nat \ {0}
           /\ Unit[level] * Children[level] \in Nat \ {0}
           /\ \E k \in Nat : NumBlocks = k * (Unit[level] * Children[level])
  <1> DEFINE P == PlaneSize
             D == DieSize
             K == PackageSize
             S == SsdSize
  <1>1. P \in Nat \ {0} /\ D \in Nat \ {0} /\ K \in Nat \ {0} /\ S \in Nat \ {0}
    BY FlashAssumption, GeometryAssumption
  <1>2. NumBlocks = P * (D * K * S)
    BY GeometryAssumption DEF NumBlocks
  <1> HIDE DEF P, D, K, S
  <1>3. ASSUME NEW a \in Nat \ {0}, NEW b \in Nat \ {0} PROVE a * b \in Nat \ {0}
    OBVIOUS
  <1>4. P * D \in Nat \ {0} /\ P * D * K \in Nat \ {0} /\ P * D * K * S \in Nat \ {0} /\ K * S \in Nat
    <2>1. P * D \in Nat \ {0}
      BY <1>1, <1>3
    <2>2. P * D * K \in Nat \ {0}
      BY <1>1, <1>3, <2>1
    <2> QED BY <1>1, <1>3, <2>1, <2>2
  <1>5. /\ P * (D * K * S) = (K * S) * (P * D)
        /\ P * (D * K * S) = S * (P * D * K)
        /\ P * (D * K * S) = 1 * (P * D * K * S)
    BY <1>1
  <1>6. CASE level = "die"
    <2>1. Unit[level] = P /\ Children[level] = D
      BY <1>6 DEF Unit, Children, P, D
    <2> QED BY <1>1, <1>2, <1>4, <1>5, <2>1
  <1>7. CASE level = "package"
    <2>1. Unit[level] = P * D /\ Children[level] = K
      BY <1>7 DEF Unit, Children, P, D, K
    <2> QED BY <1>1, <1>2, <1>4, <1>5, <2>1
  <1>8. CASE level = "ssd"
    <2>1. Unit[level] = P * D * K /\ Children[level] = S
      BY <1>8 DEF Unit, Children, P, D, K, S
    <2> QED BY <1>1, <1>2, <1>4, <1>5, <2>1
  <1> QED BY <1>6, <1>7, <1>8 DEF Levels

\* The place that a unit of n blocks with c children of m blocks looks at.
LEMMA Place ==
    ASSUME NEW u \in Nat, NEW c \in Nat \ {0}, NEW m \in Nat \ {0}, NEW i \in 0 .. c - 1,
           NEW r \in 0 .. m - 1, NEW k \in Nat, u < k
    PROVE  /\ (u * c + i) * m + r \in 0 .. k * (m * c) - 1
           /\ ((u * c + i) * m + r) \div (m * c) = u
  <1> DEFINE n == m * c
  <1>1. i * m + m <= n
    <2>1. i * m + m <= c * m
      BY Scaled
    <2> QED BY <2>1, Times
  <1>2. n \in Nat \ {0} /\ i * m \in Nat
    BY Times
  <1>3. (u * c + i) * m = u * n + i * m
    <2>1. (u * c) * m = u * (m * c)
      OBVIOUS
    <2>2. (u * c + i) * m = (u * c) * m + i * m
      OBVIOUS
    <2> QED BY <2>1, <2>2
  <1> HIDE DEF n
  <1>4. i * m + r \in 0 .. n - 1
    BY <1>1, <1>2
  <1>5. u * n + n <= k * n /\ u * n \in Nat /\ k * n \in Nat
    BY <1>2, Scaled
  <1>6. (u * c + i) * m + r = u * n + (i * m + r)
    BY <1>2, <1>3, <1>5
  <1>7. (u * n + (i * m + r)) \div n = u
    BY <1>2, <1>4, Quotient
  <1>8. u * n + (i * m + r) \in 0 .. k * n - 1
    BY <1>2, <1>4, <1>5
  <1> QED BY <1>6, <1>7, <1>8 DEF n

LEMMA PeerUnit ==
    ASSUME NEW level \in Levels, NEW b \in Blocks, NEW i \in 0 .. Children[level] - 1
    PROVE  Peer(level, b, i) \in Blocks /\ UnitOf(level, Peer(level, b, i)) = UnitOf(level, b)
  <1> DEFINE c == Children[level]
             m == Unit[level]
             u == UnitOf(level, b)
  <1>1. c \in Nat \ {0} /\ m \in Nat \ {0} /\ m * c \in Nat \ {0}
    BY LevelSizes
  <1>2. PICK k \in Nat : NumBlocks = k * (m * c)
    BY LevelSizes
  <1>3. b \in Nat /\ b < k * (m * c)
    BY <1>2 DEF Blocks
  <1>4. b % m \in 0 .. m - 1
    BY <1>1, <1>3, Split
  <1>5. u \in Nat /\ u < k
    BY <1>1, <1>3, QuotientBound DEF UnitOf
  <1> HIDE DEF c, m, u
  <1>6. i \in 0 .. c - 1
    BY DEF c
  <1>7. /\ (u * c + i) * m + (b % m) \in 0 .. k * (m * c) - 1
        /\ ((u * c + i) * m + (b % m)) \div (m * c) = u
    BY <1>1, <1>4, <1>5, <1>6, Place
  <1> QED BY <1>2, <1>7 DEF Peer, UnitOf, Blocks, c, m, u

\* Blocks, planes and addresses.
LEMMA PlaneRange ==
    /\ \A b \in Blocks : PlaneOf(b) \in Planes
    /\ \A pl \in Planes, i \in 0 .. PlaneSize - 1 :
          pl * PlaneSize + i \in Blocks /\ PlaneOf(pl * PlaneSize + i) = pl
  <1> USE FlashAssumption
  <1>1. ASSUME NEW b \in Blocks PROVE PlaneOf(b) \in Planes
    <2>1. b \in Nat /\ b < NumPlanes * PlaneSize
      BY Times DEF Blocks, NumBlocks
    <2>2. b \div PlaneSize \in Nat /\ b \div PlaneSize < NumPlanes
      BY <2>1, QuotientBound
    <2> QED BY <2>2 DEF PlaneOf, Planes
  <1>2. ASSUME NEW pl \in Planes, NEW i \in 0 .. PlaneSize - 1
        PROVE  pl * PlaneSize + i \in Blocks /\ PlaneOf(pl * PlaneSize + i) = pl
    <2>1. pl \in Nat /\ pl < NumPlanes
      BY DEF Planes
    <2>2. pl * PlaneSize + PlaneSize <= NumPlanes * PlaneSize /\ pl * PlaneSize \in Nat
      BY <2>1, Scaled, Times
    <2>3. NumPlanes * PlaneSize = NumBlocks /\ NumPlanes * PlaneSize \in Nat
      BY Times DEF NumBlocks
    <2>4. pl * PlaneSize + i \in Blocks
      BY <2>2, <2>3 DEF Blocks
    <2>5. (pl * PlaneSize + i) \div PlaneSize = pl
      BY <2>1, Quotient
    <2> QED BY <2>4, <2>5 DEF PlaneOf
  <1> QED BY <1>1, <1>2

LEMMA AddressRange ==
    ASSUME NEW a \in WrittenAddresses
    PROVE  BlockOf(a) \in Blocks /\ PageOf(a) \in Pages
  <1>1. PICK b \in Blocks, p \in Pages : a = b * BlockSize + p
    BY GeometryAssumption DEF WrittenAddresses, Linear
  <1>2. b \in Nat /\ p \in 0 .. BlockSize - 1 /\ BlockSize \in Nat \ {0}
    BY FlashAssumption DEF Blocks, Pages
  <1>3. a \div BlockSize = b
    BY <1>1, <1>2, Quotient
  <1>4. a \in Nat
    BY <1>1, <1>2, Times
  <1>5. a % BlockSize \in 0 .. BlockSize - 1
    BY <1>2, <1>4, Split
  <1> QED BY <1>3, <1>5 DEF BlockOf, PageOf, Pages

-----------------------------------------------------------------------------
\* The flash array.  What the operators preserve is stated for any state s.
BlockKind == [page : [Pages -> PageStates], pages_valid : Nat, pages_invalid : Nat,
              state : BlockStates, erases_remaining : Nat]
PlaneKind == [free_blocks : Int, least_worn : 0 .. PlaneSize - 1]
WearKind  == [least_worn : Nat, erases_remaining : Nat]

Causes == {"none", "page not empty", "merge of two blocks"}
WearTables  == UNION {[Units(level) -> WearKind] : level \in Levels}
EraseTables == UNION {[Units(level) -> Blocks \cup {None}] : level \in Levels}

Drive == [block : [Blocks -> BlockKind], plane : [Planes -> PlaneKind],
          data : [Addresses -> Int], abort : Causes,
          wear : [Levels -> WearTables], erased : [Levels -> EraseTables]]

FreeBlocks(s, pl) == {b \in Blocks : PlaneOf(b) = pl /\ s.block[b].state = "FREE"}
NotShort(s) == \A pl \in Planes : s.plane[pl].free_blocks >= Cardinality(FreeBlocks(s, pl))

\* From s to t nothing happened to the figures of wear.
SameWear(s, t) ==
    /\ t \in Drive
    /\ t.wear = s.wear /\ t.erased = s.erased
    /\ \A b \in Blocks : t.block[b].erases_remaining = s.block[b].erases_remaining
    /\ \A pl \in Planes : t.plane[pl].least_worn = s.plane[pl].least_worn

LEMMA NewBlockKind == NewBlock \in BlockKind
  BY FlashAssumption DEF NewBlock, BlockKind, PageStates, BlockStates

LEMMA BlockOps ==
    ASSUME NEW blk \in BlockKind, NEW p \in Pages
    PROVE  /\ BlockWrite(blk, {p}) \in BlockKind
           /\ BlockWrite(blk, {p}).state # "FREE"
           /\ BlockWrite(blk, {p}).erases_remaining = blk.erases_remaining
           /\ BlockInvalidate(blk, p) \in BlockKind
           /\ BlockInvalidate(blk, p).state = "FREE" => blk.state = "FREE"
           /\ BlockInvalidate(blk, p).erases_remaining = blk.erases_remaining
           /\ BlockErase(blk).state = "FREE"
           /\ BlockErase(blk).erases_remaining = blk.erases_remaining - 1
           /\ blk.erases_remaining >= 1 => BlockErase(blk) \in BlockKind
  <1>1. Cardinality({p}) = 1
    BY FS_Singleton
  <1>2. PICK pg \in [Pages -> PageStates] :
            pg = [q \in Pages |-> IF q \in {p} THEN "VALID" ELSE blk.page[q]]
    BY DEF BlockKind, PageStates
  <1>3. BlockWrite(blk, {p}) = [blk EXCEPT !.page = pg, !.pages_valid = blk.pages_valid + 1,
                                           !.state = "ACTIVE"]
    BY <1>1, <1>2 DEF BlockWrite
  <1>4. PICK pi \in [Pages -> PageStates] : pi = [blk.page EXCEPT ![p] = "INVALID"]
    BY DEF BlockKind, PageStates
  <1>5. PICK st \in {"INACTIVE", "ACTIVE"} :
            st = IF blk.pages_invalid + 1 >= BlockSize THEN "INACTIVE" ELSE "ACTIVE"
    OBVIOUS
  <1>6. BlockInvalidate(blk, p) = IF blk.page[p] = "INVALID" THEN blk
            ELSE [blk EXCEPT !.page = pi, !.pages_invalid = blk.pages_invalid + 1, !.state = st]
    BY <1>4, <1>5 DEF BlockInvalidate, BlockKind
  <1>7. BlockWrite(blk, {p}) \in BlockKind
    <2>1. PICK n \in Nat : n = blk.pages_valid + 1
      BY DEF BlockKind
    <2>2. [blk EXCEPT !.page = pg, !.pages_valid = n, !.state = "ACTIVE"] \in BlockKind
      BY DEF BlockKind, BlockStates
    <2> QED BY <1>3, <2>1, <2>2
  <1>8. BlockInvalidate(blk, p) \in BlockKind
    <2>1. PICK n \in Nat : n = blk.pages_invalid + 1
      BY DEF BlockKind
    <2>2. [blk EXCEPT !.page = pi, !.pages_invalid = n, !.state = st] \in BlockKind
      BY DEF BlockKind, BlockStates
    <2> QED BY <1>6, <2>1, <2>2
  <1>9. BlockWrite(blk, {p}).state # "FREE"
        /\ BlockWrite(blk, {p}).erases_remaining = blk.erases_remaining
    BY <1>3 DEF BlockKind
  <1>10. /\ BlockInvalidate(blk, p).state = "FREE" => blk.state = "FREE"
         /\ BlockInvalidate(blk, p).erases_remaining = blk.erases_remaining
    BY <1>6 DEF BlockKind
  <1>11. BlockErase(blk).state = "FREE"
         /\ BlockErase(blk).erases_remaining = blk.erases_remaining - 1
    BY NewBlockKind DEF BlockErase, BlockKind, NewBlock
  <1>12. blk.erases_remaining >= 1 => BlockErase(blk) \in BlockKind
    <2> HAVE blk.erases_remaining >= 1
    <2>1. blk.erases_remaining - 1 \in Nat
      BY DEF BlockKind
    <2> QED BY <2>1, NewBlockKind DEF BlockErase, BlockKind
  <1> QED BY <1>7, <1>8, <1>9, <1>10, <1>11, <1>12

\* An operation leaves the wear figures alone and the free count sound.
Keeps(s, t) == SameWear(s, t) /\ (NotShort(s) => NotShort(t))

LEMMA FreeFinite ==
    ASSUME NEW s, NEW pl
    PROVE  IsFiniteSet(FreeBlocks(s, pl)) /\ Cardinality(FreeBlocks(s, pl)) \in Nat
  <1>1. IsFiniteSet(Blocks)
    <2>1. NumBlocks - 1 \in Int /\ 0 \in Int
      BY FlashAssumption, Times DEF NumBlocks
    <2> QED BY <2>1, FS_Interval DEF Blocks
  <1>2. IsFiniteSet(FreeBlocks(s, pl))
    BY <1>1, FS_Subset DEF FreeBlocks
  <1> QED BY <1>2, FS_CardinalityType

LEMMA FewerFree ==
    ASSUME NEW s \in Drive, NEW t \in Drive, NotShort(s), t.plane = s.plane,
           \A b \in Blocks : t.block[b].state = "FREE" => s.block[b].state = "FREE"
    PROVE  NotShort(t)
  <1> SUFFICES ASSUME NEW pl \in Planes
               PROVE  t.plane[pl].free_blocks >= Cardinality(FreeBlocks(t, pl))
    BY DEF NotShort
  <1>1. FreeBlocks(t, pl) \subseteq FreeBlocks(s, pl)
    BY DEF FreeBlocks
  <1>2. Cardinality(FreeBlocks(t, pl)) <= Cardinality(FreeBlocks(s, pl))
    BY <1>1, FreeFinite, FS_Subset
  <1>3. s.plane[pl].free_blocks >= Cardinality(FreeBlocks(s, pl))
    BY DEF NotShort
  <1>4. s.plane[pl].free_blocks \in Int
    BY DEF Drive, PlaneKind
  <1> QED BY <1>2, <1>3, <1>4, FreeFinite

Aborted(s, name) == [s EXCEPT !.abort = name]

LEMMA AssertFields ==
    ASSUME NEW s \in Drive, NEW name \in Causes, NEW t \in {s, Aborted(s, name)}
    PROVE  /\ t \in Drive /\ t.block = s.block /\ t.plane = s.plane /\ t.data = s.data
           /\ t.wear = s.wear /\ t.erased = s.erased
  BY DEF Drive, Aborted

WithBlock(s, b, blk) == [s EXCEPT !.block = [s.block EXCEPT ![b] = blk]]

LEMMA SetBlock ==
    ASSUME NEW s \in Drive, NEW b \in Blocks, NEW blk \in BlockKind, NEW t,
           t = WithBlock(s, b, blk)
    PROVE  /\ t \in Drive /\ t.plane = s.plane /\ t.data = s.data
           /\ t.wear = s.wear /\ t.erased = s.erased /\ t.abort = s.abort
           /\ t.block[b] = blk /\ \A c \in Blocks : c # b => t.block[c] = s.block[c]
  <1>1. PICK f \in [Blocks -> BlockKind] : f = [s.block EXCEPT ![b] = blk]
    BY DEF Drive
  <1>2. t = [s EXCEPT !.block = f]
    BY <1>1 DEF WithBlock
  <1>3. t \in Drive
    BY <1>2 DEF Drive
  <1>5. t.plane = s.plane /\ t.data = s.data /\ t.block = f
        /\ t.wear = s.wear /\ t.erased = s.erased /\ t.abort = s.abort
    BY <1>2 DEF Drive
  <1>4. f[b] = blk /\ \A c \in Blocks : c # b => f[c] = s.block[c]
    BY <1>1 DEF Drive
  <1> QED BY <1>3, <1>4, <1>5

\* A block changes that is not free afterwards unless it was before.
LEMMA BlockKeeps ==
    ASSUME NEW s \in Drive, NEW b \in Blocks, NEW blk \in BlockKind,
           blk.erases_remaining = s.block[b].erases_remaining,
           blk.state = "FREE" => s.block[b].state = "FREE", NEW t,
           t = WithBlock(s, b, blk)
    PROVE  Keeps(s, t)
  <1>1. /\ t \in Drive /\ t.plane = s.plane
        /\ t.wear = s.wear /\ t.erased = s.erased
        /\ t.block[b] = blk /\ \A c \in Blocks : c # b => t.block[c] = s.block[c]
    BY SetBlock
  <1>2. \A c \in Blocks : t.block[c].erases_remaining = s.block[c].erases_remaining
    BY <1>1
  <1>3. \A c \in Blocks : t.block[c].state = "FREE" => s.block[c].state = "FREE"
    BY <1>1
  <1>4. NotShort(s) => NotShort(t)
    BY <1>1, <1>3, FewerFree
  <1> QED BY <1>1, <1>2, <1>4 DEF Keeps, SameWear

LEMMA KeepsTransitive ==
    ASSUME NEW s, NEW t, NEW u, Keeps(s, t), Keeps(t, u)
    PROVE  Keeps(s, u)
  BY DEF Keeps, SameWear

LEMMA ReplaceKeeps ==
    ASSUME NEW s \in Drive, NEW r \in WrittenAddresses \cup {None}
    PROVE  Keeps(s, PlaneReplace(s, r))
  <1>1. CASE r = None
    BY <1>1 DEF PlaneReplace, Keeps, SameWear
  <1>2. CASE r # None
    <2>1. BlockOf(r) \in Blocks /\ PageOf(r) \in Pages
      BY <1>2, AddressRange
    <2>2. s.block[BlockOf(r)] \in BlockKind
      BY <2>1 DEF Drive
    <2>3. PICK blk \in BlockKind : blk = BlockInvalidate(s.block[BlockOf(r)], PageOf(r))
      BY <2>1, <2>2, BlockOps
    <2>4. /\ blk.state = "FREE" => s.block[BlockOf(r)].state = "FREE"
          /\ blk.erases_remaining = s.block[BlockOf(r)].erases_remaining
      BY <2>1, <2>2, <2>3, BlockOps
    <2>5. PlaneReplace(s, r) = WithBlock(s, BlockOf(r), blk)
      BY <1>2, <2>3 DEF PlaneReplace, WithBlock
    <2> QED BY <2>1, <2>4, <2>5, BlockKeeps
  <1> QED BY <1>1, <1>2

LEMMA WriteKeeps ==
    ASSUME NEW s \in Drive, NEW a \in WrittenAddresses
    PROVE  Keeps(s, PlaneWrite(s, BlockOf(a), {PageOf(a)}, [p \in Pages |-> None]))
  <1>1. PICK b \in Blocks, p \in Pages : b = BlockOf(a) /\ p = PageOf(a)
    BY AddressRange
  <1> DEFINE payload == [q \in Pages |-> None]
             t == PlaneWrite(s, b, {p}, payload)
             pl == PlaneOf(b)
  <1>2. PICK u : u = Assert(s, \A q \in {p} : s.block[b].page[q] = "EMPTY", "page not empty")
    OBVIOUS
  <1>3. /\ u \in Drive /\ u.block = s.block /\ u.plane = s.plane /\ u.data = s.data
        /\ u.wear = s.wear /\ u.erased = s.erased
    <2>1. PICK name \in Causes : u \in {s, Aborted(s, name)}
      BY <1>2 DEF Assert, Aborted, Causes
    <2> QED BY <2>1, AssertFields
  <1>4. s.block[b] \in BlockKind
    BY DEF Drive
  <1>5. PICK blk \in BlockKind : blk = BlockWrite(s.block[b], {p})
    BY <1>4, BlockOps
  <1>6. blk.state # "FREE" /\ blk.erases_remaining = s.block[b].erases_remaining
    BY <1>4, <1>5, BlockOps
  <1>7. PICK dat \in [Addresses -> Int] :
           dat = [x \in Addresses |-> IF BlockOf(x) = b /\ PageOf(x) \in {p}
                                      THEN payload[PageOf(x)] ELSE u.data[x]]
    <2>1. \A x \in Addresses : PageOf(x) \in {p} => payload[PageOf(x)] \in Int
      BY DEF None
    <2>2. \A x \in Addresses : u.data[x] \in Int
      BY <1>3 DEF Drive
    <2> HIDE DEF payload
    <2> QED BY <2>1, <2>2
  <1>8. PICK v : v = WithBlock(u, b, blk)
    OBVIOUS
  <1>9. /\ v \in Drive /\ v.plane = s.plane /\ v.wear = s.wear /\ v.erased = s.erased
        /\ v.block[b] = blk /\ \A c \in Blocks : c # b => v.block[c] = s.block[c]
    BY <1>3, <1>8, SetBlock
  <1>10. PICK w : w = [v EXCEPT !.data = dat]
    OBVIOUS
  <1>11. /\ w \in Drive /\ w.plane = s.plane /\ w.wear = s.wear /\ w.erased = s.erased
         /\ w.block = v.block
    BY <1>9, <1>10 DEF Drive
  <1>12. t = IF s.block[b].state = "FREE" THEN [w EXCEPT !.plane[pl].free_blocks = @ - 1] ELSE w
    <2>1. w = [u EXCEPT !.block[b] = BlockWrite(@, {p}),
                        !.data = [x \in Addresses |-> IF BlockOf(x) = b /\ PageOf(x) \in {p}
                                                      THEN payload[PageOf(x)] ELSE @[x]]]
      <3> HIDE DEF payload
      <3>1. v = [u EXCEPT !.block = [u.block EXCEPT ![b] = BlockWrite(u.block[b], {p})]]
        BY <1>3, <1>5, <1>8 DEF WithBlock
      <3> QED BY <1>7, <1>10, <3>1
    <2>2. {p} # {}
      OBVIOUS
    <2> HIDE DEF payload
    <2> QED BY <1>2, <2>1, <2>2, Zenon DEF PlaneWrite
  <1>13. \A c \in Blocks :
            /\ w.block[c].erases_remaining = s.block[c].erases_remaining
            /\ w.block[c].state = "FREE" <=> s.block[c].state = "FREE" /\ c # b
    BY <1>6, <1>9, <1>11
  <1>14. pl \in Planes
    BY PlaneRange
  <1> HIDE DEF t, pl
  <1>15. CASE s.block[b].state # "FREE"
    <2>1. t = w
      BY <1>12, <1>15
    <2>2. NotShort(s) => NotShort(w)
      BY <1>11, <1>13, FewerFree
    <2> QED BY <1>1, <1>11, <1>13, <2>1, <2>2 DEF Keeps, SameWear, t
  <1>16. CASE s.block[b].state = "FREE"
    <2>1. PICK n \in Int : n = s.plane[pl].free_blocks
      BY <1>14 DEF Drive, PlaneKind
    <2>2. PICK np \in PlaneKind : /\ np = [s.plane[pl] EXCEPT !.free_blocks = n - 1]
                                  /\ np.free_blocks = n - 1
                                  /\ np.least_worn = s.plane[pl].least_worn
      <3>1. PICK sp \in PlaneKind, k \in Int : sp = s.plane[pl] /\ k = n - 1
        BY <1>14, <2>1 DEF Drive
      <3>2. LET np == [sp EXCEPT !.free_blocks = k]
            IN np \in PlaneKind /\ np.free_blocks = k /\ np.least_worn = sp.least_worn
        BY DEF PlaneKind
      <3> QED BY <3>1, <3>2
    <2>3. PICK f \in [Planes -> PlaneKind] :
              /\ f = [s.plane EXCEPT ![pl] = np]
              /\ f[pl] = np /\ \A q \in Planes : q # pl => f[q] = s.plane[q]
      <3>1. s.plane \in [Planes -> PlaneKind]
        BY DEF Drive
      <3>2. LET f == [s.plane EXCEPT ![pl] = np]
            IN /\ f \in [Planes -> PlaneKind]
               /\ f[pl] = np /\ \A q \in Planes : q # pl => f[q] = s.plane[q]
        BY <1>14, <3>1
      <3> QED BY <3>2
    <2>4. t = [w EXCEPT !.plane = f]
      BY <1>11, <1>12, <1>16, <2>1, <2>2, <2>3
    <2>5. /\ t \in Drive /\ t.plane = f /\ t.wear = s.wear /\ t.erased = s.erased
          /\ t.block = w.block
      BY <1>11, <2>4 DEF Drive
    <2>6. ASSUME NotShort(s), NEW q \in Planes
          PROVE  f[q].free_blocks >= Cardinality(FreeBlocks(t, q))
      <3>1. s.plane[q].free_blocks >= Cardinality(FreeBlocks(s, q)) /\ s.plane[q].free_blocks \in Int
        BY <2>6 DEF NotShort, Drive, PlaneKind
      <3>2. CASE q = pl
        <4>1. FreeBlocks(t, q) = FreeBlocks(s, q) \ {b} /\ b \in FreeBlocks(s, q)
          BY <1>13, <1>16, <2>5, <3>2 DEF FreeBlocks, pl
        <4>2. Cardinality(FreeBlocks(t, q)) = Cardinality(FreeBlocks(s, q)) - 1
          <5>1. PICK S : S = FreeBlocks(s, q) /\ IsFiniteSet(S)
            BY FreeFinite
          <5>2. Cardinality(S \ {b}) = IF b \in S THEN Cardinality(S) - 1 ELSE Cardinality(S)
            BY <5>1, FS_RemoveElement
          <5> QED BY <4>1, <5>1, <5>2
        <4> QED BY <2>1, <2>2, <2>3, <3>1, <3>2, <4>2, FreeFinite
      <3>3. CASE q # pl
        <4>1. FreeBlocks(t, q) = FreeBlocks(s, q)
          BY <1>13, <2>5, <3>3 DEF FreeBlocks, pl
        <4> QED BY <2>3, <3>1, <3>3, <4>1
      <3> QED BY <3>2, <3>3
    <2>7. \A q \in Planes : f[q].least_worn = s.plane[q].least_worn
      BY <2>2, <2>3
    <2> QED BY <1>1, <1>13, <2>5, <2>6, <2>7 DEF Keeps, SameWear, NotShort, t
  <1> QED BY <1>15, <1>16

LEMMA MergeKeeps ==
    ASSUME NEW s \in Drive, NEW b \in Blocks, NEW m \in Blocks
    PROVE  Keeps(s, SsdMerge(s, b, m))
  <1>1. ASSUME NEW name \in Causes, NEW u \in {s, Aborted(s, name)}
        PROVE  u \in Drive /\ u.block = s.block /\ Keeps(s, u)
    <2>2. /\ u \in Drive /\ u.block = s.block /\ u.plane = s.plane
          /\ u.wear = s.wear /\ u.erased = s.erased
      BY <1>1, AssertFields
    <2>3. NotShort(s) => NotShort(u)
      BY <2>2 DEF NotShort, FreeBlocks
    <2> QED BY <2>2, <2>3 DEF Keeps, SameWear
  <1>2. Keeps(s, s)
    BY DEF Keeps, SameWear
  <1>3. CASE PlaneOf(b) % DieSize # PlaneOf(m) % DieSize \/ b # m
    <2>1. PICK u : u = SsdMerge(s, b, m)
      OBVIOUS
    <2>2. PICK name \in Causes : u \in {s, Aborted(s, name)}
      BY <1>3, <2>1 DEF SsdMerge, Assert, Aborted, Causes
    <2> QED BY <1>1, <2>1, <2>2
  <1>4. CASE PlaneOf(b) % DieSize = PlaneOf(m) % DieSize /\ b = m
    <2> DEFINE valid == {p \in Pages : s.block[b].page[p] = "VALID"}
               first == CHOOSE p \in Pages : valid = {} \/ (p \in valid /\ \A q \in valid : p <= q)
    <2>1. SsdMerge(s, b, m) = MergeWithin(s, b, valid, first)
      BY <1>4 DEF SsdMerge
    <2>2. CASE valid = {}
      BY <1>2, <2>1, <2>2 DEF MergeWithin
    <2>3. CASE valid # {}
      <3>1. valid \subseteq Nat
        BY DEF Pages
      <3>2. \E p \in Pages : valid = {} \/ (p \in valid /\ \A q \in valid : p <= q)
        BY <2>3, <3>1, NatMin
      <3>3. first \in Pages
        BY <3>2
      <3> HIDE DEF first, valid
      <3>4. PICK u : u = Assert(s, s.block[b].page[0] = "EMPTY" /\ Cardinality(valid) = 1,
                                "page not empty")
        OBVIOUS
      <3>5. u \in Drive /\ u.block = s.block /\ Keeps(s, u)
        <4>1. PICK name \in Causes : u \in {s, Aborted(s, name)}
          BY <3>4 DEF Assert, Aborted, Causes
        <4> QED BY <1>1, <4>1
      <3>6. u.block[b] \in BlockKind /\ 0 \in Pages
        BY <3>5, FlashAssumption DEF Drive, Pages
      <3>7. PICK mid \in BlockKind : mid = BlockInvalidate(u.block[b], first)
        BY <3>3, <3>6, BlockOps
      <3>8. mid.erases_remaining = u.block[b].erases_remaining
        BY <3>3, <3>6, <3>7, BlockOps
      <3>9. PICK blk \in BlockKind : blk = BlockWrite(mid, {0})
        BY <3>6, BlockOps
      <3>10. blk.state # "FREE" /\ blk.erases_remaining = mid.erases_remaining
        BY <3>6, <3>9, BlockOps
      <3>11. PICK t : t = WithBlock(u, b, blk)
        OBVIOUS
      <3>12. Keeps(u, t)
        BY <3>5, <3>8, <3>10, <3>11, BlockKeeps
      <3>13. MergeWithin(s, b, valid, first) = s \/ MergeWithin(s, b, valid, first) = t
        BY <3>4, <3>7, <3>9, <3>11 DEF MergeWithin, WithBlock
      <3> QED BY <1>2, <2>1, <3>5, <3>12, <3>13, KeepsTransitive DEF valid, first
    <2> QED BY <2>2, <2>3
  <1> QED BY <1>3, <1>4

-----------------------------------------------------------------------------
\* The figures of wear.
LEMMA NatMax ==
    ASSUME NEW n \in Nat, NEW S, S \subseteq 1 .. n, S # {}
    PROVE  \E x \in S : \A y \in S : y <= x
  <1> DEFINE D == {n - x : x \in S}
  <1>0. \A x \in S : n - x \in Nat
    OBVIOUS
  <1>1. D \subseteq Nat /\ D # {}
    BY <1>0
  <1>2. PICK d \in D : \A e \in D : d <= e
    BY <1>1, NatMin
  <1>3. PICK x \in S : d = n - x
    BY <1>2
  <1>4. \A y \in S : n - x <= n - y
    BY <1>2, <1>3
  <1> QED BY <1>3, <1>4

\* The last child better than the first, as every level chooses it.
Better(n, left) == {i \in 1 .. n - 1 : left[i] > left[0]}
LastOf(S) == IF S = {} THEN 0 ELSE CHOOSE i \in S : \A j \in S : j <= i

LEMMA LastOfBetter ==
    ASSUME NEW n \in Nat \ {0}, NEW left \in [0 .. n - 1 -> Nat], NEW w,
           w = LastOf(Better(n, left))
    PROVE  w \in 0 .. n - 1 /\ left[w] >= left[0]
  <1> DEFINE S == Better(n, left)
  <1>1. CASE S = {}
    BY <1>1 DEF LastOf
  <1>2. CASE S # {}
    <2>1. n - 1 \in Nat /\ S \subseteq 1 .. n - 1
      BY DEF Better
    <2> HIDE DEF S
    <2>2. \E i \in S : \A j \in S : j <= i
      BY <1>2, <2>1, NatMax
    <2>3. w \in S
      BY <1>2, <2>2 DEF LastOf, S
    <2> QED BY <2>3 DEF Better, S
  <1> QED BY <1>1, <1>2

LEMMA LeastWornBetter ==
    ASSUME NEW f \in [Blocks -> BlockKind], NEW pl \in Planes
    PROVE  /\ LeastWorn(f, pl) \in 0 .. PlaneSize - 1
           /\ f[pl * PlaneSize + LeastWorn(f, pl)].erases_remaining
                >= f[pl * PlaneSize].erases_remaining
  <1> DEFINE left == [i \in 0 .. PlaneSize - 1 |-> f[pl * PlaneSize + i].erases_remaining]
             w == LeastWorn(f, pl)
  <1>1. PlaneSize \in Nat \ {0} /\ pl \in Int
    BY FlashAssumption DEF Planes
  <1>2. \A i \in 0 .. PlaneSize - 1 : f[pl * PlaneSize + i].erases_remaining \in Nat
    BY PlaneRange DEF BlockKind
  <1>3. left \in [0 .. PlaneSize - 1 -> Nat]
    BY <1>2
  <1>4. PICK S : S = {i \in 1 .. PlaneSize - 1 : f[pl * PlaneSize + i].erases_remaining
                                              > f[pl * PlaneSize + 0].erases_remaining}
    OBVIOUS
  <1>5. w = LastOf(S)
    BY <1>4 DEF LeastWorn, LastOf
  <1>6. S = Better(PlaneSize, left)
    BY <1>1, <1>4 DEF Better
  <1> HIDE DEF left, w
  <1>7. w \in 0 .. PlaneSize - 1 /\ left[w] >= left[0]
    BY <1>1, <1>3, <1>5, <1>6, LastOfBetter
  <1>8. left[0] = f[pl * PlaneSize].erases_remaining
    <2>1. pl * PlaneSize + 0 = pl * PlaneSize
      BY <1>1
    <2> QED BY <1>1, <2>1 DEF left
  <1>9. left[w] = f[pl * PlaneSize + w].erases_remaining
    BY <1>7 DEF left
  <1> QED BY <1>7, <1>8, <1>9 DEF w

LEMMA WearBetter ==
    ASSUME NEW f \in [Blocks -> BlockKind], NEW level \in Levels, NEW b \in Blocks
    PROVE  /\ Wear(f, level, b) \in WearKind
           /\ Wear(f, level, b).least_worn \in 0 .. Children[level] - 1
           /\ Wear(f, level, b).erases_remaining = ErasesRemaining(f, level, b, 0)
           /\ ErasesRemaining(f, level, b, Wear(f, level, b).least_worn)
                >= ErasesRemaining(f, level, b, 0)
  <1> DEFINE n == Children[level]
             left == [i \in 0 .. n - 1 |-> ErasesRemaining(f, level, b, i)]
  <1>1. n \in Nat \ {0}
    BY LevelSizes
  <1>2. \A i \in 0 .. n - 1 : ErasesRemaining(f, level, b, i) \in Nat
    BY PeerUnit DEF BlockKind, ErasesRemaining
  <1>3. left \in [0 .. n - 1 -> Nat]
    BY <1>2
  <1>4. PICK S : S = {i \in 1 .. n - 1 : ErasesRemaining(f, level, b, i)
                                       > ErasesRemaining(f, level, b, 0)}
    OBVIOUS
  <1>5. PICK w : w = LastOf(S)
    OBVIOUS
  <1>6. Wear(f, level, b) = [least_worn |-> w,
                             erases_remaining |-> ErasesRemaining(f, level, b, 0)]
    BY <1>4, <1>5 DEF Wear, LastOf
  <1>7. S = Better(n, left)
    BY <1>1, <1>4 DEF Better
  <1> HIDE DEF left, n
  <1>8. w \in 0 .. n - 1 /\ left[w] >= left[0]
    BY <1>1, <1>3, <1>5, <1>7, LastOfBetter
  <1>9. left[0] = ErasesRemaining(f, level, b, 0) /\ left[w] = ErasesRemaining(f, level, b, w)
        /\ left[0] \in Nat
    BY <1>1, <1>2, <1>8 DEF left
  <1> QED BY <1>1, <1>6, <1>8, <1>9 DEF WearKind, n

\* The figures of each level name children and units that exist, and the unit of
\* the block erased last is the one that remembers it.
Figures(s) ==
    \A level \in Levels :
        /\ s.wear[level] \in [Units(level) -> WearKind]
        /\ s.erased[level] \in [Units(level) -> Blocks \cup {None}]
        /\ \A u \in Units(level) :
              /\ s.wear[level][u].least_worn \in 0 .. Children[level] - 1
              /\ s.erased[level][u] # None => UnitOf(level, s.erased[level][u]) = u

\* The two halves of LeastWornIsNoWorse.
LevelNoWorse(s, level, u) ==
    s.erased[level][u] # None =>
        /\ ErasesRemaining(s.block, level, s.erased[level][u], s.wear[level][u].least_worn)
             >= s.wear[level][u].erases_remaining
        /\ s.wear[level][u].erases_remaining
             = ErasesRemaining(s.block, level, s.erased[level][u], 0)
PlaneNoWorse(s, pl) ==
    s.block[pl * PlaneSize + s.plane[pl].least_worn].erases_remaining
        >= s.block[pl * PlaneSize].erases_remaining

NoWorse(s) == /\ \A level \in Levels : \A u \in Units(level) : LevelNoWorse(s, level, u)
              /\ \A pl \in Planes : PlaneNoWorse(s, pl)

Sound(s) == s \in Drive /\ NotShort(s) /\ Figures(s) /\ NoWorse(s)

ArrayInv == Sound(array)

LEMMA KeepsSound ==
    ASSUME NEW s, NEW t, Sound(s), Keeps(s, t)
    PROVE  Sound(t)
  <1>1. t \in Drive /\ s \in Drive /\ NotShort(t) /\ Figures(s) /\ NoWorse(s)
    BY DEF Sound, Keeps, SameWear
  <1>2. /\ t.wear = s.wear /\ t.erased = s.erased
        /\ \A b \in Blocks : t.block[b].erases_remaining = s.block[b].erases_remaining
        /\ \A pl \in Planes : t.plane[pl].least_worn = s.plane[pl].least_worn
    BY DEF Keeps, SameWear
  <1>3. Figures(t)
    BY <1>1, <1>2 DEF Figures
  <1>4. ASSUME NEW level \in Levels, NEW u \in Units(level), s.erased[level][u] # None
        PROVE  LevelNoWorse(t, level, u)
    <2>1. PICK b \in Blocks : b = s.erased[level][u]
      BY <1>1, <1>4 DEF Figures
    <2>2. PICK i \in 0 .. Children[level] - 1 : i = s.wear[level][u].least_worn
      BY <1>1 DEF Figures
    <2>3. 0 \in 0 .. Children[level] - 1
      BY LevelSizes
    <2>4. Peer(level, b, i) \in Blocks /\ Peer(level, b, 0) \in Blocks
      BY <2>3, PeerUnit
    <2>5. /\ ErasesRemaining(t.block, level, b, i) = ErasesRemaining(s.block, level, b, i)
          /\ ErasesRemaining(t.block, level, b, 0) = ErasesRemaining(s.block, level, b, 0)
      BY <1>2, <2>4 DEF ErasesRemaining
    <2>6. LevelNoWorse(s, level, u)
      BY <1>1 DEF NoWorse
    <2> QED BY <1>2, <1>4, <2>1, <2>2, <2>5, <2>6 DEF LevelNoWorse
  <1>5. ASSUME NEW pl \in Planes PROVE PlaneNoWorse(t, pl)
    <2>1. PICK i \in 0 .. PlaneSize - 1 : i = s.plane[pl].least_worn /\ i = t.plane[pl].least_worn
      BY <1>1, <1>2 DEF Drive, PlaneKind
    <2>2. 0 \in 0 .. PlaneSize - 1 /\ pl * PlaneSize + 0 = pl * PlaneSize
      BY FlashAssumption DEF Planes
    <2>3. pl * PlaneSize + i \in Blocks /\ pl * PlaneSize \in Blocks
      BY <2>2, PlaneRange
    <2>4. PlaneNoWorse(s, pl)
      BY <1>1 DEF NoWorse
    <2> QED BY <1>2, <2>1, <2>3, <2>4 DEF PlaneNoWorse
  <1>6. NoWorse(t)
    <2>1. ASSUME NEW level \in Levels, NEW u \in Units(level) PROVE LevelNoWorse(t, level, u)
      BY <1>2, <1>4 DEF LevelNoWorse
    <2> QED BY <1>5, <2>1 DEF NoWorse
  <1> QED BY <1>1, <1>3, <1>6 DEF Sound

\* What an erase leaves behind at each level.
Refreshed(s, t, b, level) ==
    /\ t.wear[level] = [s.wear[level] EXCEPT ![UnitOf(level, b)] = Wear(t.block, level, b)]
    /\ t.erased[level] = [s.erased[level] EXCEPT ![UnitOf(level, b)] = b]

LEMMA EraseFields ==
    ASSUME NEW s \in Drive, NEW b \in Blocks, ~(s.block[b].erases_remaining < 1),
           Figures(s), NEW t, t = SsdErase(s, b)
    PROVE  /\ t \in Drive
           /\ t.block[b].state = "FREE"
           /\ \A c \in Blocks : c # b => t.block[c] = s.block[c]
           /\ t.plane[PlaneOf(b)].free_blocks = s.plane[PlaneOf(b)].free_blocks + 1
           /\ t.plane[PlaneOf(b)].least_worn = LeastWorn(t.block, PlaneOf(b))
           /\ \A pl \in Planes : pl # PlaneOf(b) => t.plane[pl] = s.plane[pl]
           /\ \A level \in Levels : Refreshed(s, t, b, level)
  <1> DEFINE pl == PlaneOf(b)
  <1>1. PICK blk \in BlockKind : blk = BlockErase(s.block[b]) /\ blk.state = "FREE"
    <2>1. s.block[b] \in BlockKind /\ \E p \in Pages : TRUE
      BY FlashAssumption DEF Drive, Pages
    <2>2. s.block[b].erases_remaining >= 1
      BY <2>1 DEF BlockKind
    <2> QED BY <2>1, <2>2, BlockOps
  <1>2. PICK f \in [Blocks -> BlockKind] :
            /\ f = [s.block EXCEPT ![b] = blk] /\ f[b] = blk
            /\ \A c \in Blocks : c # b => f[c] = s.block[c]
    <2>1. s.block \in [Blocks -> BlockKind]
      BY DEF Drive
    <2>2. LET h == [s.block EXCEPT ![b] = blk]
          IN /\ h \in [Blocks -> BlockKind] /\ h[b] = blk
             /\ \A c \in Blocks : c # b => h[c] = s.block[c]
      BY <2>1
    <2> QED BY <2>2
  <1>3. pl \in Planes
    BY PlaneRange
  <1>4. PICK np \in PlaneKind : /\ np = [free_blocks |-> s.plane[pl].free_blocks + 1,
                                         least_worn |-> LeastWorn(f, pl)]
                                /\ np.free_blocks = s.plane[pl].free_blocks + 1
                                /\ np.least_worn = LeastWorn(f, pl)
    <2>1. s.plane[pl].free_blocks + 1 \in Int
      BY <1>3 DEF Drive, PlaneKind
    <2>2. LeastWorn(f, pl) \in 0 .. PlaneSize - 1
      BY <1>3, LeastWornBetter
    <2>3. LET h == [free_blocks |-> s.plane[pl].free_blocks + 1, least_worn |-> LeastWorn(f, pl)]
          IN /\ h \in PlaneKind /\ h.free_blocks = s.plane[pl].free_blocks + 1
             /\ h.least_worn = LeastWorn(f, pl)
      BY <2>1, <2>2 DEF PlaneKind
    <2> QED BY <2>3
  <1>5. PICK g \in [Planes -> PlaneKind] :
            /\ g = [s.plane EXCEPT ![pl] = np] /\ g[pl] = np
            /\ \A q \in Planes : q # pl => g[q] = s.plane[q]
    <2>1. s.plane \in [Planes -> PlaneKind]
      BY DEF Drive
    <2>2. LET h == [s.plane EXCEPT ![pl] = np]
          IN /\ h \in [Planes -> PlaneKind] /\ h[pl] = np
             /\ \A q \in Planes : q # pl => h[q] = s.plane[q]
      BY <1>3, <2>1
    <2> QED BY <2>2
  <1>6. PICK dat \in [Addresses -> Int] :
            dat = [a \in Addresses |-> IF BlockOf(a) = b THEN None ELSE s.data[a]]
    <2>1. \A a \in Addresses : s.data[a] \in Int /\ None \in Int
      BY DEF Drive, None
    <2> QED BY <2>1
  <1>7. PICK v : v = [s EXCEPT !.block = f, !.plane = g, !.data = dat]
    OBVIOUS
  <1>8. PlaneErase(s, b) = v
    BY <1>1, <1>2, <1>4, <1>5, <1>6, <1>7 DEF PlaneErase
  <1>9. /\ v \in Drive /\ v.block = f /\ v.plane = g /\ v.wear = s.wear /\ v.erased = s.erased
    BY <1>7 DEF Drive
  <1>10. PICK W :
            W = [level \in Levels |-> [s.wear[level] EXCEPT ![UnitOf(level, b)] = Wear(f, level, b)]]
    OBVIOUS
  <1>11. PICK E : E = [level \in Levels |-> [s.erased[level] EXCEPT ![UnitOf(level, b)] = b]]
    OBVIOUS
  <1>12. W \in [Levels -> WearTables] /\ E \in [Levels -> EraseTables]
    <2>1. ASSUME NEW level \in Levels
          PROVE  /\ [s.wear[level] EXCEPT ![UnitOf(level, b)] = Wear(f, level, b)] \in WearTables
                 /\ [s.erased[level] EXCEPT ![UnitOf(level, b)] = b] \in EraseTables
      <3>1. PICK w \in WearKind : w = Wear(f, level, b)
        BY WearBetter
      <3>2. s.wear[level] \in [Units(level) -> WearKind]
            /\ s.erased[level] \in [Units(level) -> Blocks \cup {None}]
        BY DEF Figures
      <3>3. /\ [s.wear[level] EXCEPT ![UnitOf(level, b)] = w] \in [Units(level) -> WearKind]
            /\ [s.erased[level] EXCEPT ![UnitOf(level, b)] = b]
                 \in [Units(level) -> Blocks \cup {None}]
        BY <3>2
      <3> QED BY <3>1, <3>3 DEF WearTables, EraseTables
    <2> QED BY <1>10, <1>11, <2>1
  <1>13. t = [v EXCEPT !.wear = W, !.erased = E]
    BY <1>8, <1>9, <1>10, <1>11 DEF SsdErase, UpdateWear
  <1>14. t \in Drive /\ t.block = f /\ t.plane = g /\ t.wear = W /\ t.erased = E
    BY <1>9, <1>12, <1>13 DEF Drive
  <1>15. \A level \in Levels : Refreshed(s, t, b, level)
    BY <1>10, <1>11, <1>14 DEF Refreshed
  <1> QED BY <1>1, <1>2, <1>4, <1>5, <1>14, <1>15

LEMMA EraseSound ==
    ASSUME NEW s, NEW b \in Blocks, Sound(s)
    PROVE  Sound(SsdErase(s, b))
  <1>1. s \in Drive /\ NotShort(s) /\ Figures(s) /\ NoWorse(s)
    BY DEF Sound
  <1>2. CASE s.block[b].erases_remaining < 1
    BY <1>2 DEF SsdErase
  <1>3. CASE ~(s.block[b].erases_remaining < 1)
    <2> DEFINE pb == PlaneOf(b)
    <2>1. PICK t : t = SsdErase(s, b)
      OBVIOUS
    <2>2. /\ t \in Drive
          /\ t.block[b].state = "FREE"
          /\ \A c \in Blocks : c # b => t.block[c] = s.block[c]
          /\ t.plane[pb].free_blocks = s.plane[pb].free_blocks + 1
          /\ t.plane[pb].least_worn = LeastWorn(t.block, pb)
          /\ \A pl \in Planes : pl # pb => t.plane[pl] = s.plane[pl]
      BY <1>1, <1>3, <2>1, EraseFields
    <2>3. \A level \in Levels : Refreshed(s, t, b, level)
      BY <1>1, <1>3, <2>1, EraseFields
    <2>4. pb \in Planes /\ t.block \in [Blocks -> BlockKind]
      BY <2>2, PlaneRange DEF Drive
    <2>5. ASSUME NEW pl \in Planes
          PROVE  t.plane[pl].free_blocks >= Cardinality(FreeBlocks(t, pl))
      <3>1. s.plane[pl].free_blocks >= Cardinality(FreeBlocks(s, pl)) /\ s.plane[pl].free_blocks \in Int
        BY <1>1 DEF NotShort, Drive, PlaneKind
      <3>2. CASE pl = pb
        <4>1. FreeBlocks(t, pl) = FreeBlocks(s, pl) \cup {b}
          BY <2>2, <3>2 DEF FreeBlocks
        <4>2. PICK S : S = FreeBlocks(s, pl) /\ IsFiniteSet(S) /\ Cardinality(S) \in Nat
          BY FreeFinite
        <4>3. Cardinality(S \cup {b}) = IF b \in S THEN Cardinality(S) ELSE Cardinality(S) + 1
          BY <4>2, FS_AddElement
        <4> QED BY <2>2, <3>1, <3>2, <4>1, <4>2, <4>3
      <3>3. CASE pl # pb
        <4>1. FreeBlocks(t, pl) = FreeBlocks(s, pl)
          BY <2>2, <3>3 DEF FreeBlocks
        <4> QED BY <2>2, <3>1, <3>3, <4>1
      <3> QED BY <3>2, <3>3
    <2>6. ASSUME NEW level \in Levels, NEW u \in Units(level)
          PROVE  /\ t.wear[level] \in [Units(level) -> WearKind]
                 /\ t.erased[level] \in [Units(level) -> Blocks \cup {None}]
                 /\ t.wear[level][u].least_worn \in 0 .. Children[level] - 1
                 /\ t.erased[level][u] # None => UnitOf(level, t.erased[level][u]) = u
                 /\ LevelNoWorse(t, level, u)
      <3>1. /\ s.wear[level] \in [Units(level) -> WearKind]
            /\ s.erased[level] \in [Units(level) -> Blocks \cup {None}]
            /\ s.wear[level][u].least_worn \in 0 .. Children[level] - 1
            /\ s.erased[level][u] # None => UnitOf(level, s.erased[level][u]) = u
        BY <1>1 DEF Figures
      <3>2. PICK w \in WearKind : /\ w = Wear(t.block, level, b)
                                  /\ w.least_worn \in 0 .. Children[level] - 1
                                  /\ w.erases_remaining = ErasesRemaining(t.block, level, b, 0)
                                  /\ ErasesRemaining(t.block, level, b, w.least_worn)
                                       >= ErasesRemaining(t.block, level, b, 0)
        BY <2>4, WearBetter
      <3>3. t.wear[level] = [s.wear[level] EXCEPT ![UnitOf(level, b)] = w]
        BY <2>3, <3>2 DEF Refreshed
      <3>4. t.erased[level] = [s.erased[level] EXCEPT ![UnitOf(level, b)] = b]
        BY <2>3 DEF Refreshed
      <3>5. t.wear[level] \in [Units(level) -> WearKind]
        BY <3>1, <3>3
      <3>6. t.erased[level] \in [Units(level) -> Blocks \cup {None}]
        BY <3>1, <3>4
      <3>7. CASE u = UnitOf(level, b)
        <4>1. t.wear[level][u] = w /\ t.erased[level][u] = b
          BY <3>1, <3>3, <3>4, <3>7
        <4> QED BY <3>2, <3>5, <3>6, <3>7, <4>1 DEF LevelNoWorse
      <3>8. CASE u # UnitOf(level, b)
        <4>1. t.wear[level][u] = s.wear[level][u] /\ t.erased[level][u] = s.erased[level][u]
          BY <3>1, <3>3, <3>4, <3>8
        <4>2. ASSUME s.erased[level][u] # None PROVE LevelNoWorse(t, level, u)
          <5>1. PICK c \in Blocks : c = s.erased[level][u] /\ UnitOf(level, c) = u
            BY <3>1, <4>2
          <5>2. PICK i \in 0 .. Children[level] - 1 : i = s.wear[level][u].least_worn
            BY <3>1
          <5>3. 0 \in 0 .. Children[level] - 1
            BY LevelSizes
          <5>4. /\ Peer(level, c, i) \in Blocks /\ UnitOf(level, Peer(level, c, i)) = u
                /\ Peer(level, c, 0) \in Blocks /\ UnitOf(level, Peer(level, c, 0)) = u
            BY <5>1, <5>3, PeerUnit
          <5>5. /\ t.block[Peer(level, c, i)] = s.block[Peer(level, c, i)]
                /\ t.block[Peer(level, c, 0)] = s.block[Peer(level, c, 0)]
            BY <2>2, <3>8, <5>4
          <5>6. LevelNoWorse(s, level, u)
            BY <1>1 DEF NoWorse
          <5> QED BY <4>1, <4>2, <5>1, <5>2, <5>5, <5>6 DEF LevelNoWorse, ErasesRemaining
        <4>3. s.erased[level][u] = None => LevelNoWorse(t, level, u)
          BY <4>1 DEF LevelNoWorse
        <4> QED BY <3>1, <3>5, <3>6, <4>1, <4>2, <4>3
      <3> QED BY <3>7, <3>8
    <2>7. ASSUME NEW pl \in Planes PROVE PlaneNoWorse(t, pl)
      <3>1. CASE pl = pb
        BY <2>2, <2>4, <3>1, LeastWornBetter DEF PlaneNoWorse
      <3>2. CASE pl # pb
        <4>1. PICK i \in 0 .. PlaneSize - 1 : i = s.plane[pl].least_worn
          BY <1>1 DEF Drive, PlaneKind
        <4>2. 0 \in 0 .. PlaneSize - 1 /\ pl * PlaneSize + 0 = pl * PlaneSize
          BY FlashAssumption DEF Planes
        <4>3. /\ pl * PlaneSize + i \in Blocks /\ PlaneOf(pl * PlaneSize + i) = pl
              /\ pl * PlaneSize \in Blocks /\ PlaneOf(pl * PlaneSize) = pl
          BY <4>2, PlaneRange
        <4>4. /\ t.block[pl * PlaneSize + i] = s.block[pl * PlaneSize + i]
              /\ t.block[pl * PlaneSize] = s.block[pl * PlaneSize]
          BY <2>2, <3>2, <4>3
        <4>5. PlaneNoWorse(s, pl)
          BY <1>1 DEF NoWorse
        <4> QED BY <2>2, <3>2, <4>1, <4>4, <4>5 DEF PlaneNoWorse
      <3> QED BY <3>1, <3>2
    <2>8. \A level \in Levels : Units(level) # {}
      <3>1. b \in Blocks
        OBVIOUS
      <3> QED BY <3>1 DEF Units
    <2>9. Figures(t)
      BY <2>6, <2>8 DEF Figures
    <2>10. NoWorse(t)
      BY <2>6, <2>7 DEF NoWorse
    <2> QED BY <2>1, <2>2, <2>5, <2>9, <2>10 DEF Sound, NotShort
  <1> QED BY <1>2, <1>3

-----------------------------------------------------------------------------
LEMMA ArrayInitInv == ArrayInit => ArrayInv
  <1> SUFFICES ASSUME ArrayInit PROVE Sound(array)
    BY DEF ArrayInv
  <1>1. /\ array.block = [b \in Blocks |-> NewBlock] /\ array.plane = [pl \in Planes |-> NewPlane]
        /\ array.wear = [level \in Levels |-> [u \in Units(level) |-> NewWear]]
        /\ array.erased = [level \in Levels |-> [u \in Units(level) |-> None]]
    BY DEF ArrayInit
  <1>2. array \in Drive
    <2>1. NewPlane \in PlaneKind /\ NewWear \in WearKind /\ None \in Int
      BY FlashAssumption DEF NewPlane, PlaneKind, NewWear, WearKind, None
    <2>2. /\ array.block \in [Blocks -> BlockKind] /\ array.plane \in [Planes -> PlaneKind]
          /\ array.wear \in [Levels -> WearTables] /\ array.erased \in [Levels -> EraseTables]
      BY <1>1, <2>1, NewBlockKind DEF WearTables, EraseTables
    <2>3. array.data \in [Addresses -> Int] /\ array.abort \in Causes
      BY <2>1 DEF ArrayInit, Causes
    <2>4. array = [block |-> array.block, plane |-> array.plane, data |-> array.data,
                   abort |-> array.abort, wear |-> array.wear, erased |-> array.erased]
      BY DEF ArrayInit
    <2> QED BY <2>2, <2>3, <2>4 DEF Drive
  <1>3. NotShort(array)
    <2> SUFFICES ASSUME NEW pl \in Planes
                 PROVE  array.plane[pl].free_blocks >= Cardinality(FreeBlocks(array, pl))
      BY DEF NotShort
    <2>1. FreeBlocks(array, pl) \subseteq pl * PlaneSize .. pl * PlaneSize + (PlaneSize - 1)
      <3> SUFFICES ASSUME NEW c \in Blocks, PlaneOf(c) = pl
                   PROVE  c \in pl * PlaneSize .. pl * PlaneSize + (PlaneSize - 1)
        BY DEF FreeBlocks
      <3>1. c \in Nat /\ PlaneSize \in Nat \ {0}
        BY FlashAssumption DEF Blocks
      <3>2. c = pl * PlaneSize + (c % PlaneSize) /\ c % PlaneSize \in 0 .. PlaneSize - 1
        BY <3>1, Split DEF PlaneOf
      <3>3. pl * PlaneSize \in Nat
        BY <3>1, Times DEF Planes
      <3> QED BY <3>1, <3>2, <3>3
    <2>2. pl * PlaneSize \in Nat /\ PlaneSize \in Nat \ {0}
      BY FlashAssumption, Times DEF Planes
    <2>3. PICK x \in Nat : x = pl * PlaneSize
      BY <2>2
    <2>4. IsFiniteSet(x .. x + (PlaneSize - 1)) /\ Cardinality(x .. x + (PlaneSize - 1)) = PlaneSize
      <3>1. x \in Int /\ x + (PlaneSize - 1) \in Int /\ ~(x > x + (PlaneSize - 1))
            /\ x + (PlaneSize - 1) - x + 1 = PlaneSize
        BY <2>2
      <3>2. PICK y \in Int : y = x + (PlaneSize - 1)
        BY <3>1
      <3>3. IsFiniteSet(x .. y) /\ Cardinality(x .. y) = IF x > y THEN 0 ELSE y - x + 1
        BY <3>1, FS_Interval
      <3>4. Cardinality(x .. y) = PlaneSize
        BY <2>2, <3>2, <3>3
      <3> QED BY <3>2, <3>3, <3>4, Zenon
    <2>5. Cardinality(FreeBlocks(array, pl)) <= PlaneSize
      <3>1. PICK R : /\ R = x .. x + (PlaneSize - 1) /\ IsFiniteSet(R)
                     /\ Cardinality(R) = PlaneSize
        BY <2>4
      <3>2. PICK F : F = FreeBlocks(array, pl) /\ F \subseteq R
        BY <2>1, <2>3, <3>1
      <3> QED BY <3>1, <3>2, FS_Subset
    <2> QED BY <1>1, <2>2, <2>5, FreeFinite DEF NewPlane
  <1>4. Figures(array)
    <2>1. NewWear \in WearKind /\ NewWear.least_worn = 0
      BY FlashAssumption DEF NewWear, WearKind
    <2> QED BY <1>1, <2>1, LevelSizes DEF Figures
  <1>5. NoWorse(array)
    <2>1. ASSUME NEW pl \in Planes PROVE PlaneNoWorse(array, pl)
      <3>1. 0 \in 0 .. PlaneSize - 1 /\ pl * PlaneSize + 0 = pl * PlaneSize
        BY FlashAssumption DEF Planes
      <3>2. pl * PlaneSize \in Blocks
        BY <3>1, PlaneRange
      <3>3. array.plane[pl].least_worn = 0
        BY <1>1 DEF NewPlane
      <3>4. array.block[pl * PlaneSize].erases_remaining \in Nat
        BY <1>2, <3>2 DEF Drive, BlockKind
      <3> QED BY <3>1, <3>3, <3>4 DEF PlaneNoWorse
    <2>2. \A level \in Levels : \A u \in Units(level) : LevelNoWorse(array, level, u)
      BY <1>1 DEF LevelNoWorse
    <2> QED BY <2>1, <2>2 DEF NoWorse
  <1> QED BY <1>2, <1>3, <1>4, <1>5 DEF Sound

\* Every reachable state of the array is sound.
THEOREM ArrayInvariant == Spec => []ArrayInv
  <1>1. Init => ArrayInv
    BY ArrayInitInv DEF Init
  <1>2. ArrayInv /\ [Next]_vars => ArrayInv'
    <2> SUFFICES ASSUME Sound(array), [Next]_vars PROVE Sound(array')
      BY DEF ArrayInv, Sound
    <2>1. array \in Drive
      BY DEF Sound
    <2>2. CASE WriteArray
      <3>1. PICK a \in WrittenAddresses, r \in WrittenAddresses \cup {None} :
                array' = IssueWrite(array, a, r, None)
        BY <2>2 DEF WriteArray, Operate
      <3>2. PICK mid : mid = PlaneWrite(array, BlockOf(a), {PageOf(a)}, [p \in Pages |-> None])
        OBVIOUS
      <3>3. Keeps(array, mid)
        BY <2>1, <3>2, WriteKeeps
      <3>4. Keeps(mid, PlaneReplace(mid, r))
        BY <3>3, ReplaceKeeps DEF Keeps, SameWear
      <3>5. array' = PlaneReplace(mid, r)
        BY <3>1, <3>2 DEF IssueWrite
      <3>6. Sound(mid)
        BY <3>3, KeepsSound
      <3> QED BY <3>4, <3>5, <3>6, KeepsSound
    <2>3. CASE EraseArray
      <3>1. PICK b \in Blocks : array' = SsdErase(array, b)
        BY <2>3, GeometryAssumption DEF EraseArray, Operate
      <3> QED BY <3>1, EraseSound
    <2>4. CASE MergeArray
      <3>1. PICK b \in Blocks, m \in Blocks : array' = SsdMerge(array, b, m)
        BY <2>4, GeometryAssumption DEF MergeArray, Operate
      <3>2. Keeps(array, array')
        BY <2>1, <3>1, MergeKeeps
      <3> QED BY <3>2, KeepsSound
    <2>5. CASE array' = array
      BY <2>5
    <2> QED BY <2>2, <2>3, <2>4, <2>5 DEF Next, BusStep, ArrayStep, EepromStep, ArrayNext, vars,
                                          arrayVars
  <1> QED BY <1>1, <1>2, PTL DEF Spec

\* Plane::write and Plane::erase: the unsigned free_blocks never falls short of
\* the blocks that are free, whatever leaves the state FREE behind its back.
THEOREM FreeCountCorrect == Spec => []FreeCountNotShort
  <1>1. ArrayInv => FreeCountNotShort
    BY DEF ArrayInv, Sound, NotShort, FreeBlocks, FreeCountNotShort
  <1> QED BY <1>1, ArrayInvariant, PTL

\* update_wear_stats of plane, die, package and drive: the child cached as least
\* worn stays no worse than the first, whatever is erased elsewhere.
THEOREM LeastWornCorrect == Spec => []LeastWornIsNoWorse
  <1>1. ArrayInv => LeastWornIsNoWorse
    BY DEF ArrayInv, Sound, NoWorse, LevelNoWorse, PlaneNoWorse, LeastWornIsNoWorse
  <1> QED BY <1>1, ArrayInvariant, PTL
=============================================================================
