--------------------------- MODULE ZnsGateProofs ----------------------------
(***************************************************************************)
(* Safety of the driver, the bridge and the RTL for every zone size, zone  *)
(* count, limit and set of commands.  Then appends and resets inside the   *)
(* array, without reads: the tracker counts the open zones, driver, bridge *)
(* and RTL implement the abstract zoned device step by step, and the       *)
(* software gate's copy of the write pointers follows the hardware's.      *)
(***************************************************************************)
EXTENDS ZnsGate, FiniteSetTheorems, TLAPS

\* A value that fits its width is not changed by the modulus.
LEMMA ModSmall ==
    ASSUME NEW x \in Nat, NEW m \in Nat, x < m
    PROVE  x % m = x
  BY SMT

LEMMA ModRange ==
    ASSUME NEW x \in Nat, NEW m \in Nat, m > 0
    PROVE  x % m \in 0..(m - 1)
  BY SMT

\* The metadata words a command computes have the fields' widths.
LEMMA WordTypes ==
    ASSUME NEW w \in Words
    PROVE  /\ Written(w) \in Words
           /\ Erased(w) \in Words
           /\ ZeroWord \in Words
  <1> USE RtlAssumption
  <1>1. w.wptr + 1 \in Nat /\ w.erase + 1 \in Nat /\ WptrMod \in Nat /\ ByteMod \in Nat
        /\ WptrMod > 0 /\ ByteMod > 0
    BY DEF Words, WptrMod, ByteMod
  <1>2. (w.wptr + 1) % WptrMod \in 0..(WptrMod - 1)
    BY <1>1, ModRange
  <1>3. (w.erase + 1) % ByteMod \in 0..(ByteMod - 1)
    BY <1>1, ModRange
  <1>4. Written(w) \in Words
    BY <1>2 DEF Written, Words, WptrMod
  <1>5. Erased(w) \in Words
    BY <1>1, <1>3 DEF Erased, Words
  <1>6. ZeroWord \in Words
    BY DEF ZeroWord, Words, WptrMod, ByteMod
  <1> QED BY <1>4, <1>5, <1>6

\* Error codes are those of the rules, and 8 is the thermal rule's alone.
LEMMA CodeTypes ==
    ASSUME NEW in, NEW w, NEW c
    PROVE  /\ ErrorCode(in, w, c) \in {0, 1, 2, 3, 5, 6, 7, 8}
           /\ ErrorCode(in, w, c) \in 0..8
           /\ HasError(in, w, c) \in BOOLEAN
           /\ ErrorCode(in, w, c) = 8 <=> in.thermal
  <1>1. ErrorCode(in, w, c) \in {0, 1, 2, 3, 5, 6, 7, 8}
    BY DEF ErrorCode
  <1>2. ErrorCode(in, w, c) = 8 <=> in.thermal
    BY DEF ErrorCode
  <1> QED BY <1>1, <1>2 DEF HasError

LEMMA CountType ==
    ASSUME NEW op, NEW w \in Words, NEW c \in 0..(CountMod - 1)
    PROVE  NewCount(op, w, c) \in 0..(CountMod - 1)
  <1> USE RtlAssumption
  <1>1. (c + 1) % CountMod \in 0..(CountMod - 1)
    BY ModRange
  <1> QED BY <1>1 DEF NewCount

\* A clock edge keeps the registers in their types.
LEMMA PosedgeType ==
    ASSUME NEW r \in Regs, NEW in, NEW w \in Words
    PROVE  Posedge(r, in, w) \in Regs
  <1>1. NextState(r.state, in.trigger, HasError(in, w, r.count)) \in States
    BY DEF NextState, Regs, States
  <1>2. NewWdata(in.cmd, w, r.wdata) \in Words
    BY WordTypes DEF NewWdata, Regs
  <1>3. NewCount(in.cmd, w, r.count) \in 0..(CountMod - 1)
    BY CountType DEF Regs
  <1>4. ErrorCode(in, w, r.count) \in 0..8
    BY CodeTypes
  <1> DEFINE q == Posedge(r, in, w)
  <1>5. q.state \in States
    BY <1>1 DEF Posedge
  <1>6. q.status \in {FREE, FAIL, BUSY, DONE}
    BY DEF Posedge, Regs
  <1>7. q.err \in 0..8
    BY <1>4 DEF Posedge, Regs
  <1>8. q.we \in BOOLEAN
    BY DEF Posedge, Regs
  <1>9. q.wdata \in Words
    BY <1>2 DEF Posedge, Regs
  <1>10. q.count \in 0..(CountMod - 1)
    BY <1>3 DEF Posedge, Regs
  <1>11. q = [state |-> q.state, status |-> q.status, err |-> q.err, we |-> q.we,
              wdata |-> q.wdata, count |-> q.count]
    BY DEF Posedge
  <1> QED BY <1>5, <1>6, <1>7, <1>8, <1>9, <1>10, <1>11 DEF Regs

-----------------------------------------------------------------------------
\* Every copy of a metadata word is well formed: the array, the read latch,
\* and the register that a read stores without having assigned it.
WordsOK ==
    /\ \A z \in Zones : WellFormed(bram[z])
    /\ WellFormed(latch)
    /\ WellFormed(rtl.wdata)

\* What the pins and registers hold at each point of a command.
AtReady ==
    /\ rtl.state = "IDLE" /\ rtl.status = FREE
    /\ ~rtl.we /\ ~io.trigger

LatchFresh == InArray(addr) => latch = bram[addr]

AtPoll ==
    /\ io.trigger
    /\ Accepts(sqe)
    /\ io.zone = ZoneId(sqe.lba)
    /\ rtl.status = IF rtl.state \in {"IDLE", "BRAM_READ"} THEN FREE ELSE BUSY
    /\ rtl.we <=> rtl.state = "UPDATE_BRAM"
    /\ rtl.state # "IDLE" => addr = io.zone
    /\ rtl.state \in {"VALIDATE", "EXECUTE", "ERROR"} => LatchFresh
    /\ rtl.state = "EXECUTE" => ~HasError(Driven, Rdata, rtl.count)
    /\ rtl.state = "ERROR" => HasError(Driven, Rdata, rtl.count)

AtDrain1 ==
    /\ rtl.state \in {"UPDATE_BRAM", "ERROR"}
    /\ ~rtl.we /\ ~io.trigger
    /\ addr = io.zone
    /\ cqe # 0 => /\ rtl.state = "ERROR"
                  /\ LatchFresh
                  /\ cqe = StatusCode(ErrorCode(io, Rdata, rtl.count))
                  /\ HasError(io, Rdata, rtl.count)

AtDrain2 ==
    /\ rtl.state = "IDLE"
    /\ ~rtl.we /\ ~io.trigger

Control ==
    /\ pc = "ready"  => AtReady
    /\ pc = "poll"   => AtPoll
    /\ pc = "drain1" => AtDrain1
    /\ pc = "drain2" => AtDrain2

IInv == TypeOK /\ WordsOK /\ CountBounded /\ Control

-----------------------------------------------------------------------------
\* An error becomes a status code other than success.
LEMMA StatusTypes ==
    ASSUME NEW in, NEW w, NEW c, HasError(in, w, c)
    PROVE  StatusCode(ErrorCode(in, w, c)) \in StatusCodes \ {0}
  BY CodeTypes DEF StatusCode, StatusCodes

\* The word on bram_rdata is a word, and well formed if every stored one is.
LEMMA RdataFacts ==
    ASSUME BridgeTypeOK
    PROVE  /\ Rdata \in Words
           /\ WordsOK => WellFormed(Rdata)
  <1>1. ZeroWord \in Words /\ WellFormed(ZeroWord)
    BY RtlAssumption DEF ZeroWord, Words, WellFormed, WptrMod, ByteMod
  <1> QED BY <1>1 DEF Rdata, WordsOK, BridgeTypeOK

\* A tick keeps the types.
LEMMA TickType ==
    ASSUME BridgeTypeOK, NEW in \in Pins, Tick(in)
    PROVE  /\ rtl' \in Regs
           /\ addr' \in Nat
           /\ latch' \in Words
           /\ bram' \in [Zones -> Words]
  <1>1. rtl' = Posedge(rtl, in, Rdata) /\ rtl' \in Regs
    BY RdataFacts, PosedgeType DEF Tick, BridgeTypeOK
  <1>2. InArray(addr) => addr \in Zones
    BY BridgeAssumption DEF InArray, Zones, BridgeTypeOK
  <1>3. latch' \in Words
    BY <1>2 DEF Tick, BridgeTypeOK
  <1>4. rtl'.wdata \in Words
    BY <1>1 DEF Regs
  <1>5. bram' \in [Zones -> Words]
    BY <1>1, <1>2, <1>4 DEF Tick, BridgeTypeOK
  <1>6. addr' \in Nat
    BY DEF Tick, BramAddr, Pins
  <1> QED BY <1>1, <1>3, <1>5, <1>6

\* A command the checker passed computes a well-formed word and keeps the
\* count within the limit.
LEMMA ExecuteFacts ==
    ASSUME NEW in \in Pins, NEW w \in Words, NEW d \in Words,
           NEW c \in 0..(CountMod - 1),
           WellFormed(w), WellFormed(d), c <= MaxOpen, ~HasError(in, w, c)
    PROVE  /\ WellFormed(NewWdata(in.cmd, w, d))
           /\ NewCount(in.cmd, w, c) <= MaxOpen
  <1> USE RtlAssumption
  <1>1. ErrorCode(in, w, c) = 0
    BY DEF HasError
  <1>2. CASE in.cmd = WRITE
    <2>1. ~w.full /\ w.wptr < ZoneSize
      BY <1>1, <1>2 DEF ErrorCode, WellFormed, Words, WRITE
    <2>2. (w.wptr + 1) % WptrMod = w.wptr + 1
      BY <2>1, ModSmall DEF Words, WptrMod
    <2>3. WellFormed(Written(w))
      BY <2>1, <2>2 DEF Written, WellFormed, Words
    <2>4. OpensZone(in.cmd, w) => c < MaxOpen
      BY <1>1, <1>2, <2>1 DEF ErrorCode, OpensZone, WRITE, READ, RESET, BAD
    <2>5. c + 1 < CountMod => (c + 1) % CountMod = c + 1
      BY ModSmall
    <2>6. NewCount(in.cmd, w, c) <= MaxOpen
      BY <2>4, <2>5 DEF NewCount
    <2> QED BY <1>2, <2>3, <2>6 DEF NewWdata
  <1>3. CASE in.cmd = RESET
    <2>1. w.erase < WearLimit
      BY <1>1, <1>3 DEF ErrorCode, Words, OpensZone, WRITE, READ, RESET, BAD
    <2>2. (w.erase + 1) % ByteMod = w.erase + 1
      BY <2>1, ModSmall DEF Words, ByteMod
    <2>3. WellFormed(Erased(w))
      BY <2>1, <2>2 DEF Erased, WellFormed, Words
    <2>4. NewCount(in.cmd, w, c) <= MaxOpen
      BY <1>3 DEF NewCount, OpensZone, WRITE, RESET
    <2> QED BY <1>3, <2>3, <2>4 DEF NewWdata, WRITE, RESET
  <1>4. CASE in.cmd \notin {WRITE, RESET}
    BY <1>4 DEF NewWdata, NewCount, OpensZone, GivesBack
  <1> QED BY <1>2, <1>3, <1>4

\* A tick that executes nothing the checker would refuse keeps every word well
\* formed and the count within the limit.
LEMMA TickWords ==
    ASSUME BridgeTypeOK, WordsOK, CountBounded, NEW in \in Pins, Tick(in),
           rtl.state = "EXECUTE" => ~HasError(in, Rdata, rtl.count)
    PROVE  WordsOK' /\ CountBounded'
  <1>1. Rdata \in Words /\ WellFormed(Rdata)
    BY RdataFacts
  <1>2. rtl \in Regs /\ rtl.wdata \in Words /\ rtl.count \in 0..(CountMod - 1)
    BY DEF BridgeTypeOK, Regs
  <1>3. /\ rtl'.wdata = IF rtl.state = "EXECUTE"
                        THEN NewWdata(in.cmd, Rdata, rtl.wdata) ELSE rtl.wdata
        /\ rtl'.count = IF rtl.state = "EXECUTE"
                        THEN NewCount(in.cmd, Rdata, rtl.count) ELSE rtl.count
    BY DEF Tick, Posedge
  <1>4. WellFormed(rtl'.wdata) /\ rtl'.count <= MaxOpen
    BY <1>1, <1>2, <1>3, ExecuteFacts DEF WordsOK, CountBounded
  <1>5. InArray(addr) => addr \in Zones
    BY BridgeAssumption DEF InArray, Zones, BridgeTypeOK
  <1>6. WellFormed(latch')
    BY <1>5 DEF Tick, WordsOK
  <1>7. \A z \in Zones : WellFormed(bram'[z])
    <2>1. \A z \in Zones : bram'[z] \in {bram[z], rtl'.wdata}
      BY <1>5 DEF Tick, BridgeTypeOK
    <2> QED BY <1>4, <2>1 DEF WordsOK
  <1>8. (WellFormed(rtl.wdata))' /\ (WellFormed(latch))'
    BY <1>4, <1>6 DEF WellFormed
  <1>9. (\A z \in Zones : WellFormed(bram[z]))'
    BY <1>7 DEF WellFormed
  <1> QED BY <1>4, <1>8, <1>9 DEF WordsOK, CountBounded

-----------------------------------------------------------------------------
\* The pins during a tick are pins.
LEMMA DrivenPins ==
    ASSUME TypeOK
    PROVE  /\ Driven \in Pins
           /\ Driven.trigger = io.trigger /\ Driven.zone = io.zone
           /\ Driven.cmd = io.cmd /\ Driven.page = io.page
  BY DEF TypeOK, BridgeTypeOK, Driven, Pins

\* The initial states satisfy the invariant.
LEMMA InitIInv == Init => IInv
  <1> SUFFICES ASSUME Init PROVE IInv
    OBVIOUS
  <1> USE RtlAssumption, BridgeAssumption
  <1>1. ZeroWord \in Words /\ WellFormed(ZeroWord)
    BY DEF ZeroWord, Words, WellFormed, WptrMod, ByteMod
  <1>2. ResetRegs \in Regs
    BY <1>1 DEF ResetRegs, Regs, States, FREE, FAIL, BUSY, DONE
  <1>3. TypeOK
    BY <1>1, <1>2 DEF Init, BridgeInit, TypeOK, BridgeTypeOK, Pins, StatusCodes
  <1>4. WordsOK
    BY <1>1 DEF Init, BridgeInit, WordsOK, ResetRegs
  <1>5. CountBounded
    BY DEF Init, BridgeInit, CountBounded, ResetRegs
  <1>6. Control
    BY DEF Init, BridgeInit, Control, AtReady, ResetRegs
  <1> QED BY <1>3, <1>4, <1>5, <1>6 DEF IInv

\* Steps that do not tick: words, registers and array stay as they are.
LEMMA QuietStep ==
    ASSUME IInv, UNCHANGED <<rtl, latch, bram>>
    PROVE  WordsOK' /\ CountBounded'
  BY DEF IInv, WordsOK, CountBounded, WellFormed

LEMMA SetTemperatureIInv == IInv /\ SetTemperature => IInv'
  <1> SUFFICES ASSUME IInv, SetTemperature PROVE IInv'
    OBVIOUS
  <1>1. TypeOK'
    BY DEF IInv, TypeOK, BridgeTypeOK, SetTemperature, bridgeVars
  <1>2. Control'
    BY DEF IInv, Control, AtReady, SetTemperature, bridgeVars
  <1> QED BY <1>1, <1>2, QuietStep DEF IInv, SetTemperature, bridgeVars

LEMMA ControllerInitIInv == IInv /\ ControllerInit => IInv'
  <1> SUFFICES ASSUME IInv, ControllerInit PROVE IInv'
    OBVIOUS
  <1>1. TypeOK'
    BY DEF IInv, TypeOK, BridgeTypeOK, ControllerInit, driverVars, Pins
  <1>2. Control'
    BY DEF IInv, TypeOK, BridgeTypeOK, Pins, Control, AtReady, ControllerInit, driverVars
  <1> QED BY <1>1, <1>2, QuietStep DEF IInv, ControllerInit

LEMMA RefuseIInv ==
    ASSUME NEW e \in Sqes, IInv, RefuseCommand(e)
    PROVE  IInv'
  <1>1. TypeOK'
    BY DEF IInv, TypeOK, BridgeTypeOK, RefuseCommand, bridgeVars, StatusCodes
  <1>2. Control'
    BY DEF IInv, Control, AtReady, RefuseCommand, bridgeVars
  <1> QED BY <1>1, <1>2, QuietStep DEF IInv, RefuseCommand, bridgeVars

\* The division and the remainder of an address are a zone and a page, and a
\* zone number that fits 32 bits arrives unchanged: one inside the array does.
LEMMA AddressParts ==
    ASSUME NEW n \in Nat
    PROVE  /\ n \div ZoneSize \in Nat /\ n % ZoneSize \in Nat /\ ZoneId(n) \in Nat
           /\ n \div ZoneSize < ZoneIds => ZoneId(n) = n \div ZoneSize
           /\ InArray(n \div ZoneSize) => ZoneId(n) = n \div ZoneSize
  <1>1. PICK q \in Nat : q = n \div ZoneSize
    BY RtlAssumption
  <1>2. n % ZoneSize \in Nat
    BY RtlAssumption
  <1>3. q % ZoneIds \in Nat /\ (q < ZoneIds => q % ZoneIds = q)
    BY <1>1, ModSmall, ZoneIdsAssumption, BridgeAssumption
  <1>4. q < NumZones => q < ZoneIds
    BY <1>1, ZoneIdsAssumption, BridgeAssumption
  <1> QED BY <1>1, <1>2, <1>3, <1>4 DEF ZoneId, InArray

LEMMA SubmitIInv ==
    ASSUME NEW e \in Sqes, IInv, SubmitCommand(e)
    PROVE  IInv'
  <1>1. e.lba \in Nat
    BY SqeAssumption
  <1>2. ZoneId(e.lba) \in Nat /\ e.lba % ZoneSize \in Nat
    BY <1>1, AddressParts
  <1>3. TypeOK'
    BY <1>2 DEF IInv, TypeOK, BridgeTypeOK, SubmitCommand, Pins, HardwareCmd
  <1>4. AtPoll'
    BY <1>2 DEF IInv, TypeOK, BridgeTypeOK, Control, AtReady, SubmitCommand, AtPoll,
                Pins, Accepts
  <1>5. Control'
    BY <1>4 DEF Control, SubmitCommand
  <1> QED BY <1>3, <1>5, QuietStep DEF IInv, SubmitCommand

\* What one tick of the polling loop does to the registers, by state.
LEMMA PollTick ==
    ASSUME IInv, pc = "poll", Tick(Driven)
    PROVE  /\ rtl'.state = NextState(rtl.state, TRUE, HasError(Driven, Rdata, rtl.count))
           /\ addr' = io.zone
           /\ rtl'.state # "IDLE"
           /\ rtl.state \in {"IDLE"} => rtl'.status = FREE /\ ~rtl'.we
           /\ rtl.state \in {"BRAM_READ", "BRAM_WAIT", "VALIDATE"}
                 => rtl'.status = BUSY /\ ~rtl'.we
           /\ rtl.state = "EXECUTE" => rtl'.status = BUSY /\ rtl'.we
           /\ rtl.state = "UPDATE_BRAM" => rtl'.status = DONE /\ ~rtl'.we
           /\ rtl.state = "ERROR" => /\ rtl'.status = FAIL /\ ~rtl'.we
                                     /\ rtl'.err = ErrorCode(Driven, Rdata, rtl.count)
           /\ rtl.state # "EXECUTE" => rtl'.count = rtl.count /\ bram' = bram
           /\ rtl.state \in {"BRAM_WAIT", "VALIDATE", "ERROR"} => LatchFresh'
  <1> USE DEF IInv, Control, AtPoll
  <1>1. Driven.trigger = TRUE /\ Driven.zone = io.zone /\ Driven \in Pins
    BY DrivenPins DEF TypeOK, BridgeTypeOK, Pins
  <1>2. rtl.state \in States /\ rtl.we \in BOOLEAN /\ rtl.status \in {FREE, FAIL, BUSY, DONE}
    BY DEF TypeOK, BridgeTypeOK, Regs
  <1>3. rtl'.state = NextState(rtl.state, TRUE, HasError(Driven, Rdata, rtl.count))
    BY <1>1 DEF Tick, Posedge
  <1>4. rtl'.state # "IDLE"
    BY <1>2, <1>3 DEF NextState, States
  <1>5. addr' = io.zone
    BY <1>1, <1>4 DEF Tick, BramAddr
  <1>6. /\ rtl.state = "IDLE" => rtl'.status = FREE /\ ~rtl'.we
        /\ rtl.state \in {"BRAM_READ", "BRAM_WAIT", "VALIDATE"}
              => rtl'.status = BUSY /\ ~rtl'.we
        /\ rtl.state = "EXECUTE" => rtl'.status = BUSY /\ rtl'.we
        /\ rtl.state = "UPDATE_BRAM" => rtl'.status = DONE /\ ~rtl'.we
        /\ rtl.state = "ERROR" => /\ rtl'.status = FAIL /\ ~rtl'.we
                                  /\ rtl'.err = ErrorCode(Driven, Rdata, rtl.count)
    BY DEF Tick, Posedge
  <1>7. rtl.state # "EXECUTE" => rtl'.count = rtl.count /\ bram' = bram
    <2>1. rtl.state # "EXECUTE" => ~rtl'.we
      BY <1>2, <1>6 DEF States
    <2> QED BY <2>1 DEF Tick, Posedge
  <1>8. rtl.state \in {"BRAM_WAIT", "VALIDATE", "ERROR"} => LatchFresh'
    BY <1>5, <1>7 DEF LatchFresh, Tick, InArray
  <1> QED BY <1>3, <1>4, <1>5, <1>6, <1>7, <1>8

\* In VALIDATE and ERROR a tick leaves the word on bram_rdata as it is.
LEMMA RdataStable ==
    ASSUME IInv, pc = "poll", Tick(Driven), rtl.state \in {"VALIDATE", "ERROR"}
    PROVE  Rdata' = Rdata
  <1>1. addr' = addr /\ LatchFresh
    BY PollTick DEF IInv, Control, AtPoll
  <1> QED BY <1>1 DEF Rdata, LatchFresh, Tick, InArray

LEMMA PollIInv == IInv /\ PollStatus => IInv'
  <1> SUFFICES ASSUME IInv, PollStatus PROVE IInv'
    OBVIOUS
  <1> USE DEF IInv
  <1>1. pc = "poll" /\ Tick(Driven) /\ UNCHANGED <<sqe, hot>>
    BY DEF PollStatus
  <1>2. AtPoll /\ Driven \in Pins
    BY <1>1, DrivenPins DEF Control
  <1>3. WordsOK' /\ CountBounded'
    BY <1>1, <1>2, TickWords DEF TypeOK, AtPoll
  <1>4. rtl' \in Regs /\ addr' \in Nat /\ latch' \in Words /\ bram' \in [Zones -> Words]
    BY <1>1, <1>2, TickType DEF TypeOK
  <1>5. rtl.state \in States
    BY DEF TypeOK, BridgeTypeOK, Regs
  <1>6. CASE rtl'.status \in {FREE, BUSY}
    <2>1. io' = Driven /\ pc' = pc /\ cqe' = cqe
      BY <1>6 DEF PollStatus, FREE, BUSY, DONE, FAIL
    <2>2. TypeOK'
      BY <1>1, <1>2, <1>4, <2>1 DEF TypeOK, BridgeTypeOK
    <2>3. rtl.state \in {"IDLE", "BRAM_READ", "BRAM_WAIT", "VALIDATE", "EXECUTE"}
      BY <1>1, <1>5, <1>6, PollTick DEF States, FREE, BUSY, DONE, FAIL
    <2>4. Driven' = Driven
      BY <1>1, <2>1 DEF Driven, TypeOK, BridgeTypeOK, Pins
    <2>5. /\ io'.trigger /\ Accepts(sqe)' /\ io'.zone = io.zone
          /\ io'.zone = ZoneId(sqe'.lba)
      BY <1>1, <1>2, <2>1, DrivenPins DEF AtPoll, Accepts
    <2>6. CASE rtl.state = "VALIDATE"
      <3>1. rtl'.state = IF HasError(Driven, Rdata, rtl.count) THEN "ERROR" ELSE "EXECUTE"
        BY <1>1, <2>6, PollTick DEF NextState
      <3>2. HasError(Driven, Rdata, rtl.count)' <=> HasError(Driven, Rdata, rtl.count)
        BY <1>1, <2>4, <2>6, PollTick, RdataStable
      <3>3. rtl'.status = BUSY /\ ~rtl'.we /\ addr' = io'.zone /\ LatchFresh'
        BY <1>1, <2>5, <2>6, PollTick
      <3>4. AtPoll'
        BY <2>5, <3>1, <3>2, <3>3 DEF AtPoll
      <3> QED BY <1>1, <1>3, <2>1, <2>2, <3>4 DEF Control
    <2>7. CASE rtl.state \in {"IDLE", "BRAM_READ", "BRAM_WAIT", "EXECUTE"}
      <3>1. /\ rtl.state = "IDLE" => rtl'.state = "BRAM_READ"
            /\ rtl.state = "BRAM_READ" => rtl'.state = "BRAM_WAIT"
            /\ rtl.state = "BRAM_WAIT" => rtl'.state = "VALIDATE"
            /\ rtl.state = "EXECUTE" => rtl'.state = "UPDATE_BRAM"
        BY <1>1, PollTick DEF NextState
      <3>2. rtl'.status = IF rtl'.state \in {"IDLE", "BRAM_READ"} THEN FREE ELSE BUSY
        BY <1>1, <2>7, <3>1, PollTick
      <3>3. rtl'.we <=> rtl'.state = "UPDATE_BRAM"
        BY <1>1, <2>7, <3>1, PollTick
      <3>4. addr' = io'.zone /\ (rtl'.state = "VALIDATE" => LatchFresh')
        BY <1>1, <2>5, <2>7, <3>1, PollTick
      <3>5. rtl'.state \notin {"EXECUTE", "ERROR"}
        BY <2>7, <3>1
      <3>6. AtPoll'
        BY <2>5, <3>2, <3>3, <3>4, <3>5 DEF AtPoll
      <3> QED BY <1>1, <1>3, <2>1, <2>2, <3>6 DEF Control
    <2> QED BY <2>3, <2>6, <2>7
  <1>7. CASE rtl'.status \in {DONE, FAIL}
    <2>1. /\ io' = [Driven EXCEPT !.trigger = FALSE] /\ pc' = "drain1"
          /\ cqe' = IF rtl'.status = DONE THEN 0 ELSE StatusCode(rtl'.err)
      BY <1>7 DEF PollStatus, FREE, BUSY, DONE, FAIL
    <2>2. rtl.state \in {"UPDATE_BRAM", "ERROR"}
      BY <1>1, <1>5, <1>7, PollTick DEF States, FREE, BUSY, DONE, FAIL
    <2>3. io' \in Pins /\ ~io'.trigger /\ io'.zone = io.zone
      BY <1>2, <2>1, DrivenPins DEF Pins
    <2>4. CASE rtl.state = "UPDATE_BRAM"
      <3>1. cqe' = 0 /\ rtl'.state = "UPDATE_BRAM" /\ ~rtl'.we /\ addr' = io'.zone
        BY <1>1, <2>1, <2>3, <2>4, PollTick DEF NextState
      <3>2. AtDrain1'
        BY <2>3, <3>1 DEF AtDrain1
      <3>3. TypeOK'
        BY <1>1, <1>4, <2>1, <2>3, <3>1 DEF TypeOK, BridgeTypeOK, StatusCodes
      <3> QED BY <1>3, <2>1, <3>2, <3>3 DEF Control
    <2>5. CASE rtl.state = "ERROR"
      <3>1. /\ rtl'.state = "ERROR" /\ rtl'.status = FAIL /\ ~rtl'.we /\ addr' = io'.zone
            /\ LatchFresh' /\ rtl'.count = rtl.count
            /\ rtl'.err = ErrorCode(Driven, Rdata, rtl.count)
        BY <1>1, <2>3, <2>5, PollTick DEF NextState
      <3>2. HasError(Driven, Rdata, rtl.count)
        BY <1>2, <2>5 DEF AtPoll
      <3>3. cqe' = StatusCode(ErrorCode(Driven, Rdata, rtl.count)) /\ cqe' \in StatusCodes
        BY <2>1, <3>1, <3>2, StatusTypes DEF FAIL, DONE
      <3>4. Rdata' = Rdata
        BY <1>1, <2>5, RdataStable
      <3>5. /\ io'.thermal = Driven.thermal /\ io'.cmd = Driven.cmd
            /\ io'.page = Driven.page /\ io'.bound = Driven.bound
        BY <1>2, <2>1 DEF Pins
      <3>6. ErrorCode(io, Rdata, rtl.count)' = ErrorCode(Driven, Rdata, rtl.count)
        BY <3>1, <3>4, <3>5 DEF ErrorCode
      <3>7. AtDrain1'
        BY <2>3, <3>1, <3>2, <3>3, <3>6 DEF AtDrain1, HasError
      <3>8. TypeOK'
        BY <1>1, <1>4, <2>1, <2>3, <3>3 DEF TypeOK, BridgeTypeOK
      <3> QED BY <1>3, <2>1, <3>7, <3>8 DEF Control
    <2> QED BY <2>2, <2>4, <2>5
  <1> QED BY <1>4, <1>6, <1>7 DEF Regs

LEMMA DrainIInv == IInv /\ Drain => IInv'
  <1> SUFFICES ASSUME IInv, Drain PROVE IInv'
    OBVIOUS
  <1> USE DEF IInv
  <1>1. Tick(Driven) /\ io' = Driven /\ pc \in {"drain1", "drain2"}
        /\ UNCHANGED <<sqe, cqe, hot>>
    BY DEF Drain
  <1>2. Driven \in Pins /\ ~Driven.trigger /\ ~rtl.we
        /\ rtl.state \in {"UPDATE_BRAM", "ERROR", "IDLE"}
    BY <1>1, DrivenPins DEF Control, AtDrain1, AtDrain2
  <1>3. WordsOK' /\ CountBounded'
    BY <1>1, <1>2, TickWords DEF TypeOK
  <1>4. rtl' \in Regs /\ addr' \in Nat /\ latch' \in Words /\ bram' \in [Zones -> Words]
    BY <1>1, <1>2, TickType DEF TypeOK
  <1>5. TypeOK'
    BY <1>1, <1>2, <1>4 DEF TypeOK, BridgeTypeOK, Drain
  <1>6. rtl'.state = "IDLE" /\ ~rtl'.we
    BY <1>1, <1>2 DEF Tick, Posedge, NextState
  <1>7. pc = "drain2" => rtl'.status = FREE
    BY <1>1 DEF Tick, Posedge, Control, AtDrain2
  <1>8. Control'
    BY <1>1, <1>2, <1>6, <1>7 DEF Control, AtReady, AtDrain2, Drain
  <1> QED BY <1>3, <1>5, <1>8

\* The invariant is inductive.
LEMMA NextIInv == IInv /\ [Next]_vars => IInv'
  <1> SUFFICES ASSUME IInv, [Next]_vars PROVE IInv'
    OBVIOUS
  <1>1. CASE SetTemperature BY <1>1, SetTemperatureIInv
  <1>2. CASE ControllerInit BY <1>2, ControllerInitIInv
  <1>3. CASE \E e \in Sqes : RefuseCommand(e) \/ SubmitCommand(e)
    BY <1>3, RefuseIInv, SubmitIInv
  <1>4. CASE PollStatus BY <1>4, PollIInv
  <1>5. CASE Drain BY <1>5, DrainIInv
  <1>6. CASE UNCHANGED vars
    BY <1>6 DEF vars, bridgeVars, driverVars, IInv, TypeOK, BridgeTypeOK, WordsOK,
                WellFormed, CountBounded, Control, AtReady, AtPoll, AtDrain1, AtDrain2,
                LatchFresh, InArray, Rdata, Driven, Accepts
  <1> QED BY <1>1, <1>2, <1>3, <1>4, <1>5, <1>6 DEF Next

\* Every reachable state of driver, bridge and RTL satisfies the invariant.
THEOREM Invariant == Spec => []IInv
  BY InitIInv, NextIInv, PTL DEF Spec

-----------------------------------------------------------------------------
\* Pins, registers, metadata and the driver's variables keep their types.
THEOREM TypeCorrect == Spec => []TypeOK
  <1>1. IInv => TypeOK
    BY DEF IInv
  <1> QED BY <1>1, Invariant, PTL

\* No sequence of commands, reads included, leaves a metadata word that no
\* zone can have.
THEOREM MetadataCorrect == Spec => []MetadataOK
  <1>1. IInv => MetadataOK
    BY DEF IInv, WordsOK, MetadataOK
  <1> QED BY <1>1, Invariant, PTL

\* The open-zone counter never passes the limit.
THEOREM CountCorrect == Spec => []CountBounded
  <1>1. IInv => CountBounded
    BY DEF IInv
  <1> QED BY <1>1, Invariant, PTL

\* Between commands the state machine is idle with its trigger low.
THEOREM QuietCorrect == Spec => []QuietBetweenCommands
  <1>1. IInv => QuietBetweenCommands
    BY DEF IInv, Control, AtReady, QuietBetweenCommands
  <1> QED BY <1>1, Invariant, PTL

\* The rules judge the target zone's current word.
THEOREM FreshCorrect == Spec => []FreshMetadata
  <1>1. IInv => FreshMetadata
    <2> SUFFICES ASSUME IInv, rtl.state \in {"VALIDATE", "EXECUTE"}
                 PROVE  Rdata = Word(io.zone)
      BY DEF FreshMetadata
    <2>1. pc = "poll"
      BY DEF IInv, TypeOK, Control, AtReady, AtDrain1, AtDrain2
    <2> QED BY <2>1 DEF IInv, Control, AtPoll, LatchFresh, Rdata, Word
  <1> QED BY <1>1, Invariant, PTL

\* An error handed to the host is the error of the metadata as it is.
THEOREM FailureCorrect == Spec => []FailureIsGenuine
  <1>1. IInv => FailureIsGenuine
    <2> SUFFICES ASSUME IInv, pc = "drain1", cqe # 0
                 PROVE  /\ rtl.state = "ERROR"
                        /\ cqe = StatusCode(ErrorCode(io, Word(io.zone), rtl.count))
                        /\ HasError(io, Word(io.zone), rtl.count)
      BY DEF FailureIsGenuine
    <2>1. AtDrain1
      BY DEF IInv, Control
    <2>2. Rdata = Word(io.zone)
      BY <2>1 DEF AtDrain1, LatchFresh, Rdata, Word
    <2> QED BY <2>1, <2>2 DEF AtDrain1
  <1> QED BY <1>1, Invariant, PTL

\* Metadata changes only when a polled command executes, and only the word of
\* the zone its 32-bit number names: the LBA's own, when the number fits.
THEOREM TargetCorrect == Spec => OnlyTargetZone
  <1> DEFINE Target ==
        \A z \in Zones : bram'[z] # bram[z] =>
            /\ pc = "poll" /\ rtl.state = "EXECUTE"
            /\ z = ZoneId(sqe.lba)
            /\ sqe.lba \div ZoneSize < ZoneIds => z = sqe.lba \div ZoneSize
  <1>1. ASSUME IInv, [Next]_vars PROVE [Target]_vars
    <2>1. CASE PollStatus
      <3>1. pc = "poll" /\ Tick(Driven) /\ AtPoll
        BY <1>1, <2>1 DEF PollStatus, IInv, Control
      <3>2. rtl.state # "EXECUTE" => bram' = bram
        BY <1>1, <3>1, PollTick
      <3>3. rtl.state = "EXECUTE" =>
              \A z \in Zones : bram'[z] # bram[z] => z = addr
        BY <1>1, <3>1 DEF Tick, IInv, TypeOK, BridgeTypeOK
      <3>4. sqe.lba \in Nat
        BY <1>1, SqeAssumption DEF IInv, TypeOK
      <3>5. sqe.lba \div ZoneSize < ZoneIds => ZoneId(sqe.lba) = sqe.lba \div ZoneSize
        BY <3>4, AddressParts
      <3> QED BY <3>1, <3>2, <3>3, <3>5 DEF AtPoll
    <2>2. CASE Drain
      <3>1. ~rtl.we /\ Tick(Driven) /\ rtl.state \in {"UPDATE_BRAM", "ERROR", "IDLE"}
        BY <1>1, <2>2 DEF Drain, IInv, Control, AtDrain1, AtDrain2
      <3>2. ~rtl'.we
        BY <3>1 DEF Tick, Posedge
      <3> QED BY <3>1, <3>2 DEF Tick
    <2>3. CASE SetTemperature \/ ControllerInit
               \/ \E e \in Sqes : RefuseCommand(e) \/ SubmitCommand(e)
      BY <2>3 DEF SetTemperature, ControllerInit, RefuseCommand, SubmitCommand, bridgeVars
    <2> QED BY <1>1, <2>1, <2>2, <2>3 DEF Next
  <1> QED BY <1>1, Invariant, PTL DEF Spec, OnlyTargetZone

-----------------------------------------------------------------------------
\* While a command is polled the pins are its own.
Serving ==
    pc = "poll" => /\ io.cmd = HardwareCmd(sqe) /\ io.cmd \in {WRITE, RESET}
                   /\ io.page = sqe.lba % ZoneSize
                   /\ io.zone = sqe.lba \div ZoneSize
                   /\ io.zone \in Zones

CInv == IInv /\ Serving /\ CountIsOpenZones

-----------------------------------------------------------------------------
LEMMA OpenFinite == IsFiniteSet(OpenZones)
  <1>1. IsFiniteSet(Zones)
    BY BridgeAssumption, FS_Interval DEF Zones
  <1> QED BY <1>1, FS_Subset DEF OpenZones

\* What a write or a reset that the checker passed does to a word.
LEMMA ExecuteWord ==
    ASSUME NEW in \in Pins, NEW w \in Words, NEW d \in Words, NEW c \in 0..(CountMod - 1),
           WellFormed(w), ~HasError(in, w, c), in.cmd \in {WRITE, RESET}
    PROVE  /\ in.thermal = FALSE
           /\ in.cmd = WRITE =>
                /\ w.wptr < ZoneSize /\ ~w.full /\ in.page = w.wptr
                /\ NewWdata(in.cmd, w, d).wptr = w.wptr + 1
                /\ NewWdata(in.cmd, w, d).full <=> w.wptr + 1 = ZoneSize
                /\ NewWdata(in.cmd, w, d).erase = w.erase
                /\ w.wptr = 0 => c < MaxOpen
                /\ NewCount(in.cmd, w, c) =
                     IF w.wptr = 0 THEN c + 1
                     ELSE IF w.wptr = ZoneSize - 1 /\ c > 0 THEN c - 1 ELSE c
           /\ in.cmd = RESET =>
                /\ w.erase < WearLimit
                /\ NewWdata(in.cmd, w, d).wptr = 0 /\ ~NewWdata(in.cmd, w, d).full
                /\ NewWdata(in.cmd, w, d).erase = w.erase + 1
                /\ NewCount(in.cmd, w, c) =
                     IF w.wptr > 0 /\ ~w.full /\ c > 0 THEN c - 1 ELSE c
  <1> USE RtlAssumption
  <1>1. ErrorCode(in, w, c) = 0 /\ in.thermal \in BOOLEAN
    BY DEF HasError, Pins
  <1>2. in.thermal = FALSE
    BY <1>1 DEF ErrorCode
  <1>3. w.wptr \in Nat /\ w.erase \in Nat /\ w.full \in BOOLEAN
    BY DEF Words
  <1>4. CASE in.cmd = WRITE
    <2>1. ~w.full /\ w.wptr < ZoneSize /\ in.page = w.wptr
      BY <1>1, <1>3, <1>4 DEF ErrorCode, WellFormed, WRITE, BAD, Words
    <2>2. w.wptr = 0 => c < MaxOpen
      BY <1>1, <1>4, <2>1 DEF ErrorCode, OpensZone, WRITE, READ, RESET, BAD
    <2>3. (w.wptr + 1) % WptrMod = w.wptr + 1
      BY <1>3, <2>1, ModSmall DEF WptrMod
    <2>4. c + 1 < CountMod => (c + 1) % CountMod = c + 1
      BY ModSmall
    <2>5. NewWdata(in.cmd, w, d) = Written(w)
      BY <1>4 DEF NewWdata
    <2>6. CASE w.wptr = ZoneSize - 1
      <3>1. Written(w).wptr = ZoneSize /\ Written(w).full /\ Written(w).erase = w.erase
        BY <2>6 DEF Written
      <3>2. NewCount(in.cmd, w, c) = IF c > 0 THEN c - 1 ELSE c
        BY <1>4, <2>6 DEF NewCount, GivesBack, OpensZone, WRITE, RESET
      <3>3. w.wptr + 1 = ZoneSize /\ w.wptr # 0
        BY <2>6
      <3> QED BY <1>2, <1>4, <2>1, <2>2, <2>5, <2>6, <3>1, <3>2, <3>3 DEF WRITE, RESET
    <2>7. CASE w.wptr # ZoneSize - 1
      <3>1. Written(w).wptr = w.wptr + 1 /\ ~Written(w).full /\ Written(w).erase = w.erase
        BY <2>3, <2>7 DEF Written
      <3>2. NewCount(in.cmd, w, c) = IF w.wptr = 0 THEN c + 1 ELSE c
        BY <1>4, <2>1, <2>2, <2>4, <2>7 DEF NewCount, GivesBack, OpensZone, WRITE, RESET
      <3>4. w.wptr + 1 # ZoneSize
        BY <1>3, <2>7
      <3> QED BY <1>2, <1>4, <2>1, <2>2, <2>5, <2>7, <3>1, <3>2, <3>4 DEF WRITE, RESET
    <2> QED BY <2>6, <2>7
  <1>5. CASE in.cmd = RESET
    <2>1. w.erase < WearLimit
      BY <1>1, <1>3, <1>5 DEF ErrorCode, OpensZone, WRITE, READ, RESET, BAD
    <2>2. (w.erase + 1) % ByteMod = w.erase + 1
      BY <1>3, <2>1, ModSmall DEF ByteMod
    <2>3. /\ NewWdata(in.cmd, w, d).wptr = 0 /\ ~NewWdata(in.cmd, w, d).full
          /\ NewWdata(in.cmd, w, d).erase = w.erase + 1
      BY <1>5, <2>2 DEF NewWdata, Erased, WRITE, RESET
    <2>4. NewCount(in.cmd, w, c) = IF w.wptr > 0 /\ ~w.full /\ c > 0 THEN c - 1 ELSE c
      BY <1>5 DEF NewCount, GivesBack, OpensZone, WRITE, RESET
    <2> QED BY <1>2, <1>5, <2>1, <2>3, <2>4 DEF WRITE, RESET
  <1> QED BY <1>4, <1>5

LEMMA WriteWord ==
    ASSUME NEW in \in Pins, NEW w \in Words, NEW d \in Words, NEW c \in 0..(CountMod - 1),
           WellFormed(w), ~HasError(in, w, c), in.cmd = WRITE
    PROVE  /\ in.thermal = FALSE
           /\ w.wptr < ZoneSize /\ ~w.full /\ in.page = w.wptr
           /\ NewWdata(in.cmd, w, d).wptr = w.wptr + 1
           /\ NewWdata(in.cmd, w, d).full <=> w.wptr + 1 = ZoneSize
           /\ NewWdata(in.cmd, w, d).erase = w.erase
           /\ w.wptr = 0 => c < MaxOpen
           /\ NewCount(in.cmd, w, c) =
                IF w.wptr = 0 THEN c + 1
                ELSE IF w.wptr = ZoneSize - 1 /\ c > 0 THEN c - 1 ELSE c
  BY ExecuteWord, Zenon

LEMMA ResetWord ==
    ASSUME NEW in \in Pins, NEW w \in Words, NEW d \in Words, NEW c \in 0..(CountMod - 1),
           WellFormed(w), ~HasError(in, w, c), in.cmd = RESET
    PROVE  /\ in.thermal = FALSE
           /\ w.erase < WearLimit
           /\ NewWdata(in.cmd, w, d).wptr = 0 /\ ~NewWdata(in.cmd, w, d).full
           /\ NewWdata(in.cmd, w, d).erase = w.erase + 1
           /\ NewCount(in.cmd, w, c) =
                IF w.wptr > 0 /\ ~w.full /\ c > 0 THEN c - 1 ELSE c
  BY ExecuteWord, Zenon

\* While a command is polled the word on bram_rdata is its zone's, from VALIDATE on.
LEMMA PolledWord ==
    ASSUME CInv, pc = "poll", rtl.state \in {"VALIDATE", "EXECUTE", "ERROR"}
    PROVE  addr = io.zone /\ Rdata = bram[io.zone]
  <1>1. io.zone \in Zones /\ addr = io.zone /\ LatchFresh
    BY DEF CInv, Serving, IInv, Control, AtPoll
  <1>2. InArray(addr)
    BY <1>1, BridgeAssumption DEF Zones, InArray
  <1> QED BY <1>1, <1>2 DEF LatchFresh, Rdata

\* The tick that leaves EXECUTE.
LEMMA ExecuteTick ==
    ASSUME CInv, pc = "poll", rtl.state = "EXECUTE", Tick(Driven)
    PROVE  LET z == io.zone
           IN /\ z \in Zones /\ bram[z] \in Words /\ WellFormed(bram[z])
              /\ ~HasError(Driven, bram[z], rtl.count)
              /\ rtl'.state = "UPDATE_BRAM"
              /\ rtl'.count = NewCount(io.cmd, bram[z], rtl.count)
              /\ rtl'.wdata = NewWdata(io.cmd, bram[z], rtl.wdata)
              /\ bram' = [bram EXCEPT ![z] = rtl'.wdata]
  <1>1. IInv /\ AtPoll /\ io.zone \in Zones
    BY DEF CInv, IInv, Control, Serving
  <1>2. addr = io.zone /\ Rdata = bram[io.zone]
    BY PolledWord
  <1>3. bram[io.zone] \in Words /\ WellFormed(bram[io.zone])
    BY <1>1 DEF IInv, TypeOK, BridgeTypeOK, WordsOK
  <1>4. Driven.cmd = io.cmd
    BY <1>1, DrivenPins DEF IInv
  <1>5. /\ rtl'.count = NewCount(io.cmd, bram[io.zone], rtl.count)
        /\ rtl'.wdata = NewWdata(io.cmd, bram[io.zone], rtl.wdata)
        /\ rtl'.we /\ rtl'.state = "UPDATE_BRAM"
    BY <1>2, <1>4 DEF Tick, Posedge, NextState
  <1>6. InArray(addr)
    BY <1>1, <1>2, BridgeAssumption DEF Zones, InArray
  <1>7. bram' = [bram EXCEPT ![io.zone] = rtl'.wdata]
    BY <1>2, <1>5, <1>6 DEF Tick
  <1>8. ~HasError(Driven, bram[io.zone], rtl.count)
    BY <1>1, <1>2 DEF AtPoll
  <1> QED BY <1>1, <1>3, <1>5, <1>7, <1>8

\* The tick that leaves EXECUTE counts the zone it opens or closes.
LEMMA ExecuteCounts ==
    ASSUME CInv, pc = "poll", rtl.state = "EXECUTE", Tick(Driven)
    PROVE  CountIsOpenZones'
  <1> DEFINE z == io.zone
             w == bram[io.zone]
             v == NewWdata(io.cmd, w, rtl.wdata)
             c == rtl.count
  <1>1. /\ z \in Zones /\ w \in Words /\ WellFormed(w) /\ ~HasError(Driven, w, c)
        /\ rtl'.count = NewCount(io.cmd, w, c) /\ bram' = [bram EXCEPT ![z] = v]
    BY ExecuteTick
  <1>2. /\ Driven \in Pins /\ Driven.cmd = io.cmd /\ io.cmd \in {WRITE, RESET}
        /\ rtl.wdata \in Words /\ c \in 0..(CountMod - 1) /\ bram \in [Zones -> Words]
    BY DrivenPins DEF CInv, Serving, IInv, TypeOK, BridgeTypeOK, Regs
  <1>3. IsFiniteSet(OpenZones) /\ c = Cardinality(OpenZones)
    BY OpenFinite DEF CInv, CountIsOpenZones
  <1>4. w.wptr \in Nat /\ w.full \in BOOLEAN /\ (w.full <=> w.wptr = ZoneSize)
    BY <1>1 DEF Words, WellFormed
  <1>5. z \in OpenZones <=> w.wptr > 0 /\ ~w.full
    BY <1>1 DEF OpenZones
  <1>6. /\ v.wptr > 0 /\ ~v.full => OpenZones' = OpenZones \cup {z}
        /\ ~(v.wptr > 0 /\ ~v.full) => OpenZones' = OpenZones \ {z}
    <2>1. \A y \in Zones : bram'[y] = IF y = z THEN v ELSE bram[y]
      BY <1>1, <1>2
    <2> HIDE DEF z, v
    <2> QED BY <1>1, <2>1 DEF OpenZones
  <1>7. /\ z \notin OpenZones => Cardinality(OpenZones \cup {z}) = c + 1
        /\ z \in OpenZones => /\ OpenZones \cup {z} = OpenZones
                              /\ Cardinality(OpenZones \ {z}) = c - 1 /\ c > 0
        /\ z \notin OpenZones => OpenZones \ {z} = OpenZones
    <2>1. z \notin OpenZones => Cardinality(OpenZones \cup {z}) = c + 1
      BY <1>3, FS_AddElement
    <2>2. z \in OpenZones => Cardinality(OpenZones \ {z}) = c - 1
      BY <1>3, FS_RemoveElement
    <2>3. z \in OpenZones => c > 0
      BY <1>2, <1>3, FS_EmptySet
    <2> QED BY <2>1, <2>2, <2>3
  <1>10. PICK in \in Pins : in = Driven /\ in.cmd = io.cmd
    BY <1>2
  <1>11. v = NewWdata(in.cmd, w, rtl.wdata) /\ rtl'.count = NewCount(in.cmd, w, c)
         /\ ~HasError(in, w, c)
    BY <1>1, <1>10
  <1> HIDE DEF z, w, v, c
  <1>8. CASE io.cmd = WRITE
    <2>1. /\ w.wptr < ZoneSize /\ ~w.full
          /\ v.wptr = w.wptr + 1 /\ (v.full <=> w.wptr + 1 = ZoneSize)
          /\ rtl'.count = IF w.wptr = 0 THEN c + 1
                          ELSE IF w.wptr = ZoneSize - 1 /\ c > 0 THEN c - 1 ELSE c
      <3>1. in.cmd = WRITE /\ w \in Words /\ c \in 0..(CountMod - 1) /\ WellFormed(w)
            /\ ~HasError(in, w, c) /\ rtl.wdata \in Words
        BY <1>1, <1>2, <1>8, <1>10, <1>11
      <3>2. /\ w.wptr < ZoneSize /\ ~w.full
            /\ NewWdata(in.cmd, w, rtl.wdata).wptr = w.wptr + 1
            /\ NewWdata(in.cmd, w, rtl.wdata).full <=> w.wptr + 1 = ZoneSize
            /\ NewCount(in.cmd, w, c) =
                 IF w.wptr = 0 THEN c + 1
                 ELSE IF w.wptr = ZoneSize - 1 /\ c > 0 THEN c - 1 ELSE c
        BY <3>1, WriteWord, Zenon
      <3> QED BY <1>11, <3>2
    <2>2. CASE w.wptr = 0
      <3>1. z \notin OpenZones /\ v.wptr > 0 /\ ~v.full
        BY <1>5, <2>1, <2>2, RtlAssumption
      <3> QED BY <1>6, <1>7, <2>1, <2>2, <3>1 DEF CountIsOpenZones
    <2>3. CASE w.wptr > 0 /\ w.wptr # ZoneSize - 1
      <3>1. z \in OpenZones /\ v.wptr > 0 /\ ~v.full /\ rtl'.count = c
        BY <1>4, <1>5, <2>1, <2>3, RtlAssumption
      <3> QED BY <1>3, <1>6, <1>7, <3>1 DEF CountIsOpenZones
    <2>4. CASE w.wptr > 0 /\ w.wptr = ZoneSize - 1
      <3>1. z \in OpenZones /\ ~(v.wptr > 0 /\ ~v.full)
        BY <1>4, <1>5, <2>1, <2>4, RtlAssumption
      <3>2. rtl'.count = c - 1
        BY <1>7, <2>1, <2>4, <3>1
      <3> QED BY <1>6, <1>7, <3>1, <3>2 DEF CountIsOpenZones
    <2> QED BY <1>4, <2>2, <2>3, <2>4
  <1>9. CASE io.cmd = RESET
    <2>1. /\ v.wptr = 0 /\ rtl'.count = IF w.wptr > 0 /\ ~w.full /\ c > 0 THEN c - 1 ELSE c
      BY <1>1, <1>2, <1>9, <1>10, <1>11, ResetWord, Zenon
    <2>2. ~(v.wptr > 0 /\ ~v.full)
      BY <2>1
    <2>3. CASE z \in OpenZones
      BY <1>5, <1>6, <1>7, <2>1, <2>2, <2>3 DEF CountIsOpenZones
    <2>4. CASE z \notin OpenZones
      BY <1>3, <1>5, <1>6, <1>7, <2>1, <2>2, <2>4 DEF CountIsOpenZones
    <2> QED BY <2>3, <2>4
  <1> QED BY <1>2, <1>8, <1>9

LEMMA InitCInv == Init => CInv
  <1> SUFFICES ASSUME Init PROVE CInv
    OBVIOUS
  <1>1. IInv
    BY InitIInv
  <1>2. OpenZones = {} /\ rtl.count = 0
    BY DEF Init, BridgeInit, OpenZones, ZeroWord, ResetRegs
  <1>3. CountIsOpenZones
    BY <1>2, FS_EmptySet DEF CountIsOpenZones
  <1> QED BY <1>1, <1>3 DEF CInv, Serving, Init

LEMMA NextCInv ==
    ASSUME AppendOnly, CInv, [Next]_vars
    PROVE  CInv'
  <1>1. IInv /\ IInv'
    BY NextIInv DEF CInv
  <1>2. CASE \/ SetTemperature \/ ControllerInit \/ UNCHANGED vars
             \/ \E e \in Sqes : RefuseCommand(e)
    <2>1. UNCHANGED <<rtl, bram, pc>> /\ (pc = "poll" => UNCHANGED <<io, sqe>>)
      BY <1>2 DEF SetTemperature, ControllerInit, RefuseCommand, vars, bridgeVars, driverVars
    <2> QED BY <1>1, <2>1 DEF CInv, Serving, CountIsOpenZones, OpenZones, HardwareCmd
  <1>3. ASSUME NEW e \in Sqes, SubmitCommand(e) PROVE CInv'
    <2>1. e.lba \in Nat /\ e.lba \div ZoneSize \in Zones /\ e.opcode # "READ"
      <3>1. e.lba \in Nat /\ e.opcode # "READ" /\ e.lba \div ZoneSize < NumZones
        BY SqeAssumption DEF AppendOnly, InArray
      <3>2. e.lba \div ZoneSize \in Nat
        BY <3>1, AddressParts
      <3> QED BY <3>1, <3>2, BridgeAssumption DEF Zones
    <2>5. ZoneId(e.lba) = e.lba \div ZoneSize
      BY <2>1, AddressParts, BridgeAssumption DEF InArray, Zones
    <2>2. /\ io'.cmd = HardwareCmd(e) /\ io'.zone = e.lba \div ZoneSize
          /\ io'.page = e.lba % ZoneSize /\ sqe' = e /\ UNCHANGED <<rtl, bram>>
      BY <1>1, <1>3, <2>5 DEF SubmitCommand, IInv, TypeOK, BridgeTypeOK, Pins
    <2>3. HardwareCmd(e) \in {WRITE, RESET}
      BY <2>1 DEF HardwareCmd
    <2>4. Serving'
      BY <2>1, <2>2, <2>3 DEF Serving, HardwareCmd
    <2> QED BY <1>1, <2>2, <2>4 DEF CInv, CountIsOpenZones, OpenZones
  <1>4. CASE PollStatus
    <2>1. pc = "poll" /\ Tick(Driven) /\ UNCHANGED sqe
      BY <1>4 DEF PollStatus
    <2>2. pc' = "poll" => io' = Driven
      BY <1>4 DEF PollStatus
    <2>3. Serving'
      BY <1>1, <2>1, <2>2, DrivenPins DEF Serving, HardwareCmd, CInv, IInv
    <2>4. CASE rtl.state = "EXECUTE"
      BY <1>1, <2>1, <2>3, <2>4, ExecuteCounts DEF CInv
    <2>5. CASE rtl.state # "EXECUTE"
      <3>1. rtl'.count = rtl.count /\ bram' = bram
        BY <1>1, <2>1, <2>5, PollTick
      <3> QED BY <1>1, <2>3, <3>1 DEF CInv, CountIsOpenZones, OpenZones
    <2> QED BY <2>4, <2>5
  <1>5. CASE Drain
    <2>1. ~rtl.we /\ Tick(Driven) /\ rtl.state \in {"UPDATE_BRAM", "ERROR", "IDLE"}
      BY <1>1, <1>5 DEF Drain, IInv, Control, AtDrain1, AtDrain2
    <2>2. bram' = bram /\ rtl'.count = rtl.count /\ pc' # "poll"
      BY <1>5, <2>1 DEF Tick, Posedge, Drain
    <2> QED BY <1>1, <2>2 DEF CInv, Serving, CountIsOpenZones, OpenZones
  <1> QED BY <1>2, <1>3, <1>4, <1>5 DEF Next

-----------------------------------------------------------------------------
\* The abstract device seen through the refinement mapping of ZnsDriver.
Zone == [z \in Zones |-> [wp |-> bram[z].wptr, erases |-> bram[z].erase]]
Phase == IF pc = "ready" THEN "ready" ELSE IF Decided THEN "done" ELSE "busy"
Code == IF pc = "poll" /\ Decided
        THEN IF rtl.state = "UPDATE_BRAM" THEN 0
             ELSE StatusCode(ErrorCode(Driven, Rdata, rtl.count))
        ELSE cqe

LEMMA RefineInit == Init => Device!Init
  <1> SUFFICES ASSUME Init PROVE Device!Init
    OBVIOUS
  <1>1. [z \in Zones |-> [wp |-> bram[z].wptr, erases |-> bram[z].erase]]
          = [z \in Zones |-> [wp |-> 0, erases |-> 0]]
    BY DEF Init, BridgeInit, ZeroWord
  <1> QED BY <1>1 DEF Init, Device!Init

\* A step that the host sees as none.
LEMMA Stutter ==
    ASSUME Zone' = Zone, Phase' = Phase, Code' = Code, UNCHANGED <<hot, sqe>>
    PROVE  UNCHANGED Device!vars
  BY DEF Device!vars, Zone, Phase, Code

LEMMA HeatStep == ASSUME SetTemperature PROVE Device!Heat
  BY DEF SetTemperature, bridgeVars, Device!Heat

LEMMA RefuseStep == ASSUME NEW e \in Sqes, RefuseCommand(e) PROVE Device!Refuse(e)
  BY DEF RefuseCommand, bridgeVars, Device!Refuse, BAD_OPCODE, BAD_ACTION

LEMMA AcceptStep ==
    ASSUME CInv, NEW e \in Sqes, SubmitCommand(e)
    PROVE  Device!Accept(e)
  <1>1. rtl.state = "IDLE"
    BY DEF SubmitCommand, CInv, IInv, Control, AtReady
  <1> QED BY <1>1 DEF SubmitCommand, Accepts, Decided, Device!Accept

LEMMA DrainStep == ASSUME CInv, Drain PROVE Device!Return \/ UNCHANGED Device!vars
  <1>1. ~rtl.we /\ Tick(Driven) /\ rtl.state \in {"UPDATE_BRAM", "ERROR", "IDLE"}
    BY DEF Drain, CInv, IInv, Control, AtDrain1, AtDrain2
  <1>2. bram' = bram /\ UNCHANGED <<sqe, cqe, hot>> /\ pc \in {"drain1", "drain2"}
        /\ pc' = IF pc = "drain1" THEN "drain2" ELSE "ready"
    BY <1>1 DEF Tick, Posedge, Drain
  <1>3. CASE pc = "drain1"
    BY <1>2, <1>3 DEF Device!vars, Decided
  <1>4. CASE pc = "drain2"
    BY <1>2, <1>4 DEF Device!Return, Decided
  <1> QED BY <1>2, <1>3, <1>4

\* Ticks on the way to the decision, and the one that reports it.
LEMMA QuietTicks ==
    ASSUME CInv, PollStatus,
           \/ rtl.state \in {"IDLE", "BRAM_READ", "BRAM_WAIT", "UPDATE_BRAM", "ERROR"}
           \/ rtl.state = "VALIDATE" /\ ~HasError(Driven, Rdata, rtl.count)
    PROVE  UNCHANGED Device!vars
  <1>1. IInv /\ pc = "poll" /\ Tick(Driven) /\ UNCHANGED <<sqe, hot>>
    BY DEF PollStatus, CInv
  <1>2. bram' = bram
    BY <1>1, PollTick
  <1>3. Zone' = Zone
    BY <1>2 DEF Zone
  <1>4. CASE \/ rtl.state \in {"IDLE", "BRAM_READ", "BRAM_WAIT"}
             \/ rtl.state = "VALIDATE" /\ ~HasError(Driven, Rdata, rtl.count)
    <2>1. rtl'.state \in {"BRAM_READ", "BRAM_WAIT", "VALIDATE", "EXECUTE"}
      BY <1>1, <1>4, PollTick DEF NextState
    <2>2. rtl'.status \in {FREE, BUSY}
      BY <1>1, <1>4, PollTick
    <2>3. pc' = pc /\ cqe' = cqe
      BY <2>2 DEF PollStatus, FREE, BUSY, DONE, FAIL
    <2>4. ~Decided /\ ~Decided'
      BY <1>1, <1>4, <2>1, <2>3 DEF Decided
    <2>5. Phase' = Phase /\ Code' = Code
      BY <2>3, <2>4 DEF Phase, Code
    <2> QED BY <1>1, <1>3, <2>5, Stutter
  <1>5. CASE rtl.state = "UPDATE_BRAM"
    <2>1. rtl'.status = DONE
      BY <1>1, <1>5, PollTick
    <2>2. pc' = "drain1" /\ cqe' = 0
      BY <2>1 DEF PollStatus, FREE, BUSY, DONE, FAIL
    <2>3. Phase' = Phase /\ Code' = Code
      BY <1>1, <1>5, <2>2 DEF Phase, Code, Decided
    <2> QED BY <1>1, <1>3, <2>3, Stutter
  <1>6. CASE rtl.state = "ERROR"
    <2>1. rtl'.status = FAIL /\ rtl'.err = ErrorCode(Driven, Rdata, rtl.count)
      BY <1>1, <1>6, PollTick
    <2>2. pc' = "drain1" /\ cqe' = StatusCode(ErrorCode(Driven, Rdata, rtl.count))
      BY <2>1 DEF PollStatus, FREE, BUSY, DONE, FAIL
    <2>3. Phase' = Phase /\ Code' = Code
      BY <1>1, <1>6, <2>2 DEF Phase, Code, Decided
    <2> QED BY <1>1, <1>3, <2>3, Stutter
  <1> QED BY <1>4, <1>5, <1>6

LEMMA SameCardinality == \A S : Device!Cardinality(S) = Cardinality(S)
  BY DEF Device!Cardinality, Cardinality

\* The zones the abstract device counts are those of the tracker.
LEMMA SameOpen ==
    ASSUME CInv
    PROVE  Device!Open = OpenZones /\ rtl.count = Device!Cardinality(Device!Open)
  <1>1. \A z \in Zones : /\ bram[z].wptr \in Nat /\ bram[z].wptr <= ZoneSize
                         /\ bram[z].full <=> bram[z].wptr = ZoneSize
    BY DEF CInv, IInv, WordsOK, WellFormed, TypeOK, BridgeTypeOK, Words
  <1>2. \A z \in Zones : 0 < bram[z].wptr /\ bram[z].wptr < ZoneSize
                         <=> bram[z].wptr > 0 /\ ~bram[z].full
    BY <1>1, RtlAssumption
  <1>3. Device!Open = OpenZones
    BY <1>2 DEF Device!Open, OpenZones
  <1> QED BY <1>3, SameCardinality DEF CInv, CountIsOpenZones

\* A command that is polled is a write or a reset that the driver accepts.
LEMMA PolledCommand ==
    ASSUME CInv, pc = "poll"
    PROVE  /\ io.zone = Device!Target(sqe) /\ io.page = Device!Page(sqe)
           /\ io.zone \in Zones
           /\ io.cmd = WRITE <=> sqe.opcode = "WRITE"
           /\ io.cmd = RESET <=> sqe.opcode = "ZONE_MGMT"
           /\ io.cmd \in {WRITE, RESET}
           /\ Driven \in Pins /\ Driven.thermal = hot /\ Driven.cmd = io.cmd
           /\ Driven.page = io.page /\ Driven.bound = FALSE /\ hot \in BOOLEAN
  <1>1. AtPoll /\ Serving /\ TypeOK
    BY DEF CInv, IInv, Control
  <1>2. io.zone = Device!Target(sqe) /\ io.page = Device!Page(sqe) /\ io.zone \in Zones
    BY <1>1 DEF AtPoll, Serving, Device!Target, Device!Page
  <1>3. /\ io.cmd = WRITE <=> sqe.opcode = "WRITE"
        /\ io.cmd = RESET <=> sqe.opcode = "ZONE_MGMT"
        /\ io.cmd \in {WRITE, RESET}
    BY <1>1 DEF AtPoll, Serving, Accepts, HardwareCmd, WRITE, RESET, READ
  <1>4. Driven \in Pins /\ Driven.cmd = io.cmd /\ Driven.page = io.page
    BY <1>1, DrivenPins
  <1>5. Driven.thermal = hot /\ hot \in BOOLEAN
    BY <1>1 DEF Driven, TypeOK, BridgeTypeOK, Pins
  <1>6. Driven.bound = FALSE
    BY <1>4 DEF Pins
  <1> QED BY <1>2, <1>3, <1>4, <1>5, <1>6

\* The tick that leaves EXECUTE carries the command out.
LEMMA ExecuteStep ==
    ASSUME CInv, PollStatus, rtl.state = "EXECUTE"
    PROVE  Device!Decide
  <1>1. pc = "poll" /\ Tick(Driven) /\ UNCHANGED <<sqe, hot>> /\ IInv
    BY DEF PollStatus, CInv
  <1> DEFINE z == io.zone
             w == bram[io.zone]
  <1>2. /\ z \in Zones /\ w \in Words /\ WellFormed(w)
        /\ ~HasError(Driven, w, rtl.count)
        /\ rtl'.state = "UPDATE_BRAM"
        /\ bram' = [bram EXCEPT ![z] = NewWdata(io.cmd, w, rtl.wdata)]
    BY <1>1, ExecuteTick
  <1>3. /\ z = Device!Target(sqe) /\ io.page = Device!Page(sqe)
        /\ io.cmd = WRITE <=> sqe.opcode = "WRITE"
        /\ io.cmd = RESET <=> sqe.opcode = "ZONE_MGMT"
        /\ io.cmd \in {WRITE, RESET}
        /\ Driven \in Pins /\ Driven.thermal = hot /\ Driven.cmd = io.cmd
        /\ Driven.page = io.page
    BY <1>1, PolledCommand
  <1>4. /\ rtl.wdata \in Words /\ rtl.count \in 0..(CountMod - 1)
        /\ bram \in [Zones -> Words]
    BY <1>1 DEF IInv, TypeOK, BridgeTypeOK, Regs
  <1>5. pc' = "poll"
    <2>1. rtl'.status = BUSY
      BY <1>1, PollTick
    <2> QED BY <1>1, <2>1 DEF PollStatus, FREE, BUSY, DONE, FAIL
  <1>6. Phase = "busy" /\ Phase' = "done" /\ Code' = 0
    BY <1>1, <1>2, <1>5 DEF Phase, Code, Decided
  <1>7. \A y \in Zones : bram'[y] = IF y = z THEN NewWdata(io.cmd, w, rtl.wdata) ELSE bram[y]
    BY <1>2, <1>4
  <1>8. Zone[z] = [wp |-> w.wptr, erases |-> w.erase]
    BY <1>2 DEF Zone
  <1>9. CASE io.cmd = WRITE
    <2>1. /\ hot = FALSE /\ w.wptr < ZoneSize /\ io.page = w.wptr
          /\ NewWdata(io.cmd, w, rtl.wdata).wptr = w.wptr + 1
          /\ NewWdata(io.cmd, w, rtl.wdata).erase = w.erase
          /\ w.wptr = 0 => rtl.count < MaxOpen
      <3>1. PICK in \in Pins : in = Driven
        BY <1>3
      <3>2. ~HasError(in, w, rtl.count) /\ in.cmd = WRITE
        BY <1>2, <1>3, <1>9, <3>1
      <3>3. /\ in.thermal = FALSE /\ w.wptr < ZoneSize /\ in.page = w.wptr
            /\ NewWdata(in.cmd, w, rtl.wdata).wptr = w.wptr + 1
            /\ NewWdata(in.cmd, w, rtl.wdata).erase = w.erase
            /\ w.wptr = 0 => rtl.count < MaxOpen
        BY <1>2, <1>4, <3>2, WriteWord, Zenon
      <3> QED BY <1>3, <3>1, <3>3
    <2>2. Zone' = [Zone EXCEPT ![z].wp = @ + 1]
      BY <1>2, <1>7, <2>1 DEF Zone
    <2>3. Device!Cardinality(Device!Open) = rtl.count
      BY SameOpen
    <2>4. w.wptr \in Nat /\ w.wptr # ZoneSize
      BY <1>2, <2>1, RtlAssumption DEF Words
    <2>5. Device!WriteAllowed
      <3>1. ~Device!Full(z) /\ Zone[z].wp = w.wptr
        BY <1>2, <1>8, <2>4 DEF Device!Full
      <3>2. /\ ~Device!Full(Device!Target(sqe)) /\ Device!Target(sqe) \in Zones
            /\ bram[Device!Target(sqe)].wptr = w.wptr
        BY <1>2, <1>3, <3>1
      <3>3. Device!Page(sqe) = w.wptr
        BY <1>3, <2>1
      <3>4. w.wptr = 0 => Device!Cardinality(Device!Open) < MaxOpen
        BY <2>1, <2>3
      <3> HIDE DEF w
      <3> QED BY <3>2, <3>3, <3>4 DEF Device!WriteAllowed
    <2>6. Device!Write
      BY <1>3, <1>6, <1>9, <2>1, <2>2, <2>5 DEF Device!Write, Zone, Code
    <2> QED BY <1>1, <1>6, <2>6 DEF Device!Decide, Phase
  <1>10. CASE io.cmd = RESET
    <2>1. /\ hot = FALSE /\ w.erase < WearLimit
          /\ NewWdata(io.cmd, w, rtl.wdata).wptr = 0
          /\ NewWdata(io.cmd, w, rtl.wdata).erase = w.erase + 1
      <3>1. PICK in \in Pins : in = Driven
        BY <1>3
      <3>2. ~HasError(in, w, rtl.count) /\ in.cmd = RESET
        BY <1>2, <1>3, <1>10, <3>1
      <3>3. /\ in.thermal = FALSE /\ w.erase < WearLimit
            /\ NewWdata(in.cmd, w, rtl.wdata).wptr = 0
            /\ NewWdata(in.cmd, w, rtl.wdata).erase = w.erase + 1
        BY <1>2, <1>4, <3>2, ResetWord, Zenon
      <3> QED BY <1>3, <3>1, <3>3
    <2>2. Zone' = [Zone EXCEPT ![z] = [wp |-> 0, erases |-> @.erases + 1]]
      BY <1>2, <1>7, <2>1 DEF Zone
    <2>3. Device!ResetZone
      BY <1>3, <1>6, <1>8, <1>10, <2>1, <2>2 DEF Device!ResetZone, Zone, Code
    <2> QED BY <1>1, <1>6, <2>3 DEF Device!Decide, Phase
  <1> QED BY <1>3, <1>9, <1>10

\* The tick that leaves VALIDATE for ERROR refuses it, with the rule's code.
LEMMA RejectStep ==
    ASSUME CInv, PollStatus, rtl.state = "VALIDATE", HasError(Driven, Rdata, rtl.count)
    PROVE  Device!Decide
  <1>1. pc = "poll" /\ Tick(Driven) /\ UNCHANGED <<sqe, hot>> /\ IInv
    BY DEF PollStatus, CInv
  <1> DEFINE z == io.zone
             w == bram[io.zone]
  <1>2. Rdata = w
    BY <1>1, PolledWord
  <1>3. /\ z = Device!Target(sqe) /\ io.page = Device!Page(sqe) /\ z \in Zones
        /\ io.cmd = WRITE <=> sqe.opcode = "WRITE"
        /\ io.cmd = RESET <=> sqe.opcode = "ZONE_MGMT"
        /\ io.cmd \in {WRITE, RESET}
        /\ Driven.thermal = hot /\ Driven.cmd = io.cmd
        /\ Driven.page = io.page /\ Driven.bound = FALSE /\ hot \in BOOLEAN
    BY <1>1, PolledCommand
  <1>4. w \in Words /\ WellFormed(w) /\ w.wptr \in Nat /\ w.erase \in Nat
    BY <1>1, <1>3 DEF IInv, TypeOK, BridgeTypeOK, WordsOK, Words
  <1>5. rtl'.state = "ERROR" /\ bram' = bram /\ rtl'.status = BUSY /\ rtl'.count = rtl.count
    BY <1>1, PollTick DEF NextState
  <1>6. pc' = "poll" /\ io' = Driven
    BY <1>1, <1>5 DEF PollStatus, FREE, BUSY, DONE, FAIL
  <1>7. Rdata' = Rdata
    BY <1>1, RdataStable
  <1>8. Driven' = Driven
    BY <1>1, <1>6 DEF Driven, IInv, TypeOK, BridgeTypeOK, Pins
  <1>9. /\ Phase = "busy" /\ Phase' = "done" /\ Zone' = Zone
        /\ Code' = StatusCode(ErrorCode(Driven, w, rtl.count))
    BY <1>1, <1>2, <1>5, <1>6, <1>7, <1>8 DEF Phase, Code, Decided, Zone
  <1>10. Zone[z] = [wp |-> w.wptr, erases |-> w.erase]
    BY <1>3 DEF Zone
  <1>11. ErrorCode(Driven, w, rtl.count) # 0 /\ Device!Cardinality(Device!Open) = rtl.count
    BY <1>2, SameOpen DEF HasError
  <1>12. \/ hot /\ Code' = 36
         \/ /\ ~hot /\ io.cmd = WRITE
            /\ \/ w.wptr = ZoneSize /\ Code' = 131
               \/ w.wptr # ZoneSize /\ io.page # w.wptr /\ Code' = 130
               \/ io.page = 0 /\ w.wptr = 0 /\ rtl.count >= MaxOpen /\ Code' = 129
         \/ ~hot /\ io.cmd = RESET /\ w.erase >= WearLimit /\ Code' = 36
    <2>1. CASE hot
      BY <1>3, <1>9, <2>1 DEF ErrorCode, StatusCode
    <2>2. CASE ~hot /\ io.cmd = WRITE
      BY <1>3, <1>4, <1>9, <1>11, <2>2, RtlAssumption
         DEF ErrorCode, StatusCode, OpensZone, WellFormed, WRITE, READ, RESET, BAD
    <2>3. CASE ~hot /\ io.cmd = RESET
      BY <1>3, <1>4, <1>9, <1>11, <2>3, RtlAssumption
         DEF ErrorCode, StatusCode, OpensZone, WRITE, READ, RESET, BAD
    <2> QED BY <1>3, <2>1, <2>2, <2>3
  <1>13. Device!Reject
    <2>1. /\ Device!Full(z) <=> w.wptr = ZoneSize
          /\ Zone[z].wp = w.wptr /\ Zone[z].erases = w.erase
      BY <1>3, <1>10 DEF Device!Full
    <2>2. /\ Device!Full(Device!Target(sqe)) <=> w.wptr = ZoneSize
          /\ Device!Target(sqe) \in Zones
          /\ bram[Device!Target(sqe)].wptr = w.wptr /\ bram[Device!Target(sqe)].erase = w.erase
      BY <1>3, <2>1
    <2> HIDE DEF w
    <2>3. \/ hot /\ Code' = 36
          \/ /\ ~hot /\ sqe.opcode = "WRITE"
             /\ \/ Device!Full(Device!Target(sqe)) /\ Code' = 131
                \/ /\ ~Device!Full(Device!Target(sqe)) /\ Device!Page(sqe) # w.wptr
                   /\ Code' = 130
                \/ /\ Device!Page(sqe) = 0 /\ w.wptr = 0
                   /\ Device!Cardinality(Device!Open) >= MaxOpen /\ Code' = 129
          \/ ~hot /\ sqe.opcode = "ZONE_MGMT" /\ w.erase >= WearLimit /\ Code' = 36
      BY <1>3, <1>11, <1>12, <2>2
    <2>4. Zone' = Zone
      BY <1>9
    <2> QED BY <2>2, <2>3, <2>4 DEF Device!Reject, Zone, Code
  <1> QED BY <1>1, <1>9, <1>13 DEF Device!Decide, Phase

\* Every step of driver, bridge and RTL is one of the abstract device, or none.
LEMMA RefineNext ==
    ASSUME CInv, [Next]_vars
    PROVE  [Device!Next]_(Device!vars)
  <1>1. CASE UNCHANGED vars
    <2>1. Zone' = Zone /\ Phase' = Phase /\ UNCHANGED <<hot, sqe>>
      BY <1>1 DEF vars, bridgeVars, driverVars, Zone, Phase, Decided
    <2>2. Code' = Code
      BY <1>1 DEF vars, bridgeVars, driverVars, Code, Decided, Driven, Rdata
    <2> QED BY <2>1, <2>2, Stutter
  <1>2. CASE SetTemperature
    BY <1>2, HeatStep DEF Device!Next
  <1>3. CASE ControllerInit
    <2>1. pc = "ready" /\ UNCHANGED <<rtl, addr, latch, bram, pc, sqe, cqe, hot>>
      BY <1>3 DEF ControllerInit, driverVars
    <2>2. Zone' = Zone /\ Phase' = Phase /\ Code' = Code
      BY <2>1 DEF Zone, Phase, Code, Decided
    <2> QED BY <2>1, <2>2, Stutter
  <1>4. ASSUME NEW e \in Sqes, RefuseCommand(e) PROVE Device!Next
    BY <1>4, RefuseStep DEF Device!Next
  <1>5. ASSUME NEW e \in Sqes, SubmitCommand(e) PROVE Device!Next
    BY <1>5, AcceptStep DEF Device!Next
  <1>6. CASE PollStatus
    <2>1. rtl.state \in {"IDLE", "BRAM_READ", "BRAM_WAIT", "VALIDATE", "EXECUTE",
                         "UPDATE_BRAM", "ERROR"}
      BY DEF CInv, IInv, TypeOK, BridgeTypeOK, Regs, States
    <2>2. CASE rtl.state = "EXECUTE"
      BY <1>6, <2>2, ExecuteStep DEF Device!Next
    <2>3. CASE rtl.state = "VALIDATE" /\ HasError(Driven, Rdata, rtl.count)
      BY <1>6, <2>3, RejectStep DEF Device!Next
    <2>4. CASE \/ rtl.state \in {"IDLE", "BRAM_READ", "BRAM_WAIT", "UPDATE_BRAM", "ERROR"}
               \/ rtl.state = "VALIDATE" /\ ~HasError(Driven, Rdata, rtl.count)
      BY <1>6, <2>4, QuietTicks
    <2> QED BY <2>1, <2>2, <2>3, <2>4
  <1>7. CASE Drain
    BY <1>7, DrainStep DEF Device!Next
  <1> QED BY <1>1, <1>2, <1>3, <1>4, <1>5, <1>6, <1>7 DEF Next

-----------------------------------------------------------------------------
\* zns_fsm_validator.sv, open_zones_tracker: with appends and resets inside the
\* array only, the counter is the number of open zones at every tick.
THEOREM TrackerExact ==
    ASSUME AppendOnly
    PROVE  Spec => []CountIsOpenZones
  <1>1. CInv /\ [Next]_vars => CInv'
    BY NextCInv
  <1>2. CInv => CountIsOpenZones
    BY DEF CInv
  <1> QED BY <1>1, <1>2, InitCInv, PTL DEF Spec

\* zns_process_nvme_command, the bridge and the RTL implement the abstract zoned
\* device: the same effects on zones and the same status codes, step by step.
THEOREM Refinement ==
    ASSUME AppendOnly
    PROVE  Spec => Device!SafeSpec
  <1>1. CInv /\ [Next]_vars => CInv'
    BY NextCInv
  <1>2. CInv /\ [Next]_vars => [Device!Next]_(Device!vars)
    BY RefineNext
  <1> QED BY <1>1, <1>2, InitCInv, RefineInit, PTL DEF Spec, Device!SafeSpec

-----------------------------------------------------------------------------
\* The gate's call in progress: its argument and its entry agree, and it is a
\* write or a reset of a zone of the array.
InCall ==
    pc # "ready" =>
        /\ sqe.lba \div ZoneSize \in Zones
        /\ \/ is_write = 1 /\ sqe.opcode = "WRITE"
           \/ is_write = 2 /\ sqe.opcode = "ZONE_MGMT"

\* The hardware has carried the command out and the software copy has not.
Carried == \/ pc = "poll" /\ rtl.state = "UPDATE_BRAM"
           \/ pc \in {"drain1", "drain2"} /\ cqe = 0

\* One zone may be ahead of its copy: the one of a command carried out.
Follows ==
    \A z \in Zones :
        IF Carried /\ z = sqe.lba \div ZoneSize
        THEN bram[z].wptr = IF is_write = 1 THEN mirror[z].b0 + 1 ELSE 0
        ELSE bram[z].wptr = mirror[z].b0

MirrorType == mirror \in [Zones -> [b0 : Nat, b2 : Nat, erase_count : Nat]]

GInv == CInv /\ MirrorType /\ InCall /\ Follows

LEMMA GateIsDriver ==
    /\ GateInit => Init
    /\ [GateNext]_allVars => [Next]_vars
  <1>1. ASSUME NEW lba \in GateLbas, NEW op \in GateOps PROVE Entry(lba, op) \in Sqes
    BY GateAssumption DEF GateEntries
  <1>2. GateNext => Next
    BY <1>1 DEF GateNext, Step, Return, Call, Next
  <1> QED BY <1>2 DEF GateInit, allVars

LEMMA GateInitInv == GateInit => GInv
  <1> SUFFICES ASSUME GateInit PROVE GInv
    OBVIOUS
  <1>1. Init /\ CInv
    BY GateIsDriver, InitCInv
  <1>2. MirrorType
    BY DEF GateInit, MirrorType
  <1>3. InCall /\ Follows
    BY <1>1 DEF GateInit, Init, BridgeInit, ZeroWord, InCall, Carried, Follows
  <1> QED BY <1>1, <1>2, <1>3 DEF GInv

\* Steps in which neither zones nor copies nor the call in hand change.
LEMMA SameFollows ==
    ASSUME GInv, CInv', UNCHANGED <<sqe, is_write, bram, mirror>>, Carried' <=> Carried,
           pc' # "ready" => pc # "ready"
    PROVE  GInv'
  <1>1. MirrorType'
    BY DEF GInv, MirrorType
  <1>2. InCall'
    BY DEF GInv, InCall
  <1>3. Follows'
    BY DEF GInv, Follows
  <1> QED BY <1>1, <1>2, <1>3 DEF GInv

LEMMA CallInv ==
    ASSUME AppendOnly, GInv, CInv', NEW lba \in GateLbas, NEW op \in GateOps, Call(lba, op)
    PROVE  GInv'
  <1>1. Entry(lba, op) \in Sqes
    BY GateAssumption DEF GateEntries
  <1>2. MirrorType' /\ bram' = bram /\ mirror' = mirror
    BY DEF Call, SubmitCommand, RefuseCommand, bridgeVars, GInv, MirrorType
  <1>3. pc = "ready" /\ is_write' = op /\ sqe' = Entry(lba, op)
    BY DEF Call, SubmitCommand, RefuseCommand
  <1>4. ~Carried /\ ~Carried'
    <2>1. rtl.state = "IDLE" /\ rtl' = rtl /\ pc' \in {"ready", "poll"}
      BY DEF Call, SubmitCommand, RefuseCommand, bridgeVars, GInv, CInv, IInv, Control, AtReady
    <2> QED BY <1>3, <2>1 DEF Carried
  <1>5. Follows'
    BY <1>2, <1>4 DEF GInv, Follows
  <1>6. InCall'
    <2> SUFFICES ASSUME pc' # "ready" PROVE InCall'
      BY DEF InCall
    <2>1. Accepts(Entry(lba, op))
      BY <1>3 DEF Call, SubmitCommand, RefuseCommand
    <2>2. Entry(lba, op).opcode # "READ" /\ Entry(lba, op).lba \in Nat
          /\ InArray(Entry(lba, op).lba \div ZoneSize)
      BY <1>1, SqeAssumption DEF AppendOnly
    <2>3. \/ op = 1 /\ Entry(lba, op).opcode = "WRITE"
          \/ op = 2 /\ Entry(lba, op).opcode = "ZONE_MGMT"
      BY <2>1, <2>2 DEF Accepts, Entry
    <2>4. Entry(lba, op).lba \div ZoneSize \in Zones
      BY <2>2, AddressParts, BridgeAssumption DEF InArray, Zones
    <2> QED BY <1>3, <2>3, <2>4 DEF InCall
  <1> QED BY <1>2, <1>5, <1>6 DEF GInv

\* The tick that leaves EXECUTE moves the pointer of the zone in hand.
LEMMA CarryOut ==
    ASSUME GInv, PollStatus, UNCHANGED gateVars, CInv', rtl.state = "EXECUTE"
    PROVE  GInv'
  <1>1. pc = "poll" /\ Tick(Driven) /\ CInv /\ IInv /\ UNCHANGED <<sqe, is_write, mirror>>
    BY DEF PollStatus, GInv, CInv, gateVars
  <1>2. rtl'.status = BUSY
    BY <1>1, PollTick
  <1>3. pc' = "poll"
    BY <1>1, <1>2 DEF PollStatus, FREE, BUSY, DONE, FAIL
  <1> DEFINE z == io.zone
             w == bram[io.zone]
             v == NewWdata(io.cmd, w, rtl.wdata)
  <1>4. /\ z \in Zones /\ w \in Words /\ WellFormed(w) /\ ~HasError(Driven, w, rtl.count)
        /\ rtl'.state = "UPDATE_BRAM" /\ bram' = [bram EXCEPT ![z] = v]
    BY <1>1, ExecuteTick
  <1>5. /\ Driven \in Pins /\ Driven.cmd = io.cmd /\ io.cmd = HardwareCmd(sqe)
        /\ z = sqe.lba \div ZoneSize
        /\ rtl.wdata \in Words /\ rtl.count \in 0..(CountMod - 1) /\ bram \in [Zones -> Words]
    BY <1>1, DrivenPins
       DEF CInv, Serving, IInv, TypeOK, BridgeTypeOK, Regs, Control, AtPoll
  <1>6. /\ is_write = 1 => io.cmd = WRITE
        /\ is_write # 1 => io.cmd = RESET
    BY <1>1, <1>5 DEF GInv, InCall, HardwareCmd
  <1>7. \A y \in Zones : bram'[y] = IF y = z THEN v ELSE bram[y]
    BY <1>4, <1>5
  <1>8. v.wptr = IF is_write = 1 THEN w.wptr + 1 ELSE 0
    <2>1. PICK in \in Pins : in = Driven
      BY <1>5
    <2>2. in.cmd = io.cmd /\ ~HasError(in, w, rtl.count)
      BY <1>4, <1>5, <2>1
    <2> HIDE DEF w
    <2>3. CASE is_write = 1
      <3>1. in.cmd = WRITE
        BY <1>6, <2>2, <2>3
      <3>2. NewWdata(in.cmd, w, rtl.wdata).wptr = w.wptr + 1
        BY <1>4, <1>5, <2>2, <3>1, WriteWord, Zenon
      <3> QED BY <2>2, <2>3, <3>2
    <2>4. CASE is_write # 1
      <3>1. in.cmd = RESET
        BY <1>6, <2>2, <2>4
      <3>2. NewWdata(in.cmd, w, rtl.wdata).wptr = 0
        BY <1>4, <1>5, <2>2, <3>1, ResetWord, Zenon
      <3> QED BY <2>2, <2>4, <3>2
    <2> QED BY <2>3, <2>4
  <1>9. ~Carried /\ Carried'
    BY <1>1, <1>3, <1>4 DEF Carried
  <1>10. \A y \in Zones : bram[y].wptr = mirror[y].b0
    BY <1>9 DEF GInv, Follows
  <1> HIDE DEF v
  <1>11. Follows'
    BY <1>1, <1>4, <1>5, <1>7, <1>8, <1>9, <1>10 DEF Follows
  <1> QED BY <1>1, <1>3, <1>11 DEF GInv, MirrorType, InCall

LEMMA PollInv ==
    ASSUME GInv, PollStatus, UNCHANGED gateVars, CInv'
    PROVE  GInv'
  <1>1. pc = "poll" /\ Tick(Driven) /\ IInv /\ UNCHANGED <<sqe, is_write, mirror>>
    BY DEF PollStatus, GInv, CInv, gateVars
  <1>2. rtl.state \in {"IDLE", "BRAM_READ", "BRAM_WAIT", "VALIDATE", "EXECUTE",
                       "UPDATE_BRAM", "ERROR"}
    BY <1>1 DEF IInv, TypeOK, BridgeTypeOK, Regs, States
  <1>3. CASE rtl.state = "EXECUTE"
    BY <1>3, CarryOut
  <1>4. CASE rtl.state \in {"IDLE", "BRAM_READ", "BRAM_WAIT", "VALIDATE"}
    <2>1. rtl'.state # "UPDATE_BRAM" /\ rtl'.status \in {FREE, BUSY} /\ bram' = bram
      BY <1>1, <1>4, PollTick DEF NextState
    <2>2. pc' = "poll"
      BY <1>1, <2>1 DEF PollStatus, FREE, BUSY, DONE, FAIL
    <2>3. ~Carried /\ ~Carried'
      BY <1>1, <1>4, <2>1, <2>2 DEF Carried
    <2> QED BY <1>1, <2>1, <2>3, SameFollows
  <1>5. CASE rtl.state = "UPDATE_BRAM"
    <2>1. rtl'.status = DONE /\ bram' = bram
      BY <1>1, <1>5, PollTick
    <2>2. pc' = "drain1" /\ cqe' = 0
      BY <1>1, <2>1 DEF PollStatus, FREE, BUSY, DONE, FAIL
    <2>3. Carried /\ Carried'
      BY <1>1, <1>5, <2>2 DEF Carried
    <2> QED BY <1>1, <2>1, <2>3, SameFollows
  <1>6. CASE rtl.state = "ERROR"
    <2>1. rtl'.status = FAIL /\ bram' = bram
          /\ rtl'.err = ErrorCode(Driven, Rdata, rtl.count)
      BY <1>1, <1>6, PollTick
    <2>2. StatusCode(ErrorCode(Driven, Rdata, rtl.count)) # 0
      BY <1>1, <1>6, StatusTypes DEF IInv, Control, AtPoll
    <2>3. pc' = "drain1" /\ cqe' # 0
      BY <1>1, <2>1, <2>2 DEF PollStatus, FREE, BUSY, DONE, FAIL
    <2>4. ~Carried /\ ~Carried'
      BY <1>1, <1>6, <2>3 DEF Carried
    <2> QED BY <1>1, <2>1, <2>4, SameFollows
  <1> QED BY <1>2, <1>3, <1>4, <1>5, <1>6

LEMMA DrainTick ==
    ASSUME CInv, Drain
    PROVE  bram' = bram /\ UNCHANGED <<sqe, cqe>> /\ pc \in {"drain1", "drain2"}
           /\ pc' = IF pc = "drain1" THEN "drain2" ELSE "ready"
  <1>1. ~rtl.we /\ Tick(Driven) /\ rtl.state \in {"UPDATE_BRAM", "ERROR", "IDLE"}
    BY DEF Drain, CInv, IInv, Control, AtDrain1, AtDrain2
  <1> QED BY <1>1 DEF Tick, Posedge, Drain

\* What the copy of a carried-out command is, field by field.
LEMMA MirroredCopy ==
    ASSUME GInv, pc # "ready"
    PROVE  /\ Mirrored \in [Zones -> [b0 : Nat, b2 : Nat, erase_count : Nat]]
           /\ \A z \in Zones :
                 Mirrored[z].b0 = IF z = sqe.lba \div ZoneSize
                                  THEN IF is_write = 1 THEN (mirror[z].b0 + 1) % ByteMod ELSE 0
                                  ELSE mirror[z].b0
  <1> DEFINE t == sqe.lba \div ZoneSize
  <1>1. /\ t \in Zones /\ is_write \in {1, 2}
        /\ mirror \in [Zones -> [b0 : Nat, b2 : Nat, erase_count : Nat]]
    BY DEF GInv, InCall, MirrorType
  <1>2. InArray(t) /\ ZoneId(sqe.lba) = t
    <2>1. sqe.lba \in Nat
      BY SqeAssumption DEF GInv, CInv, IInv, TypeOK
    <2>2. InArray(t)
      BY <1>1, BridgeAssumption DEF InArray, Zones
    <2>3. ZoneId(sqe.lba) = t
      BY <2>1, <2>2, AddressParts
    <2> QED BY <2>2, <2>3
  <1> HIDE DEF t
  <1>3. ByteMod \in Nat /\ ByteMod > 0
    BY RtlAssumption DEF ByteMod
  <1>4. PICK b \in Nat : b = (mirror[t].b0 + 1) % ByteMod
    BY <1>1, <1>3
  <1>5. PICK c \in Nat : c = (mirror[t].b2 + 1) % ByteMod
    BY <1>1, <1>3
  <1>6. CASE is_write = 1
    <2>1. Mirrored = [mirror EXCEPT ![t].b0 = b]
      BY <1>2, <1>4, <1>6 DEF Mirrored
    <2> QED BY <1>1, <1>4, <1>6, <2>1 DEF t
  <1>7. CASE is_write = 2
    <2>1. Mirrored = [mirror EXCEPT ![t].b0 = 0, ![t].b2 = c]
      BY <1>2, <1>5, <1>7 DEF Mirrored
    <2> QED BY <1>1, <1>5, <1>7, <2>1 DEF t
  <1> QED BY <1>1, <1>6, <1>7

LEMMA ReturnInv ==
    ASSUME GInv, Return, CInv'
    PROVE  GInv'
  <1>1. /\ pc = "drain2" /\ pc' = "ready" /\ bram' = bram /\ is_write' = is_write
        /\ sqe' = sqe /\ mirror' = IF cqe = 0 THEN Mirrored ELSE mirror
    BY DrainTick DEF Return, GInv
  <1>2. ~Carried' /\ InCall'
    BY <1>1 DEF Carried, InCall
  <1>3. CASE cqe # 0
    <2>1. ~Carried
      BY <1>1, <1>3 DEF Carried
    <2> QED BY <1>1, <1>2, <1>3, <2>1, SameFollows
  <1>4. CASE cqe = 0
    <2>1. Carried
      BY <1>1, <1>4 DEF Carried
    <2>2. MirrorType'
      BY <1>1, <1>4, MirroredCopy DEF MirrorType
    <2>3. ASSUME NEW z \in Zones PROVE bram[z].wptr = Mirrored[z].b0
      <3>1. Mirrored[z].b0 = IF z = sqe.lba \div ZoneSize
                             THEN IF is_write = 1 THEN (mirror[z].b0 + 1) % ByteMod ELSE 0
                             ELSE mirror[z].b0
        BY <1>1, MirroredCopy
      <3>2. bram[z].wptr \in Nat /\ bram[z].wptr <= ZoneSize
        BY DEF GInv, CInv, IInv, TypeOK, BridgeTypeOK, Words, WordsOK, WellFormed
      <3>3. bram[z].wptr % ByteMod = bram[z].wptr
        BY <3>2, ModSmall, RtlAssumption DEF ByteMod
      <3> QED BY <2>1, <3>1, <3>3 DEF GInv, Follows
    <2>4. Follows'
      BY <1>1, <1>2, <1>4, <2>3 DEF Follows
    <2> QED BY <1>2, <2>2, <2>4 DEF GInv
  <1> QED BY <1>3, <1>4

LEMMA GateNextInv ==
    ASSUME AppendOnly, GInv, [GateNext]_allVars
    PROVE  GInv'
  <1>1. CInv'
    BY GateIsDriver, NextCInv DEF GInv
  <1>2. CASE UNCHANGED allVars
    <2>1. UNCHANGED <<sqe, is_write, bram, mirror, pc, rtl, cqe>>
      BY <1>2 DEF allVars, vars, bridgeVars, driverVars, gateVars
    <2> QED BY <1>1, <2>1, SameFollows DEF Carried
  <1>3. CASE (SetTemperature \/ ControllerInit) /\ UNCHANGED gateVars
    <2>1. UNCHANGED <<sqe, is_write, bram, mirror, pc, rtl, cqe>>
      BY <1>3 DEF SetTemperature, ControllerInit, bridgeVars, driverVars, gateVars
    <2> QED BY <1>1, <2>1, SameFollows DEF Carried
  <1>4. CASE PollStatus /\ UNCHANGED gateVars
    BY <1>1, <1>4, PollInv
  <1>5. CASE pc = "drain1" /\ Drain /\ UNCHANGED gateVars
    <2>1. UNCHANGED <<sqe, is_write, bram, mirror, cqe>> /\ pc' = "drain2"
      BY <1>5, DrainTick DEF GInv, gateVars
    <2> QED BY <1>1, <1>5, <2>1, SameFollows DEF Carried
  <1>6. CASE Return
    BY <1>1, <1>6, ReturnInv
  <1>7. ASSUME NEW lba \in GateLbas, NEW op \in GateOps, Call(lba, op) PROVE GInv'
    BY <1>1, <1>7, CallInv
  <1> QED BY <1>2, <1>3, <1>4, <1>5, <1>6, <1>7 DEF GateNext, Step

-----------------------------------------------------------------------------
\* Controller::direct_zns_gate: whatever mix of writes, resets and refused calls
\* a test makes inside the array, between calls the raw byte that the gate keeps
\* in zns_zones is the write pointer the hardware holds.
THEOREM MirrorCorrect ==
    ASSUME AppendOnly
    PROVE  GateSpec => []MirrorFollowsPointer
  <1>1. GInv /\ [GateNext]_allVars => GInv'
    BY GateNextInv
  <1>2. GInv => MirrorFollowsPointer
    BY DEF GInv, Follows, Carried, MirrorFollowsPointer
  <1> QED BY <1>1, <1>2, GateInitInv, PTL DEF GateSpec

\* The gate adds nothing the device would not do: through it too the tracker
\* counts the open zones and every step is one of the abstract device.
THEOREM GateRefinement ==
    ASSUME AppendOnly
    PROVE  GateSpec => []CountIsOpenZones /\ Device!SafeSpec
  <1>1. CInv /\ [Next]_vars => CInv'
    BY NextCInv
  <1>2. CInv => CountIsOpenZones
    BY DEF CInv
  <1>3. CInv /\ [Next]_vars => [Device!Next]_(Device!vars)
    BY RefineNext
  <1> QED BY <1>1, <1>2, <1>3, GateIsDriver, InitCInv, RefineInit, PTL
          DEF GateSpec, Device!SafeSpec
=============================================================================
