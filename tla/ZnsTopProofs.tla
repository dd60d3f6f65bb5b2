---------------------------- MODULE ZnsTopProofs ----------------------------
(***************************************************************************)
(* Safety of the synthesised controller for every geometry, every set of   *)
(* addresses and every testbench that holds the trigger at least six edges *)
(* and lowers it at least two.  The argument follows a command edge by     *)
(* edge: what each register holds depends on the edges since the trigger   *)
(* rose, the only clock the testbench and the blocks have in common.       *)
(***************************************************************************)
EXTENDS ZnsTop, TLAPS

\* A value that fits its width is not changed by the modulus.
LEMMA ModSmall ==
    ASSUME NEW x \in Nat, NEW m \in Nat, x < m
    PROVE  x % m = x
  BY SMT

LEMMA ModRange ==
    ASSUME NEW x \in Nat, NEW m \in Nat, m > 0
    PROVE  x % m \in 0..(m - 1)
  BY SMT

\* The metadata words a command computes have the fields' widths.
LEMMA WordTypes ==
    ASSUME NEW w \in Words
    PROVE  /\ Written(w) \in Words
           /\ Erased(w) \in Words
           /\ ZeroWord \in Words
  <1> USE RtlAssumption
  <1>1. w.wptr + 1 \in Nat /\ w.erase + 1 \in Nat /\ WptrMod \in Nat /\ ByteMod \in Nat
        /\ WptrMod > 0 /\ ByteMod > 0
    BY DEF Words, WptrMod, ByteMod
  <1>2. (w.wptr + 1) % WptrMod \in 0..(WptrMod - 1)
    BY <1>1, ModRange
  <1>3. (w.erase + 1) % ByteMod \in 0..(ByteMod - 1)
    BY <1>1, ModRange
  <1>4. Written(w) \in Words
    BY <1>2 DEF Written, Words, WptrMod
  <1>5. Erased(w) \in Words
    BY <1>1, <1>3 DEF Erased, Words
  <1>6. ZeroWord \in Words
    BY DEF ZeroWord, Words, WptrMod, ByteMod
  <1> QED BY <1>4, <1>5, <1>6

\* Error codes are those of the rules, and 8 is the thermal rule's alone.
LEMMA CodeTypes ==
    ASSUME NEW in, NEW w, NEW c
    PROVE  /\ ErrorCode(in, w, c) \in {0, 1, 2, 3, 5, 6, 7, 8}
           /\ ErrorCode(in, w, c) \in 0..8
           /\ HasError(in, w, c) \in BOOLEAN
           /\ ErrorCode(in, w, c) = 8 <=> in.thermal
  <1>1. ErrorCode(in, w, c) \in {0, 1, 2, 3, 5, 6, 7, 8}
    BY DEF ErrorCode
  <1>2. ErrorCode(in, w, c) = 8 <=> in.thermal
    BY DEF ErrorCode
  <1> QED BY <1>1, <1>2 DEF HasError

LEMMA CountType ==
    ASSUME NEW op, NEW w \in Words, NEW c \in 0..(CountMod - 1)
    PROVE  NewCount(op, w, c) \in 0..(CountMod - 1)
  <1> USE RtlAssumption
  <1>1. (c + 1) % CountMod \in 0..(CountMod - 1)
    BY ModRange
  <1> QED BY <1>1 DEF NewCount

\* A clock edge keeps the registers in their types.
LEMMA PosedgeType ==
    ASSUME NEW r \in Regs, NEW in, NEW w \in Words
    PROVE  Posedge(r, in, w) \in Regs
  <1>1. NextState(r.state, in.trigger, HasError(in, w, r.count)) \in States
    BY DEF NextState, Regs, States
  <1>2. NewWdata(in.cmd, w, r.wdata) \in Words
    BY WordTypes DEF NewWdata, Regs
  <1>3. NewCount(in.cmd, w, r.count) \in 0..(CountMod - 1)
    BY CountType DEF Regs
  <1>4. ErrorCode(in, w, r.count) \in 0..8
    BY CodeTypes
  <1> DEFINE q == Posedge(r, in, w)
  <1>5. q.state \in States
    BY <1>1 DEF Posedge
  <1>6. q.status \in {FREE, FAIL, BUSY, DONE}
    BY DEF Posedge, Regs
  <1>7. q.err \in 0..8
    BY <1>4 DEF Posedge, Regs
  <1>8. q.we \in BOOLEAN
    BY DEF Posedge, Regs
  <1>9. q.wdata \in Words
    BY <1>2 DEF Posedge, Regs
  <1>10. q.count \in 0..(CountMod - 1)
    BY <1>3 DEF Posedge, Regs
  <1>11. q = [state |-> q.state, status |-> q.status, err |-> q.err, we |-> q.we,
              wdata |-> q.wdata, count |-> q.count]
    BY DEF Posedge
  <1> QED BY <1>5, <1>6, <1>7, <1>8, <1>9, <1>10, <1>11 DEF Regs

-----------------------------------------------------------------------------
TypeOK ==
    /\ rtl \in Regs
    /\ lba \in Nat /\ cmd \in Commands
    /\ trigger \in BOOLEAN /\ hot \in BOOLEAN /\ tripped \in BOOLEAN
    /\ resolved \in [zone : Nat, page : Nat, bound : BOOLEAN]
    /\ ram \in [Zones -> Words] /\ saved \in [Zones -> Words] /\ rdata \in Words
    /\ ticks \in Nat
    /\ felt \in SUBSET BOOLEAN

\* With the trigger low the machine stores nothing and is idle one edge later.
Lowered ==
    ~trigger =>
        /\ ~rtl.we
        /\ rtl.state \in {"IDLE", "UPDATE_BRAM", "ERROR"}
        /\ ticks >= 1 => rtl.state = "IDLE"

\* With the trigger high the edges since it rose give the state, and the write
\* strobe is up for the one edge after EXECUTE.
Schedule ==
    trigger =>
        /\ ticks <= HoldTicks
        /\ ticks = 0 => rtl.state = "IDLE"
        /\ ticks = 1 => rtl.state = "BRAM_READ"
        /\ ticks = 2 => rtl.state = "BRAM_WAIT"
        /\ ticks = 3 => rtl.state = "VALIDATE"
        /\ ticks = 4 => rtl.state \in {"EXECUTE", "ERROR"}
        /\ ticks >= 5 => rtl.state \in {"UPDATE_BRAM", "ERROR"}
        /\ rtl.we <=> ticks = 5 /\ rtl.state = "UPDATE_BRAM"

\* The resolver follows the address by one edge, the RAM's register by two; a
\* store overtakes the register.
Follows ==
    trigger =>
        /\ ticks >= 1 => resolved = Resolve(lba)
        /\ ticks >= 2 /\ rtl.state # "UPDATE_BRAM" => rdata = ram[Target % NumZones]

\* What the checker found when it let the command pass.
Passed ==
    trigger /\ rtl.state \in {"EXECUTE", "UPDATE_BRAM"} =>
        /\ Target < NumZones
        /\ cmd = WRITE => saved[Target].wptr = lba % ZoneSize

\* The word a write or a reset is to store in its zone.
NewWord == IF cmd = WRITE THEN Written(saved[Target]) ELSE Erased(saved[Target])

\* The memory is that of the beginning until the strobe, which finds the word to
\* store in its register; the status follows one edge later.
Stored ==
    trigger =>
        /\ rtl.state # "UPDATE_BRAM" \/ ticks = 5 => ram = saved
        /\ rtl.state = "UPDATE_BRAM" /\ ticks = 5 /\ cmd \in {WRITE, RESET} =>
              rtl.wdata = NewWord
        /\ rtl.state = "UPDATE_BRAM" /\ ticks >= 6 =>
              /\ rtl.status = DONE
              /\ cmd \in {WRITE, RESET} => ram = [saved EXCEPT ![Target] = NewWord]
        /\ rtl.state = "ERROR" /\ ticks >= 5 => rtl.status = FAIL

\* The sensor since the command began.
AlwaysHot  == felt = {TRUE}
AlwaysCool == felt = {FALSE}

\* The trip follows the sensor by one edge; while the sensor does not move the
\* rules that refused the command go on refusing it.
Thermal ==
    trigger =>
        /\ hot \in felt
        /\ AlwaysHot => /\ hot
                        /\ ticks >= 1 => tripped
                        /\ ticks >= 4 => rtl.state = "ERROR"
                        /\ ticks >= 5 => rtl.err = 8
        /\ AlwaysCool => /\ ~hot
                         /\ ticks >= 1 => ~tripped
                         /\ rtl.state = "ERROR" => HasError(Pins, rdata, rtl.count)
                         /\ rtl.state = "ERROR" /\ ticks >= 5 => rtl.err \notin {0, 8}

IInv == TypeOK /\ Lowered /\ Schedule /\ Follows /\ Passed /\ Stored /\ Thermal
-----------------------------------------------------------------------------
\* The resolver's outputs have their types.
LEMMA ResolveType ==
    ASSUME NEW a \in Nat
    PROVE  /\ Resolve(a) \in [zone : Nat, page : Nat, bound : BOOLEAN]
           /\ a \div ZoneSize \in Nat /\ a % ZoneSize \in Nat
  <1>1. a \div ZoneSize \in Nat /\ a % ZoneSize \in Nat
    BY RtlAssumption
  <1> QED BY <1>1 DEF Resolve

\* The RAM is never addressed outside its words.
LEMMA RamAddrType ==
    ASSUME TypeOK
    PROVE  RamAddr \in Zones
  <1>1. BramAddr(rtl.state, Pins) \in Nat
    BY DEF TypeOK, Pins, BramAddr
  <1> QED BY <1>1, ModRange, TopAssumption DEF RamAddr, Zones

\* An edge keeps the types.
LEMMA ClockType ==
    ASSUME TypeOK, Clock
    PROVE  /\ rtl' \in Regs
           /\ resolved' \in [zone : Nat, page : Nat, bound : BOOLEAN]
           /\ ram' \in [Zones -> Words] /\ rdata' \in Words
           /\ tripped' \in BOOLEAN
  <1>1. rtl' \in Regs
    BY PosedgeType DEF TypeOK, Clock
  <1>2. resolved' \in [zone : Nat, page : Nat, bound : BOOLEAN]
    BY ResolveType DEF TypeOK, Clock
  <1>3. ram' \in [Zones -> Words] /\ rdata' \in Words
    BY RamAddrType DEF TypeOK, Clock, Regs
  <1> QED BY <1>1, <1>2, <1>3 DEF TypeOK, Clock, Trip

\* What an edge does to the registers of the machine, by state.
LEMMA ClockRegs ==
    ASSUME Clock
    PROVE  /\ rtl'.state = NextState(rtl.state, trigger, HasError(Pins, rdata, rtl.count))
           /\ rtl'.we = IF rtl.state = "EXECUTE" THEN TRUE
                        ELSE IF rtl.state \in {"IDLE", "UPDATE_BRAM"} THEN FALSE ELSE rtl.we
           /\ rtl.state = "UPDATE_BRAM" => rtl'.status = DONE
           /\ rtl.state = "ERROR" => /\ rtl'.status = FAIL
                                     /\ rtl'.err = ErrorCode(Pins, rdata, rtl.count)
           /\ rtl.state = "EXECUTE" => rtl'.wdata = NewWdata(cmd, rdata, rtl.wdata)
           /\ rtl.state # "EXECUTE" => rtl'.count = rtl.count /\ rtl'.wdata = rtl.wdata
  BY DEF Clock, Posedge, Pins

LEMMA InitIInv == Init => IInv
  <1> SUFFICES ASSUME Init PROVE IInv
    OBVIOUS
  <1> USE RtlAssumption, TopAssumption
  <1>1. ZeroWord \in Words
    BY DEF ZeroWord, Words, WptrMod, ByteMod
  <1>2. ResetRegs \in Regs
    BY <1>1 DEF ResetRegs, Regs, States, FREE, FAIL, BUSY, DONE
  <1>3. TypeOK
    BY <1>1, <1>2 DEF Init, TypeOK, Commands
  <1>4. ~trigger /\ Lowered
    BY DEF Init, Lowered, ResetRegs
  <1> QED BY <1>3, <1>4 DEF IInv, Schedule, Follows, Passed, Stored, Thermal

LEMMA StartIInv ==
    ASSUME NEW c \in Commands, NEW a \in LBAs, IInv, Start(c, a)
    PROVE  IInv'
  <1> USE TopAssumption DEF IInv
  <1>1. a \in Nat
    OBVIOUS
  <1>2. TypeOK'
    BY <1>1 DEF TypeOK, Start
  <1>3. rtl.state = "IDLE" /\ ~rtl.we
    BY DEF Start, Lowered, TypeOK
  <1>4. Lowered' /\ Schedule' /\ Follows' /\ Passed' /\ Stored'
    BY <1>3 DEF Lowered, Schedule, Follows, Passed, Stored, Start
  <1>5. hot' \in felt' /\ (AlwaysHot' => hot') /\ (AlwaysCool' => ~hot')
    BY Zenon DEF Start, AlwaysHot, AlwaysCool
  <1>6. ticks' = 0 /\ rtl'.state = "IDLE"
    BY <1>3 DEF Start
  <1>7. Thermal'
    BY <1>5, <1>6 DEF Thermal
  <1> QED BY <1>2, <1>4, <1>7

LEMMA EndIInv == IInv /\ End => IInv'
  <1> SUFFICES ASSUME IInv, End PROVE IInv'
    OBVIOUS
  <1> USE TopAssumption DEF IInv
  <1>1. TypeOK'
    BY DEF TypeOK, End, Commands
  <1>2. Lowered'
    BY DEF Schedule, Lowered, End
  <1> QED BY <1>1, <1>2 DEF Schedule, Follows, Passed, Stored, Thermal, End

LEMMA PauseIInv == IInv /\ Pause => IInv'
  <1> SUFFICES ASSUME IInv, Pause PROVE IInv'
    OBVIOUS
  <1> USE TopAssumption DEF IInv
  <1>1. Clock /\ ~trigger
    BY DEF Pause
  <1>2. TypeOK'
    BY <1>1, ClockType DEF TypeOK, Pause
  <1>3. rtl'.state = "IDLE" /\ ~rtl'.we
    BY <1>1, ClockRegs DEF Lowered, NextState
  <1>4. ~trigger'
    BY DEF Pause
  <1> QED BY <1>2, <1>3, <1>4 DEF Lowered, Schedule, Follows, Passed, Stored, Thermal

LEMMA SenseIInv == IInv /\ Sense => IInv'
  <1> SUFFICES ASSUME IInv, Sense PROVE IInv'
    OBVIOUS
  <1> USE DEF IInv
  <1>1. TypeOK'
    BY DEF TypeOK, Sense
  <1>2. Lowered' /\ Schedule' /\ Follows' /\ Passed' /\ Stored'
    BY DEF Lowered, Schedule, Follows, Passed, Stored, Sense, Target, NewWord, Resolve
  <1>3. trigger => hot' \in felt' /\ ~AlwaysHot' /\ ~AlwaysCool'
    BY DEF TypeOK, Thermal, Sense, AlwaysHot, AlwaysCool
  <1>4. Thermal'
    BY <1>3 DEF Thermal, Sense
  <1> QED BY <1>1, <1>2, <1>4

\* With the trigger up and the resolver settled an edge reads the target's word.
LEMMA HoldReads ==
    ASSUME IInv, Hold, ticks >= 1
    PROVE  /\ RamAddr = Target % NumZones
           /\ resolved' = resolved
           /\ rdata' = ram[Target % NumZones]
           /\ ticks >= 2 /\ rtl.state # "UPDATE_BRAM" => rdata' = rdata
  <1>1. trigger /\ Clock /\ resolved = Resolve(lba)
    BY DEF Hold, IInv, Follows
  <1>2. RamAddr = Target % NumZones
    BY <1>1 DEF RamAddr, BramAddr, Pins, Resolve, Target
  <1> QED BY <1>1, <1>2 DEF Clock, IInv, Follows

\* What a command that the checker lets pass must look like.
LEMMA PassedFacts ==
    ASSUME NEW in, NEW w \in Words, NEW c \in Nat, ~HasError(in, w, c), in.page \in Nat
    PROVE  /\ ~in.bound /\ ~in.thermal
           /\ in.cmd = WRITE => w.wptr = in.page
  BY DEF HasError, ErrorCode, WRITE, READ, RESET, BAD, Words

LEMMA HoldIInv == IInv /\ Hold => IInv'
  <1> SUFFICES ASSUME IInv, Hold PROVE IInv'
    OBVIOUS
  <1> USE TopAssumption DEF IInv
  <1>1. /\ Clock /\ trigger /\ ticks \in Nat /\ ticks < HoldTicks /\ ticks' = ticks + 1
        /\ UNCHANGED <<lba, cmd, trigger, hot, saved, felt>>
    BY DEF Hold, TypeOK
  <1>2. TypeOK'
    BY <1>1, ClockType DEF TypeOK
  <1>3. Lowered'
    BY <1>1 DEF Lowered
  <1>4. Target' = Target /\ Target \in Nat /\ lba % ZoneSize \in Nat /\ NewWord' = NewWord
    BY <1>1, ResolveType DEF Target, TypeOK, NewWord, Written, Erased
  <1>5. Schedule'
    <2>1. /\ ticks = 0 => rtl'.state = "BRAM_READ"
          /\ ticks = 1 => rtl'.state = "BRAM_WAIT"
          /\ ticks = 2 => rtl'.state = "VALIDATE"
          /\ ticks = 3 => rtl'.state \in {"EXECUTE", "ERROR"}
          /\ ticks >= 4 => rtl'.state \in {"UPDATE_BRAM", "ERROR"}
          /\ ticks >= 4 => rtl'.state = "UPDATE_BRAM" <=> rtl.state # "ERROR"
      BY <1>1, ClockRegs DEF Schedule, NextState
    <2>2. rtl'.we <=> ticks = 4 /\ rtl'.state = "UPDATE_BRAM"
      <3>1. rtl.state \notin {"EXECUTE", "UPDATE_BRAM"} => ~rtl.we
        BY <1>1 DEF Schedule
      <3>2. rtl'.we <=> rtl.state = "EXECUTE"
        BY <1>1, <3>1, ClockRegs
      <3>3. rtl.state = "EXECUTE" <=> ticks = 4 /\ rtl'.state = "UPDATE_BRAM"
        BY <1>1, <2>1 DEF Schedule
      <3> QED BY <3>2, <3>3
    <2> QED BY <1>1, <2>1, <2>2 DEF Schedule
  <1>6. Follows'
    <2>1. resolved' = Resolve(lba)
      BY <1>1 DEF Clock
    <2>2. ticks >= 1 /\ rtl'.state # "UPDATE_BRAM" => ram' = ram
      <3>1. ticks >= 1 /\ rtl'.state # "UPDATE_BRAM" => ~rtl.we
        BY <1>1, ClockRegs DEF Schedule, NextState
      <3> QED BY <1>1, <3>1 DEF Clock
    <2>3. ticks >= 1 /\ rtl'.state # "UPDATE_BRAM" => rdata' = ram'[Target % NumZones]
      BY <2>2, HoldReads
    <2> QED BY <1>1, <1>4, <2>1, <2>3 DEF Follows, Resolve
  <1>7. Passed'
    <2>1. CASE rtl.state = "VALIDATE" /\ rtl'.state = "EXECUTE"
      <3>1. ticks = 3 /\ ram = saved /\ rdata = ram[Target % NumZones] /\ resolved = Resolve(lba)
        BY <1>1, <2>1 DEF Schedule, Stored, Follows
      <3>2. ~HasError(Pins, rdata, rtl.count)
        BY <1>1, <2>1, ClockRegs DEF NextState
      <3>3. Pins.page = lba % ZoneSize /\ (Pins.bound <=> Target >= NumZones) /\ Pins.cmd = cmd
        BY <3>1 DEF Pins, Resolve, Target
      <3>4. rdata \in Words /\ rtl.count \in Nat
        BY RtlAssumption DEF TypeOK, Regs
      <3>5. Target < NumZones /\ (cmd = WRITE => rdata.wptr = lba % ZoneSize)
        <4>1. Pins.page \in Nat
          BY <1>4, <3>3
        <4>2. ~Pins.bound /\ (Pins.cmd = WRITE => rdata.wptr = Pins.page)
          BY <3>2, <3>4, <4>1, PassedFacts
        <4> QED BY <1>4, <3>3, <4>2
      <3>6. Target % NumZones = Target
        BY <1>4, <3>5, ModSmall
      <3> QED BY <1>1, <1>4, <3>1, <3>5, <3>6 DEF Passed
    <2>2. CASE rtl.state \in {"EXECUTE", "UPDATE_BRAM"}
      BY <1>1, <1>4, <2>2 DEF Passed
    <2>3. rtl'.state \in {"EXECUTE", "UPDATE_BRAM"} =>
            \/ rtl.state = "VALIDATE" /\ rtl'.state = "EXECUTE"
            \/ rtl.state \in {"EXECUTE", "UPDATE_BRAM"}
      BY <1>1, ClockRegs DEF NextState, TypeOK, Regs, States
    <2> QED BY <2>1, <2>2, <2>3 DEF Passed
  <1>8. Stored'
    <2>1. CASE ~rtl.we /\ rtl.state # "UPDATE_BRAM"
      <3>1. ram' = ram /\ ram = saved
        BY <1>1, <2>1 DEF Clock, Stored
      <3>2. rtl'.state = "UPDATE_BRAM" => rtl.state = "EXECUTE" /\ ticks = 4
        BY <1>1, <2>1, ClockRegs DEF NextState, Schedule, TypeOK, Regs, States
      <3>3. rtl'.state = "UPDATE_BRAM" /\ cmd \in {WRITE, RESET} => rtl'.wdata = NewWord
        <4>1. rtl'.state = "UPDATE_BRAM" => rdata = saved[Target]
          BY <1>1, <1>4, <3>1, <3>2, ModSmall DEF Follows, Passed
        <4> QED BY <1>1, <3>2, <4>1, ClockRegs DEF NewWdata, NewWord, WRITE, RESET
      <3>4. rtl'.state = "ERROR" /\ ticks >= 4 => rtl'.status = FAIL
        <4>1. rtl'.state = "ERROR" /\ ticks >= 4 => rtl.state = "ERROR"
          BY <1>1, ClockRegs DEF NextState, Schedule, TypeOK, Regs, States
        <4> QED BY <1>1, <4>1, ClockRegs
      <3> QED BY <1>1, <1>4, <3>1, <3>2, <3>3, <3>4 DEF Stored
    <2>2. CASE rtl.state = "UPDATE_BRAM"
      <3>1. ticks >= 5 /\ rtl'.state = "UPDATE_BRAM" /\ rtl'.status = DONE
        BY <1>1, <2>2, ClockRegs DEF NextState, Schedule
      <3>2. Target < NumZones /\ RamAddr = Target
        BY <1>1, <1>4, <2>2, <3>1, HoldReads, ModSmall DEF Passed
      <3>3. CASE ticks = 5
        <4>1. ram = saved /\ ram' = [ram EXCEPT ![Target] = rtl.wdata]
          BY <1>1, <2>2, <3>2, <3>3 DEF Clock, Schedule, Stored
        <4>2. cmd \in {WRITE, RESET} => rtl.wdata = NewWord
          BY <1>1, <2>2, <3>3 DEF Stored
        <4>3. (cmd \in {WRITE, RESET})' => ram' = [saved' EXCEPT ![Target'] = NewWord']
          BY <1>1, <1>4, <4>1, <4>2
        <4> QED BY <1>1, <3>1, <3>3, <4>3 DEF Stored
      <3>4. CASE ticks >= 6
        <4>1. ram' = ram
          BY <1>1, <2>2, <3>4 DEF Clock, Schedule
        <4> QED BY <1>1, <1>4, <2>2, <3>1, <3>4, <4>1 DEF Stored
      <3> QED BY <1>1, <3>1, <3>3, <3>4
    <2> QED BY <1>1, <2>1, <2>2 DEF Schedule
  <1>9. Thermal'
    <2>1. (tripped' <=> hot) /\ hot \in felt /\ felt' = felt /\ (hot' <=> hot)
          /\ (AlwaysHot' <=> AlwaysHot) /\ (AlwaysCool' <=> AlwaysCool)
          /\ (AlwaysHot => hot) /\ (AlwaysCool => ~hot)
      BY <1>1 DEF Clock, Trip, Thermal, AlwaysHot, AlwaysCool
    <2>2. rtl'.state = "ERROR" => rtl.state \in {"VALIDATE", "ERROR"} /\ ticks >= 3
      BY <1>1, ClockRegs DEF NextState, Schedule, TypeOK, Regs, States
    <2>3. ASSUME AlwaysHot
          PROVE  /\ ticks >= 3 => rtl'.state = "ERROR"
                 /\ ticks >= 4 => rtl'.err = 8
      <3>1. ticks >= 3 => Pins.thermal
        BY <1>1, <2>3 DEF Thermal, Pins
      <3>2. ticks >= 3 => ErrorCode(Pins, rdata, rtl.count) = 8
        BY <3>1, CodeTypes
      <3>3. ticks >= 4 => rtl.state = "ERROR"
        BY <1>1, <2>3 DEF Thermal
      <3>4. ticks = 3 => rtl.state = "VALIDATE"
        BY <1>1 DEF Schedule
      <3>5. ticks >= 3 => rtl'.state = "ERROR"
        BY <1>1, <3>2, <3>3, <3>4, ClockRegs DEF HasError, NextState
      <3> QED BY <1>1, <3>2, <3>3, <3>5, ClockRegs
    <2>4. ASSUME AlwaysCool, rtl'.state = "ERROR"
          PROVE  /\ HasError(Pins, rdata, rtl.count)'
                 /\ ticks >= 4 => rtl'.err \notin {0, 8}
      <3>1. ~tripped /\ ~tripped' /\ resolved' = resolved
        BY <1>1, <2>1, <2>2, <2>4, HoldReads DEF Thermal
      <3>2. Pins' = Pins /\ ~Pins.thermal
        BY <1>1, <1>2, <3>1 DEF Pins, TypeOK
      <3>3. HasError(Pins, rdata, rtl.count)
        BY <1>1, <2>2, <2>4, ClockRegs DEF NextState, Thermal
      <3>4. rdata' = rdata /\ rtl'.count = rtl.count
        BY <1>1, <2>2, <2>4, HoldReads, ClockRegs
      <3>5. ErrorCode(Pins, rdata, rtl.count) \notin {0, 8}
        BY <3>2, <3>3, CodeTypes DEF HasError
      <3>6. ticks >= 4 => rtl'.err = ErrorCode(Pins, rdata, rtl.count)
        BY <1>1, <2>2, <2>4, ClockRegs DEF Schedule
      <3> QED BY <3>2, <3>3, <3>4, <3>5, <3>6
    <2> QED BY <1>1, <2>1, <2>3, <2>4 DEF Thermal
  <1> QED BY <1>2, <1>3, <1>5, <1>6, <1>7, <1>8, <1>9

\* The invariant is inductive.
LEMMA NextIInv == IInv /\ [Next]_vars => IInv'
  <1> SUFFICES ASSUME IInv, [Next]_vars PROVE IInv'
    OBVIOUS
  <1>1. CASE \E c \in Commands, a \in LBAs : Start(c, a) BY <1>1, StartIInv
  <1>2. CASE Hold BY <1>2, HoldIInv
  <1>3. CASE End BY <1>3, EndIInv
  <1>4. CASE Pause BY <1>4, PauseIInv
  <1>5. CASE Sense BY <1>5, SenseIInv
  <1>6. CASE UNCHANGED vars
    <2>1. TypeOK' /\ Lowered' /\ Schedule'
      BY <1>6 DEF vars, IInv, TypeOK, Lowered, Schedule
    <2>2. Follows' /\ Passed' /\ Stored'
      BY <1>6 DEF vars, IInv, Follows, Passed, Stored, Target, NewWord, Resolve
    <2>3. Thermal'
      BY <1>6 DEF vars, IInv, Thermal, Pins, AlwaysHot, AlwaysCool
    <2> QED BY <2>1, <2>2, <2>3 DEF IInv
  <1> QED BY <1>1, <1>2, <1>3, <1>4, <1>5, <1>6 DEF Next

\* Every reachable state of the synthesised controller satisfies the invariant.
THEOREM Invariant == Spec => []IInv
  BY InitIInv, NextIInv, PTL DEF Spec

-----------------------------------------------------------------------------
\* The rules decide on the current word of the zone the address names: the two
\* states that wait for the resolver and the block RAM are enough.
THEOREM TargetSeen == Spec => []RulesSeeTarget
  <1>1. IInv => RulesSeeTarget
    <2> SUFFICES ASSUME IInv, rtl.state \in {"VALIDATE", "EXECUTE"}
                 PROVE  /\ resolved = Resolve(lba)
                        /\ Target < NumZones => rdata = ram[Target]
      BY DEF RulesSeeTarget
    <2>1. trigger /\ ticks \in Nat /\ lba \in Nat
      BY DEF IInv, TypeOK, Lowered
    <2>2. ticks >= 3
      BY <2>1 DEF IInv, Schedule
    <2>3. Target \in Nat
      BY <2>1, ResolveType DEF Target
    <2>4. Target < NumZones => Target % NumZones = Target
      BY <2>3, ModSmall, TopAssumption
    <2> QED BY <2>1, <2>2, <2>4 DEF IInv, Follows
  <1> QED BY <1>1, Invariant, PTL

\* A store changes the word of the zone the address names, and none for an
\* address past the last zone.
THEOREM StoresCorrect == Spec => StoresOnlyTarget
  <1> DEFINE OnlyTarget == \A z \in Zones : ram'[z] # ram[z] => trigger /\ z = Target
  <1>1. ASSUME IInv, [Next]_vars PROVE [OnlyTarget]_vars
    <2>1. CASE Hold
      <3>1. Clock /\ trigger
        BY <2>1 DEF Hold
      <3>2. rtl.we => /\ ticks = 5 /\ Target < NumZones
                      /\ Target \in Nat
        BY <1>1, <3>1, ResolveType DEF IInv, Schedule, Passed, TypeOK, Target
      <3>3. rtl.we => RamAddr = Target
        BY <1>1, <2>1, <3>2, HoldReads, ModSmall, TopAssumption
      <3> QED BY <1>1, <3>1, <3>3 DEF Clock, IInv, TypeOK
    <2>2. CASE Pause
      <3>1. ~rtl.we /\ Clock
        BY <1>1, <2>2 DEF Pause, IInv, Lowered
      <3> QED BY <3>1 DEF Clock
    <2>3. CASE End \/ Sense \/ \E c \in Commands, a \in LBAs : Start(c, a)
      BY <2>3 DEF End, Sense, Start
    <2> QED BY <1>1, <2>1, <2>2, <2>3 DEF Next
  <1> QED BY <1>1, Invariant, PTL DEF Spec, StoresOnlyTarget

\* When the host looks, the verdict is there and is the truth about the memory.
THEOREM VerdictCorrect == Spec => []VerdictMatchesMemory
  <1>1. IInv => VerdictMatchesMemory
    <2> SUFFICES ASSUME IInv, trigger, ticks = HoldTicks PROVE VerdictMatchesMemory
      BY DEF VerdictMatchesMemory
    <2> USE TopAssumption DEF IInv
    <2>1. CASE rtl.state = "UPDATE_BRAM"
      <3>1. rtl.status = DONE /\ NvmeStatus = 0
        BY <2>1 DEF Stored, NvmeStatus, DONE, FAIL
      <3>2. Target \in Zones /\ saved \in [Zones -> Words]
        <4>1. Target \in Nat
          BY ResolveType DEF TypeOK, Target
        <4> QED BY <2>1, <4>1 DEF Passed, Zones, TypeOK
      <3>3. /\ cmd = WRITE => saved[Target].wptr = lba % ZoneSize
            /\ cmd \in {WRITE, RESET} => ram = [saved EXCEPT ![Target] = NewWord]
        BY <2>1 DEF Passed, Stored
      <3>4. /\ cmd = WRITE => NewWord = Written(saved[Target])
            /\ cmd = RESET => NewWord = Erased(saved[Target])
        BY DEF NewWord, WRITE, RESET
      <3> QED BY <3>1, <3>2, <3>3, <3>4 DEF VerdictMatchesMemory
    <2>2. CASE rtl.state = "ERROR"
      <3>1. NvmeStatus = 256 + rtl.err /\ rtl.err \in Nat
        BY <2>2 DEF Stored, NvmeStatus, TypeOK, Regs
      <3>2. ram = saved
        BY <2>2 DEF Stored
      <3> QED BY <3>1, <3>2 DEF VerdictMatchesMemory
    <2> QED BY <2>1, <2>2 DEF Schedule
  <1> QED BY <1>1, Invariant, PTL

\* The thermal verdict is that of the sensor whenever the sensor held still.
THEOREM ThermalCorrect == Spec => []ThermalVerdict
  <1>1. IInv => ThermalVerdict
    <2> SUFFICES ASSUME IInv, trigger, ticks = HoldTicks PROVE ThermalVerdict
      BY DEF ThermalVerdict
    <2> USE TopAssumption DEF IInv
    <2>1. CASE rtl.state = "UPDATE_BRAM"
      <3>1. NvmeStatus = 0
        BY <2>1 DEF Stored, NvmeStatus, DONE, FAIL
      <3>2. ~AlwaysHot
        BY <2>1 DEF Thermal
      <3>3. NvmeStatus \notin {256, 256 + 8}
        BY <3>1
      <3> QED BY <3>2, <3>3, Zenon DEF ThermalVerdict, AlwaysHot
    <2>2. CASE rtl.state = "ERROR"
      <3>1. NvmeStatus = 256 + rtl.err /\ rtl.err \in Nat
        BY <2>2 DEF Stored, NvmeStatus, TypeOK, Regs
      <3>2. /\ AlwaysHot => rtl.err = 8
            /\ AlwaysCool => rtl.err \notin {0, 8}
        BY <2>2 DEF Thermal
      <3>3. AlwaysHot => NvmeStatus = 256 + 8
        BY <3>1, <3>2
      <3>4. AlwaysCool => NvmeStatus \notin {256, 256 + 8}
        BY <3>1, <3>2
      <3> QED BY <3>3, <3>4 DEF ThermalVerdict, AlwaysHot, AlwaysCool
    <2> QED BY <2>1, <2>2 DEF Schedule
  <1> QED BY <1>1, Invariant, PTL
=============================================================================
