----------------------------- MODULE NbdProofs ------------------------------
(***************************************************************************)
(* The simulator process for every zone size, zone count, limit and set of *)
(* requests, when NBD and management clients take turns: every WRITE gets  *)
(* a verdict, and between requests the RTL is at rest in one of four       *)
(* states.                                                                 *)
(***************************************************************************)
EXTENDS NbdClients, TLAPS

\* Registers that depend on the state alone: the status says BUSY until the
\* verdict, and a store is pending only in the first tick after EXECUTE.
Pipeline ==
    /\ rtl.state \in States
    /\ rtl.state \in {"BRAM_WAIT", "VALIDATE", "EXECUTE"} => rtl.status = BUSY
    /\ rtl.state = "ERROR" => rtl.status \in {BUSY, FAIL}
    /\ rtl.we => rtl.state = "UPDATE_BRAM"
    /\ rtl.state = "UPDATE_BRAM" => \/ rtl.status = BUSY
                                    \/ rtl.status = DONE /\ ~rtl.we

AtRest == {"IDLE", "BRAM_WAIT", "EXECUTE", "ERROR"}

Boundary == rtl.state \in AtRest /\ ~io.trigger
Started  == rtl.state \in AtRest /\ io.trigger
HalfWay  == rtl.state \in {"BRAM_READ", "VALIDATE", "UPDATE_BRAM", "ERROR"} /\ ~io.trigger
Verdict  == /\ rtl.state \in {"UPDATE_BRAM", "ERROR"} /\ ~io.trigger
            /\ status \in {DONE, FAIL}

\* The polls a WRITE can have made by the time it reaches a state.
Polling ==
    /\ io.trigger /\ polls \in 0..5
    /\ rtl.state = "IDLE"       => polls = 0
    /\ rtl.state = "BRAM_READ"  => polls <= 1
    /\ rtl.state = "BRAM_WAIT"  => polls <= 2
    /\ rtl.state = "VALIDATE"   => polls <= 3
    /\ rtl.state \in {"EXECUTE", "ERROR"} => polls <= 4
    /\ rtl.state = "UPDATE_BRAM" => rtl.status = BUSY

\* The wires and the threads' control points; one thread at a time drives the
\* RTL because the clients take turns.
Threads ==
    /\ request \in Requests \cup {None}
    /\ mzone \in Nat
    /\ mpc \in {"accept", "command", "status", "tick", "clear", "ack"}
    /\ npc \in {"accept", "recv", "read_status", "trim_status", "read_end", "trim_end",
                "write_status", "write_end"}
    /\ mpc # "accept" => NbdIdle

Resting == npc \in {"accept", "recv"} /\ mpc \in {"accept", "command", "clear", "ack"}

Stage ==
    /\ Resting => Boundary
    /\ mpc = "status" \/ npc \in {"read_status", "trim_status"} => Started
    /\ mpc = "tick" \/ npc \in {"read_end", "trim_end"} => HalfWay
    /\ npc = "write_status" => Polling
    /\ npc = "write_end" => Verdict

NInv == io \in Pins /\ Pipeline /\ Threads /\ Stage

-----------------------------------------------------------------------------
\* What one clock tick does to state, status and write enable.
LEMMA TickStep ==
    ASSUME Pipeline, Tick(io)
    PROVE  /\ rtl.state = "IDLE" /\ ~io.trigger => rtl'.state = "IDLE"
           /\ rtl.state = "IDLE" /\ io.trigger => rtl'.state = "BRAM_READ"
           /\ rtl.state = "IDLE" => rtl'.status = FREE
           /\ rtl.state = "BRAM_READ" => rtl'.state = "BRAM_WAIT" /\ rtl'.status = BUSY
           /\ rtl.state = "BRAM_WAIT" => rtl'.state = "VALIDATE" /\ rtl'.status = BUSY
           /\ rtl.state = "VALIDATE" => rtl'.state \in {"EXECUTE", "ERROR"} /\ rtl'.status = BUSY
           /\ rtl.state = "EXECUTE" => rtl'.state = "UPDATE_BRAM" /\ rtl'.status = BUSY
           /\ rtl.state = "UPDATE_BRAM" => rtl'.status = DONE
           /\ rtl.state = "ERROR" => rtl'.status = FAIL
           /\ rtl.state \in {"UPDATE_BRAM", "ERROR"} =>
                 rtl'.state = IF io.trigger THEN rtl.state ELSE "IDLE"
           /\ Pipeline'
  <1>1. PICK e : e = HasError(io, Rdata, rtl.count)
    OBVIOUS
  <1>2. rtl'.state = NextState(rtl.state, io.trigger, e)
    BY <1>1 DEF Tick, Posedge
  <1>3. rtl'.status = IF rtl.state = "IDLE"             THEN FREE
                      ELSE IF rtl.state = "BRAM_READ"   THEN BUSY
                      ELSE IF rtl.state = "ERROR"       THEN FAIL
                      ELSE IF rtl.state = "UPDATE_BRAM" THEN DONE
                      ELSE rtl.status
    BY DEF Tick, Posedge
  <1>4. /\ rtl.state \in {"IDLE", "UPDATE_BRAM"} => ~rtl'.we
        /\ rtl.state \notin {"IDLE", "UPDATE_BRAM", "EXECUTE"} => ~rtl'.we
    BY DEF Tick, Posedge, Pipeline
  <1>5. /\ rtl.state = "IDLE" /\ ~io.trigger => rtl'.state = "IDLE"
        /\ rtl.state = "IDLE" /\ io.trigger => rtl'.state = "BRAM_READ"
        /\ rtl.state = "BRAM_READ" => rtl'.state = "BRAM_WAIT"
        /\ rtl.state = "BRAM_WAIT" => rtl'.state = "VALIDATE"
        /\ rtl.state = "VALIDATE" => rtl'.state \in {"EXECUTE", "ERROR"}
        /\ rtl.state = "EXECUTE" => rtl'.state = "UPDATE_BRAM"
        /\ rtl.state \in {"UPDATE_BRAM", "ERROR"} =>
              rtl'.state = IF io.trigger THEN rtl.state ELSE "IDLE"
    BY <1>2 DEF NextState
  <1>6. /\ rtl.state = "IDLE" => rtl'.status = FREE
        /\ rtl.state \in {"BRAM_READ", "BRAM_WAIT", "VALIDATE", "EXECUTE"} => rtl'.status = BUSY
        /\ rtl.state = "UPDATE_BRAM" => rtl'.status = DONE
        /\ rtl.state = "ERROR" => rtl'.status = FAIL
    BY <1>3 DEF Pipeline
  <1>7. rtl.state \in {"IDLE", "BRAM_READ", "BRAM_WAIT", "VALIDATE", "EXECUTE",
                       "UPDATE_BRAM", "ERROR"}
    BY DEF Pipeline, States
  <1>8. Pipeline'
    BY <1>4, <1>5, <1>6, <1>7 DEF Pipeline, States
  <1> QED BY <1>5, <1>6, <1>8

\* The two ticks of a command that does not wait for its verdict.
LEMMA TwoTicks ==
    ASSUME Pipeline, Tick(io)
    PROVE  /\ Started => rtl'.state \in {"BRAM_READ", "VALIDATE", "UPDATE_BRAM", "ERROR"}
           /\ HalfWay => rtl'.state \in AtRest
           /\ Verdict => rtl'.state = "IDLE"
           /\ Pipeline'
  BY TickStep DEF Started, HalfWay, Verdict, AtRest

\* A request on the wire is one a client may send, and names a zone.
LEMMA WireRequest ==
    ASSUME Threads, request.type # "NONE"
    PROVE  /\ request # None /\ request \in Requests
           /\ TargetZone(request) \in Nat /\ TargetPage(request) \in Nat
  <1>1. request # None /\ request \in Requests
    BY DEF Threads, None
  <1>2. request.from \in Nat
    BY <1>1, ServerAssumption DEF Request, DiskPages
  <1> QED BY <1>1, <1>2, RtlAssumption DEF TargetZone, TargetPage

LEMMA InitNInv == ServerInit => NInv
  BY DEF ServerInit, BridgeInit, ResetRegs, NInv, Pins, Pipeline, States, Threads, Stage,
         Resting, Boundary, AtRest, FREE, BUSY, FAIL, DONE

\* Steps that leave the RTL and its pins alone and stay between requests.
LEMMA RestStep ==
    ASSUME NInv, UNCHANGED <<io, rtl>>, Resting, Resting', Threads'
    PROVE  NInv'
  <1>1. Boundary'
    BY DEF NInv, Stage, Boundary
  <1>2. Pipeline' /\ io' \in Pins
    BY DEF NInv, Pipeline
  <1> QED BY <1>1, <1>2 DEF NInv, Stage, Resting

LEMMA ClientSteps ==
    ASSUME NInv, Concurrent = FALSE,
           \/ Receive \/ MgmtAck
           \/ \E r \in Requests : Send(r)
           \/ \E z \in MgmtZones : MgmtConnect(z)
    PROVE  NInv'
  <1>1. UNCHANGED <<io, rtl, npc, status, polls>>
    BY DEF Receive, MgmtAck, Send, MgmtConnect, bridgeVars, nbdVars
  <1>2. CASE Receive
    <2>1. UNCHANGED <<request, mpc, mzone>> /\ reply' = None
      BY <1>2 DEF Receive, mgmtVars
    <2> QED BY <1>1, <2>1 DEF NInv, Pipeline, Threads, NbdIdle, Stage, Resting, Boundary, Started,
                              HalfWay, Polling, Verdict
  <1>3. CASE MgmtAck
    <2>1. UNCHANGED <<request, reply, mzone>> /\ mpc = "ack" /\ mpc' = "accept"
      BY <1>3 DEF MgmtAck, wire
    <2>2. Resting /\ Resting' /\ Threads'
      BY <1>1, <2>1 DEF NInv, Threads, NbdIdle, Resting
    <2> QED BY <1>1, <2>2, RestStep
  <1>4. ASSUME NEW r \in Requests, Send(r) PROVE NInv'
    <2>1. UNCHANGED <<reply, mpc, mzone>> /\ request' = r /\ NbdIdle /\ mpc = "accept"
      BY <1>4 DEF Send, mgmtVars, MgmtIdle
    <2>2. Resting /\ Resting' /\ Threads'
      BY <1>1, <2>1 DEF NInv, Threads, NbdIdle, Resting
    <2> QED BY <1>1, <2>2, RestStep
  <1>5. ASSUME NEW z \in MgmtZones, MgmtConnect(z) PROVE NInv'
    <2>1. UNCHANGED <<request, reply>> /\ mpc = "accept" /\ mpc' = "command" /\ mzone' = z /\ NbdIdle
      BY <1>5 DEF MgmtConnect, wire, MgmtIdle
    <2>2. z \in Nat
      BY ServerAssumption, BridgeAssumption DEF Zones
    <2>3. Resting /\ Resting' /\ Threads'
      BY <1>1, <2>1, <2>2 DEF NInv, Threads, NbdIdle, Resting
    <2> QED BY <1>1, <2>3, RestStep
  <1> QED BY <1>2, <1>3, <1>4, <1>5

LEMMA MgmtSteps == ASSUME NInv, MgmtThread PROVE NInv'
  <1>1. CASE MgmtCommand
    <2>1. /\ mpc = "command" /\ mpc' = "status"
          /\ io' = [io EXCEPT !.cmd = RESET, !.zone = mzone, !.trigger = TRUE]
          /\ UNCHANGED <<rtl, request, reply, npc, status, polls, mzone>>
      BY <1>1 DEF MgmtCommand, Command, wire, nbdVars
    <2>2. Threads' /\ npc \in {"accept", "recv"}
      BY <2>1 DEF NInv, Threads, NbdIdle
    <2>3. io' \in Pins /\ io'.trigger
      BY <2>1 DEF NInv, Pins, Threads
    <2>4. Started' /\ Pipeline'
      BY <2>1, <2>2, <2>3 DEF NInv, Stage, Resting, Boundary, Started, Pipeline
    <2> QED BY <2>1, <2>2, <2>3, <2>4 DEF NInv, Stage, Resting
  <1>2. CASE MgmtStatus
    <2>1. /\ mpc = "status" /\ mpc' = "tick" /\ Tick(io)
          /\ io' = [io EXCEPT !.trigger = FALSE]
          /\ UNCHANGED <<request, reply, npc, status, polls, mzone>>
      BY <1>2 DEF MgmtStatus, wire, nbdVars
    <2>2. Threads' /\ npc \in {"accept", "recv"}
      BY <2>1 DEF NInv, Threads, NbdIdle
    <2>3. io' \in Pins /\ ~io'.trigger
      BY <2>1 DEF NInv, Pins
    <2>4. HalfWay' /\ Pipeline'
      BY <2>1, <2>3, TwoTicks DEF NInv, Stage, HalfWay
    <2> QED BY <2>1, <2>2, <2>3, <2>4 DEF NInv, Stage, Resting
  <1>3. CASE MgmtTick
    <2>1. /\ mpc = "tick" /\ mpc' = "clear" /\ Tick(io)
          /\ UNCHANGED <<io, request, reply, npc, status, polls, mzone>>
      BY <1>3 DEF MgmtTick, wire, nbdVars
    <2>2. Threads' /\ npc \in {"accept", "recv"}
      BY <2>1 DEF NInv, Threads, NbdIdle
    <2>3. HalfWay
      BY <2>1 DEF NInv, Stage
    <2>4. Boundary' /\ Pipeline'
      BY <2>1, <2>3, TwoTicks DEF NInv, HalfWay, Boundary
    <2> QED BY <2>1, <2>2, <2>4 DEF NInv, Stage, Resting
  <1>4. CASE MgmtClear
    <2>1. /\ mpc = "clear" /\ mpc' = "ack"
          /\ UNCHANGED <<io, rtl, request, reply, npc, status, polls, mzone>>
      BY <1>4 DEF MgmtClear, wire, nbdVars
    <2>2. Resting /\ Resting' /\ Threads'
      BY <2>1 DEF NInv, Threads, NbdIdle, Resting
    <2> QED BY <2>1, <2>2, RestStep
  <1> QED BY <1>1, <1>2, <1>3, <1>4 DEF MgmtThread

\* A thread that serves a request has the machine to itself.
LEMMA NbdAlone ==
    ASSUME Threads, npc \notin {"accept", "recv"} \/ request # None
    PROVE  mpc = "accept"
  BY DEF Threads, NbdIdle

LEMMA ReceiveSteps ==
    ASSUME NInv,
           \/ AcceptClient \/ ReceiveRead \/ ReceiveWrite \/ ReceiveTrim
           \/ ReceiveOther \/ ReceiveClose
    PROVE  NInv'
  <1>1. npc \in {"accept", "recv"} /\ mpc = "accept" /\ UNCHANGED <<rtl, mpc, mzone>>
    <2>1. npc \in {"accept", "recv"} /\ request # None
      BY DEF AcceptClient, ReceiveRead, ReceiveWrite, ReceiveTrim, ReceiveOther, ReceiveClose, None
    <2>2. mpc = "accept"
      BY <2>1, NbdAlone DEF NInv
    <2> QED BY <2>1, <2>2 DEF AcceptClient, ReceiveRead, ReceiveWrite, ReceiveTrim, ReceiveOther,
                              ReceiveClose, bridgeVars, mgmtVars
  <1>2. Boundary /\ Resting /\ Pipeline'
    BY <1>1 DEF NInv, Stage, Resting, Pipeline
  <1>3. CASE AcceptClient \/ ReceiveOther \/ ReceiveClose
    <2>1. io' = io /\ npc' \in {"accept", "recv"} /\ (request' = request \/ request' = None)
      BY <1>3 DEF AcceptClient, ReceiveOther, ReceiveClose, bridgeVars, wire
    <2>2. Resting' /\ Threads'
      BY <1>1, <2>1 DEF Resting, NInv, Threads
    <2> QED BY <1>1, <1>2, <2>1, <2>2, RestStep
  <1>4. CASE ReceiveRead \/ ReceiveTrim
    <2>1. /\ npc' \in {"read_status", "trim_status"} /\ request' = None
          /\ request.type # "NONE"
      BY <1>4 DEF ReceiveRead, ReceiveTrim
    <2>2. TargetZone(request) \in Nat /\ TargetPage(request) \in Nat
      BY <2>1, WireRequest DEF NInv
    <2>3. io' \in Pins /\ io'.trigger
      <3>1. CASE ReceiveRead
        BY <2>2, <3>1 DEF ReceiveRead, Command, NInv, Pins
      <3>2. CASE ReceiveTrim
        BY <2>2, <3>2 DEF ReceiveTrim, Command, NInv, Pins
      <3> QED BY <1>4, <3>1, <3>2
    <2>4. Started'
      BY <1>1, <1>2, <2>3 DEF Boundary, Started
    <2>5. Threads'
      BY <1>1, <2>1 DEF NInv, Threads
    <2> QED BY <1>1, <1>2, <2>1, <2>3, <2>4, <2>5 DEF NInv, Stage, Resting
  <1>5. CASE ReceiveWrite
    <2>1. npc' = "write_status" /\ request' = None /\ request.type # "NONE" /\ polls' = 0
      BY <1>5 DEF ReceiveWrite
    <2>2. TargetZone(request) \in Nat /\ TargetPage(request) \in Nat
      BY <2>1, WireRequest DEF NInv
    <2>3. io' \in Pins /\ io'.trigger
      BY <1>5, <2>2 DEF ReceiveWrite, Command, NInv, Pins
    <2>4. Polling'
      BY <1>1, <1>2, <2>1, <2>3 DEF Boundary, AtRest, Polling
    <2>5. Threads'
      BY <1>1, <2>1 DEF NInv, Threads
    <2> QED BY <1>1, <1>2, <2>1, <2>3, <2>4, <2>5 DEF NInv, Stage, Resting
  <1> QED BY <1>3, <1>4, <1>5

\* READ and TRIM: one tick with the trigger high, one with it low.
LEMMA OneStatusStep == ASSUME NInv, OneStatus PROVE NInv'
  <1>1. /\ npc \in {"read_status", "trim_status"} /\ npc' \in {"read_end", "trim_end"}
        /\ Tick(io) /\ io' = [io EXCEPT !.trigger = FALSE]
        /\ UNCHANGED <<request, mpc, mzone>>
    BY DEF OneStatus, wire, mgmtVars
  <1>2. mpc = "accept" /\ Started /\ Pipeline
    BY <1>1, NbdAlone DEF NInv, Stage
  <1>3. io' \in Pins /\ ~io'.trigger
    BY <1>1 DEF NInv, Pins
  <1>4. HalfWay' /\ Pipeline'
    BY <1>1, <1>2, <1>3, TwoTicks DEF HalfWay
  <1>5. Threads'
    BY <1>1, <1>2 DEF NInv, Threads
  <1> QED BY <1>1, <1>2, <1>3, <1>4, <1>5 DEF NInv, Stage, Resting

\* The tick that ends a request, and what it leaves.
LEMMA EndSteps == ASSUME NInv, EndRead \/ EndWrite \/ EndTrim PROVE NInv'
  <1>1. /\ npc \in {"read_end", "trim_end", "write_end"} /\ npc' = "recv"
        /\ Tick(io) /\ UNCHANGED <<io, request, mpc, mzone>>
    BY DEF EndRead, EndWrite, EndTrim, mgmtVars
  <1>2. mpc = "accept" /\ Pipeline
    BY <1>1, NbdAlone DEF NInv
  <1>3. HalfWay \/ Verdict
    BY <1>1 DEF NInv, Stage
  <1>4. Boundary' /\ Pipeline'
    BY <1>1, <1>2, <1>3, TwoTicks DEF HalfWay, Verdict, Boundary, AtRest
  <1>5. Threads'
    BY <1>1, <1>2 DEF NInv, Threads
  <1> QED BY <1>1, <1>2, <1>4, <1>5 DEF NInv, Stage, Resting

\* The polling loop: six polls at most.
LEMMA WriteStatusStep == ASSUME NInv, WriteStatus PROVE NInv'
  <1>1. npc = "write_status" /\ Tick(io) /\ status' = rtl'.status /\ UNCHANGED <<request, mpc, mzone>>
    BY DEF WriteStatus, wire, mgmtVars
  <1>2. mpc = "accept" /\ Polling /\ Pipeline
    BY <1>1, NbdAlone DEF NInv, Stage
  <1>3. Pipeline' /\ rtl.state \in {"IDLE", "BRAM_READ", "BRAM_WAIT", "VALIDATE", "EXECUTE",
                                    "UPDATE_BRAM", "ERROR"}
    BY <1>1, <1>2, TickStep DEF Pipeline, States
  <1>4. PICK b \in BOOLEAN : b = (npc' = "write_status")
    BY Zenon
  <1>5. io' = [io EXCEPT !.trigger = b] /\ (b <=> npc' = "write_status")
    BY <1>4, Zenon DEF WriteStatus
  <1>6. io' \in Pins /\ io'.trigger = b
    BY <1>5 DEF NInv, Pins
  <1>7. CASE rtl.state \in {"UPDATE_BRAM", "ERROR"}
    <2>1. rtl'.status \in {DONE, FAIL} /\ rtl'.state = rtl.state
      BY <1>1, <1>2, <1>7, TickStep DEF Polling
    <2>2. npc' = "write_end"
      BY <2>1 DEF WriteStatus, FREE, BUSY, DONE, FAIL
    <2>3. Verdict'
      BY <1>1, <1>5, <1>6, <1>7, <2>1, <2>2 DEF Verdict
    <2>4. Threads'
      BY <1>1, <1>2, <2>2 DEF NInv, Threads
    <2> QED BY <1>1, <1>2, <1>3, <1>6, <2>2, <2>3, <2>4 DEF NInv, Stage, Resting
  <1>8. CASE rtl.state \notin {"UPDATE_BRAM", "ERROR"}
    <2>1. rtl'.status \in {FREE, BUSY}
      BY <1>1, <1>2, <1>3, <1>8, TickStep
    <2>2. polls' = polls + 1 /\ npc' = IF polls' < MaxPolls THEN "write_status" ELSE "write_end"
      BY <2>1 DEF WriteStatus, FREE, BUSY, DONE, FAIL
    <2>3. polls \in 0..4
      BY <1>2, <1>3, <1>8 DEF Polling
    <2>4. npc' = "write_status"
      BY <2>2, <2>3 DEF MaxPolls
    <2>5. Polling'
      BY <1>1, <1>2, <1>3, <1>5, <1>6, <1>8, <2>2, <2>3, <2>4, TickStep DEF Polling
    <2>6. Threads'
      BY <1>1, <1>2, <2>4 DEF NInv, Threads
    <2> QED BY <1>1, <1>2, <1>3, <1>6, <2>4, <2>5, <2>6 DEF NInv, Stage, Resting
  <1> QED BY <1>7, <1>8

LEMMA NextNInv ==
    ASSUME Concurrent = FALSE, NInv, [Next]_serverVars
    PROVE  NInv'
  <1>1. CASE UNCHANGED serverVars
    BY <1>1 DEF serverVars, bridgeVars, wire, nbdVars, mgmtVars, NInv, Pipeline, Threads, NbdIdle,
                Stage, Resting, Boundary, Started, HalfWay, Polling, Verdict
  <1>2. CASE NbdThread
    BY <1>2, ReceiveSteps, OneStatusStep, EndSteps, WriteStatusStep DEF NbdThread
  <1>3. CASE MgmtThread
    BY <1>3, MgmtSteps
  <1> QED BY <1>1, <1>2, <1>3, ClientSteps DEF Next

-----------------------------------------------------------------------------
\* nbd_server.cpp, the WRITE loop: while (timeout < 10) always ends on a verdict
\* of the RTL, in whatever state earlier READs, TRIMs and resets left it.
THEOREM DecidedCorrect ==
    ASSUME Concurrent = FALSE
    PROVE  Spec => []WriteAlwaysDecided
  <1>1. NInv /\ [Next]_serverVars => NInv'
    BY NextNInv
  <1>2. NInv => WriteAlwaysDecided
    BY DEF NInv, Stage, Verdict, WriteAlwaysDecided
  <1> QED BY <1>1, <1>2, InitNInv, PTL DEF Spec

\* Between requests the RTL is in one of four states, with its trigger low and
\* no store issued (an EXECUTE left over issues one at its next tick).
THEOREM BoundaryCorrect ==
    ASSUME Concurrent = FALSE
    PROVE  Spec => []BoundaryStates
  <1>1. NInv /\ [Next]_serverVars => NInv'
    BY NextNInv
  <1>2. NInv => BoundaryStates
    BY DEF NInv, Stage, Resting, Boundary, AtRest, Pipeline, BoundaryStates
  <1> QED BY <1>1, <1>2, InitNInv, PTL DEF Spec

\* nbd_server.cpp: the single tick after a WRITE's verdict brings the machine
\* back to IDLE, from the error path as from the success path.
THEOREM IdleCorrect ==
    ASSUME Concurrent = FALSE
    PROVE  Spec => WriteEndsIdle
  <1>1. NInv /\ [Next]_serverVars => NInv'
    BY NextNInv
  <1> DEFINE Ends == npc = "write_end" /\ npc' = "recv" => rtl'.state = "IDLE"
  <1>2. ASSUME NInv, [Next]_serverVars PROVE [Ends]_serverVars
    <2> SUFFICES ASSUME Next, npc = "write_end", npc' = "recv" PROVE rtl'.state = "IDLE"
      BY <1>2
    <2>1. EndWrite
      <3>1. mpc = "accept"
        BY <1>2, NbdAlone DEF NInv
      <3>2. NbdThread
        BY <3>1 DEF Next, MgmtThread, MgmtCommand, MgmtStatus, MgmtTick, MgmtClear, Receive,
                    MgmtAck, Send, MgmtConnect, NbdIdle, nbdVars
      <3> QED BY <3>2 DEF NbdThread, AcceptClient, ReceiveRead, ReceiveWrite, ReceiveTrim,
                          ReceiveOther, ReceiveClose, OneStatus, EndRead, WriteStatus, EndTrim
    <2>2. Tick(io) /\ Verdict /\ Pipeline
      BY <1>2, <2>1 DEF EndWrite, NInv, Stage
    <2> QED BY <2>2, TwoTicks
  <1> QED BY <1>1, <1>2, InitNInv, PTL DEF Spec, WriteEndsIdle
=============================================================================
