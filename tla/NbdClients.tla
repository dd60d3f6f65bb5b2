----------------------------- MODULE NbdClients -----------------------------
(***************************************************************************)
(* The simulator process with clients that may send anything it accepts:   *)
(* one NBD client at a time and one management client.  When Concurrent is *)
(* FALSE they take turns, as the bundled host does: it resets a zone while *)
(* it holds the lock that also guards its NBD socket.                      *)
(***************************************************************************)
EXTENDS NbdServer

NbdIdle  == npc \in {"accept", "recv"} /\ request = None /\ reply = None
MgmtIdle == mpc = "accept"

Send(r) ==
    /\ NbdIdle
    /\ Concurrent \/ MgmtIdle
    /\ request' = r
    /\ UNCHANGED <<bridgeVars, reply, nbdVars, disk, mgmtVars>>

Receive ==
    /\ reply # None
    /\ reply' = None
    /\ UNCHANGED <<bridgeVars, request, nbdVars, disk, mgmtVars>>

\* The connection and its 8-byte zone id.
MgmtConnect(z) ==
    /\ MgmtIdle
    /\ Concurrent \/ NbdIdle
    /\ mzone' = z
    /\ mpc' = "command"
    /\ UNCHANGED <<bridgeVars, wire, nbdVars, disk>>

MgmtAck ==
    /\ mpc = "ack"
    /\ mpc' = "accept"
    /\ UNCHANGED <<bridgeVars, wire, nbdVars, disk, mzone>>

Next ==
    \/ NbdThread
    \/ MgmtThread
    \/ Receive
    \/ MgmtAck
    \/ \E r \in Requests : Send(r)
    \/ \E z \in MgmtZones : MgmtConnect(z)

\* Both threads keep running; clients need not send, but read their answers.
Spec == /\ ServerInit
        /\ [][Next]_serverVars
        /\ WF_serverVars(NbdThread)
        /\ WF_serverVars(MgmtThread)
        /\ WF_serverVars(Receive)
        /\ WF_serverVars(MgmtAck)

-----------------------------------------------------------------------------
\* The polling loop of a WRITE always ends with a verdict of the RTL, in
\* whatever state earlier requests left the pipeline: the branch that treats
\* ten polls without a verdict as success is never taken.
WriteAlwaysDecided == npc = "write_end" => status \in {DONE, FAIL}

\* nbd_server.cpp: dropping the trigger and ticking once after a WRITE brings
\* the machine back to IDLE.
WriteEndsIdle ==
    [][npc = "write_end" /\ npc' = "recv" => rtl'.state = "IDLE"]_serverVars

\* READ, TRIM and management resets do not wait for a verdict and leave the
\* machine in mid-command.  Between requests it is in one of four states, with
\* no store issued and the trigger low.  EXECUTE is among them: the next request
\* then opens with a store nobody decided, into the zone of the request before,
\* which may be the word a WRITE has just forced there.
BoundaryStates ==
    npc \in {"accept", "recv"} /\ mpc \in {"accept", "command", "ack"} =>
        /\ rtl.state \in {"IDLE", "BRAM_WAIT", "EXECUTE", "ERROR"}
        /\ ~rtl.we
        /\ ~io.trigger

\* Every request but CLOSE is answered and every reset acknowledged, although
\* no status the loops wait for is guaranteed to come.
EveryRequestAnswered ==
    /\ (request # None /\ request.type # "CLOSE") ~> reply # None
    /\ mpc = "command" ~> mpc = "ack"
=============================================================================
