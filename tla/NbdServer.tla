----------------------------- MODULE NbdServer ------------------------------
(***************************************************************************)
(* The simulator process zns_nbd_server: the NBD transmission loop         *)
(* (nbd_server.cpp) and the management thread (sim_main.cpp), both driving *)
(* the same RTL through the bridge, with no lock between them.  The user   *)
(* data is an array of pages, user_disk_storage, beside the metadata.      *)
(*                                                                         *)
(* One step is one group of sim_set_* calls, one tick or one block of      *)
(* memory updates of one thread.  The connection is a request slot and a   *)
(* reply slot: the clients of this server wait for each reply.             *)
(***************************************************************************)
EXTENDS HardwareBridge, FiniteSets

CONSTANTS Requests,    \* requests a client sends
          MgmtZones,   \* zone ids sent to the management socket
          Concurrent   \* TRUE: management clients do not wait for NBD ones

\* Mutant: the loop gives up after three polls.
FewPolls == 3

MaxPolls == 10         \* while (timeout < 10)

DiskPages == 0..(NumZones * ZoneSize - 1)
Data      == 0..3      \* page contents; 0 is a page of zero bytes
Types     == {"READ", "WRITE", "TRIM", "FLUSH", "CLOSE", "OTHER"}

\* from is the first page, len the number of pages; a write carries data for
\* each page (one value here).  CLOSE is a DISCONNECT, the end of the stream
\* or a wrong magic: each leaves the loop.
Request == [type : Types, from : DiskPages, len : Nat \ {0}, data : Data]
Extent(r) == r.from .. (r.from + r.len - 1)

ASSUME ServerAssumption ==
    /\ Requests \subseteq Request
    /\ \A r \in Requests : Extent(r) \subseteq DiskPages
    /\ MgmtZones \subseteq Zones
    /\ Concurrent \in BOOLEAN

None == [type |-> "NONE"]
OK     == "OK"
EIO    == "EIO"
EINVAL == "EINVAL"

VARIABLES request,   \* the request on the wire, or None
          reply,     \* the reply on the wire, or None
          npc,       \* control point of the NBD thread
          req,       \* the request it is serving
          status,    \* its local status variable
          polls,     \* its local timeout counter
          disk,      \* user_disk_storage
          mpc,       \* control point of the management thread
          mzone      \* the zone id it received

wire       == <<request, reply>>
nbdVars    == <<npc, req, status, polls>>
mgmtVars   == <<mpc, mzone>>
serverVars == <<bridgeVars, wire, nbdVars, disk, mgmtVars>>

TargetZone(r) == r.from \div ZoneSize
TargetPage(r) == r.from % ZoneSize

\* The reply names its request by the handle it copies.
Answer(err, data) == [type |-> req.type, err |-> err, data |-> data]
NoData == <<>>

\* The loop's locals are dead once the reply is sent.
EndOfRequest == req' = None /\ status' = FREE /\ polls' = 0

ServerInit ==
    /\ BridgeInit
    /\ request = None /\ reply = None
    /\ npc = "accept" /\ req = None
    /\ status = FREE /\ polls = 0
    /\ disk = [p \in DiskPages |-> 0]
    /\ mpc = "accept" /\ mzone = 0

(***************************************************************************)
(* start_nbd_server_mod and handle_nbd_transmission_loop.                  *)
(***************************************************************************)
AcceptClient ==
    /\ npc = "accept"
    /\ request # None
    /\ npc' = "recv"
    /\ UNCHANGED <<bridgeVars, wire, req, status, polls, disk, mgmtVars>>

\* sim_set_io_cmd, sim_set_validated_zone_id and sim_set_io_trigger(1).
Command(cmd, z) == [io EXCEPT !.cmd = cmd, !.zone = z, !.trigger = TRUE]

ReceiveRead ==
    /\ npc = "recv" /\ request.type = "READ"
    /\ io' = [Command(READ, TargetZone(request)) EXCEPT !.page = TargetPage(request)]
    /\ req' = request /\ request' = None
    /\ npc' = "read_status"
    /\ UNCHANGED <<rtl, addr, latch, bram, reply, status, polls, disk, mgmtVars>>

\* The write pointer is forced to the page about to be written and the full
\* flag cleared, whatever the zone held; only the erase count is kept.
ReceiveWrite ==
    /\ npc = "recv" /\ request.type = "WRITE"
    /\ bram' = [bram EXCEPT ![TargetZone(request)] =
                  [wptr |-> TargetPage(request), full |-> FALSE, erase |-> @.erase]]
    /\ io' = [Command(WRITE, TargetZone(request)) EXCEPT !.page = TargetPage(request)]
    /\ req' = request /\ request' = None
    /\ status' = FREE /\ polls' = 0
    /\ npc' = "write_status"
    /\ UNCHANGED <<rtl, addr, latch, reply, disk, mgmtVars>>

\* A trim leaves the page pin as it is.
ReceiveTrim ==
    /\ npc = "recv" /\ request.type = "TRIM"
    /\ io' = Command(RESET, TargetZone(request))
    /\ req' = request /\ request' = None
    /\ npc' = "trim_status"
    /\ UNCHANGED <<rtl, addr, latch, bram, reply, status, polls, disk, mgmtVars>>

ReceiveOther ==
    /\ npc = "recv" /\ request.type \in {"FLUSH", "OTHER"}
    /\ reply' = [type |-> request.type, data |-> NoData,
                 err |-> IF request.type = "FLUSH" THEN OK ELSE EINVAL]
    /\ request' = None
    /\ UNCHANGED <<bridgeVars, npc, req, status, polls, disk, mgmtVars>>

ReceiveClose ==
    /\ npc = "recv" /\ request.type = "CLOSE"
    /\ request' = None
    /\ npc' = "accept"
    /\ UNCHANGED <<bridgeVars, reply, req, status, polls, disk, mgmtVars>>

\* Mutant: the trigger stays high.
OneStatusHeld ==
    /\ npc \in {"read_status", "trim_status"}
    /\ Tick(io)
    /\ status' = rtl'.status
    /\ io' = io
    /\ npc' = IF npc = "read_status" THEN "read_end" ELSE "trim_end"
    /\ UNCHANGED <<wire, req, polls, disk, mgmtVars>>

\* READ and TRIM look at the status after one tick, then drop the trigger.
OneStatus ==
    /\ npc \in {"read_status", "trim_status"}
    /\ Tick(io)
    /\ status' = rtl'.status
    /\ io' = [io EXCEPT !.trigger = FALSE]
    /\ npc' = IF npc = "read_status" THEN "read_end" ELSE "trim_end"
    /\ UNCHANGED <<wire, req, polls, disk, mgmtVars>>

\* Mutant: a read the RTL refused is not answered.
EndReadSilent ==
    /\ npc = "read_end"
    /\ Tick(io)
    /\ reply' = IF status = FAIL THEN None
                ELSE Answer(OK, [i \in 1..req.len |-> disk[req.from + i - 1]])
    /\ npc' = "recv" /\ EndOfRequest
    /\ UNCHANGED <<io, request, disk, mgmtVars>>

EndRead ==
    /\ npc = "read_end"
    /\ Tick(io)
    /\ reply' = IF status = FAIL THEN Answer(EIO, NoData)
                ELSE Answer(OK, [i \in 1..req.len |-> disk[req.from + i - 1]])
    /\ npc' = "recv" /\ EndOfRequest
    /\ UNCHANGED <<io, request, disk, mgmtVars>>

\* Mutant: the trigger stays high after the verdict.
WriteStatusHeld ==
    /\ npc = "write_status"
    /\ Tick(io)
    /\ status' = rtl'.status
    /\ \/ /\ rtl'.status \in {DONE, FAIL}
          /\ npc' = "write_end" /\ polls' = polls
       \/ /\ rtl'.status \in {FREE, BUSY}
          /\ polls' = polls + 1
          /\ npc' = IF polls' < MaxPolls THEN "write_status" ELSE "write_end"
    /\ io' = io
    /\ UNCHANGED <<wire, req, disk, mgmtVars>>

\* One round of the polling loop of a WRITE.
WriteStatus ==
    /\ npc = "write_status"
    /\ Tick(io)
    /\ status' = rtl'.status
    /\ \/ /\ rtl'.status \in {DONE, FAIL}
          /\ npc' = "write_end" /\ polls' = polls
       \/ /\ rtl'.status \in {FREE, BUSY}
          /\ polls' = polls + 1
          /\ npc' = IF polls' < MaxPolls THEN "write_status" ELSE "write_end"
    /\ io' = [io EXCEPT !.trigger = (npc' = "write_status")]
    /\ UNCHANGED <<wire, req, disk, mgmtVars>>

\* An error status is answered with success and the payload is dropped; any
\* other status, a timeout included, stores it.
EndWrite ==
    /\ npc = "write_end"
    /\ Tick(io)
    /\ disk' = IF status = FAIL THEN disk
               ELSE [p \in DiskPages |-> IF p \in Extent(req) THEN req.data ELSE disk[p]]
    /\ reply' = Answer(OK, NoData)
    /\ npc' = "recv" /\ EndOfRequest
    /\ UNCHANGED <<io, request, mgmtVars>>

EndTrim ==
    /\ npc = "trim_end"
    /\ Tick(io)
    /\ disk' = [p \in DiskPages |-> IF p \in Extent(req) THEN 0 ELSE disk[p]]
    /\ reply' = Answer(OK, NoData)
    /\ npc' = "recv" /\ EndOfRequest
    /\ UNCHANGED <<io, request, mgmtVars>>

NbdThread ==
    \/ AcceptClient
    \/ ReceiveRead \/ OneStatus \/ EndRead
    \/ ReceiveWrite \/ WriteStatus \/ EndWrite
    \/ ReceiveTrim \/ EndTrim
    \/ ReceiveOther \/ ReceiveClose

(***************************************************************************)
(* management_socket_thread.                                               *)
(***************************************************************************)
MgmtCommand ==
    /\ mpc = "command"
    /\ io' = Command(RESET, mzone)
    /\ mpc' = "status"
    /\ UNCHANGED <<rtl, addr, latch, bram, wire, nbdVars, disk, mzone>>

MgmtStatus ==
    /\ mpc = "status"
    /\ Tick(io)
    /\ io' = [io EXCEPT !.trigger = FALSE]
    /\ mpc' = "tick"
    /\ UNCHANGED <<wire, nbdVars, disk, mzone>>

MgmtTick ==
    /\ mpc = "tick"
    /\ Tick(io)
    /\ mpc' = "clear"
    /\ UNCHANGED <<io, wire, nbdVars, disk, mzone>>

\* The memset covers the metadata of every zone, not only of mzone.
MgmtClear ==
    /\ mpc = "clear"
    /\ bram' = [z \in Zones |-> ZeroWord]
    /\ disk' = [p \in DiskPages |-> IF p \div ZoneSize = mzone THEN 0 ELSE disk[p]]
    /\ mpc' = "ack"
    /\ UNCHANGED <<io, rtl, addr, latch, wire, nbdVars, mzone>>

MgmtThread == MgmtCommand \/ MgmtStatus \/ MgmtTick \/ MgmtClear
=============================================================================
