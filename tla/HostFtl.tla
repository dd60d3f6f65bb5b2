------------------------------ MODULE HostFtl -------------------------------
(***************************************************************************)
(* The host-managed FTL in Rust (host_ftl/src): per-zone write pointers,   *)
(* the logical-to-physical table and the three calls logical_write,        *)
(* logical_read and zone_reset.  A call holds the FTL's mutex from start   *)
(* to end, so one call is in progress at a time; it talks to the backend   *)
(* over an NBD connection (request and reply slots) and a management       *)
(* socket (mpc, mzone).                                                    *)
(*                                                                         *)
(* This module is the host alone.  HostStore gives it a backend that does  *)
(* what NBD promises, CoSim the simulator process of NbdServer.            *)
(***************************************************************************)
EXTENDS Integers, FiniteSets, FiniteSetsExt

CONSTANTS ZoneSize, NumZones,
          LogicalPages,    \* length of the L2P table
          Values           \* non-zero page contents

ASSUME HostAssumption ==
    /\ ZoneSize \in Nat \ {0} /\ NumZones \in Nat \ {0}
    /\ LogicalPages \in Nat
    /\ Values \subseteq Nat \ {0}

Zones == 0..(NumZones - 1)
Lbas  == 0..(LogicalPages - 1)
None  == [type |-> "NONE"]
Unmapped == [zone |-> -1, page |-> -1]

VARIABLES wp,        \* zones[z].write_pointer, in pages
          full,      \* zones[z].is_full
          l2p,       \* l2p_table
          cur,       \* current_write_zone
          pc,        \* where the call in progress waits
          call,      \* its arguments and locals
          result,    \* what the last call returned
          request, reply,    \* the NBD connection
          mpc, mzone         \* the management socket

ftlVars  == <<wp, full, l2p, cur>>
hostVars == <<ftlVars, pc, call, result>>

HostInit ==
    /\ wp = [z \in Zones |-> 0]
    /\ full = [z \in Zones |-> FALSE]
    /\ l2p = [l \in Lbas |-> Unmapped]
    /\ cur = 0
    /\ pc = "idle"
    /\ call = None
    /\ result = None

WriteReq(z, p, v) == [type |-> "WRITE", from |-> z * ZoneSize + p, len |-> 1, data |-> v]
ReadReq(a) == [type |-> "READ", from |-> a.zone * ZoneSize + a.page, len |-> 1, data |-> 0]

Ok(kind, lba, v) == [type |-> kind, ok |-> TRUE, lba |-> lba, value |-> v]
Err(kind, lba)   == [type |-> kind, ok |-> FALSE, lba |-> lba, value |-> 0]

Return(r) == pc' = "idle" /\ call' = None /\ result' = r

(***************************************************************************)
(* logical_write.  start is current_write_zone when the call begins (the   *)
(* stress test sets it to the worker's zone under the same lock).          *)
(***************************************************************************)
OutOfBounds(kind, lba) ==
    /\ pc = "idle"
    /\ lba \notin Lbas
    /\ Return(Err(kind, lba))
    /\ UNCHANGED <<ftlVars, request, mpc, mzone>>

NotFull(start) == {z \in Zones : z >= start /\ ~full[z]}

StorageFull(lba, start) ==
    /\ pc = "idle" /\ lba \in Lbas
    /\ NotFull(start) = {}
    /\ cur' = start
    /\ Return(Err("full", lba))
    /\ UNCHANGED <<wp, full, l2p, request, mpc, mzone>>

\* Mutant: the zone the caller selected is ignored.
StartWriteAnyZone(lba, v, start) ==
    /\ pc = "idle" /\ lba \in Lbas
    /\ NotFull(0) # {}
    /\ LET z == Min(NotFull(0))
       IN  /\ cur' = z
           /\ call' = [type |-> "write", lba |-> lba, value |-> v, zone |-> z,
                       page |-> wp[z]]
           /\ request' = WriteReq(z, wp[z], v)
    /\ pc' = "append"
    /\ UNCHANGED <<wp, full, l2p, result, mpc, mzone>>

\* page_offset is computed here, before the append, and kept in call.page.
StartWrite(lba, v, start) ==
    /\ pc = "idle" /\ lba \in Lbas
    /\ NotFull(start) # {}
    /\ LET z == Min(NotFull(start))
       IN  /\ cur' = z
           /\ call' = [type |-> "write", lba |-> lba, value |-> v, zone |-> z,
                       page |-> wp[z]]
           /\ request' = WriteReq(z, wp[z], v)
    /\ pc' = "append"
    /\ UNCHANGED <<wp, full, l2p, result, mpc, mzone>>

\* Mutant: the table is not updated.
AppendedUnmapped ==
    /\ wp' = [wp EXCEPT ![call.zone] = @ + 1]
    /\ full' = [full EXCEPT ![call.zone] = @ \/ wp[call.zone] + 1 >= ZoneSize]
    /\ Return(Ok("write", call.lba, call.value))
    /\ UNCHANGED <<l2p, cur>>

\* append_to_zone after a good reply, then l2p_table.set.
Appended ==
    /\ wp' = [wp EXCEPT ![call.zone] = @ + 1]
    /\ full' = [full EXCEPT ![call.zone] = @ \/ wp[call.zone] + 1 >= ZoneSize]
    /\ l2p' = [l2p EXCEPT ![call.lba] = [zone |-> call.zone, page |-> call.page]]
    /\ Return(Ok("write", call.lba, call.value))
    /\ cur' = cur

EndWrite ==
    /\ pc \in {"append", "retry"}
    /\ reply # None /\ reply.err = "OK"
    /\ Appended
    /\ UNCHANGED <<request, mpc, mzone>>

\* A refused append: reset the zone over the management socket.
ResetAfterError ==
    /\ pc = "append"
    /\ reply # None /\ reply.err # "OK"
    /\ mpc' = "command" /\ mzone' = call.zone
    /\ pc' = "reset"
    /\ UNCHANGED <<ftlVars, call, result, request>>

\* That reset fails, with no command out: logical_write returns the error.
ResetFails ==
    /\ pc = "append"
    /\ reply # None /\ reply.err # "OK"
    /\ Return(Err("write", call.lba))
    /\ UNCHANGED <<ftlVars, request, mpc, mzone>>

\* The retry is refused too: logical_write returns the error.
RetryFails ==
    /\ pc = "retry"
    /\ reply # None /\ reply.err # "OK"
    /\ Return(Err("write", call.lba))
    /\ UNCHANGED <<ftlVars, request, mpc, mzone>>

\* Mutant: the mappings into the zone survive its reset.
ZoneClearedKeepsMap(z) ==
    /\ wp' = [wp EXCEPT ![z] = 0]
    /\ full' = [full EXCEPT ![z] = FALSE]
    /\ UNCHANGED <<l2p, cur>>

\* zone_reset once the acknowledgement is in.
ZoneCleared(z) ==
    /\ wp' = [wp EXCEPT ![z] = 0]
    /\ full' = [full EXCEPT ![z] = FALSE]
    /\ l2p' = [l \in Lbas |-> IF l2p[l].zone = z THEN Unmapped ELSE l2p[l]]
    /\ cur' = cur

\* The second append goes to the zone's first page.
RetryAppend ==
    /\ pc = "reset"
    /\ mpc = "ack"
    /\ mpc' = "accept"
    /\ ZoneCleared(call.zone)
    /\ request' = WriteReq(call.zone, 0, call.value)
    /\ pc' = "retry"
    /\ UNCHANGED <<call, result, mzone>>

(***************************************************************************)
(* logical_read.  An unmapped page reads as zeros without any I/O.         *)
(***************************************************************************)
ReadUnmapped(lba) ==
    /\ pc = "idle" /\ lba \in Lbas
    /\ l2p[lba] = Unmapped
    /\ Return(Ok("read", lba, 0))
    /\ UNCHANGED <<ftlVars, request, mpc, mzone>>

StartRead(lba) ==
    /\ pc = "idle" /\ lba \in Lbas
    /\ l2p[lba] # Unmapped
    /\ request' = ReadReq(l2p[lba])
    /\ call' = [type |-> "read", lba |-> lba]
    /\ pc' = "read"
    /\ UNCHANGED <<ftlVars, result, mpc, mzone>>

\* The error field of the reply is not looked at.
EndRead ==
    /\ pc = "read"
    /\ reply # None /\ reply.data # <<>>
    /\ Return(Ok("read", call.lba, reply.data[1]))
    /\ UNCHANGED <<ftlVars, request, mpc, mzone>>

\* An error reply has no data after it: read_exact waits for a page that is
\* not coming, and the mutex stays locked.
ReadHangs ==
    /\ pc = "read"
    /\ reply # None /\ reply.data = <<>>
    /\ pc' = "stuck"
    /\ UNCHANGED <<ftlVars, call, result, request, mpc, mzone>>

\* Mutant: the call waits for an answer to a command it did not send.
StartResetUnsent(z) ==
    /\ pc = "idle"
    /\ call' = [type |-> "reset", zone |-> z]
    /\ pc' = "zone_reset"
    /\ UNCHANGED <<ftlVars, result, request, mpc, mzone>>

(***************************************************************************)
(* zone_reset.                                                             *)
(***************************************************************************)
StartReset(z) ==
    /\ pc = "idle"
    /\ mpc' = "command" /\ mzone' = z
    /\ call' = [type |-> "reset", zone |-> z]
    /\ pc' = "zone_reset"
    /\ UNCHANGED <<ftlVars, result, request>>

\* Nobody listens on the management socket (or there is no such zone): the call
\* returns the error before it has changed anything.
ZoneResetFails ==
    /\ pc = "idle"
    /\ Return(Err("reset", 0))
    /\ UNCHANGED <<ftlVars, request, mpc, mzone>>

EndReset ==
    /\ pc = "zone_reset"
    /\ mpc = "ack" /\ mpc' = "accept"
    /\ ZoneCleared(call.zone)
    /\ Return([type |-> "reset", ok |-> TRUE, lba |-> 0, value |-> 0])
    /\ UNCHANGED <<request, mzone>>

\* Steps that consume the reply on the wire, and the other steps of a call.
\* (ReadHangs is a step of its own: only the simulator refuses reads.)
OnReply == /\ EndWrite \/ ResetAfterError \/ ResetFails \/ RetryFails \/ EndRead
           /\ reply' = None
OnAck   == (RetryAppend \/ EndReset) /\ UNCHANGED reply
=============================================================================
