----------------------------- MODULE HostStore ------------------------------
(***************************************************************************)
(* The host FTL over a backend that keeps the NBD contract: a write that   *)
(* is answered with success is stored, a read returns what is stored, a    *)
(* reset empties the zone before it is acknowledged.  The backend may      *)
(* refuse a write with an error (Rejects), which the host answers with a   *)
(* reset and a second attempt.                                             *)
(***************************************************************************)
EXTENDS HostFtl

CONSTANTS Rejects,    \* TRUE: the backend may refuse a write
          Pinned      \* TRUE: callers set current_write_zone to any zone

ASSUME StoreAssumption == Rejects \in BOOLEAN /\ Pinned \in BOOLEAN

VARIABLES disk,       \* the backend's pages
          expected,   \* what each logical page should read as
          retried     \* some write was refused and sent again

vars == <<hostVars, request, reply, mpc, mzone, disk, expected, retried>>

DiskPages == 0..(NumZones * ZoneSize - 1)

Init ==
    /\ HostInit
    /\ request = None /\ reply = None
    /\ mpc = "accept" /\ mzone = 0
    /\ disk = [p \in DiskPages |-> 0]
    /\ expected = [l \in Lbas |-> 0]
    /\ retried = FALSE

(***************************************************************************)
(* The backend, from the host's use of it.                                 *)
(***************************************************************************)
ServeWrite ==
    /\ request.type = "WRITE"
    /\ disk' = [disk EXCEPT ![request.from] = request.data]
    /\ reply' = [type |-> "WRITE", err |-> "OK", data |-> <<>>]
    /\ request' = None
    /\ UNCHANGED <<hostVars, mpc, mzone, expected, retried>>

RefuseWrite ==
    /\ Rejects
    /\ request.type = "WRITE"
    /\ reply' = [type |-> "WRITE", err |-> "EIO", data |-> <<>>]
    /\ request' = None
    /\ UNCHANGED <<hostVars, mpc, mzone, disk, expected, retried>>

ServeRead ==
    /\ request.type = "READ"
    /\ reply' = [type |-> "READ", err |-> "OK", data |-> <<disk[request.from]>>]
    /\ request' = None
    /\ UNCHANGED <<hostVars, mpc, mzone, disk, expected, retried>>

ServeReset ==
    /\ mpc = "command"
    /\ disk' = [p \in DiskPages |-> IF p \div ZoneSize = mzone THEN 0 ELSE disk[p]]
    /\ mpc' = "ack"
    /\ UNCHANGED <<hostVars, request, reply, mzone, expected, retried>>

Backend == ServeWrite \/ RefuseWrite \/ ServeRead \/ ServeReset

(***************************************************************************)
(* The callers.                                                            *)
(***************************************************************************)
Starts == IF Pinned THEN Zones ELSE {cur}

Calls ==
    /\ \/ \E l \in 0..LogicalPages, v \in Values, s \in Starts :
             OutOfBounds("write", l) \/ StorageFull(l, s) \/ StartWrite(l, v, s)
       \/ \E l \in 0..LogicalPages :
             OutOfBounds("read", l) \/ ReadUnmapped(l) \/ StartRead(l)
       \/ (\E z \in Zones : StartReset(z)) \/ ZoneResetFails
    /\ UNCHANGED <<reply, disk, expected, retried>>

\* A finished write sets the expectation, a cleared zone drops those in it.
OnAnswer ==
    /\ OnReply
    /\ expected' = IF pc \in {"append", "retry"} /\ reply.err = "OK"
                   THEN [expected EXCEPT ![call.lba] = call.value]
                   ELSE expected
    /\ UNCHANGED <<disk, retried>>

OnCleared ==
    /\ OnAck
    /\ expected' = [l \in Lbas |-> IF l2p[l].zone = call.zone THEN 0 ELSE expected[l]]
    /\ retried' = (retried \/ pc = "reset")
    /\ UNCHANGED disk

Next == Calls \/ OnAnswer \/ OnCleared \/ Backend

Spec == /\ Init /\ [][Next]_vars
        /\ WF_vars(OnAnswer) /\ WF_vars(OnCleared) /\ WF_vars(Backend)

-----------------------------------------------------------------------------
Place(a) == a.zone * ZoneSize + a.page

\* Between calls every logical page reads as what was last written to it, or
\* as zeros if its zone was reset since: the table and the pages it points to
\* agree, across overwrites, zone changes, resets, refused and retried writes.
MappedDataIntact ==
    pc = "idle" =>
        \A l \in Lbas : expected[l] = IF l2p[l] = Unmapped THEN 0
                                      ELSE disk[Place(l2p[l])]

\* The same as long as no write has been sent a second time.
IntactUnlessRetried == ~retried => MappedDataIntact

\* Every call returns.
CallsReturn == pc # "idle" ~> pc = "idle"
=============================================================================
