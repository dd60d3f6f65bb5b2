---------------------------- MODULE CoSimProofs -----------------------------
(***************************************************************************)
(* The co-simulation for every number of workers and zones and every zone  *)
(* size, whatever verdicts the RTL gives: the host keeps the two server    *)
(* threads apart, each worker's pages sit in its own zone, and what a      *)
(* worker reports as verified is on the device.                            *)
(***************************************************************************)
EXTENDS CoSim, TLAPS

\* The address of a zone's page, on the device and in the workers' table.
At(w, p) == w * ZoneSize + p

\* Pages of its zone a worker has written, and pages it has read back.
Appended(w) == IF worker[w].phase \in {"write", "writing"} THEN worker[w].page
                ELSE worker[w].page + 1
ReadBack(w) == IF worker[w].phase = "done" THEN ZoneSize ELSE worker[w].page

Phases == {"write", "writing", "read", "reading", "done", "failed"}

CoSimType ==
    /\ worker \in [W -> [phase : Phases, page : Pages]]
    /\ owner \in W /\ resets \in 0..ResetZones
    /\ wp \in [Zones -> Nat] /\ full \in [Zones -> BOOLEAN]
    /\ l2p \in [Host!Lbas -> [zone : Int, page : Int]]
    /\ disk \in [DiskPages -> Nat]

\* The host's zone records, its table and the device, worker by worker.
Pointers == \A w \in W : /\ wp[w] = Appended(w)
                         /\ full[w] <=> Appended(w) = ZoneSize

Table ==
    \A w \in W, p \in Pages :
        l2p[At(w, p)] = IF p < Appended(w) THEN [zone |-> w, page |-> p]
                                ELSE Host!Unmapped

Stored == \A w \in W, p \in Pages : p < ReadBack(w) => disk[At(w, p)] = Signature(w)

\* Until the zones are reset no worker has started, and one call is in progress
\* at a time: that of owner.
Turns ==
    /\ resets < ResetZones => \A w \in W : worker[w] = [phase |-> "write", page |-> 0]
    /\ \A w \in W : /\ worker[w].phase = "writing" <=> pc = "append" /\ w = owner
                    /\ worker[w].phase = "reading" <=> pc \in {"read", "stuck"} /\ w = owner

\* The two connections during each call.
Waiting == npc \in {"accept", "recv"}
Quiet   == request = None /\ reply = None /\ Waiting

Page0 == worker[owner].page
Write0 == Host!WriteReq(owner, Page0, Signature(owner))
Read0  == Host!ReadReq([zone |-> owner, page |-> Page0])

Appending ==
    /\ mpc = "accept"
    /\ call.lba = At(owner, Page0) /\ call.zone = owner /\ call.page = Page0
    /\ \/ request = Write0 /\ reply = None /\ Waiting
       \/ request = None /\ reply = None /\ npc \in {"write_status", "write_end"} /\ req = Write0
       \/ request = None /\ reply # None /\ reply.err = OK /\ Waiting

Reading ==
    /\ mpc = "accept"
    /\ \/ request = Read0 /\ reply = None /\ Waiting
       \/ request = None /\ reply = None /\ npc \in {"read_status", "read_end"} /\ req = Read0
       \/ /\ request = None /\ reply # None /\ Waiting
          /\ reply.data # <<>> => reply.data[1] = disk[At(owner, Page0)]

Resetting ==
    /\ Quiet /\ mpc \in {"command", "status", "tick", "clear", "ack"}
    /\ resets < ResetZones /\ mzone = resets /\ call.zone = resets

Wires ==
    /\ pc \in {"idle", "append", "read", "stuck", "zone_reset"}
    /\ pc \in {"idle", "stuck"} => Quiet /\ mpc = "accept"
    /\ pc = "append" => Appending
    /\ pc = "read" => Reading
    /\ pc = "zone_reset" => Resetting

CInv == CoSimType /\ Pointers /\ Table /\ Stored /\ Turns /\ Wires

-----------------------------------------------------------------------------
\* Products of naturals, for the addresses below.
LEMMA Scaled ==
    ASSUME NEW a \in Nat, NEW b \in Nat, NEW n \in Nat, a < b
    PROVE  a * n + n <= b * n /\ a * n \in Nat /\ b * n \in Nat
  <1>1. PICK d \in Nat : b = a + 1 + d
    <2>1. b - (a + 1) \in Nat /\ b = a + 1 + (b - (a + 1))
      OBVIOUS
    <2> QED BY <2>1
  <1>2. b * n = a * n + n + d * n /\ d * n \in Nat /\ a * n \in Nat
    BY <1>1
  <1> QED BY <1>2

LEMMA WorkerZones == W \subseteq Zones /\ W \subseteq Nat /\ Pages \subseteq Nat /\ Host!Zones = Zones
  BY CoSimAssumption, BridgeAssumption, RtlAssumption DEF W, Zones, Pages, Host!Zones

\* Worker and page make an entry of the table and a page of the device, and
\* only one pair makes it.
LEMMA AtRange ==
    ASSUME NEW w \in W, NEW p \in Pages
    PROVE  At(w, p) \in Host!Lbas /\ At(w, p) \in DiskPages /\ At(w, p) \in Nat
  <1>1. /\ w \in Nat /\ w < Workers /\ w < NumZones /\ Workers \in Nat /\ NumZones \in Nat
        /\ ZoneSize \in Nat /\ p \in Nat /\ p < ZoneSize
    BY CoSimAssumption, BridgeAssumption, RtlAssumption DEF W, Pages
  <1>2. w * ZoneSize + ZoneSize <= Workers * ZoneSize /\ w * ZoneSize \in Nat
        /\ Workers * ZoneSize \in Nat
    BY <1>1, Scaled
  <1>3. w * ZoneSize + ZoneSize <= NumZones * ZoneSize /\ NumZones * ZoneSize \in Nat
    BY <1>1, Scaled
  <1> QED BY <1>1, <1>2, <1>3 DEF At, Host!Lbas, DiskPages

LEMMA AtUnique ==
    ASSUME NEW a \in W, NEW b \in W, NEW p \in Pages, NEW q \in Pages, At(a, p) = At(b, q)
    PROVE  a = b /\ p = q
  <1>1. /\ a \in Nat /\ b \in Nat /\ ZoneSize \in Nat
        /\ p \in Nat /\ p < ZoneSize /\ q \in Nat /\ q < ZoneSize
    BY CoSimAssumption, RtlAssumption DEF W, Pages
  <1>2. a * ZoneSize + p = b * ZoneSize + q
    BY DEF At
  <1>3. CASE a < b
    <2>1. a * ZoneSize + ZoneSize <= b * ZoneSize /\ a * ZoneSize \in Nat /\ b * ZoneSize \in Nat
      BY <1>1, <1>3, Scaled
    <2> QED BY <1>1, <1>2, <2>1
  <1>4. CASE b < a
    <2>1. b * ZoneSize + ZoneSize <= a * ZoneSize /\ a * ZoneSize \in Nat /\ b * ZoneSize \in Nat
      BY <1>1, <1>4, Scaled
    <2> QED BY <1>1, <1>2, <2>1
  <1>5. CASE a = b
    <2>1. a * ZoneSize \in Nat
      BY <1>1
    <2> QED BY <1>1, <1>2, <1>5, <2>1
  <1> QED BY <1>1, <1>3, <1>4, <1>5

\* The requests of the worker in turn.
LEMMA Requests0 ==
    ASSUME CoSimType
    PROVE  /\ owner \in W /\ Page0 \in Pages
           /\ Write0.type = "WRITE" /\ Write0.from = At(owner, Page0) /\ Write0.len = 1
           /\ Write0.data = Signature(owner) /\ Write0 # None
           /\ Read0.type = "READ" /\ Read0.from = At(owner, Page0) /\ Read0.len = 1
           /\ Read0 # None
  <1>1. owner \in W /\ Page0 \in Pages
    BY DEF CoSimType, Page0
  <1>2. PICK a : a = At(owner, Page0)
    OBVIOUS
  <1>3. /\ Write0 = [type |-> "WRITE", from |-> a, len |-> 1, data |-> Signature(owner)]
        /\ Read0 = [type |-> "READ", from |-> a, len |-> 1, data |-> 0]
    BY <1>2 DEF Write0, Read0, Host!WriteReq, Host!ReadReq, At
  <1> QED BY <1>1, <1>2, <1>3 DEF None

LEMMA InitCInv == Init => CInv
  <1> SUFFICES ASSUME Init PROVE CInv
    OBVIOUS
  <1> USE DEF Init, ServerInit, Host!HostInit
  <1>1. 0 \in Pages /\ 0 \in W /\ 0 < ZoneSize /\ ZoneSize \in Nat
    BY CoSimAssumption, RtlAssumption DEF Pages, W
  <1>2. \A w \in W : worker[w] = [phase |-> "write", page |-> 0]
    OBVIOUS
  <1>3. CoSimType
    <2>1. worker \in [W -> [phase : Phases, page : Pages]]
      BY <1>1 DEF Phases
    <2>2. resets \in 0..ResetZones
      BY CoSimAssumption
    <2>3. wp \in [Zones -> Nat] /\ full \in [Zones -> BOOLEAN]
      BY WorkerZones
    <2>4. l2p \in [Host!Lbas -> [zone : Int, page : Int]]
      BY DEF Host!Unmapped
    <2> QED BY <1>1, <2>1, <2>2, <2>3, <2>4 DEF CoSimType
  <1>4. \A w \in W : Appended(w) = 0 /\ ReadBack(w) = 0
    BY <1>2 DEF Appended, ReadBack
  <1>5. Pointers
    BY <1>1, <1>4, WorkerZones DEF Pointers
  <1>6. Table /\ Stored
    BY <1>4, AtRange, WorkerZones DEF Table, Stored
  <1>7. Turns
    BY <1>2 DEF Turns
  <1>8. Wires
    BY DEF Wires, Quiet, Waiting
  <1> QED BY <1>3, <1>5, <1>6, <1>7, <1>8 DEF CInv

-----------------------------------------------------------------------------
(***************************************************************************)
(* The server's steps.                                                     *)
(***************************************************************************)
\* Steps of the server that leave the pages alone.
LEMMA ServerSame ==
    ASSUME CInv, UNCHANGED <<hostVars, testVars, disk>>, Wires'
    PROVE  CInv'
  <1>1. UNCHANGED <<wp, full, l2p, cur, pc, call, result, worker, owner, resets, disk>>
    BY DEF hostVars, testVars
  <1>2. CoSimType'
    BY <1>1 DEF CInv, CoSimType
  <1>3. Pointers' /\ Table' /\ Stored'
    BY <1>1 DEF CInv, Pointers, Table, Stored, Appended, ReadBack, Signature
  <1>4. Turns'
    BY <1>1 DEF CInv, Turns
  <1> QED BY <1>2, <1>3, <1>4 DEF CInv

\* What the NBD thread finds on the wire is the request of the call in progress.
LEMMA NbdCall ==
    ASSUME CInv, UNCHANGED <<hostVars, testVars>>
    PROVE  /\ request # None \/ ~Waiting => pc \in {"append", "read"}
           /\ pc = "append" => Appending /\ mpc = "accept"
           /\ pc = "read" => Reading /\ mpc = "accept"
           /\ UNCHANGED <<Page0, Write0, Read0, call, pc, owner>>
  <1>1. UNCHANGED <<call, pc, owner, worker>>
    BY DEF hostVars, testVars
  <1>2. UNCHANGED <<Page0, Write0, Read0>>
    BY <1>1 DEF Page0, Write0, Read0, Signature, Host!WriteReq, Host!ReadReq
  <1> QED BY <1>1, <1>2 DEF CInv, Wires, Quiet, Resetting, Appending, Reading

\* The NBD thread up to the reply; it stores nothing on the way.
LEMMA NbdServes ==
    ASSUME CInv, UNCHANGED <<hostVars, testVars>>,
           \/ AcceptClient \/ ReceiveRead \/ ReceiveWrite \/ ReceiveTrim \/ ReceiveOther
           \/ ReceiveClose \/ OneStatus \/ WriteStatus
    PROVE  CInv'
  <1>1. /\ request # None \/ ~Waiting
        /\ UNCHANGED <<disk, reply, mpc, mzone>> \/ ReceiveOther
    BY DEF AcceptClient, ReceiveRead, ReceiveWrite, ReceiveTrim, ReceiveOther, ReceiveClose,
           OneStatus, WriteStatus, None, Waiting, wire, mgmtVars
  <1>2. /\ pc \in {"append", "read"} /\ UNCHANGED <<Page0, Write0, Read0, call, pc, owner>>
        /\ pc = "append" => Appending
        /\ pc = "read" => Reading
    BY <1>1, NbdCall
  <1>3. /\ Write0.type = "WRITE" /\ Read0.type = "READ" /\ Write0 # None /\ Read0 # None
    BY Requests0 DEF CInv
  <1>4. request \in {None, Write0, Read0}
    BY <1>2 DEF Appending, Reading
  <1>5. ~ReceiveTrim /\ ~ReceiveOther /\ ~ReceiveClose
    BY <1>3, <1>4 DEF ReceiveTrim, ReceiveOther, ReceiveClose, None
  <1>6. UNCHANGED <<disk, reply, mpc, mzone>>
    BY <1>1, <1>5
  <1>7. CASE pc = "append"
    <2>1. Appending
      BY <1>2, <1>7
    <2>2. CASE AcceptClient
      <3>1. npc = "accept" /\ npc' = "recv" /\ request' = request /\ request # None
        BY <2>2 DEF AcceptClient, wire
      <3>2. Appending'
        BY <1>2, <1>6, <2>1, <3>1 DEF Appending, Waiting
      <3> QED BY <1>2, <1>6, <1>7, <3>2, ServerSame DEF Wires
    <2>3. CASE ReceiveWrite
      <3>1. npc = "recv" /\ npc' = "write_status" /\ request' = None /\ req' = request
            /\ request.type = "WRITE"
        BY <2>3 DEF ReceiveWrite
      <3>2. Appending'
        BY <1>2, <1>6, <2>1, <3>1 DEF Appending, Waiting, None
      <3> QED BY <1>2, <1>6, <1>7, <3>2, ServerSame DEF Wires
    <2>4. CASE WriteStatus
      <3>1. npc = "write_status" /\ npc' \in {"write_status", "write_end"}
            /\ UNCHANGED <<request, req>>
        BY <2>4 DEF WriteStatus, wire
      <3>2. Appending'
        BY <1>2, <1>6, <2>1, <3>1 DEF Appending, Waiting
      <3> QED BY <1>2, <1>6, <1>7, <3>2, ServerSame DEF Wires
    <2>5. ~ReceiveRead /\ ~OneStatus
      BY <1>3, <2>1 DEF ReceiveRead, OneStatus, Appending, Waiting, None
    <2> QED BY <1>5, <2>2, <2>3, <2>4, <2>5
  <1>8. CASE pc = "read"
    <2>1. Reading
      BY <1>2, <1>8
    <2>2. CASE AcceptClient
      <3>1. npc = "accept" /\ npc' = "recv" /\ request' = request /\ request # None
        BY <2>2 DEF AcceptClient, wire
      <3>2. Reading'
        BY <1>2, <1>6, <2>1, <3>1 DEF Reading, Waiting
      <3> QED BY <1>2, <1>6, <1>8, <3>2, ServerSame DEF Wires
    <2>3. CASE ReceiveRead
      <3>1. npc = "recv" /\ npc' = "read_status" /\ request' = None /\ req' = request
            /\ request.type = "READ"
        BY <2>3 DEF ReceiveRead
      <3>2. Reading'
        BY <1>2, <1>6, <2>1, <3>1 DEF Reading, Waiting, None
      <3> QED BY <1>2, <1>6, <1>8, <3>2, ServerSame DEF Wires
    <2>4. CASE OneStatus
      <3>1. npc \in {"read_status", "trim_status"} /\ UNCHANGED <<request, req>>
            /\ npc' = IF npc = "read_status" THEN "read_end" ELSE "trim_end"
        BY <2>4 DEF OneStatus, wire
      <3>2. Reading'
        BY <1>2, <1>6, <2>1, <3>1 DEF Reading, Waiting
      <3> QED BY <1>2, <1>6, <1>8, <3>2, ServerSame DEF Wires
    <2>5. ~ReceiveWrite /\ ~WriteStatus
      BY <1>3, <2>1 DEF ReceiveWrite, WriteStatus, Reading, Waiting, None
    <2> QED BY <1>5, <2>2, <2>3, <2>4, <2>5
  <1> QED BY <1>2, <1>7, <1>8

\* The reply to a read carries the page of the worker in turn, or nothing.
LEMMA NbdReadEnds ==
    ASSUME CInv, UNCHANGED <<hostVars, testVars>>, EndRead
    PROVE  CInv'
  <1>1. npc = "read_end" /\ npc' = "recv" /\ UNCHANGED <<disk, request, mpc, mzone>>
        /\ reply' = IF status = FAIL THEN Answer(EIO, NoData)
                    ELSE Answer(OK, [i \in 1..req.len |-> disk[req.from + i - 1]])
    BY DEF EndRead, mgmtVars
  <1>2. pc = "read" /\ Reading /\ UNCHANGED <<Page0, Write0, Read0, call, pc, owner>>
    BY <1>1, NbdCall DEF Waiting, Appending
  <1>3. request = None /\ req = Read0 /\ mpc = "accept"
    BY <1>1, <1>2 DEF Reading, Waiting
  <1>4. req.type = "READ" /\ req.len = 1 /\ req.from = At(owner, Page0) /\ req.from \in Nat
    BY <1>3, Requests0, AtRange DEF CInv
  <1>5. PICK a \in Nat : a = At(owner, Page0) /\ req.from = a
    BY <1>4
  <1>6. reply' # None /\ (reply'.data # <<>> => reply'.data[1] = disk[a])
    <2>1. CASE status = FAIL
      BY <1>1, <1>4, <2>1 DEF Answer, NoData, None
    <2>2. CASE status # FAIL
      <3>1. reply' = [type |-> "READ", err |-> OK, data |-> [i \in 1..1 |-> disk[a + i - 1]]]
        BY <1>1, <1>4, <1>5, <2>2 DEF Answer
      <3>2. reply'.data[1] = disk[a]
        BY <3>1
      <3> QED BY <3>1, <3>2 DEF None
    <2> QED BY <2>1, <2>2
  <1>7. Reading'
    BY <1>1, <1>2, <1>3, <1>5, <1>6 DEF Reading, Waiting
  <1> QED BY <1>1, <1>2, <1>7, ServerSame DEF Wires

\* The page a write stores is the one its worker has not read back yet.
LEMMA NbdWriteEnds ==
    ASSUME CInv, UNCHANGED <<hostVars, testVars>>, EndWrite
    PROVE  CInv'
  <1>1. /\ npc = "write_end" /\ npc' = "recv" /\ UNCHANGED <<request, mpc, mzone>>
        /\ reply' = Answer(OK, NoData)
        /\ disk' = IF status = FAIL THEN disk
                   ELSE [p \in DiskPages |-> IF p \in Extent(req) THEN req.data ELSE disk[p]]
    BY DEF EndWrite, mgmtVars
  <1>2. pc = "append" /\ Appending /\ UNCHANGED <<Page0, Write0, Read0, call, pc, owner>>
    BY <1>1, NbdCall DEF Waiting, Reading
  <1>3. request = None /\ req = Write0 /\ mpc = "accept"
    BY <1>1, <1>2 DEF Appending, Waiting
  <1>4. /\ req.type = "WRITE" /\ req.len = 1 /\ req.from = At(owner, Page0) /\ req.from \in Nat
        /\ req.data = Signature(owner) /\ owner \in W /\ Page0 \in Pages
    BY <1>3, Requests0, AtRange DEF CInv
  <1>5. reply' # None /\ reply'.err = OK
    BY <1>1, <1>4 DEF Answer, None
  <1>6. Appending' /\ Wires'
    BY <1>1, <1>2, <1>3, <1>5 DEF Appending, Waiting, Wires
  <1>7. UNCHANGED <<wp, full, l2p, worker, resets>>
    BY DEF hostVars, testVars
  <1>8. Extent(req) = {req.from}
    BY <1>4 DEF Extent
  <1>9. disk \in [DiskPages -> Nat] /\ Signature(owner) \in Nat
    BY <1>4, WorkerZones DEF CInv, CoSimType, Signature
  <1>10. disk' \in [DiskPages -> Nat]
    BY <1>1, <1>4, <1>9
  <1>11. \A a \in DiskPages : a # At(owner, Page0) => disk'[a] = disk[a]
    BY <1>1, <1>4, <1>8
  <1>12. CoSimType'
    BY <1>2, <1>7, <1>10 DEF CInv, CoSimType
  <1>13. Pointers' /\ Table' /\ Turns'
    BY <1>2, <1>7 DEF CInv, Pointers, Table, Turns, Appended
  <1>14. Stored'
    <2> SUFFICES ASSUME NEW w \in W, NEW p \in Pages, p < ReadBack(w)
                 PROVE  disk'[At(w, p)] = Signature(w)
      BY <1>7 DEF Stored, ReadBack, Signature
    <2>1. At(w, p) \in DiskPages /\ disk[At(w, p)] = Signature(w)
      BY AtRange DEF CInv, Stored
    <2>2. At(w, p) # At(owner, Page0)
      <3> SUFFICES ASSUME At(w, p) = At(owner, Page0) PROVE FALSE
        OBVIOUS
      <3>1. w = owner /\ p = Page0
        BY <1>4, AtUnique
      <3>2. worker[w].phase = "writing"
        BY <1>2, <3>1 DEF CInv, Turns
      <3> QED BY <1>4, <3>1, <3>2, WorkerZones DEF ReadBack, Page0
    <2> QED BY <1>11, <2>1, <2>2
  <1> QED BY <1>6, <1>12, <1>13, <1>14 DEF CInv

\* The management thread works only for the reset of the main thread, before
\* any worker has read a page back.
LEMMA MgmtServes ==
    ASSUME CInv, UNCHANGED <<hostVars, testVars>>, MgmtThread
    PROVE  CInv'
  <1>1. pc = "zone_reset" /\ Resetting
    BY DEF CInv, Wires, MgmtThread, MgmtCommand, MgmtStatus, MgmtTick, MgmtClear, Appending, Reading
  <1>2. UNCHANGED <<wp, full, l2p, cur, pc, call, worker, owner, resets>>
    BY DEF hostVars, testVars
  <1>3. UNCHANGED <<request, reply, npc, mzone>> /\ mpc' \in {"status", "tick", "clear", "ack"}
    BY DEF MgmtThread, MgmtCommand, MgmtStatus, MgmtTick, MgmtClear, wire, nbdVars
  <1>4. Wires'
    BY <1>1, <1>2, <1>3 DEF Wires, Resetting, Quiet, Waiting
  <1>5. CASE disk' = disk
    BY <1>4, <1>5, ServerSame
  <1>6. CASE MgmtClear
    <2>1. disk' \in [DiskPages -> Nat]
      BY <1>6 DEF MgmtClear, CInv, CoSimType
    <2>2. CoSimType'
      BY <1>2, <2>1 DEF CInv, CoSimType
    <2>3. Pointers' /\ Table' /\ Turns'
      BY <1>2 DEF CInv, Pointers, Table, Turns, Appended
    <2>4. \A w \in W : ReadBack(w)' = 0
      BY <1>1, <1>2 DEF CInv, Turns, Resetting, ReadBack
    <2>5. Stored'
      BY <2>4, WorkerZones DEF Stored
    <2> QED BY <1>4, <2>2, <2>3, <2>5 DEF CInv
  <1>7. MgmtClear \/ disk' = disk
    BY DEF MgmtThread, MgmtCommand, MgmtStatus, MgmtTick
  <1> QED BY <1>5, <1>6, <1>7

LEMMA ServerCInv == ASSUME CInv, Server PROVE CInv'
  <1>1. UNCHANGED <<hostVars, testVars>> /\ (NbdThread \/ MgmtThread)
    BY DEF Server
  <1>2. ~EndTrim
    BY <1>1, NbdCall DEF EndTrim, Appending, Reading, Waiting
  <1> QED BY <1>1, <1>2, NbdServes, NbdReadEnds, NbdWriteEnds, MgmtServes DEF NbdThread

-----------------------------------------------------------------------------
(***************************************************************************)
(* The host's steps.                                                       *)
(***************************************************************************)
\* main's resets.  Nothing is mapped yet, so the table stays as it is.
LEMMA ResetNextCInv == ASSUME CInv, ResetNext PROVE CInv'
  <1>1. /\ pc = "idle" /\ pc' = "zone_reset" /\ mpc' = "command" /\ mzone' = resets
        /\ call' = [type |-> "reset", zone |-> resets] /\ resets < ResetZones
        /\ UNCHANGED <<wp, full, l2p, cur, worker, owner, resets, disk, request, reply, npc>>
    BY DEF ResetNext, Host!StartReset, Host!ftlVars, testVars, BackUnchanged, nbdVars
  <1>2. CoSimType' /\ Pointers' /\ Table' /\ Stored'
    BY <1>1 DEF CInv, CoSimType, Pointers, Table, Stored, Appended, ReadBack, Signature
  <1>3. Turns'
    BY <1>1 DEF CInv, Turns
  <1>4. Wires'
    BY <1>1 DEF CInv, Wires, Resetting, Quiet, Waiting
  <1> QED BY <1>2, <1>3, <1>4 DEF CInv

LEMMA ResetDoneCInv == ASSUME CInv, ResetDone PROVE CInv'
  <1>1. /\ pc = "zone_reset" /\ pc' = "idle" /\ mpc' = "accept" /\ resets' = resets + 1
        /\ wp' = [wp EXCEPT ![call.zone] = 0] /\ full' = [full EXCEPT ![call.zone] = FALSE]
        /\ l2p' = [l \in Host!Lbas |-> IF l2p[l].zone = call.zone THEN Host!Unmapped ELSE l2p[l]]
        /\ UNCHANGED <<worker, owner, disk, request, reply, npc, mzone>>
    BY DEF ResetDone, Host!EndReset, Host!ZoneCleared, Host!Return, BackUnchanged, nbdVars
  <1>2. Resetting
    BY <1>1 DEF CInv, Wires
  <1>3. call.zone = resets /\ resets < ResetZones /\ resets \in Nat
    BY <1>2, CoSimAssumption DEF Resetting, CInv, CoSimType
  <1>4. resets' \in 0..ResetZones
    BY <1>1, <1>3, CoSimAssumption
  <1>5. \A w \in W : worker[w] = [phase |-> "write", page |-> 0]
    BY <1>3 DEF CInv, Turns
  <1>6. \A w \in W : Appended(w) = 0 /\ Appended(w)' = 0 /\ ReadBack(w)' = 0
    BY <1>1, <1>5 DEF Appended, ReadBack
  <1>7. \A w \in W : wp[w] = 0 /\ full[w] = FALSE
    <2>1. \A w \in W : wp[w] = 0 /\ ~full[w]
      BY <1>6, RtlAssumption DEF CInv, Pointers
    <2> QED BY <2>1, WorkerZones DEF CInv, CoSimType
  <1>8. \A w \in W, p \in Pages : l2p[At(w, p)] = Host!Unmapped
    <2> SUFFICES ASSUME NEW w \in W, NEW p \in Pages PROVE l2p[At(w, p)] = Host!Unmapped
      OBVIOUS
    <2>1. ~(p < Appended(w))
      BY <1>6, WorkerZones
    <2> QED BY <2>1 DEF CInv, Table
  <1>9. \A w \in W : wp'[w] = 0 /\ full'[w] = FALSE
    BY <1>1, <1>7, WorkerZones DEF CInv, CoSimType
  <1>10. \A w \in W, p \in Pages : l2p'[At(w, p)] = Host!Unmapped
    BY <1>1, <1>8, AtRange
  <1>11. CoSimType'
    <2>1. l2p' \in [Host!Lbas -> [zone : Int, page : Int]]
      BY <1>1 DEF CInv, CoSimType, Host!Unmapped
    <2>2. wp' \in [Zones -> Nat] /\ full' \in [Zones -> BOOLEAN]
      BY <1>1 DEF CInv, CoSimType
    <2> QED BY <1>1, <1>4, <2>1, <2>2 DEF CInv, CoSimType
  <1>12. Pointers'
    BY <1>6, <1>9, RtlAssumption DEF Pointers
  <1>13. Table' /\ Stored'
    BY <1>6, <1>10, WorkerZones DEF Table, Stored
  <1>14. Turns'
    BY <1>1, <1>5 DEF Turns
  <1>15. Wires'
    BY <1>1, <1>2 DEF Wires, Resetting, Quiet, Waiting
  <1> QED BY <1>11, <1>12, <1>13, <1>14, <1>15 DEF CInv

\* A worker that enters a phase, and the others, which stay where they are.
LEMMA PhaseStep ==
    ASSUME CoSimType, NEW w \in W, NEW s \in Phases, Phase(w, s)
    PROVE  /\ worker' \in [W -> [phase : Phases, page : Pages]]
           /\ worker'[w].phase = s /\ worker'[w].page = worker[w].page
           /\ \A v \in W : v # w => worker'[v] = worker[v]
  BY DEF CoSimType, Phase

\* The zone the host picks is the worker's own.
LEMMA OwnZone ==
    ASSUME CInv, NEW w \in W, worker[w].phase = "write"
    PROVE  Host!Min(Host!NotFull(w)) = w /\ Host!NotFull(w) # {}
  <1>1. w \in Host!NotFull(w) /\ \A y \in Host!NotFull(w) : w <= y
    <2>1. worker[w].page \in Pages /\ Appended(w) = worker[w].page
      BY DEF CInv, CoSimType, Appended
    <2>2. ~full[w]
      BY <2>1, RtlAssumption DEF CInv, Pointers, Pages
    <2>3. w \in Zones /\ w \in Nat /\ Host!Zones = Zones
      BY WorkerZones
    <2> QED BY <2>2, <2>3, BridgeAssumption DEF Host!NotFull, Zones
  <1>2. Host!NotFull(w) \subseteq Nat
    BY WorkerZones, BridgeAssumption DEF Host!NotFull, Zones
  <1>3. PICK x : x = Host!Min(Host!NotFull(w))
    OBVIOUS
  <1>4. x \in Host!NotFull(w) /\ x <= w
    BY <1>1, <1>3 DEF Host!Min
  <1> QED BY <1>1, <1>2, <1>3, <1>4

LEMMA CallWriteCInv == ASSUME CInv, NEW w \in W, CallWrite(w) PROVE CInv'
  <1>1. /\ pc = "idle" /\ pc' = "append" /\ owner' = w /\ Phase(w, "writing")
        /\ worker[w].phase = "write" /\ resets = ResetZones
        /\ UNCHANGED <<wp, full, l2p, mpc, disk, reply, npc, req, resets>>
        /\ LET z == Host!Min(Host!NotFull(w))
           IN  /\ call' = [type |-> "write", lba |-> Lba(w), value |-> Signature(w), zone |-> z,
                           page |-> wp[z]]
               /\ request' = Host!WriteReq(z, wp[z], Signature(w))
    BY DEF CallWrite, Host!StartWrite, BackUnchanged, nbdVars
  <1>2. Host!Min(Host!NotFull(w)) = w
    BY <1>1, OwnZone
  <1>3. wp[w] = worker[w].page
    BY <1>1 DEF CInv, Pointers, Appended
  <1>4. call'.lba = At(w, worker[w].page) /\ call'.zone = w /\ call'.page = worker[w].page
        /\ request' = Host!WriteReq(w, worker[w].page, Signature(w))
    BY <1>1, <1>2, <1>3 DEF Lba, At
  <1>5. /\ worker' \in [W -> [phase : Phases, page : Pages]]
        /\ worker'[w].phase = "writing" /\ worker'[w].page = worker[w].page
        /\ \A v \in W : v # w => worker'[v] = worker[v]
    BY <1>1, PhaseStep DEF CInv, Phases
  <1>6. \A v \in W : Appended(v)' = Appended(v) /\ ReadBack(v)' = ReadBack(v)
    BY <1>1, <1>5 DEF Appended, ReadBack
  <1>7. CoSimType'
    BY <1>1, <1>5 DEF CInv, CoSimType
  <1>8. Pointers' /\ Table' /\ Stored'
    BY <1>1, <1>6 DEF CInv, Pointers, Table, Stored, Signature
  <1>9. Turns'
    <2>1. ~(resets' < ResetZones)
      BY <1>1, CoSimAssumption
    <2>2. \A v \in W : worker[v].phase \notin {"writing", "reading"}
      BY <1>1 DEF CInv, Turns
    <2> QED BY <1>1, <1>5, <2>1, <2>2 DEF Turns
  <1>10. Page0' = worker[w].page /\ Write0' = request'
    BY <1>1, <1>4, <1>5 DEF Page0, Write0, Signature, Host!WriteReq
  <1>11. Quiet /\ mpc = "accept"
    BY <1>1 DEF CInv, Wires
  <1>12. Appending'
    BY <1>1, <1>4, <1>10, <1>11 DEF Appending, Quiet, Waiting
  <1> QED BY <1>1, <1>7, <1>8, <1>9, <1>12 DEF CInv, Wires

LEMMA CallReadCInv == ASSUME CInv, NEW w \in W, CallRead(w) PROVE CInv'
  <1>1. /\ pc = "idle" /\ pc' = "read" /\ owner' = w /\ Phase(w, "reading")
        /\ worker[w].phase = "read" /\ request' = Host!ReadReq(l2p[Lba(w)])
        /\ UNCHANGED <<wp, full, l2p, mpc, disk, reply, npc, req, resets>>
    BY DEF CallRead, Host!StartRead, Host!ftlVars, BackUnchanged, nbdVars
  <1>2. worker[w].page \in Pages /\ worker[w].page < Appended(w)
    BY <1>1, WorkerZones, RtlAssumption DEF CInv, CoSimType, Appended, Pages
  <1>3. l2p[Lba(w)] = [zone |-> w, page |-> worker[w].page]
    BY <1>2 DEF CInv, Table, Lba, At
  <1>4. /\ worker' \in [W -> [phase : Phases, page : Pages]]
        /\ worker'[w].phase = "reading" /\ worker'[w].page = worker[w].page
        /\ \A v \in W : v # w => worker'[v] = worker[v]
    BY <1>1, PhaseStep DEF CInv, Phases
  <1>5. \A v \in W : Appended(v)' = Appended(v) /\ ReadBack(v)' = ReadBack(v)
    BY <1>1, <1>4 DEF Appended, ReadBack
  <1>6. CoSimType'
    BY <1>1, <1>4 DEF CInv, CoSimType
  <1>7. Pointers' /\ Table' /\ Stored'
    BY <1>1, <1>5 DEF CInv, Pointers, Table, Stored, Signature
  <1>8. Turns'
    BY <1>1, <1>4 DEF CInv, Turns
  <1>9. Read0' = request'
    BY <1>1, <1>3, <1>4 DEF Page0, Read0, Host!ReadReq
  <1>10. Quiet /\ mpc = "accept"
    BY <1>1 DEF CInv, Wires
  <1>11. Reading'
    BY <1>1, <1>9, <1>10 DEF Reading, Quiet, Waiting
  <1> QED BY <1>1, <1>6, <1>7, <1>8, <1>11 DEF CInv, Wires

\* An acknowledged append: the worker's next page is mapped to its own zone.
LEMMA WriteReturnsCInv == ASSUME CInv, WriteReturns PROVE CInv'
  <1>1. /\ pc = "append" /\ reply # None
        /\ wp' = [wp EXCEPT ![call.zone] = @ + 1]
        /\ full' = [full EXCEPT ![call.zone] = @ \/ wp[call.zone] + 1 >= ZoneSize]
        /\ l2p' = [l2p EXCEPT ![call.lba] = [zone |-> call.zone, page |-> call.page]]
        /\ pc' = "idle" /\ reply' = None /\ Phase(owner, "read")
        /\ UNCHANGED <<request, mpc, npc, disk, owner, resets>>
    <2>1. pc = "append"
      BY DEF WriteReturns, Host!EndWrite, CInv, Wires
    <2>2. Host!EndWrite /\ Host!Appended
      BY DEF WriteReturns, Host!EndWrite
    <2> QED BY <2>1, <2>2 DEF WriteReturns, Host!EndWrite, Host!Appended, Host!Return, Host!None,
                              None, BackUnchanged, nbdVars
  <1>2. /\ Appending /\ owner \in W /\ Page0 \in Pages /\ worker[owner].phase = "writing"
        /\ ~(resets < ResetZones)
    BY <1>1, Requests0 DEF CInv, Wires, Turns
  <1>3. /\ call.zone = owner /\ call.page = Page0 /\ call.lba = At(owner, Page0)
        /\ request = None /\ Waiting /\ mpc = "accept"
    BY <1>1, <1>2, Requests0 DEF Appending
  <1>4. /\ worker' \in [W -> [phase : Phases, page : Pages]]
        /\ worker'[owner].phase = "read" /\ worker'[owner].page = Page0
        /\ \A v \in W : v # owner => worker'[v] = worker[v]
    BY <1>1, <1>2, PhaseStep DEF CInv, Phases, Page0
  <1>5. \A v \in W :
          /\ v = owner => Appended(v) = Page0 /\ Appended(v)' = Page0 + 1
          /\ v # owner => Appended(v)' = Appended(v)
          /\ ReadBack(v)' = ReadBack(v)
    BY <1>2, <1>4 DEF Appended, ReadBack, Page0
  <1>6. /\ wp[owner] = Page0 /\ Page0 \in Nat /\ Page0 < ZoneSize /\ ZoneSize \in Nat
        /\ ~full[owner] /\ owner \in Zones /\ owner \in Int
    BY <1>2, <1>5, WorkerZones, RtlAssumption DEF CInv, Pointers, Pages
  <1>7. PICK b \in BOOLEAN : b = (full[owner] \/ Page0 + 1 >= ZoneSize)
    BY Zenon
  <1>8. full' = [full EXCEPT ![owner] = b] /\ wp' = [wp EXCEPT ![owner] = Page0 + 1]
    BY <1>1, <1>3, <1>6, <1>7
  <1>9. b <=> Page0 + 1 >= ZoneSize
    BY <1>6, <1>7, Zenon
  <1>10. CoSimType'
    <2>1. wp' \in [Zones -> Nat]
      BY <1>6, <1>8 DEF CInv, CoSimType
    <2>3. full' \in [Zones -> BOOLEAN]
      BY <1>8 DEF CInv, CoSimType
    <2>2. l2p' \in [Host!Lbas -> [zone : Int, page : Int]]
      <3>1. l2p \in [Host!Lbas -> [zone : Int, page : Int]]
        BY DEF CInv, CoSimType
      <3>2. PICK entry \in [zone : Int, page : Int] : entry = [zone |-> owner, page |-> Page0]
        <4>1. owner \in Int /\ Page0 \in Int
          BY <1>6
        <4> HIDE DEF Page0
        <4> QED BY <4>1
      <3>3. l2p' = [l2p EXCEPT ![call.lba] = entry]
        BY <1>1, <1>3, <3>2
      <3> QED BY <3>1, <3>3
    <2> QED BY <1>1, <1>4, <2>1, <2>2, <2>3 DEF CInv, CoSimType
  <1>11. Pointers'
    <2> SUFFICES ASSUME NEW v \in W
                 PROVE  wp'[v] = Appended(v)' /\ (full'[v] <=> Appended(v)' = ZoneSize)
      BY DEF Pointers
    <2>1. v \in Zones
      BY WorkerZones
    <2>2. CASE v = owner
      <3>1. wp'[v] = Page0 + 1 /\ full'[v] = b
        BY <1>8, <2>1, <2>2 DEF CInv, CoSimType
      <3>2. Appended(v)' = Page0 + 1
        BY <1>5, <2>2
      <3>3. Page0 + 1 >= ZoneSize <=> Page0 + 1 = ZoneSize
        BY <1>6
      <3> QED BY <1>9, <3>1, <3>2, <3>3
    <2>3. CASE v # owner
      <3>1. wp'[v] = wp[v] /\ full'[v] = full[v]
        BY <1>8, <2>1, <2>3 DEF CInv, CoSimType
      <3> QED BY <1>5, <2>3, <3>1 DEF CInv, Pointers
    <2> QED BY <2>2, <2>3
  <1>12. Table'
    <2> SUFFICES ASSUME NEW v \in W, NEW p \in Pages
                 PROVE  l2p'[At(v, p)] = IF p < Appended(v)' THEN [zone |-> v, page |-> p]
                                         ELSE Host!Unmapped
      BY DEF Table, At
    <2>1. At(v, p) \in Host!Lbas /\ p \in Nat
      BY AtRange, WorkerZones
    <2>2. CASE v = owner /\ p = Page0
      BY <1>1, <1>3, <1>5, <1>6, <2>1, <2>2 DEF CInv, CoSimType
    <2>3. CASE ~(v = owner /\ p = Page0)
      <3>1. At(v, p) # At(owner, Page0)
        BY <1>2, <2>3, AtUnique
      <3>2. l2p'[At(v, p)] = l2p[At(v, p)]
        <4>1. l2p \in [Host!Lbas -> [zone : Int, page : Int]]
          BY DEF CInv, CoSimType
        <4>2. PICK x : x = At(v, p)
          OBVIOUS
        <4>3. x \in Host!Lbas /\ x # call.lba
          BY <1>3, <2>1, <3>1, <4>2
        <4> QED BY <1>1, <4>1, <4>2, <4>3
      <3>3. p < Appended(v)' <=> p < Appended(v)
        BY <1>5, <1>6, <2>1, <2>3
      <3> QED BY <3>2, <3>3 DEF CInv, Table
    <2> QED BY <2>2, <2>3
  <1>13. Stored'
    BY <1>1, <1>5 DEF CInv, Stored, Signature, At
  <1>14. Turns'
    BY <1>1, <1>2, <1>4 DEF CInv, Turns
  <1>15. Wires'
    BY <1>1, <1>3 DEF Wires, Quiet, Waiting
  <1> QED BY <1>10, <1>11, <1>12, <1>13, <1>14, <1>15 DEF CInv

\* The page read back: it counts as verified only if it is the worker's.
LEMMA ReadReturnsCInv == ASSUME CInv, ReadReturns PROVE CInv'
  <1>1. /\ pc = "read" /\ reply # None /\ reply.data # <<>> /\ pc' = "idle" /\ reply' = None
        /\ result'.value = reply.data[1]
        /\ UNCHANGED <<wp, full, l2p, request, mpc, npc, disk, owner, resets>>
    BY DEF ReadReturns, Host!EndRead, Host!Return, Host!Ok, Host!None, None, Host!ftlVars,
           BackUnchanged, nbdVars
  <1>2. /\ Reading /\ owner \in W /\ Page0 \in Pages /\ worker[owner].phase = "reading"
        /\ ~(resets < ResetZones)
    BY <1>1, Requests0 DEF CInv, Wires, Turns
  <1>3. request = None /\ Waiting /\ mpc = "accept" /\ reply.data[1] = disk[At(owner, Page0)]
    BY <1>1, <1>2, Requests0 DEF Reading
  <1>4. Page0 \in Nat /\ Page0 < ZoneSize /\ ZoneSize \in Nat
    BY <1>2, RtlAssumption DEF Pages
  <1>5. /\ worker' \in [W -> [phase : Phases, page : Pages]]
        /\ \A v \in W : v # owner => worker'[v] = worker[v]
        /\ worker'[owner].phase \notin {"writing", "reading"}
        /\ \A v \in W : v = owner =>
             /\ Appended(v)' = Page0 + 1
             /\ \/ ReadBack(v)' = Page0
                \/ ReadBack(v)' = Page0 + 1 /\ disk[At(owner, Page0)] = Signature(owner)
    <2>1. CASE Phase(owner, "failed")
      <3>1. /\ worker' \in [W -> [phase : Phases, page : Pages]]
            /\ worker'[owner].phase = "failed" /\ worker'[owner].page = Page0
            /\ \A v \in W : v # owner => worker'[v] = worker[v]
        BY <1>2, <2>1, PhaseStep DEF CInv, Phases, Page0
      <3> QED BY <1>1, <3>1 DEF Appended, ReadBack
    <2>2. CASE Verified(owner) /\ result'.value = Signature(owner)
      <3>1. worker \in [W -> [phase : Phases, page : Pages]]
        BY DEF CInv, CoSimType
      <3>2. CASE Page0 + 1 < ZoneSize
        <4>1. worker' = [worker EXCEPT ![owner] = [phase |-> "write", page |-> Page0 + 1]]
          BY <2>2, <3>2 DEF Verified, Page0
        <4>2. Page0 + 1 \in Pages
          BY <1>4, <3>2 DEF Pages
        <4>3. /\ worker' \in [W -> [phase : Phases, page : Pages]]
              /\ \A v \in W : v # owner => worker'[v] = worker[v]
              /\ worker'[owner].phase = "write" /\ worker'[owner].page = Page0 + 1
          BY <1>2, <3>1, <4>1, <4>2 DEF Phases
        <4>4. \A v \in W : v = owner => Appended(v)' = Page0 + 1 /\ ReadBack(v)' = Page0 + 1
          BY <4>3 DEF Appended, ReadBack
        <4> QED BY <1>1, <1>3, <2>2, <4>3, <4>4
      <3>3. CASE ~(Page0 + 1 < ZoneSize)
        <4>1. worker' = [worker EXCEPT ![owner] = [phase |-> "done", page |-> Page0]]
          BY <2>2, <3>3 DEF Verified, Page0
        <4>2. /\ worker' \in [W -> [phase : Phases, page : Pages]]
              /\ \A v \in W : v # owner => worker'[v] = worker[v]
              /\ worker'[owner].phase = "done" /\ worker'[owner].page = Page0
          BY <1>2, <3>1, <4>1 DEF Phases
        <4>3. \A v \in W : v = owner => Appended(v)' = Page0 + 1 /\ ReadBack(v)' = ZoneSize
          BY <4>2 DEF Appended, ReadBack
        <4>4. ZoneSize = Page0 + 1
          BY <1>4, <3>3
        <4> QED BY <1>1, <1>3, <2>2, <4>2, <4>3, <4>4
      <3> QED BY <3>2, <3>3
    <2> QED BY <2>1, <2>2 DEF ReadReturns
  <1>6. \A v \in W : /\ Appended(v)' = Appended(v)
                     /\ v # owner => ReadBack(v)' = ReadBack(v)
    <2>1. \A v \in W : v = owner => Appended(v) = Page0 + 1
      BY <1>2 DEF Appended, Page0
    <2>2. \A v \in W : v # owner => Appended(v)' = Appended(v) /\ ReadBack(v)' = ReadBack(v)
      BY <1>5 DEF Appended, ReadBack
    <2> QED BY <1>5, <2>1, <2>2
  <1>7. CoSimType'
    BY <1>1, <1>5 DEF CInv, CoSimType
  <1>8. Pointers' /\ Table'
    BY <1>1, <1>6 DEF CInv, Pointers, Table, At
  <1>9. Stored'
    <2> SUFFICES ASSUME NEW v \in W, NEW p \in Pages, p < ReadBack(v)'
                 PROVE  disk[At(v, p)] = Signature(v)
      BY <1>1 DEF Stored, At, Signature
    <2>1. CASE v # owner
      BY <1>6, <2>1 DEF CInv, Stored
    <2>2. CASE v = owner /\ p < Page0
      <3>1. ReadBack(v) = Page0
        BY <1>2, <2>2 DEF ReadBack, Page0
      <3> QED BY <2>2, <3>1 DEF CInv, Stored
    <2>3. CASE v = owner /\ p = Page0
      BY <1>4, <1>5, <2>3
    <2>4. p \in Nat
      BY WorkerZones
    <2> QED BY <1>4, <1>5, <2>1, <2>2, <2>3, <2>4
  <1>10. Turns'
    BY <1>1, <1>2, <1>5 DEF CInv, Turns
  <1>11. Wires'
    BY <1>1, <1>3 DEF Wires, Quiet, Waiting
  <1> QED BY <1>7, <1>8, <1>9, <1>10, <1>11 DEF CInv

LEMMA ReadHangsCInv == ASSUME CInv, ReadHangs PROVE CInv'
  <1>1. /\ pc = "read" /\ reply # None /\ pc' = "stuck" /\ reply' = None
        /\ UNCHANGED <<wp, full, l2p, request, mpc, npc, disk, worker, owner, resets>>
    BY DEF ReadHangs, Host!ReadHangs, Host!None, None, Host!ftlVars, testVars, BackUnchanged, nbdVars
  <1>2. request = None /\ Waiting /\ mpc = "accept"
    BY <1>1, Requests0 DEF CInv, Wires, Reading
  <1>3. CoSimType' /\ Pointers' /\ Table' /\ Stored'
    BY <1>1 DEF CInv, CoSimType, Pointers, Table, Stored, Appended, ReadBack, Signature
  <1>4. Turns'
    BY <1>1 DEF CInv, Turns
  <1>5. Wires'
    BY <1>1, <1>2 DEF Wires, Quiet, Waiting
  <1> QED BY <1>3, <1>4, <1>5 DEF CInv

LEMMA NextCInv == ASSUME CInv, [Next]_vars PROVE CInv'
  <1>1. CASE UNCHANGED vars
    <2>1. UNCHANGED <<hostVars, testVars, disk, request, reply, npc, req, mpc, mzone>>
      BY <1>1 DEF vars, serverVars, wire, nbdVars, mgmtVars
    <2>2. UNCHANGED <<call, pc, owner, worker, resets>>
      BY <2>1 DEF hostVars, testVars
    <2>3. UNCHANGED <<Page0, Write0, Read0>>
      BY <2>2 DEF Page0, Write0, Read0, Signature, Host!WriteReq, Host!ReadReq
    <2>4. Wires'
      BY <2>1, <2>2, <2>3 DEF CInv, Wires, Quiet, Waiting, Appending, Reading, Resetting
    <2> QED BY <2>1, <2>4, ServerSame
  <1>2. CASE Server
    BY <1>2, ServerCInv
  <1>3. CASE HostStep
    BY <1>3, ResetNextCInv, ResetDoneCInv, WriteReturnsCInv, ReadReturnsCInv, ReadHangsCInv,
       CallWriteCInv, CallReadCInv DEF HostStep
  <1> QED BY <1>1, <1>2, <1>3 DEF Next, Finished

-----------------------------------------------------------------------------
THEOREM Invariant == Spec => []CInv
  <1>1. CInv /\ [Next]_vars => CInv'
    BY NextCInv
  <1> QED BY <1>1, InitCInv, PTL DEF Spec

\* host_ftl over this server: the reset-and-retry path, a full device and a read
\* of an unmapped page are dead code, for any number of workers.
THEOREM ErrorPathsDead == Spec => []NothingLeftOut
  <1>1. CInv => NothingLeftOut
    <2> SUFFICES ASSUME CInv PROVE NothingLeftOut
      OBVIOUS
    <2>1. pc = "append" /\ reply # None => reply.err = OK
      BY DEF CInv, Wires, Appending
    <2>2. ASSUME NEW w \in W, worker[w].phase = "write" PROVE ~full[w]
      <3>1. Appended(w) # ZoneSize
        BY <2>2, RtlAssumption DEF CInv, CoSimType, Appended, Pages
      <3> QED BY <3>1 DEF CInv, Pointers
    <2>3. ASSUME NEW w \in W, worker[w].phase = "read" PROVE l2p[Lba(w)] # Host!Unmapped
      <3>1. worker[w].page \in Pages /\ worker[w].page < Appended(w) /\ w \in Nat
        BY <2>3, WorkerZones, RtlAssumption DEF CInv, CoSimType, Appended, Pages
      <3>2. l2p[Lba(w)] = [zone |-> w, page |-> worker[w].page]
        BY <3>1 DEF CInv, Table, Lba, At
      <3> QED BY <3>1, <3>2 DEF Host!Unmapped
    <2> QED BY <2>1, <2>2, <2>3 DEF NothingLeftOut
  <1> QED BY <1>1, Invariant, PTL

\* sim_main.cpp: no lock guards the RTL, and under this host none is needed.
THEOREM HardwareCorrect == Spec => []OneHardwareUser
  <1>1. CInv => OneHardwareUser
    BY DEF CInv, Wires, Appending, Reading, Resetting, Quiet, Waiting, OneHardwareUser
  <1> QED BY <1>1, Invariant, PTL

\* main.rs, ftl_write_pipeline.rs: a worker's pages stay in its own zone, at the
\* offsets it wrote them, whatever the other workers do in between.
THEOREM ZoneCorrect == Spec => []WorkerOwnsZone
  <1>1. CInv => WorkerOwnsZone
    BY DEF CInv, Table, At, WorkerOwnsZone
  <1> QED BY <1>1, Invariant, PTL

\* main.rs: a zone reported as verified is on the device, page for page, although
\* the server acknowledges writes that the RTL refused and it dropped.
THEOREM VerifiedCorrect == Spec => []VerifiedIsStored
  <1>1. CInv => VerifiedIsStored
    <2> SUFFICES ASSUME CInv, NEW w \in W, worker[w].phase = "done", NEW p \in Pages
                 PROVE  disk[w * ZoneSize + p] = Signature(w)
      BY DEF VerifiedIsStored
    <2>1. p < ReadBack(w)
      BY RtlAssumption DEF ReadBack, Pages
    <2> QED BY <2>1 DEF CInv, Stored, At
  <1> QED BY <1>1, Invariant, PTL
=============================================================================
