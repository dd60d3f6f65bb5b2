-------------------------- MODULE HostStoreProofs ---------------------------
(***************************************************************************)
(* The host FTL keeps its data, for every number and size of zones, every  *)
(* table length and every set of values, as long as no write is retried.   *)
(***************************************************************************)
EXTENDS HostStore, WellFoundedInduction, TLAPS

Mapped(l) == l2p[l] # Unmapped

\* A zone's pointer is inside it, and the flag says whether it is at the end.
Pointers ==
    /\ wp \in [Zones -> 0..ZoneSize] /\ full \in [Zones -> BOOLEAN]
    /\ \A z \in Zones : full[z] <=> wp[z] = ZoneSize

\* The table points below the pointers, so never at a page yet to be written.
Table ==
    /\ l2p \in [Lbas -> [zone : Int, page : Int]]
    /\ \A l \in Lbas : Mapped(l) => /\ l2p[l].zone \in Zones
                                    /\ l2p[l].page \in 0..(wp[l2p[l].zone] - 1)

\* The pages of a zone whose reset the backend has done and the host has not.
Cleared(l) == mpc = "ack" /\ l2p[l].zone = mzone

Contents ==
    /\ disk \in [DiskPages -> Nat] /\ expected \in [Lbas -> Nat]
    /\ \A l \in Lbas : IF Mapped(l)
                       THEN Cleared(l) \/ disk[Place(l2p[l])] = expected[l]
                       ELSE expected[l] = 0

\* Where the call in progress stands, and what is on the two connections.
Quiet == request = None /\ reply = None /\ mpc = "accept"

Appending ==
    /\ mpc = "accept"
    /\ call.zone \in Zones /\ call.lba \in Lbas /\ call.value \in Values
    /\ call.page = wp[call.zone] /\ ~full[call.zone]
    /\ \/ request = WriteReq(call.zone, call.page, call.value) /\ reply = None
       \/ /\ request = None
          /\ reply # None /\ reply.err = "OK" =>
                disk[call.zone * ZoneSize + call.page] = call.value

Resetting ==
    /\ request = None /\ reply = None /\ mpc \in {"command", "ack"}
    /\ call.zone \in Zones /\ mzone = call.zone

Progress ==
    /\ pc \in {"idle", "append", "reset", "read", "zone_reset"}
    /\ pc = "idle" => Quiet
    /\ pc = "append" => Appending
    /\ pc = "read" => /\ mpc = "accept"
                      /\ request = None \/ (request.type = "READ" /\ reply = None)
    /\ pc \in {"reset", "zone_reset"} => Resetting

Good == Pointers /\ Table /\ Contents /\ Progress
HInv == retried \in BOOLEAN /\ (~retried => Good)

-----------------------------------------------------------------------------
LEMMA NatMin ==
    ASSUME NEW S, S \subseteq Nat, S # {}
    PROVE  Min(S) \in S
  <1>1. PICK x \in S : \A y \in S : ~ (<<y, x>> \in OpToRel(<, Nat))
    BY NatLessThanWellFounded, WFMin
  <1>2. \A y \in S : ~ (y < x)
    BY <1>1 DEF OpToRel
  <1>3. \A y \in S : x <= y
    BY <1>2
  <1> QED BY <1>3 DEF Min

\* Products of naturals, for the addresses below.
LEMMA Scaled ==
    ASSUME NEW a \in Nat, NEW b \in Nat, NEW n \in Nat, a < b
    PROVE  a * n + n <= b * n /\ a * n \in Nat /\ b * n \in Nat
  <1>1. PICK d \in Nat : b = a + 1 + d
    <2>1. b - (a + 1) \in Nat /\ b = a + 1 + (b - (a + 1))
      OBVIOUS
    <2> QED BY <2>1
  <1>2. b * n = a * n + n + d * n /\ d * n \in Nat /\ a * n \in Nat
    BY <1>1
  <1> QED BY <1>2

\* Zone and page make a page of the device, and only one pair makes it.
LEMMA PlaceRange ==
    ASSUME NEW z \in Zones, NEW p \in 0..(ZoneSize - 1)
    PROVE  z * ZoneSize + p \in DiskPages
  <1>1. z * ZoneSize + ZoneSize <= NumZones * ZoneSize /\ z * ZoneSize \in Nat
        /\ NumZones * ZoneSize \in Nat
    BY HostAssumption, Scaled DEF Zones
  <1> QED BY <1>1, HostAssumption DEF DiskPages

LEMMA PlaceUnique ==
    ASSUME NEW a \in Nat, NEW b \in Nat, NEW p \in 0..(ZoneSize - 1), NEW q \in 0..(ZoneSize - 1),
           a * ZoneSize + p = b * ZoneSize + q
    PROVE  a = b /\ p = q
  <1>1. ZoneSize \in Nat
    BY HostAssumption
  <1>2. CASE a < b
    <2>1. a * ZoneSize + ZoneSize <= b * ZoneSize /\ a * ZoneSize \in Nat /\ b * ZoneSize \in Nat
      BY <1>1, <1>2, Scaled
    <2> QED BY <1>1, <2>1
  <1>3. CASE b < a
    <2>1. b * ZoneSize + ZoneSize <= a * ZoneSize /\ a * ZoneSize \in Nat /\ b * ZoneSize \in Nat
      BY <1>1, <1>3, Scaled
    <2> QED BY <1>1, <2>1
  <1>4. CASE a = b
    <2>1. a * ZoneSize \in Nat
      BY <1>1
    <2> QED BY <1>1, <1>4, <2>1
  <1> QED BY <1>2, <1>3, <1>4

LEMMA PlaceZone ==
    ASSUME NEW a \in Nat, NEW p \in 0..(ZoneSize - 1)
    PROVE  (a * ZoneSize + p) \div ZoneSize = a
  <1>1. ZoneSize \in Nat /\ ZoneSize > 0 /\ a * ZoneSize \in Nat
    BY HostAssumption
  <1>2. PICK n \in Nat : n = a * ZoneSize + p
    BY <1>1
  <1>3. /\ n \div ZoneSize \in Nat /\ n % ZoneSize \in 0..(ZoneSize - 1)
        /\ n = (n \div ZoneSize) * ZoneSize + (n % ZoneSize)
    BY <1>1
  <1> QED BY <1>2, <1>3, PlaceUnique

\* What is known of a page the table maps.
LEMMA MappedPlace ==
    ASSUME Pointers, Table, NEW l \in Lbas, Mapped(l)
    PROVE  /\ l2p[l].zone \in Zones /\ l2p[l].page \in 0..(ZoneSize - 1)
           /\ l2p[l].page < wp[l2p[l].zone]
           /\ Place(l2p[l]) = l2p[l].zone * ZoneSize + l2p[l].page
           /\ Place(l2p[l]) \in DiskPages
           /\ Place(l2p[l]) \div ZoneSize = l2p[l].zone
  <1>1. /\ l2p[l].zone \in Zones /\ l2p[l].page \in 0..(wp[l2p[l].zone] - 1)
        /\ wp[l2p[l].zone] \in 0..ZoneSize
    BY DEF Table, Pointers
  <1>2. l2p[l].page \in 0..(ZoneSize - 1) /\ l2p[l].page < wp[l2p[l].zone]
    BY <1>1, HostAssumption
  <1>3. Place(l2p[l]) = l2p[l].zone * ZoneSize + l2p[l].page
    BY DEF Place
  <1>4. l2p[l].zone \in Nat
    BY <1>1, HostAssumption DEF Zones
  <1>5. (l2p[l].zone * ZoneSize + l2p[l].page) \div ZoneSize = l2p[l].zone
    BY <1>2, <1>4, PlaceZone
  <1>6. l2p[l].zone * ZoneSize + l2p[l].page \in DiskPages
    BY <1>1, <1>2, PlaceRange
  <1> QED BY <1>1, <1>2, <1>3, <1>5, <1>6

LEMMA InitGood == Init => HInv
  <1> SUFFICES ASSUME Init PROVE HInv
    OBVIOUS
  <1>1. Pointers
    BY HostAssumption DEF Init, HostInit, Pointers
  <1>2. \A l \in Lbas : ~Mapped(l)
    BY DEF Init, HostInit, Mapped
  <1>3. Table
    BY <1>2 DEF Init, HostInit, Table, Unmapped
  <1>4. Contents
    BY <1>2 DEF Init, Contents
  <1>5. Progress
    BY DEF Init, HostInit, Progress, Quiet
  <1> QED BY <1>1, <1>3, <1>4, <1>5 DEF HInv, Good, Init

\* Steps that change neither the table nor the pages nor a zone.
LEMMA SameData ==
    ASSUME Pointers, Table, Contents, UNCHANGED <<wp, full, l2p, disk, expected>>,
           mpc = "ack" => mpc' = "ack" /\ mzone' = mzone
    PROVE  Pointers' /\ Table' /\ Contents'
  BY DEF Pointers, Table, Contents, Mapped, Cleared, Place

(***************************************************************************)
(* The callers.                                                            *)
(***************************************************************************)
LEMMA CallsGood == ASSUME Good, Calls PROVE Good'
  <1>1. pc = "idle" /\ Quiet /\ UNCHANGED <<wp, full, l2p, disk, expected, reply>>
    BY DEF Calls, OutOfBounds, StorageFull, StartWrite, ReadUnmapped, StartRead, StartReset,
           ZoneResetFails, ftlVars, Good, Progress
  <1>2. Pointers' /\ Table' /\ Contents'
    BY <1>1, SameData DEF Good, Quiet
  <1>3. CASE Return(result') /\ UNCHANGED <<request, mpc, mzone>>
    BY <1>1, <1>2, <1>3 DEF Good, Progress, Quiet, Return
  <1>4. ASSUME NEW l \in Lbas, NEW v \in Values, NEW s, StartWrite(l, v, s) PROVE Good'
    <2>1. PICK z : z = Min(NotFull(s))
      OBVIOUS
    <2>2. z \in Zones /\ ~full[z]
      <3>1. NotFull(s) # {} /\ NotFull(s) \subseteq Nat
        BY <1>4, HostAssumption DEF StartWrite, NotFull, Zones
      <3>2. z \in NotFull(s)
        BY <2>1, <3>1, NatMin
      <3> QED BY <3>2 DEF NotFull
    <2>3. /\ call' = [type |-> "write", lba |-> l, value |-> v, zone |-> z, page |-> wp[z]]
          /\ request' = WriteReq(z, wp[z], v) /\ pc' = "append" /\ UNCHANGED <<mpc, mzone>>
      BY <1>4, <2>1 DEF StartWrite
    <2>4. Appending'
      BY <1>1, <1>4, <2>2, <2>3 DEF Appending, Quiet, WriteReq
    <2> QED BY <1>2, <2>3, <2>4 DEF Good, Progress
  <1>5. ASSUME NEW l, StartRead(l) PROVE Good'
    BY <1>1, <1>2, <1>5 DEF StartRead, ReadReq, Good, Progress, Quiet
  <1>6. ASSUME NEW z \in Zones, StartReset(z) PROVE Good'
    <2>1. Resetting' /\ pc' = "zone_reset"
      BY <1>1, <1>6 DEF StartReset, Resetting, Quiet
    <2> QED BY <1>2, <2>1 DEF Good, Progress
  <1>7. ASSUME NEW k, NEW l, OutOfBounds(k, l) \/ ReadUnmapped(l) \/ ZoneResetFails
        PROVE  Return(result') /\ UNCHANGED <<request, mpc, mzone>>
    BY <1>7 DEF OutOfBounds, ReadUnmapped, ZoneResetFails, Return
  <1>8. ASSUME NEW l, NEW s, StorageFull(l, s)
        PROVE  Return(result') /\ UNCHANGED <<request, mpc, mzone>>
    BY <1>8 DEF StorageFull, Return
  <1>9. \A l, v, s : StartWrite(l, v, s) => l \in Lbas
    BY DEF StartWrite
  <1> QED BY <1>3, <1>4, <1>5, <1>6, <1>7, <1>8, <1>9 DEF Calls

(***************************************************************************)
(* The backend.                                                            *)
(***************************************************************************)
\* A write lands on the page at its zone's pointer, which nothing maps.
LEMMA ServeWriteGood == ASSUME Good, ServeWrite PROVE Good'
  <1>1. /\ UNCHANGED <<wp, full, l2p, call, pc, mpc, mzone, expected>>
        /\ request.type = "WRITE" /\ request' = None
        /\ reply' = [type |-> "WRITE", err |-> "OK", data |-> <<>>]
    BY DEF ServeWrite, hostVars, ftlVars
  <1>2. pc = "append" /\ Appending /\ request = WriteReq(call.zone, call.page, call.value)
    BY <1>1 DEF Good, Progress, Quiet, Resetting, Appending, None
  <1> DEFINE a == call.zone * ZoneSize + call.page
  <1>3. /\ call.zone \in Zones /\ call.page = wp[call.zone] /\ call.value \in Nat
        /\ call.page \in 0..(ZoneSize - 1) /\ request.from = a /\ request.data = call.value
    <2>1. /\ call.zone \in Zones /\ call.page = wp[call.zone] /\ call.value \in Values
          /\ ~full[call.zone]
      BY <1>2 DEF Appending
    <2>2. request.from = a /\ request.data = call.value
      BY <1>2 DEF WriteReq
    <2>3. wp[call.zone] \in 0..ZoneSize /\ wp[call.zone] # ZoneSize
      BY <2>1 DEF Good, Pointers
    <2>4. wp[call.zone] \in 0..(ZoneSize - 1)
      BY <2>3, HostAssumption
    <2>5. call.value \in Nat
      BY <2>1, HostAssumption, Zenon
    <2> HIDE DEF a
    <2> QED BY <2>1, <2>2, <2>4, <2>5
  <1>4. a \in DiskPages
    BY <1>3, PlaceRange
  <1>5. disk \in [DiskPages -> Nat] /\ disk' = [disk EXCEPT ![a] = call.value]
    BY <1>3 DEF ServeWrite, Good, Contents
  <1>6. ASSUME NEW l \in Lbas, Mapped(l) PROVE Place(l2p[l]) # a
    <2>1. /\ l2p[l].zone \in Zones /\ l2p[l].page \in 0..(ZoneSize - 1)
          /\ l2p[l].page < wp[l2p[l].zone]
          /\ Place(l2p[l]) = l2p[l].zone * ZoneSize + l2p[l].page
      BY <1>6, MappedPlace DEF Good
    <2>2. l2p[l].zone \in Nat /\ call.zone \in Nat /\ l2p[l].page \in Nat
      BY <1>3, <2>1, HostAssumption DEF Zones
    <2>3. SUFFICES ASSUME Place(l2p[l]) = a PROVE FALSE
      OBVIOUS
    <2>4. l2p[l].zone = call.zone /\ l2p[l].page = call.page
      BY <1>3, <2>1, <2>2, <2>3, PlaceUnique
    <2> QED BY <1>3, <2>1, <2>2, <2>4
  <1> HIDE DEF a
  <1>7. disk' \in [DiskPages -> Nat] /\ disk'[a] = call.value
    BY <1>3, <1>4, <1>5
  <1>8. \A l \in Lbas : Mapped(l) => disk'[Place(l2p[l])] = disk[Place(l2p[l])]
    <2> SUFFICES ASSUME NEW l \in Lbas, Mapped(l)
                 PROVE  disk'[Place(l2p[l])] = disk[Place(l2p[l])]
      OBVIOUS
    <2>1. Place(l2p[l]) \in DiskPages
      BY MappedPlace DEF Good
    <2> QED BY <1>5, <1>6, <2>1
  <1>9. Contents'
    BY <1>1, <1>7, <1>8 DEF Contents, Good, Mapped, Cleared, Place
  <1>10. Pointers' /\ Table'
    BY <1>1 DEF Good, Pointers, Table, Mapped
  <1>11. Appending'
    BY <1>1, <1>2, <1>3, <1>7 DEF Appending, a
  <1>12. Progress'
    BY <1>1, <1>2, <1>11 DEF Progress
  <1> QED BY <1>9, <1>10, <1>12 DEF Good

LEMMA RefuseWriteGood == ASSUME Good, RefuseWrite PROVE Good'
  <1>1. /\ UNCHANGED <<wp, full, l2p, call, pc, mpc, mzone, disk, expected>>
        /\ request.type = "WRITE" /\ request' = None
        /\ reply' = [type |-> "WRITE", err |-> "EIO", data |-> <<>>]
    BY DEF RefuseWrite, hostVars, ftlVars
  <1>2. pc = "append" /\ Appending
    BY <1>1 DEF Good, Progress, Quiet, Resetting, None
  <1>3. Pointers' /\ Table' /\ Contents'
    BY <1>1, SameData DEF Good
  <1>4. reply'.err # "OK"
    BY <1>1
  <1>5. Appending'
    BY <1>1, <1>2, <1>4 DEF Appending
  <1> QED BY <1>1, <1>2, <1>3, <1>5 DEF Good, Progress

LEMMA ServeReadGood == ASSUME Good, ServeRead PROVE Good'
  <1>1. /\ UNCHANGED <<wp, full, l2p, call, pc, mpc, mzone, disk, expected>>
        /\ request.type = "READ" /\ request' = None
    BY DEF ServeRead, hostVars, ftlVars
  <1>2. pc = "read"
    BY <1>1 DEF Good, Progress, Quiet, Resetting, Appending, None, WriteReq
  <1>3. Pointers' /\ Table' /\ Contents'
    BY <1>1, SameData DEF Good
  <1> QED BY <1>1, <1>2, <1>3 DEF Good, Progress

\* A reset empties the pages of one zone, and the host still maps them.
LEMMA ServeResetGood == ASSUME Good, ServeReset PROVE Good'
  <1>1. /\ UNCHANGED <<wp, full, l2p, call, pc, request, reply, mzone, expected>>
        /\ mpc = "command" /\ mpc' = "ack"
        /\ disk' = [p \in DiskPages |-> IF p \div ZoneSize = mzone THEN 0 ELSE disk[p]]
    BY DEF ServeReset, hostVars, ftlVars
  <1>2. pc \in {"reset", "zone_reset"} /\ Resetting
    BY <1>1 DEF Good, Progress, Quiet, Appending
  <1>3. Pointers' /\ Table'
    BY <1>1 DEF Good, Pointers, Table, Mapped
  <1>4. disk' \in [DiskPages -> Nat]
    BY <1>1 DEF Good, Contents
  <1>5. ASSUME NEW l \in Lbas, Mapped(l), l2p[l].zone # mzone
        PROVE  disk'[Place(l2p[l])] = disk[Place(l2p[l])]
    <2>1. Place(l2p[l]) \in DiskPages /\ Place(l2p[l]) \div ZoneSize = l2p[l].zone
      BY <1>5, MappedPlace DEF Good
    <2> QED BY <1>1, <1>5, <2>1
  <1>6. ASSUME NEW l \in Lbas
        PROVE  IF Mapped(l)' THEN Cleared(l)' \/ (disk[Place(l2p[l])] = expected[l])'
               ELSE expected'[l] = 0
    BY <1>1, <1>5 DEF Good, Contents, Mapped, Cleared, Place
  <1>7. Contents'
    BY <1>1, <1>4, <1>6 DEF Good, Contents
  <1>8. Resetting'
    BY <1>1, <1>2 DEF Resetting
  <1> QED BY <1>1, <1>2, <1>3, <1>7, <1>8 DEF Good, Progress

(***************************************************************************)
(* The rest of a call, once the backend has answered.                      *)
(***************************************************************************)
\* A successful append: the table now points at the page just stored.
LEMMA EndWriteGood ==
    ASSUME Good, OnAnswer, EndWrite PROVE Good'
  <1>1. pc = "append" /\ Appending /\ reply # None /\ reply.err = "OK"
    BY DEF EndWrite, Good, Progress
  <1>2. /\ call.zone \in Zones /\ call.lba \in Lbas /\ call.value \in Nat
        /\ call.page = wp[call.zone] /\ ~full[call.zone] /\ mpc = "accept" /\ request = None
        /\ disk[call.zone * ZoneSize + call.page] = call.value
    BY <1>1, HostAssumption DEF Appending, None
  <1>3. /\ wp' = [wp EXCEPT ![call.zone] = @ + 1]
        /\ full' = [full EXCEPT ![call.zone] = @ \/ wp[call.zone] + 1 >= ZoneSize]
        /\ l2p' = [l2p EXCEPT ![call.lba] = [zone |-> call.zone, page |-> call.page]]
        /\ pc' = "idle" /\ reply' = None /\ UNCHANGED <<request, mpc, mzone, disk>>
        /\ expected' = [expected EXCEPT ![call.lba] = call.value]
    BY <1>1 DEF EndWrite, Appended, Return, OnAnswer, OnReply
  <1>4. /\ wp \in [Zones -> 0..ZoneSize] /\ full \in [Zones -> BOOLEAN]
        /\ \A z \in Zones : full[z] <=> wp[z] = ZoneSize
        /\ wp[call.zone] < ZoneSize /\ wp[call.zone] \in Nat /\ ZoneSize \in Nat
    BY <1>2, HostAssumption DEF Good, Pointers
  <1>5. Pointers'
    <2>1. \A z \in Zones : wp'[z] = IF z = call.zone THEN wp[z] + 1 ELSE wp[z]
      BY <1>3, <1>4
    <2>6. PICK b \in BOOLEAN : b = (full[call.zone] \/ wp[call.zone] + 1 >= ZoneSize)
      BY Zenon
    <2>7. full' = [full EXCEPT ![call.zone] = b]
      BY <1>3, <2>6, Zenon
    <2>8. b <=> wp[call.zone] + 1 >= ZoneSize
      BY <1>2, <2>6, Zenon
    <2>2. \A z \in Zones : full'[z] <=> IF z = call.zone THEN wp[z] + 1 = ZoneSize ELSE full[z]
      BY <1>2, <1>4, <2>7, <2>8
    <2>3. full' \in [Zones -> BOOLEAN]
      BY <1>4, <2>7
    <2>4. wp' \in [Zones -> 0..ZoneSize]
      <3>1. wp[call.zone] + 1 \in 0..ZoneSize
        BY <1>4
      <3> QED BY <1>3, <1>4, <3>1
    <2>5. \A z \in Zones : full'[z] <=> wp'[z] = ZoneSize
      BY <1>4, <2>1, <2>2
    <2> QED BY <2>3, <2>4, <2>5 DEF Pointers
  <1>6. l2p \in [Lbas -> [zone : Int, page : Int]]
    BY DEF Good, Table
  <1>7. \A l \in Lbas : l2p'[l] = IF l = call.lba THEN [zone |-> call.zone, page |-> call.page]
                                  ELSE l2p[l]
    BY <1>3, <1>6
  <1>8. call.zone \in Int /\ call.page \in Int /\ call.page \in Nat
    BY <1>2, <1>4, HostAssumption DEF Zones
  <1>9. l2p' \in [Lbas -> [zone : Int, page : Int]]
    BY <1>3, <1>6, <1>8
  <1>10. Table'
    <2> SUFFICES ASSUME NEW l \in Lbas, Mapped(l)'
                 PROVE  l2p'[l].zone \in Zones /\ l2p'[l].page \in 0..(wp'[l2p'[l].zone] - 1)
      BY <1>9 DEF Table
    <2>1. CASE l = call.lba
      BY <1>2, <1>3, <1>4, <1>7, <1>8, <2>1
    <2>2. CASE l # call.lba
      <3>1. l2p'[l] = l2p[l] /\ Mapped(l)
        BY <1>7, <2>2 DEF Mapped
      <3>2. l2p[l].zone \in Zones /\ l2p[l].page \in 0..(wp[l2p[l].zone] - 1)
        BY <3>1 DEF Good, Table
      <3> QED BY <1>3, <1>4, <3>1, <3>2
    <2> QED BY <2>1, <2>2
  <1>11. Contents'
    <2>1. expected \in [Lbas -> Nat] /\ disk' \in [DiskPages -> Nat]
      BY <1>3 DEF Good, Contents
    <2>2. expected' \in [Lbas -> Nat]
      BY <1>2, <1>3, <2>1
    <2>3. ASSUME NEW l \in Lbas
          PROVE  IF Mapped(l)' THEN Cleared(l)' \/ (disk[Place(l2p[l])] = expected[l])'
                 ELSE expected'[l] = 0
      <3>1. CASE l = call.lba
        BY <1>2, <1>3, <1>7, <2>1, <3>1 DEF Mapped, Place, Unmapped, Zones
      <3>2. CASE l # call.lba
        BY <1>2, <1>3, <1>7, <2>1, <3>2 DEF Good, Contents, Mapped, Cleared, Place
      <3> QED BY <3>1, <3>2
    <2> QED BY <2>1, <2>2, <2>3 DEF Contents
  <1>12. Progress'
    BY <1>2, <1>3 DEF Progress, Quiet
  <1> QED BY <1>5, <1>10, <1>11, <1>12 DEF Good

\* The other answers leave zones, table and pages as they are.
LEMMA OnAnswerGood == ASSUME Good, OnAnswer PROVE Good'
  <1>1. CASE EndWrite
    BY <1>1, EndWriteGood
  <1>2. CASE ResetAfterError
    <2>1. pc = "append" /\ Appending /\ reply # None /\ reply.err # "OK"
      BY <1>2 DEF ResetAfterError, Good, Progress
    <2>2. /\ UNCHANGED <<wp, full, l2p, disk, expected, call, request>>
          /\ mpc' = "command" /\ mzone' = call.zone /\ pc' = "reset" /\ reply' = None
      BY <1>2, <2>1 DEF ResetAfterError, OnAnswer, OnReply, ftlVars
    <2>3. Pointers' /\ Table' /\ Contents'
      BY <2>1, <2>2, SameData DEF Good, Appending
    <2>4. Resetting'
      BY <2>1, <2>2 DEF Appending, Resetting
    <2> QED BY <2>2, <2>3, <2>4 DEF Good, Progress
  <1>3. CASE EndRead
    <2>1. pc = "read" /\ mpc = "accept" /\ request = None
      BY <1>3 DEF EndRead, Good, Progress
    <2>2. /\ UNCHANGED <<wp, full, l2p, disk, expected, request, mpc, mzone>>
          /\ pc' = "idle" /\ reply' = None
      BY <1>3, <2>1 DEF EndRead, Return, OnAnswer, OnReply, ftlVars
    <2>3. Pointers' /\ Table' /\ Contents'
      BY <2>1, <2>2, SameData DEF Good
    <2> QED BY <2>1, <2>2, <2>3 DEF Good, Progress, Quiet
  <1>4. CASE RetryFails
    BY <1>4 DEF RetryFails, Good, Progress
  <1>5. CASE ResetFails
    <2>1. pc = "append" /\ Appending /\ reply # None /\ reply.err # "OK"
      BY <1>5 DEF ResetFails, Good, Progress
    <2>2. /\ UNCHANGED <<wp, full, l2p, disk, expected, request, mpc, mzone>>
          /\ pc' = "idle" /\ reply' = None
      BY <1>5, <2>1 DEF ResetFails, Return, OnAnswer, OnReply, ftlVars
    <2>3. Pointers' /\ Table' /\ Contents'
      BY <2>1, <2>2, SameData DEF Good, Appending
    <2>4. Quiet'
      BY <2>1, <2>2 DEF Appending, Quiet
    <2> QED BY <2>2, <2>3, <2>4 DEF Good, Progress
  <1> QED BY <1>1, <1>2, <1>3, <1>4, <1>5 DEF OnAnswer, OnReply

\* The acknowledged reset: the host forgets what the backend has emptied.
LEMMA EndResetGood == ASSUME Good, OnCleared, EndReset PROVE Good'
  <1>1. pc = "zone_reset" /\ Resetting /\ mpc = "ack"
    BY DEF EndReset, Good, Progress
  <1>2. call.zone \in Zones /\ mzone = call.zone /\ request = None /\ reply = None
    BY <1>1 DEF Resetting
  <1>3. /\ wp' = [wp EXCEPT ![call.zone] = 0] /\ full' = [full EXCEPT ![call.zone] = FALSE]
        /\ l2p' = [l \in Lbas |-> IF l2p[l].zone = call.zone THEN Unmapped ELSE l2p[l]]
        /\ expected' = [l \in Lbas |-> IF l2p[l].zone = call.zone THEN 0 ELSE expected[l]]
        /\ pc' = "idle" /\ mpc' = "accept" /\ UNCHANGED <<request, reply, disk>>
    BY DEF EndReset, ZoneCleared, Return, OnCleared, OnAck
  <1>4. Pointers'
    BY <1>2, <1>3, HostAssumption DEF Good, Pointers
  <1>5. \A l \in Lbas : Mapped(l)' => /\ Mapped(l) /\ l2p'[l] = l2p[l]
                                      /\ l2p[l].zone # call.zone
    BY <1>3 DEF Mapped
  <1>6. Table'
    <2>1. l2p' \in [Lbas -> [zone : Int, page : Int]]
      BY <1>3 DEF Good, Table, Unmapped
    <2>2. ASSUME NEW l \in Lbas, Mapped(l)'
          PROVE  l2p'[l].zone \in Zones /\ l2p'[l].page \in 0..(wp'[l2p'[l].zone] - 1)
      <3>1. /\ l2p'[l] = l2p[l] /\ l2p[l].zone # call.zone /\ l2p[l].zone \in Zones
            /\ l2p[l].page \in 0..(wp[l2p[l].zone] - 1)
        BY <1>5, <2>2 DEF Good, Table
      <3> QED BY <1>3, <3>1 DEF Good, Pointers
    <2> QED BY <2>1, <2>2 DEF Table
  <1>7. Contents'
    <2>1. disk' \in [DiskPages -> Nat] /\ expected' \in [Lbas -> Nat]
      BY <1>3 DEF Good, Contents
    <2>2. ASSUME NEW l \in Lbas
          PROVE  IF Mapped(l)' THEN Cleared(l)' \/ (disk[Place(l2p[l])] = expected[l])'
                 ELSE expected'[l] = 0
      <3>1. CASE Mapped(l)'
        BY <1>2, <1>3, <1>5, <3>1 DEF Good, Contents, Cleared, Place
      <3>2. CASE ~Mapped(l)'
        BY <1>3, <3>2 DEF Good, Contents, Mapped
      <3> QED BY <3>1, <3>2
    <2> QED BY <2>1, <2>2 DEF Contents
  <1> QED BY <1>2, <1>3, <1>4, <1>6, <1>7 DEF Good, Progress, Quiet

LEMMA NextHInv == ASSUME HInv, [Next]_vars PROVE HInv'
  <1>1. CASE UNCHANGED vars
    <2>1. retried \in BOOLEAN /\ retried' = retried
      BY <1>1 DEF vars, HInv
    <2>2. CASE retried
      BY <2>1, <2>2 DEF HInv
    <2>3. CASE ~retried
      <3>1. UNCHANGED <<wp, full, l2p, disk, expected, call, pc, request, reply, mpc, mzone>>
        BY <1>1 DEF vars, hostVars, ftlVars
      <3>2. Pointers' /\ Table' /\ Contents'
        BY <2>3, <3>1, SameData DEF HInv, Good
      <3>3. Progress'
        BY <2>3, <3>1 DEF HInv, Good, Progress, Quiet, Appending, Resetting
      <3> QED BY <2>1, <3>2, <3>3 DEF HInv, Good
    <2> QED BY <2>1, <2>2, <2>3
  <1>2. CASE Calls \/ OnAnswer \/ Backend
    <2>1. retried' = retried
      BY <1>2 DEF Calls, OnAnswer, Backend, ServeWrite, RefuseWrite, ServeRead, ServeReset
    <2>2. Good => Good'
      BY <1>2, CallsGood, OnAnswerGood, ServeWriteGood, RefuseWriteGood, ServeReadGood,
         ServeResetGood DEF Backend
    <2> QED BY <2>1, <2>2, Zenon DEF HInv
  <1>3. CASE OnCleared
    <2>1. retried' = (retried \/ pc = "reset")
      BY <1>3 DEF OnCleared
    <2>2. retried' \in BOOLEAN /\ (~retried' => ~retried /\ pc # "reset")
      BY <2>1, Zenon
    <2>3. Good /\ pc # "reset" => Good'
      BY <1>3, EndResetGood DEF OnCleared, OnAck, RetryAppend
    <2> QED BY <2>2, <2>3, Zenon DEF HInv
  <1> QED BY <1>1, <1>2, <1>3 DEF Next

-----------------------------------------------------------------------------
\* host_ftl: until a write is sent a second time, between calls every logical
\* page reads as what was last written to it, or as zeros after its zone's reset,
\* for any sequence of writes, overwrites, zone changes and resets.
THEOREM IntactCorrect == Spec => []IntactUnlessRetried
  <1>1. HInv /\ [Next]_vars => HInv'
    BY NextHInv
  <1>2. HInv => IntactUnlessRetried
    <2> SUFFICES ASSUME HInv, ~retried, pc = "idle" PROVE IntactUnlessRetried
      BY DEF IntactUnlessRetried, MappedDataIntact
    <2>1. Contents /\ mpc = "accept"
      BY DEF HInv, Good, Progress, Quiet
    <2>2. \A l \in Lbas : expected[l] = IF l2p[l] = Unmapped THEN 0 ELSE disk[Place(l2p[l])]
      BY <2>1 DEF Contents, Mapped, Cleared
    <2> QED BY <2>2 DEF IntactUnlessRetried, MappedDataIntact
  <1> QED BY <1>1, <1>2, InitGood, PTL DEF Spec
=============================================================================
