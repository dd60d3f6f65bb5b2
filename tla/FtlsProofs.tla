---------------------------- MODULE FtlsProofs ------------------------------
(***************************************************************************)
(* FlashSim's translation layers, for every geometry of the drives, size   *)
(* of the cached mapping tables and set of pages the host uses: DFTL, the  *)
(* page-mapped and the bimodal layer, and at the end what holds of all of  *)
(* them and of BAST.                                                       *)
(***************************************************************************)
EXTENDS DriveProofs

-----------------------------------------------------------------------------
\* A request is counted.
CountedSet(n, M, s, t) ==
    /\ t \in Drives(n, M) /\ SameFlash(s, t) /\ SameManager(s, t) /\ t.abort = s.abort
    /\ t.map.currentDataPage = s.map.currentDataPage /\ t.map.trans_map = s.map.trans_map
    /\ t.map.cmt = s.map.cmt /\ t.map.gtd = s.map.gtd /\ t.map.overlooked = s.map.overlooked
    /\ t.map.requests = s.map.requests + 1
    /\ M = BdftlMaps(n) => SameRest(t.map, s.map)

LEMMA CountedRequest ==
    ASSUME NEW n, NEW M, M = DftlMaps(n) \/ M = BdftlMaps(n), NEW s \in Drives(n, M),
           NEW t, t = [s EXCEPT !.map.requests = @ + 1]
    PROVE  CountedSet(n, M, s, t)
  <1> USE DEF CountedSet
  <1>1. PICK m \in M : m = s.map
    BY DEF Drives
  <1>2. PICK r \in Nat : r = m.requests + 1
    <2>1. m.requests \in Nat
      BY MapFields
    <2> QED BY <2>1
  <1>3. PICK o : o = [m EXCEPT !.requests = r]
    OBVIOUS
  <1>4. /\ o \in M /\ o.currentDataPage = m.currentDataPage /\ o.trans_map = m.trans_map /\ o.cmt = m.cmt
        /\ o.gtd = m.gtd /\ o.overlooked = m.overlooked /\ o.requests = r
        /\ M = BdftlMaps(n) => SameRest(o, m)
    <2>1. CASE M # BdftlMaps(n)
      <3>1. m \in DftlMaps(n)
        BY <2>1
      <3> QED BY <1>3, <2>1, <3>1 DEF DftlMaps
    <2>2. CASE M = BdftlMaps(n)
      BY <1>3, <2>2 DEF BdftlMaps, SameRest
    <2> QED BY <2>1, <2>2
  <1>5. t = [s EXCEPT !.map = o]
    BY <1>1, <1>2, <1>3, Zenon
  <1>6. t \in Drives(n, M) /\ t.map = o /\ SameFlash(s, t) /\ SameManager(s, t) /\ t.abort = s.abort
    <2>1. o \in M
      BY <1>4
    <2>2. PICK u : u = [s EXCEPT !.map = o]
      OBVIOUS
    <2>3. u \in Drives(n, M) /\ u.map = o /\ SameFlash(s, u) /\ SameManager(s, u) /\ u.abort = s.abort
      BY <2>1, <2>2 DEF Drives, SameFlash, SameManager
    <2> QED BY <1>5, <2>2, <2>3, Zenon
  <1> QED BY <1>1, <1>2, <1>4, <1>6, Zenon

\* The tables depend on the entries only.
LEMMA SameTable ==
    ASSUME NEW m, NEW o, NEW total, TableOk(m, total),
           o.trans_map = m.trans_map, o.cmt = m.cmt, o.gtd = m.gtd, o.overlooked = m.overlooked
    PROVE  TableOk(o, total)
  BY DEF TableOk, Kept

LEMMA DftlNewDrive ==
    /\ \A m : Dftl!NewDrive(m) = Chip(DftlPlanes, "DFTL", 1)!NewDrive(m)
  <1>1. ASSUME NEW m
        PROVE  Dftl!NewDrive(m) = Chip(DftlPlanes, "DFTL", 1)!NewDrive(m)
    BY Zenon DEF Dftl!NewDrive, Chip!NewDrive, Dftl!NewBlock, Chip!NewBlock, Dftl!NewPlane,
        Chip!NewPlane, Dftl!Blocks, Chip!Blocks, Dftl!Planes, Chip!Planes, Dftl!Pages,
        Chip!Pages, Dftl!Addresses, Chip!Addresses, Dftl!NumBlocks, Chip!NumBlocks, Dftl!None,
        Chip!None
  <1> QED BY <1>1, Zenon

\* A mapping table with nothing in it.
LEMMA FreshTable ==
    ASSUME NEW m, NEW n, NEW e \in Entry(n), ~e.cached, e.ppn = None, e.create_ts = -1, e.modified_ts = -1,
           e.last_visited_time = -1, m.trans_map = [v \in LogicalPages |-> e], m.cmt = 0, NEW total \in Nat
    PROVE  TableOk(m, total)
  <1>1. \A v \in LogicalPages : m.trans_map[v] = e
    OBVIOUS
  <1>2. Stamped(m.trans_map)
    <2>1. Stamps(e)
      BY DEF Stamps, Clock
    <2> QED BY <1>1, <2>1 DEF Stamped
  <1>3. Kept(m)
    BY <1>1 DEF Kept
  <1>4. Cardinality(CachedIn(m.trans_map)) \in Nat
    BY CachedFinite
  <1> QED BY <1>2, <1>3, <1>4 DEF TableOk

DftlOk(s, alive) ==
    /\ DftlFlash(s, alive) /\ s.abort \in Harmless /\ s.map.requests <= DftlRequests
    /\ TableOk(s.map, DftlEntries)

LEMMA DftlStart ==
    ASSUME NEW s, s = Dftl!NewDrive(Dftl!DftlTables)
    PROVE  DftlOk(s, {})
  <1>1. PICK n \in Nat \ {0} : n = DftlPlanes
    BY DftlSizes
  <1>2. PICK e \in Entry(n) : /\ e = Dftl!MPage /\ ~e.cached /\ e.ppn = None /\ e.create_ts = -1
                              /\ e.modified_ts = -1 /\ e.last_visited_time = -1
    <2>1. PICK e : e = Cmt(n, "DFTL", 0, 0)!MPage
      OBVIOUS
    <2>2. /\ e \in Entry(n) /\ ~e.cached /\ e.ppn = None /\ e.create_ts = -1 /\ e.modified_ts = -1
          /\ e.last_visited_time = -1
      BY <2>1, NewEntry, Zenon
    <2>3. e = Dftl!MPage
      BY <2>1, Zenon DEF Dftl!MPage, Dftl!None, Cmt!MPage, Cmt!None
    <2> QED BY <2>2, <2>3, Zenon
  <1>3. PICK f \in Entries(n) : f = [v \in LogicalPages |-> e]
    BY DEF Entries
  <1>4. PICK g \in [LogicalPages -> Slots(n)] : g = [v \in LogicalPages |-> None]
    BY DEF Slots
  <1>5. PICK m : m = [trans_map |-> f, cmt |-> 0, currentDataPage |-> None, requests |-> 0, gtd |-> g,
                      overlooked |-> {}]
    OBVIOUS
  <1>6. m = Dftl!DftlTables
    BY <1>2, <1>3, <1>4, <1>5, Zenon DEF Dftl!DftlTables, Dftl!LogicalPages, Dftl!None, LogicalPages, None
  <1>7. /\ m \in DftlMaps(n) /\ m.trans_map = f /\ m.cmt = 0 /\ m.currentDataPage = None
        /\ m.requests = 0
    BY <1>5 DEF DftlMaps, Slots
  <1>8. s = Chip(n, "DFTL", 1)!NewDrive(m)
    BY <1>1, <1>6, DftlNewDrive, Zenon
  <1>9. s \in Drives(n, DftlMaps(n)) /\ IsNew(n, s, m)
    <2>1. PICK i : i = "DFTL"
      OBVIOUS
    <2> QED BY <1>7, <1>8, <2>1, NewDriveFits
  <1>10. TableOk(m, DftlEntries)
    BY <1>2, <1>3, <1>7, DftlSizes, FreshTable
  <1>11. \A v \in LogicalPages : s.map.trans_map[v].ppn = None
    BY <1>2, <1>3, <1>7, <1>9 DEF IsNew
  <1>12. DftlFlash(s, {})
    <2>1. PlaneSize * n \in Nat
      BY Geometry
    <2> QED BY <1>1, <1>7, <1>9, <1>11, <2>1 DEF DftlFlash, IsNew
  <1>13. s.map = m /\ s.abort = "none" /\ 0 + 1 = 1
    BY <1>9 DEF IsNew
  <1> QED BY <1>7, <1>10, <1>12, <1>13, DftlSizes DEF DftlOk, Harmless

\* A request that ends in a failed assertion leaves the tables as they were.
LEMMA DftlEnds ==
    ASSUME NEW s, NEW alive, DftlOk(s, alive), NEW c \in Harmless, NEW t, t = [s EXCEPT !.abort = c]
    PROVE  DftlOk(t, alive)
  <1>1. PICK M : M = DftlMaps(DftlPlanes)
    OBVIOUS
  <1>2. s \in Drives(DftlPlanes, M)
    BY <1>1 DEF DftlOk, DftlFlash
  <1>3. t \in Drives(DftlPlanes, M) /\ SameFlash(s, t) /\ SameManager(s, t) /\ t.map = s.map /\ t.abort = c
    BY <1>2, Abandoned
  <1>4. DftlFlash(t, alive)
    BY <1>1, <1>3, DftlCarry DEF DftlOk
  <1> QED BY <1>3, <1>4 DEF DftlOk

\* A request is served.
DftlServed(s, t, after) == Sticky(s, t) /\ (t.abort = "none" => DftlOk(t, after))

DftlReady(s, u, alive, r) ==
    /\ u \in Drives(DftlPlanes, DftlMaps(DftlPlanes)) /\ DftlFlash(u, alive) /\ u.abort = s.abort
    /\ r \in Nat /\ u.map.requests = r + 1 /\ r + 1 <= DftlRequests
    /\ TableOk(u.map, DftlEntries)

LEMMA DftlCounted ==
    ASSUME NEW s, NEW alive, DftlOk(s, alive), s.map.requests < DftlRequests,
           NEW u, u = [s EXCEPT !.map.requests = @ + 1]
    PROVE  DftlReady(s, u, alive, s.map.requests)
  <1>1. PICK M : M = DftlMaps(DftlPlanes)
    OBVIOUS
  <1>2. s \in Drives(DftlPlanes, M)
    BY <1>1 DEF DftlOk, DftlFlash
  <1>3. CountedSet(DftlPlanes, M, s, u)
    BY <1>1, <1>2, CountedRequest
  <1>4. DftlFlash(u, alive)
    BY <1>1, <1>3, DftlCarry DEF CountedSet, DftlOk
  <1>5. PICK r \in Nat : r = s.map.requests
    BY <1>1, <1>2, MapFields DEF Drives
  <1>6. TableOk(u.map, DftlEntries)
    BY <1>3, <1>5, SameTable DEF CountedSet, DftlOk
  <1> QED BY <1>1, <1>3, <1>4, <1>5, <1>6, DftlSizes DEF DftlReady, CountedSet

LEMMA DftlReads ==
    ASSUME NEW s, NEW u, NEW alive, NEW r, DftlReady(s, u, alive, r), NEW v \in LogicalPages,
           NEW now \in StartTimes, NEW tied, NEW t, t = Dftl!ReadResult(u, v, now, tied)
    PROVE  DftlServed(s, t, alive)
  <1>1. PICK n \in Nat \ {0} : n = DftlPlanes
    BY DftlSizes
  <1>2. PICK M : M = DftlMaps(n)
    OBVIOUS
  <1>3. /\ u \in Drives(n, M) /\ r \in Nat /\ u.map.requests = r + 1 /\ r + 1 <= DftlRequests
        /\ TableOk(u.map, DftlEntries) /\ u.abort = s.abort /\ DftlFlash(u, alive)
    BY <1>1, <1>2 DEF DftlReady
  <1>4. PICK no \in BOOLEAN : no = FALSE
    BY Zenon
  <1>5. t = Cmt(n, "DFTL", DftlRequests, DftlEntries)!ResolveMapping(u, v, no, now, tied)
    BY <1>1, <1>4, DftlCmt, Zenon DEF Dftl!ReadResult
  <1>6. Resolves(n, M, u, t, DftlEntries, v, no)
    <2>1. PICK i : i = "DFTL"
      OBVIOUS
    <2>2. PICK total \in Nat \ {0} : total = DftlEntries
      BY DftlSizes
    <2> QED BY <1>2, <1>3, <1>5, <2>1, <2>2, Resolved, Zenon
  <1>7. /\ t \in Drives(n, M) /\ SameFlash(u, t) /\ SameManager(u, t) /\ t.abort = u.abort
        /\ SameTables(M, n, u.map, t.map)
        /\ \A w \in LogicalPages : t.map.trans_map[w].ppn = u.map.trans_map[w].ppn
        /\ TableOk(t.map, DftlEntries)
    BY <1>6, Zenon DEF Resolves
  <1>8. t.map.currentDataPage = u.map.currentDataPage /\ t.map.requests = u.map.requests
    BY <1>7 DEF SameTables
  <1>9. DftlFlash(t, alive)
    BY <1>1, <1>2, <1>3, <1>7, <1>8, DftlCarry
  <1>10. Sticky(s, t)
    BY <1>3, <1>7, StickySame
  <1>11. t.abort = "none" => DftlOk(t, alive)
    <2>1. "none" \in Harmless
      BY DEF Harmless
    <2> QED BY <1>3, <1>7, <1>8, <1>9, <2>1 DEF DftlOk
  <1> QED BY <1>10, <1>11 DEF DftlServed

LEMMA DftlWrites ==
    ASSUME NEW s, NEW u, NEW alive, NEW r, DftlReady(s, u, alive, r), NEW v \in LogicalPages,
           NEW now \in StartTimes, NEW tied, NEW t, t = Dftl!WriteResult(u, v, now, tied)
    PROVE  DftlServed(s, t, alive \cup {v})
  <1>1. PICK n \in Nat \ {0} : n = DftlPlanes
    BY DftlSizes
  <1>2. PICK M : M = DftlMaps(n)
    OBVIOUS
  <1>3. /\ u \in Drives(n, M) /\ r \in Nat /\ u.map.requests = r + 1 /\ r + 1 <= DftlRequests
        /\ TableOk(u.map, DftlEntries) /\ u.abort = s.abort /\ DftlFlash(u, alive)
    BY <1>1, <1>2 DEF DftlReady
  <1>4. PICK yes \in BOOLEAN : yes = TRUE /\ yes
    BY Zenon
  <1>5. PICK x : x = Cmt(n, "DFTL", DftlRequests, DftlEntries)!ResolveMapping(u, v, yes, now, tied)
    OBVIOUS
  <1>6. PICK y : y = Cmt(n, "DFTL", DftlRequests, DftlEntries)!GetFreeDataPage(x)
    OBVIOUS
  <1>7. PICK a : a = y.map.currentDataPage
    OBVIOUS
  <1>8. t = Cmt(n, "DFTL", DftlRequests, DftlEntries)!MapTo(y, v, a)
    <2>1. Dftl!ResolveMapping(u, v, TRUE, now, tied) = x
      BY <1>1, <1>4, <1>5, DftlCmt, Zenon
    <2>2. Dftl!GetFreeDataPage(x) = y
      BY <1>1, <1>6, DftlCmt, Zenon
    <2>3. t = Dftl!MapTo(y, v, a)
      BY <1>7, <2>1, <2>2, Zenon DEF Dftl!WriteResult
    <2> QED BY <1>1, <2>3, DftlCmt, Zenon
  <1>9. PICK i : i = "DFTL"
    OBVIOUS
  <1>10. Resolves(n, M, u, x, DftlEntries, v, yes)
    <2>2. PICK total \in Nat \ {0} : total = DftlEntries
      BY DftlSizes
    <2> QED BY <1>2, <1>3, <1>5, <1>9, <2>2, Resolved, Zenon
  <1>11. /\ x \in Drives(n, M) /\ SameFlash(u, x) /\ SameManager(u, x) /\ x.abort = u.abort
         /\ SameTables(M, n, u.map, x.map)
         /\ \A w \in LogicalPages : x.map.trans_map[w].ppn = u.map.trans_map[w].ppn
         /\ TableOk(x.map, DftlEntries)
         /\ Marked(x.map, v)
    BY <1>4, <1>10, Zenon DEF Resolves
  <1>12. x.map.currentDataPage = u.map.currentDataPage /\ x.map.requests = u.map.requests
    BY <1>11 DEF SameTables
  <1>13. DftlFlash(x, alive)
    BY <1>1, <1>2, <1>3, <1>11, <1>12, DftlCarry
  <1>14. NextData(n, M, x, y)
    <2>1. x.invalid_list = << >>
      BY <1>13 DEF DftlFlash
    <2> QED BY <1>2, <1>6, <1>9, <1>11, <2>1, NextDataPage, Zenon
  <1>15. /\ y \in Drives(n, M) /\ Sticky(x, y) /\ a \in AddressesOf(n) /\ y.map.requests = x.map.requests
         /\ y.map.trans_map = x.map.trans_map /\ y.map.cmt = x.map.cmt /\ y.map.gtd = x.map.gtd
         /\ y.map.overlooked = x.map.overlooked
    BY <1>7, <1>14 DEF NextData
  <1>16. /\ Maps(n, M, y, t, v, a)
         /\ \A total : TableOk(y.map, total) /\ Marked(y.map, v) => TableOk(t.map, total)
    BY <1>2, <1>8, <1>9, <1>15, MappedTo, Zenon
  <1>17. TableOk(t.map, DftlEntries)
    <2>1. TableOk(y.map, DftlEntries)
      BY <1>11, <1>15, SameTable
    <2>2. Marked(y.map, v)
      BY <1>11, <1>15 DEF Marked
    <2> QED BY <1>16, <2>1, <2>2
  <1>18. t.map.requests = u.map.requests
    BY <1>12, <1>15, <1>16 DEF Maps, SameTables
  <1>19. s.abort # "none" => t.abort = s.abort
    BY <1>3, <1>11, <1>15, <1>16 DEF Sticky, Maps
  <1>20. CASE y.abort = "none"
    <2>1. DftlFlash(y, alive) /\ PageAt(y, a) = "EMPTY"
      BY <1>1, <1>2, <1>7, <1>13, <1>14, <1>20, DftlNext
    <2>2. t.abort = "none"
      BY <1>16, <1>20, <2>1 DEF Maps
    <2>3. DftlFlash(t, alive \cup {v})
      BY <1>1, <1>2, <1>7, <1>15, <1>16, <2>1, DftlMapped
    <2>4. t.abort \in Harmless
      BY <2>2 DEF Harmless
    <2>5. DftlOk(t, alive \cup {v})
      BY <1>3, <1>17, <1>18, <2>3, <2>4 DEF DftlOk
    <2> QED BY <1>19, <2>4, <2>5 DEF DftlServed, Sticky
  <1>21. CASE y.abort # "none"
    <2>1. t.abort = y.abort
      BY <1>16, <1>21 DEF Maps
    <2>2. s.abort = "none" => y.abort \in Harmless
      BY <1>3, <1>11, <1>15 DEF Sticky
    <2> QED BY <1>19, <1>21, <2>1, <2>2 DEF DftlServed, Sticky
  <1> QED BY <1>20, <1>21

LEMMA DftlTrims ==
    ASSUME NEW s, NEW u, NEW alive, NEW r, DftlReady(s, u, alive, r), NEW v \in LogicalPages,
           NEW t, t = Dftl!TrimResult(u, v)
    PROVE  DftlServed(s, t, alive \ {v})
  <1>1. PICK n \in Nat \ {0} : n = DftlPlanes
    BY DftlSizes
  <1>2. PICK M : M = DftlMaps(n)
    OBVIOUS
  <1>3. /\ u \in Drives(n, M) /\ r \in Nat /\ u.map.requests = r + 1 /\ r + 1 <= DftlRequests
        /\ TableOk(u.map, DftlEntries) /\ u.abort = s.abort /\ DftlFlash(u, alive)
    BY <1>1, <1>2 DEF DftlReady
  <1>4. t = Cmt(n, "DFTL", DftlRequests, DftlEntries)!Unmap(u, v)
    BY <1>1, DftlCmt, Zenon DEF Dftl!TrimResult
  <1>5. Unmaps(n, M, u, t, v, DftlEntries)
    <2>1. PICK i : i = "DFTL"
      OBVIOUS
    <2>2. PICK total \in Nat : total = DftlEntries
      BY DftlSizes
    <2> QED BY <1>2, <1>3, <1>4, <2>1, <2>2, Unmapped, Zenon
  <1>6. DftlFlash(t, alive \ {v})
    BY <1>1, <1>2, <1>3, <1>5, DftlUnmapped, Zenon
  <1>7. t.abort = u.abort /\ t.map.requests = u.map.requests /\ TableOk(t.map, DftlEntries)
    BY <1>5 DEF Unmaps, SameTables
  <1>8. Sticky(s, t)
    BY <1>3, <1>7, StickySame
  <1>9. t.abort = "none" => DftlOk(t, alive \ {v})
    <2>1. "none" \in Harmless
      BY DEF Harmless
    <2> QED BY <1>3, <1>6, <1>7, <2>1 DEF DftlOk
  <1> QED BY <1>8, <1>9 DEF DftlServed

DftlInv == ftl = "DFTL" => DftlOk(drive, live) /\ lost = {}

LEMMA DftlInitInv == Init => DftlInv
  <1> SUFFICES ASSUME Dftl!Init PROVE DftlOk(drive, live) /\ lost = {}
    BY DEF Init, DftlInv
  <1>1. drive = Dftl!NewDrive(Dftl!DftlTables) /\ live = {} /\ lost = {}
    BY Zenon DEF Dftl!Init, Dftl!Start
  <1> QED BY <1>1, DftlStart

\* Every request keeps the invariant, however it ends.
LEMMA DftlServeInv ==
    ASSUME DftlOk(drive, live), lost = {}, NEW t, NEW after, DftlServed(drive, t, after),
           Dftl!Serve(t, after, lost)
    PROVE  DftlOk(drive', live') /\ lost' = {}
  <1>1. CASE t.abort = "none"
    <2>1. drive' = t /\ live' = after /\ lost' = lost
      BY <1>1, Zenon DEF Dftl!Serve
    <2> QED BY <1>1, <2>1 DEF DftlServed
  <1>2. CASE t.abort # "none"
    <2>1. drive' = [drive EXCEPT !.abort = t.abort] /\ live' = live /\ lost' = lost /\ drive.abort = "none"
      BY <1>2, Zenon DEF Dftl!Serve
    <2>2. PICK c \in Harmless : c = t.abort
      BY <2>1 DEF DftlServed, Sticky
    <2>3. PICK d : d = [drive EXCEPT !.abort = c]
      OBVIOUS
    <2>4. DftlOk(d, live)
      BY <2>3, DftlEnds
    <2> QED BY <2>1, <2>2, <2>3, <2>4
  <1> QED BY <1>1, <1>2

LEMMA DftlNextInv ==
    ASSUME DftlInv, [Next]_vars
    PROVE  DftlInv'
  <1> SUFFICES ASSUME ftl' = "DFTL" PROVE DftlOk(drive', live') /\ lost' = {}
    BY DEF DftlInv
  <1>1. CASE UNCHANGED vars
    BY <1>1 DEF vars, DftlInv
  <1>2. CASE Next
    <2>1. DftlStep
      BY <1>2 DEF Next, BastStep, FastStep, BdftlStep, PageStep
    <2>2. DftlOk(drive, live) /\ lost = {} /\ Dftl!Next
      BY <2>1 DEF DftlStep, DftlInv
    <2>3. PICK v \in DftlPages :
              \/ \E now \in StartTimes, tied \in DftlPages : Dftl!Read(v, now, tied) \/ Dftl!Write(v, now, tied)
              \/ Dftl!Trim(v)
      BY <2>2, Zenon DEF Dftl!Next
    <2>4. v \in LogicalPages
      BY FtlsAssumption DEF LogicalPages
    <2>5. PICK u : u = [drive EXCEPT !.map.requests = @ + 1]
      OBVIOUS
    <2>6. u = Dftl!Counted
      BY <2>5, Zenon DEF Dftl!Counted
    <2>7. drive.map.requests < DftlRequests
      BY <2>3, Zenon DEF Dftl!Read, Dftl!Write, Dftl!Trim, Dftl!MayServe
    <2>8. DftlReady(drive, u, live, drive.map.requests)
      BY <2>2, <2>5, <2>7, DftlCounted
    <2>9. CASE \E now \in StartTimes, tied \in DftlPages : Dftl!Read(v, now, tied)
      <3>0. PICK now \in StartTimes, tied \in DftlPages : Dftl!Read(v, now, tied)
        BY <2>9
      <3>1. PICK t : t = Dftl!ReadResult(u, v, now, tied)
        OBVIOUS
      <3>2. Dftl!Serve(t, live, lost)
        BY <2>6, <3>0, <3>1, Zenon DEF Dftl!Read
      <3>3. DftlServed(drive, t, live)
        BY <2>4, <2>8, <3>1, DftlReads
      <3> QED BY <2>2, <3>2, <3>3, DftlServeInv
    <2>10. CASE \E now \in StartTimes, tied \in DftlPages : Dftl!Write(v, now, tied)
      <3>0. PICK now \in StartTimes, tied \in DftlPages : Dftl!Write(v, now, tied)
        BY <2>10
      <3>1. PICK t : t = Dftl!WriteResult(u, v, now, tied)
        OBVIOUS
      <3>2. Dftl!Serve(t, live \cup {v}, lost)
        BY <2>6, <3>0, <3>1, Zenon DEF Dftl!Write
      <3>3. DftlServed(drive, t, live \cup {v})
        BY <2>4, <2>8, <3>1, DftlWrites
      <3> QED BY <2>2, <3>2, <3>3, DftlServeInv
    <2>11. CASE Dftl!Trim(v)
      <3>1. PICK t : t = Dftl!TrimResult(u, v)
        OBVIOUS
      <3>2. Dftl!Serve(t, live \ {v}, lost)
        BY <2>6, <2>11, <3>1, Zenon DEF Dftl!Trim
      <3>3. DftlServed(drive, t, live \ {v})
        BY <2>4, <2>8, <3>1, DftlTrims
      <3> QED BY <2>2, <3>2, <3>3, DftlServeInv
    <2> QED BY <2>3, <2>9, <2>10, <2>11
  <1> QED BY <1>1, <1>2

\* The types and the counter of the cached mapping table.
LEMMA CmtTyped ==
    ASSUME NEW n \in Nat \ {0}, NEW i, NEW q \in Nat, NEW k, NEW M, M = DftlMaps(n) \/ M = BdftlMaps(n),
           drive \in Drives(n, M), Chip(n, i, 1)!FlashTypeOK /\ Chip(n, i, 1)!ActiveWithinDrive,
           NEW total, NEW r \in Nat, r = drive.map.requests, r <= q, TableOk(drive.map, total)
    PROVE  Cmt(n, i, q, k)!DftlTypeOK
  <1>1. PICK m \in M : m = drive.map
    BY DEF Drives
  <1>2. PICK f \in Entries(n) : f = m.trans_map
    BY MapFields
  <1>3. Cmt(n, i, q, k)!FlashTypeOK /\ Cmt(n, i, q, k)!ActiveWithinDrive
    BY Zenon DEF Cmt!FlashTypeOK, Cmt!ActiveWithinDrive, Chip!FlashTypeOK, Chip!ActiveWithinDrive,
       Cmt!Blocks, Chip!Blocks, Cmt!BlockType, Chip!BlockType,
       Cmt!Planes, Chip!Planes, Cmt!PlaneType, Chip!PlaneType, Cmt!Addresses, Chip!Addresses,
       Cmt!LogicalPages, Chip!LogicalPages, Cmt!None, Chip!None, Cmt!Aborts, Chip!Aborts,
       Cmt!NumBlocks, Chip!NumBlocks, Cmt!Pages, Chip!Pages, Cmt!PageStates, Chip!PageStates,
       Cmt!BlockStates, Chip!BlockStates, Cmt!Everything, Chip!Everything
  <1>4. Cmt(n, i, q, k)!LogicalPages = LogicalPages /\ Cmt(n, i, q, k)!None = None
        /\ Cmt(n, i, q, k)!Addresses = AddressesOf(n) /\ Cmt(n, i, q, k)!Stamps = Clock
    BY Zenon DEF Cmt!LogicalPages, Cmt!None, Cmt!Addresses, Cmt!NumBlocks, LogicalPages, None, AddressesOf,
       Cmt!Stamps, Clock
  <1>5. PICK E : E = [ppn : AddressesOf(n) \cup {None}, create_ts : Clock, modified_ts : Clock,
                      last_visited_time : Clock, cached : BOOLEAN]
    OBVIOUS
  <1>6. f \in [LogicalPages -> E]
    <2>1. ASSUME NEW v \in LogicalPages PROVE f[v] \in E
      <3>1. PICK e \in Entry(n) : e = f[v]
        BY DEF Entries
      <3>2. Stamps(e)
        BY <1>1, <1>2, <3>1 DEF TableOk, Stamped
      <3>3. e.create_ts \in Clock /\ e.modified_ts \in Clock /\ e.last_visited_time \in Clock
        BY <3>2 DEF Stamps
      <3>4. e \in E
        BY <1>5, <3>3 DEF Entry, Slots
      <3> QED BY <3>1, <3>4
    <2> QED BY <2>1 DEF Entries
  <1>7. m.cmt \in Int /\ m.requests \in 0 .. q /\ m.currentDataPage \in AddressesOf(n) \cup {None}
        /\ m.overlooked \subseteq LogicalPages
    <2>1. m.cmt \in Int /\ m.currentDataPage \in Slots(n) /\ m.overlooked \subseteq LogicalPages
      BY MapFields
    <2>2. m.requests \in 0 .. q
      BY <1>1
    <2> QED BY <2>1, <2>2 DEF Slots
  <1> QED BY <1>1, <1>2, <1>3, <1>4, <1>5, <1>6, <1>7, Zenon DEF Cmt!DftlTypeOK

LEMMA CmtCounted ==
    ASSUME NEW n, NEW i, NEW q, NEW k, NEW total, TableOk(drive.map, total),
           drive.abort # "no victim"
    PROVE  Cmt(n, i, q, k)!CountersMatchTables /\ Cmt(n, i, q, k)!UncachedIsPersistent
  <1>1. PICK f : f = drive.map.trans_map
    OBVIOUS
  <1>2. Cmt(n, i, q, k)!Cached(drive) = CachedIn(f)
    BY <1>1, Zenon DEF Cmt!Cached, Cmt!LogicalPages, CachedIn, LogicalPages
  <1>3. ASSUME NEW S PROVE Cmt(n, i, q, k)!Cardinality(S) = Cardinality(S)
    BY DEF Cmt!Cardinality, Cardinality
  <1>4. drive.map.cmt <= Cardinality(CachedIn(f)) /\ Kept(drive.map)
    BY <1>1 DEF TableOk
  <1>6. Cmt(n, i, q, k)!CountersMatchTables
    BY <1>2, <1>3, <1>4, Zenon DEF Cmt!CountersMatchTables
  <1>7. \A v \in LogicalPages \ (CachedIn(f) \cup drive.map.overlooked) :
            drive.map.trans_map[v].ppn \in {None, drive.map.gtd[v]}
    BY <1>1, <1>4 DEF Kept, Settled
  <1>8. Cmt(n, i, q, k)!UncachedIsPersistent
    BY <1>2, <1>7, Zenon DEF Cmt!UncachedIsPersistent, Cmt!LogicalPages, Cmt!None, LogicalPages, None
  <1> QED BY <1>6, <1>8

\* What the invariant says of DFTL.
LEMMA DftlMeans ==
    ASSUME DftlOk(drive, live), lost = {}
    PROVE  /\ Dftl!TypeOK /\ Dftl!ReadsLastWrite /\ Dftl!TrimmedStaysGone /\ Dftl!PageAssertHolds
           /\ Dftl!CountersMatchTables /\ Dftl!BlockStateMatchesPages /\ Dftl!UncachedIsPersistent
  <1>1. PICK n \in Nat \ {0} : n = DftlPlanes
    BY DftlSizes
  <1>2. PICK M : M = DftlMaps(n)
    OBVIOUS
  <1>3. DftlFlash(drive, live) /\ drive \in Drives(n, M) /\ Fits(n, drive) /\ drive.abort \in Harmless
    BY <1>1, <1>2 DEF DftlOk, DftlFlash
  <1>4. Bounded(n, drive)
    <2>1. PlaneSize * n \in Nat
      BY Geometry
    <2> QED BY <1>1, <1>3, <2>1 DEF Bounded, DftlFlash
  <1>5. live \subseteq LogicalPages /\ lost \subseteq LogicalPages
    BY <1>3 DEF DftlFlash
  <1>6. PICK i : i = "DFTL"
    OBVIOUS
  <1>7. Chip(n, i, 1)!FlashTypeOK /\ Chip(n, i, 1)!ActiveWithinDrive
    BY <1>3, <1>4, <1>5, Typed
  <1>8. PICK r \in Nat : r = drive.map.requests /\ r <= DftlRequests /\ TableOk(drive.map, DftlEntries)
    BY <1>2, <1>3, MapFields DEF Drives, DftlOk
  <1>9. Dftl!TypeOK
    <2>1. PICK q \in Nat : q = DftlRequests
      BY DftlSizes
    <2>2. PICK k : k = DftlEntries
      OBVIOUS
    <2>3. Cmt(n, i, q, k)!DftlTypeOK
      BY <1>2, <1>3, <1>7, <1>8, <2>1, CmtTyped, Zenon
    <2> QED BY <1>1, <1>6, <2>1, <2>2, <2>3, Zenon
        DEF Dftl!TypeOK, Dftl!DftlTypeOK, Cmt!DftlTypeOK, Cmt!FlashTypeOK, Cmt!ActiveWithinDrive,
            Dftl!FlashTypeOK, Dftl!ActiveWithinDrive, Cmt!Stamps, Dftl!Stamps, Cmt!Everything, Dftl!Everything,
            Cmt!Blocks, Dftl!Blocks,
       Cmt!BlockType, Dftl!BlockType,
       Cmt!Planes, Dftl!Planes, Cmt!PlaneType, Dftl!PlaneType, Cmt!Addresses, Dftl!Addresses,
       Cmt!LogicalPages, Dftl!LogicalPages, Cmt!None, Dftl!None, Cmt!Aborts, Dftl!Aborts,
       Cmt!NumBlocks, Dftl!NumBlocks, Cmt!Pages, Dftl!Pages, Cmt!PageStates, Dftl!PageStates,
       Cmt!BlockStates, Dftl!BlockStates
  <1>10. Dftl!CountersMatchTables /\ Dftl!UncachedIsPersistent
    <2>1. PICK q : q = DftlRequests
      OBVIOUS
    <2>2. PICK k : k = DftlEntries
      OBVIOUS
    <2>0. drive.abort # "no victim"
      BY <1>3 DEF Harmless
    <2>3. Cmt(n, i, q, k)!CountersMatchTables /\ Cmt(n, i, q, k)!UncachedIsPersistent
      BY <1>8, <2>0, CmtCounted, Zenon
    <2> QED BY <1>1, <1>6, <2>1, <2>2, <2>3, Zenon
        DEF Dftl!CountersMatchTables, Cmt!CountersMatchTables, Dftl!UncachedIsPersistent, Cmt!UncachedIsPersistent,
            Dftl!Cached, Cmt!Cached, Dftl!LogicalPages, Cmt!LogicalPages, Dftl!None, Cmt!None,
            Dftl!Cardinality, Cmt!Cardinality
  <1>11. Dftl!BlockStateMatchesPages
    <2>1. Chip(n, i, 1)!BlockStateMatchesPages
      BY <1>3, Truthful
    <2> QED BY <1>1, <1>6, <2>1, Zenon
        DEF Dftl!BlockStateMatchesPages, Chip!BlockStateMatchesPages, Dftl!Blocks, Chip!Blocks,
            Dftl!NumBlocks, Chip!NumBlocks, Dftl!Pages, Chip!Pages, Dftl!Cardinality, Chip!Cardinality
  <1>12. Dftl!PageAssertHolds
    <2>1. drive.abort # "page not empty"
      BY <1>3 DEF Harmless
    <2> QED BY <2>1, Zenon DEF Dftl!PageAssertHolds
  <1>13. \A v \in LogicalPages : LET a == drive.map.trans_map[v].ppn
             IN /\ a # None => PageAt(drive, a) = "VALID" /\ drive.data[a] = v
                /\ v \in live <=> a # None
    BY <1>3 DEF DftlFlash
  <1>14. Dftl!ReadsLastWrite
    <2>1. ASSUME NEW v \in live
          PROVE  Dftl!Holds(Dftl!ReadAddress(drive, v), v)
      <3>1. PICK a : a = drive.map.trans_map[v].ppn
        OBVIOUS
      <3>2. a # None /\ PageAt(drive, a) = "VALID" /\ drive.data[a] = v
        BY <1>5, <1>13, <3>1
      <3> QED BY <3>1, <3>2, Zenon DEF Dftl!Holds, Dftl!ReadAddress, Dftl!None, Dftl!PageState, Dftl!BlockOf,
               Dftl!PageOf, None, PageAt, BlockOf, PageOf
    <2> QED BY <2>1, Zenon DEF Dftl!ReadsLastWrite
  <1>15. Dftl!TrimmedStaysGone
    BY <1>13, Zenon DEF Dftl!TrimmedStaysGone, Dftl!LogicalPages, Dftl!None, LogicalPages, None
  <1> QED BY <1>9, <1>10, <1>11, <1>12, <1>14, <1>15

-----------------------------------------------------------------------------
\* The ideal layer stores nothing.
LEMMA PageChip ==
    /\ \A m : Page!NewDrive(m) = Chip(PagePlanes, "PAGE", 1)!NewDrive(m)
    /\ \A s, b : Page!PlaneErase(s, b) = Chip(PagePlanes, "PAGE", 1)!PlaneErase(s, b)
  <1>1. ASSUME NEW m
        PROVE  Page!NewDrive(m) = Chip(PagePlanes, "PAGE", 1)!NewDrive(m)
    BY Zenon DEF Page!NewDrive, Chip!NewDrive, Page!NewBlock, Chip!NewBlock, Page!NewPlane,
        Chip!NewPlane, Page!Blocks, Chip!Blocks, Page!Planes, Chip!Planes, Page!Pages,
        Chip!Pages, Page!Addresses, Chip!Addresses, Page!NumBlocks, Chip!NumBlocks, Page!None,
        Chip!None
  <1>2. ASSUME NEW s, NEW b
        PROVE  Page!PlaneErase(s, b) = Chip(PagePlanes, "PAGE", 1)!PlaneErase(s, b)
    BY Zenon DEF Page!PlaneErase, Chip!PlaneErase, Page!Assert, Chip!Assert, Page!PlaneOf,
        Chip!PlaneOf, Page!BlockErase, Chip!BlockErase, Page!NewBlock, Chip!NewBlock,
        Page!Pages, Chip!Pages, Page!LeastWorn, Chip!LeastWorn, Page!Addresses, Chip!Addresses,
        Page!NumBlocks, Chip!NumBlocks, Page!BlockOf, Chip!BlockOf, Page!None, Chip!None
  <1> QED BY <1>1, <1>2, Zenon

PageMaps == [numPagesActive : 0 .. LongValues - 1, requests : Nat, wrapped : BOOLEAN,
             trim_map : [LogicalPages -> TrimStates]]
PageFlash(s) ==
    LET n == PagePlanes
    IN /\ s \in Drives(n, PageMaps) /\ Fits(n, s) /\ s.abort = "none"
       /\ s.simpleCurrentFree = 0 /\ s.log_active = 0 /\ s.data_active = 0
       /\ \A x \in AddressesOf(n) : s.data[x] = None
PageOk(s) == /\ PageFlash(s)
             /\ s.map.numPagesActive <= PlaneSize * PagePlanes * BlockSize \/ s.map.wrapped

LEMMA PageSizes == PagePlanes \in Nat \ {0}
  BY FtlsAssumption

\* Arithmetic of an unsigned long: exact unless it leaves the type.
LEMMA LongSum ==
    ASSUME NEW a \in Nat, NEW k \in Int
    PROVE  /\ Page!Plus(a, k) \in 0 .. LongValues - 1
           /\ a + k \in 0 .. LongValues - 1 => Page!Plus(a, k) = a + k
           /\ LongValues \in Nat /\ PlaneSize * PagePlanes * BlockSize < LongValues
  <1>1. PICK top \in Nat : top = PlaneSize * PagePlanes * BlockSize
    BY PageSizes, Sizes
  <1>2. PICK N \in Nat : N = LongValues /\ N > top
    BY <1>1, FtlsAssumption
  <1>3. N \in Nat \ {0}
    BY <1>2
  <1>4. PICK x \in Int : x = a + k
    OBVIOUS
  <1>5. Page!Plus(a, k) = x % N
    BY <1>2, <1>4, Zenon DEF Page!Plus
  <1>6. x % N \in 0 .. N - 1
    BY <1>3
  <1>7. ASSUME x \in 0 .. N - 1 PROVE x % N = x
    <2>1. 0 * N + x = x /\ (0 * N + x) % N = x
      BY <1>3, <1>7, Quotient
    <2> QED BY <2>1
  <1> QED BY <1>1, <1>2, <1>4, <1>5, <1>6, <1>7

LEMMA PageCarry ==
    ASSUME NEW s, PageFlash(s), NEW m \in PageMaps, NEW t, t = [s EXCEPT !.map = m]
    PROVE  PageFlash(t) /\ t.map = m
  <1>1. s \in Drives(PagePlanes, PageMaps)
    BY DEF PageFlash
  <1>2. t \in Drives(PagePlanes, PageMaps) /\ t.map = m /\ SameFlash(s, t) /\ SameManager(s, t)
        /\ t.abort = s.abort
    BY <1>1 DEF Drives, SameFlash, SameManager
  <1>3. SameBlocks(s, t)
    BY <1>2 DEF SameFlash, SameBlocks
  <1>4. Fits(PagePlanes, s) => Fits(PagePlanes, t)
    BY <1>3, SameFits
  <1> QED BY <1>2, <1>4 DEF PageFlash, SameFlash, SameManager

LEMMA PageErases ==
    ASSUME NEW s, PageFlash(s), NEW t, t = Page!EraseFirst(s)
    PROVE  PageFlash(t) /\ t.map = s.map
  <1>1. PICK n \in Nat \ {0} : n = PagePlanes
    BY PageSizes
  <1>2. PICK M : M = PageMaps
    OBVIOUS
  <1>3. s \in Drives(n, M)
    BY <1>1, <1>2 DEF PageFlash
  <1>4. CASE s.block[0].erases_remaining < 1
    <2>1. t = s
      BY <1>4, Zenon DEF Page!EraseFirst
    <2> QED BY <2>1
  <1>5. CASE ~(s.block[0].erases_remaining < 1)
    <2>1. PICK b \in BlocksOf(n) : b = 0
      <3>1. PlaneSize * n \in Nat \ {0}
        BY Geometry
      <3> QED BY <3>1 DEF BlocksOf
    <2>2. PICK i : i = "PAGE"
      OBVIOUS
    <2>3. t = Chip(n, i, 1)!PlaneErase(s, b)
      BY <1>1, <1>5, <2>1, <2>2, PageChip, Zenon DEF Page!EraseFirst
    <2>4. t \in Drives(n, M) /\ Erasing(n, s, t, b)
      BY <1>3, <2>3, Erased
    <2>5. s.block[b].erases_remaining >= 1
      <3>1. s.block[b].erases_remaining \in Int
        BY <1>3 DEF Drives, BlockRec
      <3> QED BY <1>5, <2>1, <3>1
    <2>6. t.map = s.map /\ SameManager(s, t) /\ t.abort = s.abort /\ Erases(n, s, t, b)
      BY <2>4, <2>5 DEF Erasing
    <2>7. Fits(n, t) /\ \A x \in AddressesOf(n) : t.data[x] = None
      BY <1>1, <2>6 DEF Erases, PageFlash
    <2> QED BY <1>1, <1>2, <2>4, <2>6, <2>7 DEF PageFlash, SameManager
  <1> QED BY <1>4, <1>5

\* A request is counted, and pages are.
CountSet(s, t, c) == t = [s EXCEPT !.map.numPagesActive = c]
CountsAs(s, t, c) == PageFlash(t) /\ t.map.numPagesActive = c /\ t.map.wrapped = s.map.wrapped

LEMMA PageCounts ==
    ASSUME NEW s, PageFlash(s), NEW c \in 0 .. LongValues - 1, NEW t, CountSet(s, t, c)
    PROVE  CountsAs(s, t, c)
  <1>1. PICK m \in PageMaps : m = s.map
    BY DEF PageFlash, Drives
  <1>2. PICK o : o = [m EXCEPT !.numPagesActive = c]
    OBVIOUS
  <1>3. o \in PageMaps /\ o.numPagesActive = c /\ o.wrapped = m.wrapped
    BY <1>2 DEF PageMaps
  <1>4. t = [s EXCEPT !.map = o]
    BY <1>1, <1>2, Zenon DEF CountSet
  <1>5. PageFlash(t) /\ t.map = o
    BY <1>3, <1>4, PageCarry, Zenon
  <1> QED BY <1>1, <1>3, <1>5 DEF CountsAs

LEMMA PageCounted ==
    ASSUME NEW s, PageOk(s), NEW t, t = [s EXCEPT !.map.requests = @ + 1]
    PROVE  PageOk(t)
  <1>1. PICK m \in PageMaps : m = s.map
    BY DEF PageOk, PageFlash, Drives
  <1>2. PICK r \in Nat : r = m.requests + 1
    BY DEF PageMaps
  <1>3. PICK o : o = [m EXCEPT !.requests = r]
    OBVIOUS
  <1>4. o \in PageMaps /\ o.numPagesActive = m.numPagesActive /\ o.wrapped = m.wrapped
    BY <1>3 DEF PageMaps
  <1>5. t = [s EXCEPT !.map = o]
    BY <1>1, <1>2, <1>3, Zenon
  <1>6. PageFlash(s) /\ o \in PageMaps
    BY <1>4 DEF PageOk
  <1>7. PageFlash(t) /\ t.map = o
    BY <1>5, <1>6, PageCarry, Zenon
  <1> QED BY <1>1, <1>4, <1>7 DEF PageOk

\* One page more in use.
CountsOn(s, t) == t = [s EXCEPT !.map.numPagesActive = Page!Plus(@, 1)]
CountedOn(s, t, j) == /\ PageFlash(t) /\ t.map.wrapped = s.map.wrapped
                      /\ j + 1 < LongValues => t.map.numPagesActive = j + 1

LEMMA PageCountsOn ==
    ASSUME NEW s, PageFlash(s), NEW j \in 0 .. LongValues - 1, j = s.map.numPagesActive,
           NEW t, CountsOn(s, t)
    PROVE  CountedOn(s, t, j)
  <1>1. LongValues \in Nat
    BY LongSum
  <1>2. PICK c : c = Page!Plus(j, 1)
    OBVIOUS
  <1>3. j \in Nat /\ 1 \in Int /\ (j + 1 < LongValues => j + 1 \in 0 .. LongValues - 1)
    BY <1>1
  <1>4. c \in 0 .. LongValues - 1 /\ (j + 1 < LongValues => c = j + 1)
    BY <1>2, <1>3, LongSum, Zenon
  <1>5. CountSet(s, t, c)
    BY <1>2, Zenon DEF CountsOn, CountSet
  <1>6. CountsAs(s, t, c)
    BY <1>4, <1>5, PageCounts, Zenon
  <1> QED BY <1>4, <1>6, Zenon DEF CountedOn, CountsAs

LEMMA PageWrites ==
    ASSUME NEW s, PageOk(s), NEW t, t = Page!WriteResult(s)
    PROVE  PageOk(t)
  <1>1. PICK k \in 0 .. LongValues - 1 : k = s.map.numPagesActive
    BY DEF PageOk, PageFlash, Drives, PageMaps
  <1>2. PICK top \in Nat : top = PlaneSize * PagePlanes * BlockSize
    BY PageSizes, Sizes
  <1>3. /\ Page!NumPages = top /\ PageFlash(s) /\ BlockSize \in Nat \ {0} /\ BlockSize <= top
        /\ LongValues \in Nat /\ top < LongValues
    <2>1. PICK blocks \in Nat \ {0} : blocks = PlaneSize * PagePlanes
      BY PageSizes, Geometry
    <2>2. BlockSize <= blocks * BlockSize
      BY <2>1, Sizes
    <2>3. LongValues \in Nat /\ PlaneSize * PagePlanes * BlockSize < LongValues
      BY LongSum
    <2> QED BY <1>2, <2>1, <2>2, <2>3, Sizes DEF PageOk, Page!NumPages, Page!NumBlocks
  <1>4. PICK room : room = IF s.map.numPagesActive = Page!NumPages
                THEN [Page!EraseFirst(s) EXCEPT !.map.numPagesActive = Page!Plus(@, -BlockSize)] ELSE s
    BY Zenon
  <1>5. /\ PageFlash(room) /\ room.map.numPagesActive \in 0 .. LongValues - 1
        /\ room.map.wrapped = s.map.wrapped
        /\ k <= top => room.map.numPagesActive + 1 <= top
    <2>1. CASE k = top
      <3>1. PICK u : u = Page!EraseFirst(s)
        OBVIOUS
      <3>2. PageFlash(u) /\ u.map = s.map
        BY <1>3, <3>1, PageErases
      <3>3. PICK c \in 0 .. LongValues - 1 : c = Page!Plus(k, -BlockSize) /\ c = k - BlockSize
        <4>1. k \in Nat /\ -BlockSize \in Int /\ k + (-BlockSize) \in 0 .. LongValues - 1
              /\ k + (-BlockSize) = k - BlockSize
          BY <1>3, <2>1
        <4> QED BY <4>1, LongSum
      <3>4. room = [u EXCEPT !.map.numPagesActive = c]
        BY <1>1, <1>3, <1>4, <2>1, <3>1, <3>2, <3>3, Zenon
      <3>5. PageFlash(room) /\ room.map.numPagesActive = c /\ room.map.wrapped = u.map.wrapped
        <4>1. CountSet(u, room, c)
          BY <3>4, Zenon DEF CountSet
        <4>2. CountsAs(u, room, c)
          BY <3>2, <3>3, <4>1, PageCounts, Zenon
        <4> QED BY <4>2, Zenon DEF CountsAs
      <3> QED BY <1>3, <2>1, <3>2, <3>3, <3>5
    <2>2. CASE k # top
      <3>1. room = s
        BY <1>1, <1>3, <1>4, <2>2, Zenon
      <3> QED BY <1>1, <1>2, <1>3, <2>2, <3>1
    <2> QED BY <2>1, <2>2
  <1>6. PICK j \in 0 .. LongValues - 1 : j = room.map.numPagesActive
    BY <1>5
  <1>7. CountsOn(room, t)
    BY <1>4, Zenon DEF CountsOn, Page!WriteResult
  <1>8. /\ PageFlash(t) /\ t.map.wrapped = room.map.wrapped
        /\ j + 1 < LongValues => t.map.numPagesActive = j + 1
    <2>1. CountedOn(room, t, j)
      BY <1>5, <1>6, <1>7, PageCountsOn, Zenon
    <2> QED BY <2>1, Zenon DEF CountedOn
  <1>9. k <= top => t.map.numPagesActive <= top
    BY <1>2, <1>3, <1>5, <1>6, <1>8
  <1>10. k <= top \/ s.map.wrapped
    BY <1>1, <1>2 DEF PageOk
  <1> QED BY <1>2, <1>5, <1>8, <1>9, <1>10 DEF PageOk

LEMMA PageTrims ==
    ASSUME NEW s, PageOk(s), NEW v, NEW junk, NEW t, t = Page!TrimResult(s, v, junk)
    PROVE  PageOk(t)
  <1>1. PICK m \in PageMaps : m = s.map
    BY DEF PageOk, PageFlash, Drives
  <1>2. PICK l : l = Page!PagesOf(Page!BlockOf(v))
    OBVIOUS
  <1>3. PICK known \in [LogicalPages -> TrimStates] :
            known = [w \in LogicalPages |->
                       IF w = v THEN "yes"
                       ELSE IF w \in l /\ m.trim_map[w] = "unknown"
                       THEN (IF w \in junk THEN "yes" ELSE "no") ELSE m.trim_map[w]]
    BY DEF PageMaps, TrimStates
  <1>4. PICK cleared \in [LogicalPages -> TrimStates] :
            cleared = [w \in LogicalPages |-> IF w \in l THEN "no" ELSE known[w]]
    BY DEF TrimStates
  <1>5. PageFlash(s) /\ (m.numPagesActive <= PlaneSize * PagePlanes * BlockSize \/ m.wrapped)
    BY <1>1 DEF PageOk
  <1>6. t = IF \A w \in l : known[w] = "yes"
            THEN [Page!EraseFirst(s) EXCEPT !.map.trim_map = cleared,
                                            !.map.numPagesActive = Page!Plus(@, -BlockSize),
                                            !.map.wrapped = @ \/ m.numPagesActive < BlockSize]
            ELSE [s EXCEPT !.map.trim_map = known]
    BY <1>1, <1>2, <1>3, <1>4, Zenon DEF Page!TrimResult, Page!LogicalPages, LogicalPages
  <1>7. CASE \A w \in l : known[w] = "yes"
    <2>1. PICK u : u = Page!EraseFirst(s)
      OBVIOUS
    <2>2. PageFlash(u) /\ u.map = s.map
      BY <1>5, <2>1, PageErases
    <2>3. PICK k \in 0 .. LongValues - 1 : k = m.numPagesActive
      BY DEF PageMaps
    <2>4. PICK c \in 0 .. LongValues - 1 : c = Page!Plus(k, -BlockSize) /\ (k >= BlockSize => c = k - BlockSize)
      <3>1. LongValues \in Nat /\ k \in Nat /\ -BlockSize \in Int
        BY Sizes, LongSum, <2>3
      <3>2. k >= BlockSize => k + (-BlockSize) \in 0 .. LongValues - 1 /\ k + (-BlockSize) = k - BlockSize
        BY <3>1, <2>3, Sizes
      <3> QED BY <3>1, <3>2, LongSum
    <2>10. PICK w \in BOOLEAN : w <=> (m.wrapped \/ k < BlockSize)
      OBVIOUS
    <2>11. w = (m.wrapped \/ m.numPagesActive < BlockSize)
      <3>1. m.wrapped \in BOOLEAN
        BY DEF PageMaps
      <3> QED BY <2>3, <2>10, <3>1
    <2>12. PICK o : o = [m EXCEPT !.trim_map = cleared, !.numPagesActive = c, !.wrapped = w]
      OBVIOUS
    <2>5. o \in PageMaps /\ o.numPagesActive = c /\ o.wrapped = w
      BY <2>12 DEF PageMaps
    <2>6. t = [u EXCEPT !.map.trim_map = cleared, !.map.numPagesActive = c, !.map.wrapped = w]
      BY <1>1, <1>6, <1>7, <2>1, <2>2, <2>3, <2>4, <2>11, Zenon
    <2>7. t = [u EXCEPT !.map = o]
      BY <1>1, <2>2, <2>6, <2>12 DEF PageFlash, Drives, PageMaps
    <2>8. PageFlash(t) /\ t.map = o
      BY <2>2, <2>5, <2>7, PageCarry
    <2>9. PICK top \in Nat : top = PlaneSize * PagePlanes * BlockSize
      BY PageSizes, Sizes
    <2>13. k <= top \/ m.wrapped
      BY <1>5, <2>3, <2>9
    <2>14. c <= top \/ w
      BY <2>3, <2>4, <2>9, <2>10, <2>13, Sizes
    <2> QED BY <2>5, <2>8, <2>9, <2>14 DEF PageOk
  <1>8. CASE ~\A w \in l : known[w] = "yes"
    <2>1. PICK o : o = [m EXCEPT !.trim_map = known]
      OBVIOUS
    <2>2. o \in PageMaps /\ o.numPagesActive = m.numPagesActive /\ o.wrapped = m.wrapped
      BY <2>1 DEF PageMaps
    <2>3. t = [s EXCEPT !.map = o]
      BY <1>1, <1>6, <1>8, <2>1, Zenon
    <2>4. PageFlash(t) /\ t.map = o
      BY <1>5, <2>2, <2>3, PageCarry
    <2> QED BY <1>5, <2>2, <2>4 DEF PageOk
  <1> QED BY <1>7, <1>8

PageInv == ftl = "PAGE" => PageOk(drive) /\ live = {} /\ lost = {}

LEMMA PageInitInv == Init => PageInv
  <1> SUFFICES ASSUME Page!Init PROVE PageOk(drive) /\ live = {} /\ lost = {}
    BY DEF Init, PageInv
  <1>1. PICK n \in Nat \ {0} : n = PagePlanes
    BY PageSizes
  <1>2. PICK f \in [LogicalPages -> TrimStates] : f = [v \in LogicalPages |-> "unknown"]
    BY DEF TrimStates
  <1>3. PICK m : m = [numPagesActive |-> 0, requests |-> 0, wrapped |-> FALSE, trim_map |-> f]
    OBVIOUS
  <1>4. m \in PageMaps /\ m.numPagesActive = 0
    <2>1. 0 \in 0 .. LongValues - 1
      BY LongSum, PageSizes, Sizes
    <2> QED BY <1>3, <2>1 DEF PageMaps
  <1>5. drive = Page!NewDrive(m) /\ live = {} /\ lost = {}
    BY <1>2, <1>3, Zenon DEF Page!Init, Page!Start, Page!LogicalPages, LogicalPages
  <1>6. PICK i : i = "PAGE"
    OBVIOUS
  <1>7. drive = Chip(n, i, 1)!NewDrive(m)
    BY <1>1, <1>5, <1>6, PageChip, Zenon
  <1>8. drive \in Drives(n, PageMaps) /\ IsNew(n, drive, m)
    BY <1>4, <1>7, NewDriveFits
  <1>9. 0 <= PlaneSize * n * BlockSize
    BY Sizes
  <1> QED BY <1>1, <1>4, <1>5, <1>8, <1>9 DEF PageOk, PageFlash, IsNew

LEMMA PageServeInv ==
    ASSUME PageOk(drive), live = {}, lost = {}, NEW t, PageOk(t), Page!Serve(t, live, lost)
    PROVE  PageOk(drive') /\ live' = {} /\ lost' = {}
  <1>1. t.abort = "none"
    BY DEF PageOk, PageFlash
  <1>2. drive' = t /\ live' = live /\ lost' = lost
    BY <1>1, Zenon DEF Page!Serve
  <1> QED BY <1>2

LEMMA PageNextInv ==
    ASSUME PageInv, [Next]_vars
    PROVE  PageInv'
  <1> SUFFICES ASSUME ftl' = "PAGE" PROVE PageOk(drive') /\ live' = {} /\ lost' = {}
    BY DEF PageInv
  <1>1. CASE UNCHANGED vars
    BY <1>1 DEF vars, PageInv
  <1>2. CASE Next
    <2>1. PageStep
      BY <1>2 DEF Next, BastStep, FastStep, BdftlStep, DftlStep
    <2>2. PageOk(drive) /\ live = {} /\ lost = {} /\ Page!Next
      BY <2>1 DEF PageStep, PageInv
    <2>3. PICK u : u = [drive EXCEPT !.map.requests = @ + 1]
      OBVIOUS
    <2>4. u = Page!Counted /\ PageOk(u)
      <3>1. u = Page!Counted
        BY <2>3, Zenon DEF Page!Counted
      <3> QED BY <2>2, <2>3, <3>1, PageCounted
    <2>5. CASE Page!Write
      <3>1. PICK t : t = Page!WriteResult(u)
        OBVIOUS
      <3>2. Page!Serve(t, live, lost)
        BY <2>4, <2>5, <3>1, Zenon DEF Page!Write
      <3> QED BY <2>2, <2>4, <3>1, <3>2, PageWrites, PageServeInv
    <2>6. CASE \E v \in PagePages : Page!Trim(v)
      <3>1. PICK v \in PagePages : Page!Trim(v)
        BY <2>6
      <3>2. PICK junk : Page!Serve(Page!TrimResult(u, v, junk), live, lost)
        BY <2>4, <3>1, Zenon DEF Page!Trim
      <3>3. PICK t : t = Page!TrimResult(u, v, junk)
        OBVIOUS
      <3> QED BY <2>2, <2>4, <3>2, <3>3, PageTrims, PageServeInv
    <2> QED BY <2>2, <2>5, <2>6, Zenon DEF Page!Next
  <1> QED BY <1>1, <1>2

LEMMA PageMeans ==
    ASSUME PageOk(drive), live = {}, lost = {}
    PROVE  Page!TypeOK /\ Page!CountersMatchTables
  <1>1. PICK n \in Nat \ {0} : n = PagePlanes
    BY PageSizes
  <1>2. PICK M : M = PageMaps
    OBVIOUS
  <1>3. PageFlash(drive) /\ drive \in Drives(n, M) /\ Fits(n, drive)
    BY <1>1, <1>2 DEF PageOk, PageFlash
  <1>4. Bounded(n, drive)
    <2>1. PlaneSize * n \in Nat
      BY Geometry
    <2> QED BY <1>1, <1>3, <2>1 DEF Bounded, PageFlash
  <1>5. PICK i : i = "PAGE"
    OBVIOUS
  <1>6. Chip(n, i, 1)!FlashTypeOK /\ Chip(n, i, 1)!ActiveWithinDrive
    BY <1>3, <1>4, Typed
  <1>7. /\ drive.map.numPagesActive \in 0 .. LongValues - 1 /\ drive.map.wrapped \in BOOLEAN
        /\ drive.map.trim_map \in [LogicalPages -> TrimStates]
    BY <1>2, <1>3 DEF Drives, PageMaps
  <1>8. Page!FlashTypeOK /\ Page!ActiveWithinDrive
    BY <1>1, <1>5, <1>6, Zenon DEF
       Chip!FlashTypeOK, Chip!ActiveWithinDrive, Page!FlashTypeOK, Page!ActiveWithinDrive,
       Chip!Blocks, Page!Blocks,
       Chip!BlockType, Page!BlockType,
       Chip!Planes, Page!Planes, Chip!PlaneType, Page!PlaneType, Chip!Addresses, Page!Addresses,
       Chip!LogicalPages, Page!LogicalPages, Chip!None, Page!None, Chip!Aborts, Page!Aborts,
       Chip!NumBlocks, Page!NumBlocks, Chip!Pages, Page!Pages, Chip!PageStates, Page!PageStates,
       Chip!BlockStates, Page!BlockStates, Chip!Everything, Page!Everything
  <1>9. Page!TypeOK
    BY <1>7, <1>8, Zenon DEF Page!TypeOK, Page!LogicalPages, LogicalPages, TrimStates
  <1>10. Page!CountersMatchTables
    BY DEF PageOk, Page!CountersMatchTables, Page!NumPages, Page!NumBlocks
  <1> QED BY <1>9, <1>10

-----------------------------------------------------------------------------
\* The bimodal layer.  A block is nobody's, the block of the current page, spare
\* (in use for pages of converted blocks, or queued for it), or that of a logical
\* block in block mode, and never two of these; or it is used up.
Ppn(s, v) == s.map.trans_map[v].ppn
Pbn(s, l) == s.map.block_map[l].pbn
InOrderOf(s, l) == s.map.block_map[l].nextPage
Optimal(s, l) == s.map.block_map[l].optimal
InBlock(s, l) == Optimal(s, l) /\ Pbn(s, l) # None
Spare(s, b) == b = s.map.inuseBlock \/ Listed(s.map.blockQueue, b)
AtCurrent(s, b) == s.map.currentDataPage # None /\ b = BlockOf(s.map.currentDataPage)

Owners(s) ==
    /\ \A b \in BlocksOf(BdftlPlanes) : Spare(s, b) => ~Idle(s, b) /\ ~AtCurrent(s, b)
    /\ \A b \in BlocksOf(BdftlPlanes) : AtCurrent(s, b) => ~Idle(s, b)
    /\ \A l \in LBAs : InBlock(s, l) =>
           ~Idle(s, Pbn(s, l)) /\ ~AtCurrent(s, Pbn(s, l)) /\ ~Spare(s, Pbn(s, l))
    /\ \A l, k \in LBAs : InBlock(s, l) /\ InBlock(s, k) /\ Pbn(s, l) = Pbn(s, k) => l = k
    /\ \A l \in LBAs : Optimal(s, l) /\ Pbn(s, l) = None => InOrderOf(s, l) = 0

\* What the pages of these blocks are: empty behind the last one written, or
\* trimmed ahead in block mode, and valid where the page map leads.
Contents(s) ==
    /\ \A x \in AddressesOf(BdftlPlanes) : Idle(s, BlockOf(x)) => PageAt(s, x) = "EMPTY"
    /\ \A x \in AddressesOf(BdftlPlanes) :
           AtCurrent(s, BlockOf(x)) /\ PageOf(x) > PageOf(s.map.currentDataPage) => PageAt(s, x) = "EMPTY"
    /\ \A l \in LBAs, x \in AddressesOf(BdftlPlanes) :
           InBlock(s, l) /\ BlockOf(x) = Pbn(s, l) /\ PageOf(x) >= InOrderOf(s, l)
               => PageAt(s, x) \in {"EMPTY", "INVALID"}
    /\ \A v \in LogicalPages : Ppn(s, v) # None =>
           /\ PageAt(s, Ppn(s, v)) = "VALID" /\ s.data[Ppn(s, v)] = v
           /\ \A l \in LBAs : InBlock(s, l) => Pbn(s, l) # BlockOf(Ppn(s, v))

\* A page that is alive and not lost is found, in block mode or in the page map.
Finds(s, v) ==
    LET l == BlockOf(v) x == Linear(Pbn(s, l), PageOf(v))
    IN IF Optimal(s, l) THEN Pbn(s, l) # None /\ PageAt(s, x) = "VALID" /\ s.data[x] = v
       ELSE Ppn(s, v) # None

\* A page was trimmed before its write in block mode: that write fails.
Ahead(s, l) == /\ InBlock(s, l) /\ InOrderOf(s, l) < BlockSize
               /\ PageAt(s, Linear(Pbn(s, l), InOrderOf(s, l))) = "INVALID"
AheadAbort(s, abort) == abort = "page not empty" /\ \E l \in LBAs : Ahead(s, l)

\* In block mode, or trimmed since the last write, a page has no entry.
OneMode(s) == \A v \in LogicalPages : Optimal(s, BlockOf(v)) \/ s.map.trim_map[v] # "no"
                                          => Ppn(s, v) = None

BdftlDrive(s) == /\ s \in Drives(BdftlPlanes, BdftlMaps(BdftlPlanes)) /\ Fits(BdftlPlanes, s)
                 /\ Bounded(BdftlPlanes, s) /\ OneMode(s)
BdftlWhole(s, found) ==
    /\ Stock(BdftlPlanes, s) /\ s.log_active = 0 /\ Owners(s) /\ Contents(s)
    /\ \A v \in LogicalPages : v \in found => Finds(s, v)
BdftlOk(s, alive, gone) ==
    /\ BdftlDrive(s) /\ (s.abort \in Harmless \/ AheadAbort(s, s.abort))
    /\ s.map.requests <= BdftlRequests
    /\ TableOk(s.map, BdftlEntries) /\ BdftlWhole(s, alive \ gone)
\* Once a block is in two uses, every page is lost and the rest is open.
BdftlInv == ftl = "BIMODAL" =>
               /\ live \subseteq LogicalPages
               /\ \/ lost = LogicalPages \cup {None}
                  \/ BdftlOk(drive, live, lost) /\ lost \subseteq LogicalPages

LEMMA BdftlChip ==
    /\ \A m : Bdftl!NewDrive(m) = Chip(BdftlPlanes, "BIMODAL", 1)!NewDrive(m)
    /\ \A s, type : Bdftl!GetFreeBlock(s, type) = Chip(BdftlPlanes, "BIMODAL", 1)!GetFreeBlock(s, type)
    /\ \A s, v : Bdftl!Outdate(s, v) = Chip(BdftlPlanes, "BIMODAL", 1)!Outdate(s, v)
    /\ \A s, a, r, v : Bdftl!IssueWrite(s, a, r, v) = Chip(BdftlPlanes, "BIMODAL", 1)!IssueWrite(s, a, r, v)
    /\ \A s, a : Bdftl!PlaneReplace(s, a) = Chip(BdftlPlanes, "BIMODAL", 1)!PlaneReplace(s, a)
    /\ \A s, b, type : Bdftl!EraseAndInvalidate(s, b, type) = Chip(BdftlPlanes, "BIMODAL", 1)!EraseAndInvalidate(s, b, type)
  <1>1. ASSUME NEW m
        PROVE  Bdftl!NewDrive(m) = Chip(BdftlPlanes, "BIMODAL", 1)!NewDrive(m)
    BY Zenon DEF Bdftl!NewDrive, Chip!NewDrive, Bdftl!NewBlock, Chip!NewBlock, Bdftl!NewPlane,
        Chip!NewPlane, Bdftl!Blocks, Chip!Blocks, Bdftl!Planes, Chip!Planes, Bdftl!Pages,
        Chip!Pages, Bdftl!Addresses, Chip!Addresses, Bdftl!NumBlocks, Chip!NumBlocks,
        Bdftl!None, Chip!None
  <1>2. ASSUME NEW s
        PROVE  Bdftl!EraseInvalid(s) = Chip(BdftlPlanes, "BIMODAL", 1)!EraseInvalid(s)
    BY Zenon DEF Bdftl!EraseInvalid, Chip!EraseInvalid, Bdftl!PlaneErase, Chip!PlaneErase,
        Bdftl!Assert, Chip!Assert, Bdftl!PlaneOf, Chip!PlaneOf, Bdftl!BlockErase,
        Chip!BlockErase, Bdftl!NewBlock, Chip!NewBlock, Bdftl!Pages, Chip!Pages,
        Bdftl!LeastWorn, Chip!LeastWorn, Bdftl!Addresses, Chip!Addresses, Bdftl!NumBlocks,
        Chip!NumBlocks, Bdftl!BlockOf, Chip!BlockOf, Bdftl!None, Chip!None
  <1>3. ASSUME NEW s
        PROVE  Bdftl!InsertEvents(s) = Chip(BdftlPlanes, "BIMODAL", 1)!InsertEvents(s)
    BY <1>2, Zenon DEF Bdftl!InsertEvents, Chip!InsertEvents, Bdftl!BelowThreshold,
        Chip!BelowThreshold, Bdftl!NumBlocks, Chip!NumBlocks, Bdftl!ImplDftl, Chip!ImplDftl,
        Bdftl!ImplBimodal, Chip!ImplBimodal, Bdftl!Assert, Chip!Assert
  <1>4. ASSUME NEW s
        PROVE  Bdftl!Replenished(s) = Chip(BdftlPlanes, "BIMODAL", 1)!Replenished(s)
    BY <1>3, Zenon DEF Bdftl!Replenished, Chip!Replenished, Bdftl!NumBlocks, Chip!NumBlocks
  <1>5. ASSUME NEW s
        PROVE  Bdftl!NextFree(s) = Chip(BdftlPlanes, "BIMODAL", 1)!NextFree(s)
    BY Zenon DEF Bdftl!NextFree, Chip!NextFree, Bdftl!NumBlocks, Chip!NumBlocks
  <1>6. ASSUME NEW s
        PROVE  Bdftl!TakeNextFree(s) = Chip(BdftlPlanes, "BIMODAL", 1)!TakeNextFree(s)
    BY Zenon DEF Bdftl!TakeNextFree, Chip!TakeNextFree, Bdftl!NumBlocks, Chip!NumBlocks,
        Bdftl!Assert, Chip!Assert
  <1>7. ASSUME NEW s, NEW type
        PROVE  Bdftl!CountBlock(s, type) = Chip(BdftlPlanes, "BIMODAL", 1)!CountBlock(s, type)
    BY Zenon DEF Bdftl!CountBlock, Chip!CountBlock, Bdftl!Assert, Chip!Assert,
        Bdftl!MaxLogBlocks, Chip!MaxLogBlocks, Bdftl!ImplFast, Chip!ImplFast, Bdftl!NumBlocks,
        Chip!NumBlocks
  <1>8. ASSUME NEW s, NEW type
        PROVE  Bdftl!GetFreeBlock(s, type) = Chip(BdftlPlanes, "BIMODAL", 1)!GetFreeBlock(s, type)
    BY <1>4, <1>5, <1>6, <1>7, Zenon DEF Bdftl!GetFreeBlock, Chip!GetFreeBlock, Bdftl!HandOut,
        Chip!HandOut
  <1>9. ASSUME NEW s, NEW v
        PROVE  Bdftl!Outdate(s, v) = Chip(BdftlPlanes, "BIMODAL", 1)!Outdate(s, v)
    BY Zenon DEF Bdftl!Outdate, Chip!Outdate, Bdftl!Addresses, Chip!Addresses, Bdftl!NumBlocks,
        Chip!NumBlocks, Bdftl!None, Chip!None
  <1>10. ASSUME NEW s, NEW a
        PROVE  Bdftl!PlaneReplace(s, a) = Chip(BdftlPlanes, "BIMODAL", 1)!PlaneReplace(s, a)
    BY Zenon DEF Bdftl!PlaneReplace, Chip!PlaneReplace, Bdftl!BlockInvalidate,
        Chip!BlockInvalidate, Bdftl!BlockOf, Chip!BlockOf, Bdftl!PageOf, Chip!PageOf,
        Bdftl!None, Chip!None
  <1>11. ASSUME NEW s, NEW b, NEW ps, NEW d
        PROVE  Bdftl!PlaneWrite(s, b, ps, d) = Chip(BdftlPlanes, "BIMODAL", 1)!PlaneWrite(s, b, ps, d)
    BY Zenon DEF Bdftl!PlaneWrite, Chip!PlaneWrite, Bdftl!Assert, Chip!Assert,
        Bdftl!BlockWrite, Chip!BlockWrite, Bdftl!Cardinality, Chip!Cardinality, Bdftl!Pages,
        Chip!Pages, Bdftl!Addresses, Chip!Addresses, Bdftl!NumBlocks, Chip!NumBlocks,
        Bdftl!BlockOf, Chip!BlockOf, Bdftl!PageOf, Chip!PageOf, Bdftl!PlaneOf, Chip!PlaneOf
  <1>12. ASSUME NEW s, NEW a, NEW r, NEW v
        PROVE  Bdftl!IssueWrite(s, a, r, v) = Chip(BdftlPlanes, "BIMODAL", 1)!IssueWrite(s, a, r, v)
    BY <1>10, <1>11, Zenon DEF Bdftl!IssueWrite, Chip!IssueWrite, Bdftl!BlockOf, Chip!BlockOf,
        Bdftl!PageOf, Chip!PageOf, Bdftl!Pages, Chip!Pages
  <1>13. ASSUME NEW s, NEW b
        PROVE  Bdftl!PlaneErase(s, b) = Chip(BdftlPlanes, "BIMODAL", 1)!PlaneErase(s, b)
    BY Zenon DEF Bdftl!PlaneErase, Chip!PlaneErase, Bdftl!Assert, Chip!Assert, Bdftl!PlaneOf,
        Chip!PlaneOf, Bdftl!BlockErase, Chip!BlockErase, Bdftl!NewBlock, Chip!NewBlock,
        Bdftl!Pages, Chip!Pages, Bdftl!LeastWorn, Chip!LeastWorn, Bdftl!Addresses,
        Chip!Addresses, Bdftl!NumBlocks, Chip!NumBlocks, Bdftl!BlockOf, Chip!BlockOf,
        Bdftl!None, Chip!None
  <1>14. ASSUME NEW s, NEW b, NEW type
        PROVE  Bdftl!EraseAndInvalidate(s, b, type) = Chip(BdftlPlanes, "BIMODAL", 1)!EraseAndInvalidate(s, b, type)
    BY <1>13, Zenon DEF Bdftl!EraseAndInvalidate, Chip!EraseAndInvalidate
  <1> QED BY <1>1, <1>8, <1>9, <1>12, <1>10, <1>14, Zenon

LEMMA BdftlSizes == BdftlPlanes \in Nat \ {0} /\ BdftlEntries \in Nat \ {0} /\ BdftlRequests \in Nat
  BY FtlsAssumption

BdftlDrives == Drives(BdftlPlanes, BdftlMaps(BdftlPlanes))

LEMMA BdftlFields ==
    ASSUME NEW s \in BdftlDrives
    PROVE  /\ \A v \in LogicalPages : Ppn(s, v) \in Slots(BdftlPlanes)
           /\ \A l \in LBAs : /\ Pbn(s, l) \in BlockSlots(BdftlPlanes) /\ InOrderOf(s, l) \in 0 .. BlockSize
                              /\ Optimal(s, l) \in BOOLEAN
           /\ s.map.currentDataPage \in Slots(BdftlPlanes) /\ s.map.inuseBlock \in BlockSlots(BdftlPlanes)
           /\ s.map.blockQueue \in Seq(BlocksOf(BdftlPlanes)) /\ s.map \in BdftlMaps(BdftlPlanes)
           /\ s.map.trim_map \in [LogicalPages -> TrimStates]
           /\ s.map.block_map \in [LBAs -> BPages(BdftlPlanes)]
           /\ s.map.trans_map \in Entries(BdftlPlanes)
  <1>1. PICK m \in BdftlMaps(BdftlPlanes) : m = s.map
    BY DEF BdftlDrives, Drives
  <1>2. /\ m.trans_map \in Entries(BdftlPlanes) /\ m.block_map \in [LBAs -> BPages(BdftlPlanes)]
        /\ m.currentDataPage \in Slots(BdftlPlanes) /\ m.inuseBlock \in BlockSlots(BdftlPlanes)
        /\ m.blockQueue \in Seq(BlocksOf(BdftlPlanes)) /\ m.trim_map \in [LogicalPages -> TrimStates]
    BY DEF BdftlMaps, LBAs
  <1>3. \A v \in LogicalPages : m.trans_map[v].ppn \in Slots(BdftlPlanes)
    BY <1>2 DEF Entries, Entry
  <1>4. \A l \in LBAs : /\ m.block_map[l].pbn \in BlockSlots(BdftlPlanes)
                        /\ m.block_map[l].nextPage \in 0 .. BlockSize /\ m.block_map[l].optimal \in BOOLEAN
    BY <1>2 DEF BPages
  <1> QED BY <1>1, <1>2, <1>3, <1>4 DEF Ppn, Pbn, InOrderOf, Optimal

\* A drive with other tables of the bimodal layer, and the same page map.
RestSet(s, t, B, T, u, q) ==
    /\ t \in BdftlDrives /\ SameFlash(s, t) /\ SameManager(s, t) /\ t.abort = s.abort
    /\ t.map.trans_map = s.map.trans_map /\ t.map.cmt = s.map.cmt /\ t.map.gtd = s.map.gtd
    /\ t.map.currentDataPage = s.map.currentDataPage /\ t.map.requests = s.map.requests
    /\ t.map.overlooked = s.map.overlooked
    /\ t.map.block_map = B /\ t.map.trim_map = T /\ t.map.inuseBlock = u /\ t.map.blockQueue = q

LEMMA SetRest ==
    ASSUME NEW s \in BdftlDrives, NEW B \in [LBAs -> BPages(BdftlPlanes)],
           NEW T \in [LogicalPages -> TrimStates], NEW u \in BlockSlots(BdftlPlanes),
           NEW q \in Seq(BlocksOf(BdftlPlanes)),
           NEW t, t = [s EXCEPT !.map.block_map = B, !.map.trim_map = T, !.map.inuseBlock = u, !.map.blockQueue = q]
    PROVE  RestSet(s, t, B, T, u, q)
  <1>1. PICK M : M = BdftlMaps(BdftlPlanes)
    OBVIOUS
  <1>2. s \in Drives(BdftlPlanes, M)
    BY <1>1 DEF BdftlDrives
  <1>3. PICK m \in M : m = s.map
    BY <1>2 DEF Drives
  <1>4. PICK o : o = [m EXCEPT !.block_map = B, !.trim_map = T, !.inuseBlock = u, !.blockQueue = q]
    OBVIOUS
  <1>5. /\ o \in M /\ o.trans_map = m.trans_map /\ o.cmt = m.cmt /\ o.gtd = m.gtd
        /\ o.currentDataPage = m.currentDataPage /\ o.requests = m.requests /\ o.overlooked = m.overlooked
        /\ o.block_map = B /\ o.trim_map = T /\ o.inuseBlock = u /\ o.blockQueue = q
    BY <1>1, <1>4 DEF BdftlMaps, LBAs
  <1>6. t = [s EXCEPT !.map = o]
    <2>1. m \in BdftlMaps(BdftlPlanes)
      BY <1>1
    <2> QED BY <1>2, <1>3, <1>4, <2>1 DEF Drives, BdftlMaps
  <1>7. t \in Drives(BdftlPlanes, M) /\ t.map = o /\ SameFlash(s, t) /\ SameManager(s, t) /\ t.abort = s.abort
    BY <1>2, <1>5, <1>6, Zenon DEF Drives, SameFlash, SameManager
  <1> QED BY <1>1, <1>3, <1>5, <1>7 DEF RestSet, BdftlDrives

\* The same for changes of one of them.
LEMMA SetSome ==
    ASSUME NEW s \in BdftlDrives
    PROVE  /\ \A B \in [LBAs -> BPages(BdftlPlanes)] :
                 RestSet(s, [s EXCEPT !.map.block_map = B], B, s.map.trim_map, s.map.inuseBlock, s.map.blockQueue)
           /\ \A T \in [LogicalPages -> TrimStates] :
                 RestSet(s, [s EXCEPT !.map.trim_map = T], s.map.block_map, T, s.map.inuseBlock, s.map.blockQueue)
           /\ \A u \in BlockSlots(BdftlPlanes) :
                 RestSet(s, [s EXCEPT !.map.inuseBlock = u], s.map.block_map, s.map.trim_map, u, s.map.blockQueue)
           /\ \A q \in Seq(BlocksOf(BdftlPlanes)) :
                 RestSet(s, [s EXCEPT !.map.blockQueue = q], s.map.block_map, s.map.trim_map, s.map.inuseBlock, q)
  <1>1. PICK B \in [LBAs -> BPages(BdftlPlanes)] : B = s.map.block_map
    BY BdftlFields
  <1>2. PICK T \in [LogicalPages -> TrimStates] : T = s.map.trim_map
    BY BdftlFields
  <1>3. PICK u \in BlockSlots(BdftlPlanes) : u = s.map.inuseBlock
    BY BdftlFields
  <1>4. PICK q \in Seq(BlocksOf(BdftlPlanes)) : q = s.map.blockQueue
    BY BdftlFields
  <1>5. PICK m \in BdftlMaps(BdftlPlanes) : m = s.map
    BY DEF BdftlDrives, Drives
  <1>6. ASSUME NEW C \in [LBAs -> BPages(BdftlPlanes)] PROVE RestSet(s, [s EXCEPT !.map.block_map = C], C, T, u, q)
    <2>1. [s EXCEPT !.map.block_map = C]
            = [s EXCEPT !.map.block_map = C, !.map.trim_map = T, !.map.inuseBlock = u, !.map.blockQueue = q]
      BY <1>1, <1>2, <1>3, <1>4, <1>5 DEF BdftlDrives, Drives, BdftlMaps
    <2> QED BY <2>1, SetRest
  <1>7. ASSUME NEW C \in [LogicalPages -> TrimStates] PROVE RestSet(s, [s EXCEPT !.map.trim_map = C], B, C, u, q)
    <2>1. [s EXCEPT !.map.trim_map = C]
            = [s EXCEPT !.map.block_map = B, !.map.trim_map = C, !.map.inuseBlock = u, !.map.blockQueue = q]
      BY <1>1, <1>2, <1>3, <1>4, <1>5 DEF BdftlDrives, Drives, BdftlMaps
    <2> QED BY <2>1, SetRest
  <1>8. ASSUME NEW C \in BlockSlots(BdftlPlanes) PROVE RestSet(s, [s EXCEPT !.map.inuseBlock = C], B, T, C, q)
    <2>1. [s EXCEPT !.map.inuseBlock = C]
            = [s EXCEPT !.map.block_map = B, !.map.trim_map = T, !.map.inuseBlock = C, !.map.blockQueue = q]
      BY <1>1, <1>2, <1>3, <1>4, <1>5 DEF BdftlDrives, Drives, BdftlMaps
    <2> QED BY <2>1, SetRest
  <1>9. ASSUME NEW C \in Seq(BlocksOf(BdftlPlanes)) PROVE RestSet(s, [s EXCEPT !.map.blockQueue = C], B, T, u, C)
    <2>1. [s EXCEPT !.map.blockQueue = C]
            = [s EXCEPT !.map.block_map = B, !.map.trim_map = T, !.map.inuseBlock = u, !.map.blockQueue = C]
      BY <1>1, <1>2, <1>3, <1>4, <1>5 DEF BdftlDrives, Drives, BdftlMaps
    <2> QED BY <2>1, SetRest
  <1> QED BY <1>1, <1>2, <1>3, <1>4, <1>6, <1>7, <1>8, <1>9

\* Nothing that the invariant looks at changes.
SameView(s, t) ==
    /\ SameManager(s, t)
    /\ \A v \in LogicalPages : Ppn(t, v) = Ppn(s, v)
    /\ t.map.block_map = s.map.block_map /\ t.map.inuseBlock = s.map.inuseBlock
    /\ t.map.blockQueue = s.map.blockQueue /\ t.map.currentDataPage = s.map.currentDataPage

LEMMA SameOwners ==
    ASSUME NEW s, NEW t, SameView(s, t)
    PROVE  /\ \A b : /\ Idle(t, b) <=> Idle(s, b)
                     /\ Spare(t, b) <=> Spare(s, b)
                     /\ AtCurrent(t, b) <=> AtCurrent(s, b)
           /\ \A l : /\ Pbn(t, l) = Pbn(s, l) /\ InOrderOf(t, l) = InOrderOf(s, l)
                     /\ Optimal(t, l) = Optimal(s, l) /\ (InBlock(t, l) <=> InBlock(s, l))
           /\ t.map.currentDataPage = s.map.currentDataPage /\ \A n : Stock(n, s) => Stock(n, t)
           /\ Owners(s) => Owners(t)
  <1>1. SameManager(s, t)
    BY DEF SameView
  <1>2. \A b : Idle(t, b) <=> Idle(s, b)
    BY <1>1, SameStock
  <1>3. \A n : Stock(n, s) => Stock(n, t)
    BY <1>1, SameStock
  <1>4. \A b : (Spare(t, b) <=> Spare(s, b)) /\ (AtCurrent(t, b) <=> AtCurrent(s, b))
    BY DEF SameView, Spare, AtCurrent
  <1>5. \A l : /\ Pbn(t, l) = Pbn(s, l) /\ InOrderOf(t, l) = InOrderOf(s, l)
               /\ Optimal(t, l) = Optimal(s, l)
    BY DEF SameView, Pbn, InOrderOf, Optimal
  <1>6. \A l : InBlock(t, l) <=> InBlock(s, l)
    BY <1>5 DEF InBlock
  <1>7. ASSUME Owners(s) PROVE Owners(t)
    BY <1>2, <1>4, <1>5, <1>6, <1>7 DEF Owners
  <1> QED BY <1>2, <1>3, <1>4, <1>5, <1>6, <1>7 DEF SameView

LEMMA WholeCarried ==
    ASSUME NEW s, NEW found, BdftlWhole(s, found), NEW t, SameView(s, t), SameFlash(s, t)
    PROVE  BdftlWhole(t, found)
  <1>1. /\ \A b : /\ Idle(t, b) <=> Idle(s, b)
                  /\ AtCurrent(t, b) <=> AtCurrent(s, b)
        /\ \A l : /\ Pbn(t, l) = Pbn(s, l) /\ InOrderOf(t, l) = InOrderOf(s, l)
                  /\ Optimal(t, l) = Optimal(s, l) /\ (InBlock(t, l) <=> InBlock(s, l))
        /\ t.map.currentDataPage = s.map.currentDataPage /\ Stock(BdftlPlanes, t) /\ Owners(t)
    BY SameOwners DEF BdftlWhole
  <1>2. (\A x : PageAt(t, x) = PageAt(s, x)) /\ t.data = s.data /\ t.log_active = 0
        /\ \A v \in LogicalPages : Ppn(t, v) = Ppn(s, v)
    BY SameFits DEF SameFlash, SameBlocks, SameView, SameManager, BdftlWhole
  <1>3. Contents(t)
    BY <1>1, <1>2 DEF BdftlWhole, Contents
  <1>4. \A v \in LogicalPages : Finds(s, v) => Finds(t, v)
    BY <1>1, <1>2 DEF Finds
  <1> QED BY <1>1, <1>2, <1>3, <1>4 DEF BdftlWhole

LEMMA DriveCarried ==
    ASSUME NEW s, BdftlDrive(s), NEW t \in BdftlDrives, SameFlash(s, t), SameManager(s, t), OneMode(t)
    PROVE  BdftlDrive(t)
  <1>1. Fits(BdftlPlanes, s) => Fits(BdftlPlanes, t)
    BY SameFits DEF SameFlash, SameBlocks
  <1> QED BY <1>1 DEF BdftlDrive, BdftlDrives, Bounded, SameFlash, SameManager

\* The drive between two steps of a request, after r requests.
Goes(s, found, r) ==
    /\ s \in BdftlDrives /\ s.invalid_list = << >> /\ s.abort \in Harmless
    /\ r \in Nat /\ s.map.requests = r + 1
    /\ TableOk(s.map, BdftlEntries)
    /\ s.abort = "none" => BdftlDrive(s) /\ BdftlWhole(s, found)

\* The entries of the page map are those of before.
SameMap(m, o) == /\ o.trans_map = m.trans_map /\ o.cmt = m.cmt /\ o.gtd = m.gtd
                 /\ o.requests = m.requests /\ o.overlooked = m.overlooked

LEMMA GoesOn ==
    ASSUME NEW s, NEW found, NEW r, Goes(s, found, r), NEW t \in BdftlDrives, NEW after,
           SameMap(s.map, t.map), t.invalid_list = s.invalid_list, Sticky(s, t),
           t.abort = "none" => s.abort = "none" /\ BdftlDrive(t) /\ BdftlWhole(t, after)
    PROVE  Goes(t, after, r)
  <1>1. TableOk(t.map, BdftlEntries)
    BY SameTable DEF Goes, SameMap
  <1>2. t.abort \in Harmless
    <2>1. CASE s.abort = "none"
      BY <2>1 DEF Sticky
    <2>2. CASE s.abort # "none"
      BY <2>2 DEF Sticky, Goes
    <2> QED BY <2>1, <2>2
  <1> QED BY <1>1, <1>2 DEF Goes, SameMap

\* The trim map changes where it may.
LEMMA TrimSet ==
    ASSUME NEW s, NEW found, NEW r, Goes(s, found, r), NEW T \in [LogicalPages -> TrimStates],
           NEW t, t = [s EXCEPT !.map.trim_map = T],
           s.abort = "none" => \A v \in LogicalPages : T[v] # "no" => s.map.trim_map[v] # "no" \/ Ppn(s, v) = None
    PROVE  /\ Goes(t, found, r) /\ RestSet(s, t, s.map.block_map, T, s.map.inuseBlock, s.map.blockQueue)
  <1>1. s \in BdftlDrives
    BY DEF Goes
  <1>2. RestSet(s, t, s.map.block_map, T, s.map.inuseBlock, s.map.blockQueue)
    BY <1>1, SetSome
  <1>3. /\ t \in BdftlDrives /\ SameFlash(s, t) /\ SameManager(s, t) /\ t.abort = s.abort
        /\ SameMap(s.map, t.map) /\ SameView(s, t) /\ t.map.trim_map = T
    BY <1>2 DEF RestSet, SameView, SameMap, Ppn
  <1>4. ASSUME s.abort = "none" PROVE BdftlDrive(t) /\ BdftlWhole(t, found)
    <2>1. BdftlDrive(s) /\ BdftlWhole(s, found)
      BY <1>4 DEF Goes
    <2>2. \A v \in LogicalPages : Ppn(t, v) = Ppn(s, v)
      BY <1>3 DEF SameView
    <2>3. \A l : Optimal(t, l) = Optimal(s, l)
      BY <1>3 DEF SameView, Optimal
    <2>4. OneMode(t)
      BY <1>3, <1>4, <2>1, <2>2, <2>3 DEF OneMode, BdftlDrive
    <2> QED BY <1>3, <2>1, <2>4, DriveCarried, WholeCarried
  <1>5. t.invalid_list = s.invalid_list /\ Sticky(s, t)
    BY <1>3, StickySame DEF SameManager
  <1>6. Goes(t, found, r)
    BY <1>3, <1>4, <1>5, GoesOn
  <1> QED BY <1>2, <1>6

\* One entry of the block map changes.
BlockSet(s, t, l, e) ==
    /\ t \in BdftlDrives /\ SameFlash(s, t) /\ SameManager(s, t) /\ t.abort = s.abort
    /\ SameMap(s.map, t.map) /\ t.map.currentDataPage = s.map.currentDataPage
    /\ t.map.trim_map = s.map.trim_map /\ t.map.inuseBlock = s.map.inuseBlock
    /\ t.map.blockQueue = s.map.blockQueue
    /\ Updated(LBAs, s.map.block_map, t.map.block_map, l, e)

LEMMA SetBlock ==
    ASSUME NEW s \in BdftlDrives, NEW l \in LBAs, NEW e \in BPages(BdftlPlanes),
           NEW t, t = [s EXCEPT !.map.block_map[l] = e]
    PROVE  BlockSet(s, t, l, e)
  <1>1. PICK B : B = [s.map.block_map EXCEPT ![l] = e]
    OBVIOUS
  <1>2. s.map.block_map \in [LBAs -> BPages(BdftlPlanes)]
    BY BdftlFields
  <1>3. B \in [LBAs -> BPages(BdftlPlanes)] /\ Updated(LBAs, s.map.block_map, B, l, e)
    BY <1>1, <1>2, Update
  <1>4. t = [s EXCEPT !.map.block_map = B]
    BY <1>1, Zenon
  <1>5. RestSet(s, t, B, s.map.trim_map, s.map.inuseBlock, s.map.blockQueue)
    BY <1>3, <1>4, SetSome, Zenon
  <1> QED BY <1>3, <1>5 DEF RestSet, BlockSet, SameMap

IsBPage(e, b, p, yes) == /\ e \in BPages(BdftlPlanes) /\ e.pbn = b /\ e.nextPage = p
                         /\ (e.optimal <=> yes)

LEMMA PbnEntry ==
    ASSUME NEW d \in BPages(BdftlPlanes), NEW b \in BlockSlots(BdftlPlanes), NEW e, e = [d EXCEPT !.pbn = b]
    PROVE  IsBPage(e, b, d.nextPage, d.optimal)
  BY DEF IsBPage, BPages

LEMMA NextEntry ==
    ASSUME NEW d \in BPages(BdftlPlanes), NEW p \in 0 .. BlockSize, NEW e, e = [d EXCEPT !.nextPage = p]
    PROVE  IsBPage(e, d.pbn, p, d.optimal)
  BY DEF IsBPage, BPages

LEMMA PlainEntry ==
    ASSUME NEW d \in BPages(BdftlPlanes), NEW no \in BOOLEAN, NEW e, e = [d EXCEPT !.optimal = no]
    PROVE  IsBPage(e, d.pbn, d.nextPage, no)
  BY DEF IsBPage, BPages

LEMMA FreshEntry ==
    ASSUME NEW e, e = Bdftl!BPage
    PROVE  IsBPage(e, None, 0, TRUE)
  BY Sizes DEF IsBPage, BPages, BlockSlots, Bdftl!BPage, Bdftl!None, None

\* What an updated block map says.
BlockReads(s, t, l, b, p, yes) ==
    /\ Pbn(t, l) = b /\ InOrderOf(t, l) = p /\ (Optimal(t, l) <=> yes)
    /\ \A k \in LBAs : k # l =>
          /\ Pbn(t, k) = Pbn(s, k) /\ InOrderOf(t, k) = InOrderOf(s, k)
          /\ Optimal(t, k) = Optimal(s, k) /\ (InBlock(t, k) <=> InBlock(s, k))

LEMMA BlockRead ==
    ASSUME NEW s, NEW t, NEW l \in LBAs, NEW e, NEW b, NEW p, NEW yes, IsBPage(e, b, p, yes), BlockSet(s, t, l, e)
    PROVE  BlockReads(s, t, l, b, p, yes)
  <1>1. t.map.block_map[l] = e /\ \A k \in LBAs : k # l => t.map.block_map[k] = s.map.block_map[k]
    BY DEF BlockSet, Updated
  <1>2. Pbn(t, l) = b /\ InOrderOf(t, l) = p /\ (Optimal(t, l) <=> yes)
    BY <1>1 DEF IsBPage, Pbn, InOrderOf, Optimal
  <1> QED BY <1>1, <1>2 DEF BlockReads, Pbn, InOrderOf, Optimal, InBlock

\* The names of the model.
LEMMA BdftlNames ==
    /\ Bdftl!None = None /\ Bdftl!Pages = Pages /\ Bdftl!LogicalPages = LogicalPages
    /\ \A a : Bdftl!PageOf(a) = PageOf(a) /\ Bdftl!BlockOf(a) = BlockOf(a)
    /\ \A b, p : Bdftl!Linear(b, p) = Linear(b, p)
    /\ \A s, v : Bdftl!Optimal(s, v) = Optimal(s, BlockOf(v)) /\ Bdftl!Pbn(s, v) = Pbn(s, BlockOf(v))
    /\ \A s, v : Bdftl!InOrder(s, v) <=> /\ InBlock(s, BlockOf(v))
                                         /\ InOrderOf(s, BlockOf(v)) = PageOf(v)
    /\ \A s, v : Bdftl!Converts(s, v) <=> /\ InBlock(s, BlockOf(v))
                                          /\ InOrderOf(s, BlockOf(v)) # PageOf(v)
  <1>1. /\ Bdftl!None = None /\ Bdftl!Pages = Pages /\ Bdftl!LogicalPages = LogicalPages
        /\ \A a : Bdftl!PageOf(a) = PageOf(a) /\ Bdftl!BlockOf(a) = BlockOf(a)
        /\ \A b, p : Bdftl!Linear(b, p) = Linear(b, p)
    BY Zenon DEF Bdftl!None, None, Bdftl!Pages, Pages, Bdftl!LogicalPages, LogicalPages, Bdftl!PageOf, PageOf,
       Bdftl!BlockOf, BlockOf, Bdftl!Linear, Linear
  <1>2. \A s, v : Bdftl!Optimal(s, v) = Optimal(s, BlockOf(v)) /\ Bdftl!Pbn(s, v) = Pbn(s, BlockOf(v))
    BY <1>1, Zenon DEF Bdftl!Optimal, Optimal, Bdftl!Pbn, Pbn
  <1>3. \A s, v : Bdftl!InOrder(s, v) <=> /\ InBlock(s, BlockOf(v))
                                         /\ InOrderOf(s, BlockOf(v)) = PageOf(v)
    BY <1>1, <1>2, Zenon DEF Bdftl!InOrder, InBlock, InOrderOf
  <1>4. \A s, v : Bdftl!Converts(s, v) <=> /\ InBlock(s, BlockOf(v))
                                          /\ InOrderOf(s, BlockOf(v)) # PageOf(v)
    BY <1>1, <1>2, <1>3, Zenon DEF Bdftl!Converts, InBlock
  <1> QED BY <1>1, <1>2, <1>3, <1>4, Zenon

\* The first write at offset 0 takes a block.
Opens(s, t, found, r, v) ==
    /\ Goes(t, found, r) /\ t.map.trans_map = s.map.trans_map /\ t.map.trim_map = s.map.trim_map
    /\ t.abort # "none" => InBlock(t, BlockOf(v)) /\ InOrderOf(t, BlockOf(v)) = PageOf(v)
    /\ t = s \/ (t.abort = "none" => \A x \in AddressesOf(BdftlPlanes) :
                    BlockOf(x) = Pbn(t, BlockOf(v)) => PageAt(t, x) = "EMPTY")
    /\ s.abort = "none" /\ InBlock(t, BlockOf(v)) /\ InOrderOf(t, BlockOf(v)) # PageOf(v)
          <=> s.abort = "none" /\ InBlock(s, BlockOf(v)) /\ InOrderOf(s, BlockOf(v)) # PageOf(v)

\* The block taken is nobody's, and all of it is empty.
LEMMA OpenedWhole ==
    ASSUME NEW s \in BdftlDrives, NEW found, BdftlWhole(s, found), NEW l \in LBAs, Optimal(s, l), Pbn(s, l) = None,
           NEW g \in BdftlDrives, NEW b \in BlocksOf(BdftlPlanes), SameFlash(s, g), g.map = s.map,
           Stock(BdftlPlanes, g), g.log_active = 0, Idle(s, b),
           \A c \in BlocksOf(BdftlPlanes) : Idle(g, c) <=> Idle(s, c) /\ c # b,
           NEW t, NEW e, NEW p, p = InOrderOf(s, l), NEW yes, yes, IsBPage(e, b, p, yes), BlockSet(g, t, l, e)
    PROVE  BdftlWhole(t, found)
  <1>0. BdftlPlanes \in Nat \ {0} /\ b # None
    BY BdftlSizes, Geometry DEF BlocksOf, None
  <1>1. /\ Pbn(t, l) = b /\ InOrderOf(t, l) = InOrderOf(s, l) /\ Optimal(t, l)
        /\ \A k \in LBAs : k # l =>
                 /\ Pbn(t, k) = Pbn(s, k) /\ InOrderOf(t, k) = InOrderOf(s, k)
                 /\ Optimal(t, k) = Optimal(s, k) /\ (InBlock(t, k) <=> InBlock(s, k))
    <2>1. /\ Pbn(t, l) = b /\ InOrderOf(t, l) = p /\ (Optimal(t, l) <=> yes)
          /\ \A k \in LBAs : k # l =>
                 /\ Pbn(t, k) = Pbn(g, k) /\ InOrderOf(t, k) = InOrderOf(g, k)
                 /\ Optimal(t, k) = Optimal(g, k) /\ (InBlock(t, k) <=> InBlock(g, k))
      <3>1. BlockReads(g, t, l, b, p, yes)
        BY BlockRead, Zenon
      <3> QED BY <3>1 DEF BlockReads
    <2>2. \A k : /\ Pbn(g, k) = Pbn(s, k) /\ InOrderOf(g, k) = InOrderOf(s, k)
                 /\ Optimal(g, k) = Optimal(s, k)
      BY DEF Pbn, InOrderOf, Optimal
    <2> QED BY <2>1, <2>2 DEF InBlock
  <1>2. /\ Owners(s) /\ Contents(s) /\ \A v \in LogicalPages : v \in found => Finds(s, v)
    BY DEF BdftlWhole
  <1>3. /\ \A c : (Idle(t, c) <=> Idle(g, c)) /\ (Stock(BdftlPlanes, g) => Stock(BdftlPlanes, t))
        /\ t.log_active = 0
    BY SameStock DEF BlockSet, SameManager
  <1>4. \A c \in BlocksOf(BdftlPlanes) : Idle(t, c) <=> Idle(s, c) /\ c # b
    BY <1>3
  <1>5. /\ \A c : Spare(t, c) <=> Spare(s, c)
        /\ \A c : AtCurrent(t, c) <=> AtCurrent(s, c)
        /\ t.map.currentDataPage = s.map.currentDataPage /\ \A w : Ppn(t, w) = Ppn(s, w)
    BY DEF BlockSet, SameMap, Spare, AtCurrent, Ppn
  <1>6. (\A x : PageAt(t, x) = PageAt(s, x)) /\ t.data = s.data
    <2>1. SameFlash(g, t)
      BY DEF BlockSet
    <2> QED BY <2>1 DEF SameFlash, PageAt
  <1>7. /\ \A k \in LBAs : Pbn(s, k) # None => Pbn(s, k) \in BlocksOf(BdftlPlanes)
        /\ \A w \in LogicalPages : Ppn(s, w) # None => Ppn(s, w) \in AddressesOf(BdftlPlanes)
    BY BdftlFields DEF BlockSlots, Slots
  <1>8. \A x \in AddressesOf(BdftlPlanes) : BlockOf(x) \in BlocksOf(BdftlPlanes)
    BY <1>0, Geometry
  <1>9. Owners(t)
    <2>1. /\ \A c \in BlocksOf(BdftlPlanes) : Spare(t, c) => ~Idle(t, c) /\ ~AtCurrent(t, c)
          /\ \A c \in BlocksOf(BdftlPlanes) : AtCurrent(t, c) => ~Idle(t, c)
      BY <1>2, <1>4, <1>5 DEF Owners
    <2>2. ~Idle(t, b) /\ ~AtCurrent(t, b) /\ ~Spare(t, b)
      BY <1>2, <1>4, <1>5 DEF Owners
    <2>3. \A k \in LBAs : InBlock(s, k) => Pbn(s, k) # b
      BY <1>2 DEF Owners
    <2>4. \A k \in LBAs : InBlock(t, k) => ~Idle(t, Pbn(t, k)) /\ ~AtCurrent(t, Pbn(t, k)) /\ ~Spare(t, Pbn(t, k))
      <3>1. ASSUME NEW k \in LBAs, InBlock(t, k), k # l
            PROVE  ~Idle(t, Pbn(t, k)) /\ ~AtCurrent(t, Pbn(t, k)) /\ ~Spare(t, Pbn(t, k))
        <4>1. InBlock(s, k) /\ Pbn(t, k) = Pbn(s, k) /\ Pbn(s, k) \in BlocksOf(BdftlPlanes)
          BY <1>1, <1>7, <3>1 DEF InBlock
        <4> QED BY <1>2, <1>4, <1>5, <4>1 DEF Owners
      <3> QED BY <1>1, <2>2, <3>1
    <2>5. \A h, k \in LBAs : InBlock(t, h) /\ InBlock(t, k) /\ Pbn(t, h) = Pbn(t, k) => h = k
      BY <1>1, <1>2, <2>3 DEF Owners
    <2>6. \A k \in LBAs : Optimal(t, k) /\ Pbn(t, k) = None => InOrderOf(t, k) = 0
      BY <1>0, <1>1, <1>2 DEF Owners
    <2> QED BY <2>1, <2>4, <2>5, <2>6 DEF Owners
  <1>10. Contents(t)
    <2>1. \A x \in AddressesOf(BdftlPlanes) : Idle(t, BlockOf(x)) => PageAt(t, x) = "EMPTY"
      BY <1>2, <1>4, <1>6, <1>8 DEF Contents
    <2>2. \A x \in AddressesOf(BdftlPlanes) :
           AtCurrent(t, BlockOf(x)) /\ PageOf(x) > PageOf(t.map.currentDataPage) => PageAt(t, x) = "EMPTY"
      BY <1>2, <1>5, <1>6 DEF Contents
    <2>3. \A x \in AddressesOf(BdftlPlanes) : BlockOf(x) = b => PageAt(s, x) = "EMPTY"
      BY <1>2 DEF Contents
    <2>4. \A k \in LBAs, x \in AddressesOf(BdftlPlanes) :
           InBlock(t, k) /\ BlockOf(x) = Pbn(t, k) /\ PageOf(x) >= InOrderOf(t, k)
               => PageAt(t, x) \in {"EMPTY", "INVALID"}
      BY <1>1, <1>2, <1>6, <2>3 DEF Contents
    <2>5. ASSUME NEW w \in LogicalPages, Ppn(t, w) # None
          PROVE  /\ PageAt(t, Ppn(t, w)) = "VALID" /\ t.data[Ppn(t, w)] = w
                 /\ \A k \in LBAs : InBlock(t, k) => Pbn(t, k) # BlockOf(Ppn(t, w))
      <3>1. PICK x \in AddressesOf(BdftlPlanes) : x = Ppn(t, w) /\ x = Ppn(s, w)
        BY <1>5, <1>7, <2>5
      <3>2. /\ PageAt(s, x) = "VALID" /\ s.data[x] = w
            /\ \A k \in LBAs : InBlock(s, k) => Pbn(s, k) # BlockOf(x)
        BY <1>2, <1>5, <2>5, <3>1 DEF Contents
      <3>3. BlockOf(x) # b
        BY <2>3, <3>2
      <3> QED BY <1>1, <1>6, <3>1, <3>2, <3>3
    <2> QED BY <2>1, <2>2, <2>4, <2>5 DEF Contents
  <1>11. ASSUME NEW w \in LogicalPages, w \in found PROVE Finds(t, w)
    <2>1. BlockOf(w) \in LBAs
      BY LogicalGeometry DEF LBAs
    <2>2. Finds(s, w)
      BY <1>2, <1>11
    <2>3. BlockOf(w) # l
      BY <2>2 DEF Finds
    <2> QED BY <1>1, <1>5, <1>6, <2>1, <2>2, <2>3 DEF Finds
  <1> QED BY <1>3, <1>9, <1>10, <1>11 DEF BdftlWhole

LEMMA Opened ==
    ASSUME NEW s, NEW found, NEW r, Goes(s, found, r), NEW v \in LogicalPages, NEW t, t = Bdftl!Opened(s, v),
           s.abort = "none"
    PROVE  Opens(s, t, found, r, v)
  <1>1. PICK n \in Nat \ {0} : n = BdftlPlanes
    BY BdftlSizes
  <1>2. PICK l \in LBAs : l = BlockOf(v)
    BY LogicalGeometry DEF LBAs
  <1>3. s \in BdftlDrives /\ s.invalid_list = << >> /\ BdftlDrive(s) /\ BdftlWhole(s, found)
    BY DEF Goes
  <1>4. CASE ~(Optimal(s, l) /\ Pbn(s, l) = None /\ PageOf(v) = 0)
    <2>1. t = s
      BY <1>2, <1>4, BdftlNames, Zenon DEF Bdftl!Opened
    <2>2. Goes(t, found, r) /\ t.abort = "none"
      BY <2>1, Zenon
    <2> QED BY <2>1, <2>2 DEF Opens
  <1>5. CASE Optimal(s, l) /\ Pbn(s, l) = None /\ PageOf(v) = 0
    <2>1. PICK type : type = "DATA"
      OBVIOUS
    <2>2. PICK got : got = Chip(n, "BIMODAL", 1)!GetFreeBlock(s, type)
      OBVIOUS
    <2>3. PICK g : g = got.state
      OBVIOUS
    <2>4. PICK b : b = got.block
      OBVIOUS
    <2>5. PICK M : M = BdftlMaps(n)
      OBVIOUS
    <2>6. b \in BlocksOf(n) /\ g \in Drives(n, M) /\ Allocates(n, s, g, b, type)
      <3>1. PICK i : i = "BIMODAL"
        OBVIOUS
      <3>2. s \in Drives(n, M)
        BY <1>1, <1>3, <2>5 DEF BdftlDrives
      <3>3. got = Chip(n, i, 1)!GetFreeBlock(s, type)
        BY <2>2, <3>1
      <3>4. got.block \in BlocksOf(n) /\ got.state \in Drives(n, M) /\ Allocates(n, s, got.state, got.block, type)
        BY <1>3, <3>2, <3>3, Allocated
      <3> QED BY <2>3, <2>4, <3>4
    <2>7. g \in BdftlDrives
      BY <1>1, <2>5, <2>6 DEF BdftlDrives
    <2>8. PICK d \in BPages(BdftlPlanes) : d = g.map.block_map[l]
      BY <2>7, BdftlFields
    <2>9. PICK e : e = [d EXCEPT !.pbn = b]
      OBVIOUS
    <2>10. t = [g EXCEPT !.map.block_map[l] = e]
      <3>1. Bdftl!GetFreeBlock(s, "DATA") = got
        BY <1>1, <2>1, <2>2, BdftlChip, Zenon
      <3>2. t = [g EXCEPT !.map.block_map[l].pbn = b]
        BY <1>2, <1>5, <2>3, <2>4, <3>1, BdftlNames, Zenon DEF Bdftl!Opened
      <3> QED BY <2>8, <2>9, <3>2, Zenon
    <2>11. b \in BlockSlots(BdftlPlanes)
      BY <1>1, <2>6 DEF BlockSlots
    <2>12. PICK p : p = d.nextPage
      OBVIOUS
    <2>13. PICK yes \in BOOLEAN : yes = d.optimal
      BY <2>8 DEF BPages
    <2>14. IsBPage(e, b, p, yes) /\ e \in BPages(BdftlPlanes)
      BY <2>9, <2>11, <2>12, <2>13, PbnEntry DEF IsBPage
    <2>15. BlockSet(g, t, l, e)
      BY <2>7, <2>10, <2>14, SetBlock
    <2>16. /\ SameFlash(s, g) /\ g.map = s.map /\ g.invalid_list = s.invalid_list /\ Sticky(s, g)
           /\ g.log_active = s.log_active /\ g.data_active = s.data_active + 1
           /\ g.abort = "none" => Takes(n, s, g, b)
      BY <2>1, <2>6 DEF Allocates
    <2>17. p = InOrderOf(s, l) /\ yes
      BY <1>5, <2>8, <2>12, <2>13, <2>16 DEF InOrderOf, Optimal
    <2>18. /\ Pbn(t, l) = b /\ InOrderOf(t, l) = p /\ (Optimal(t, l) <=> yes)
           /\ \A k \in LBAs : k # l => Optimal(t, k) = Optimal(g, k)
      <3>1. BlockReads(g, t, l, b, p, yes)
        BY <2>14, <2>15, BlockRead, Zenon
      <3> QED BY <3>1 DEF BlockReads
    <2>19. Owners(s) /\ Stock(BdftlPlanes, s) /\ s.log_active = 0
      BY <1>3 DEF BdftlWhole
    <2>20. p = 0
      BY <1>5, <2>17, <2>19 DEF Owners
    <2>21. /\ t \in BdftlDrives /\ SameMap(s.map, t.map) /\ t.invalid_list = s.invalid_list
           /\ t.map.trans_map = s.map.trans_map /\ t.map.trim_map = s.map.trim_map /\ t.abort = g.abort
      BY <2>15, <2>16 DEF BlockSet, SameMap, SameManager
    <2>22. Sticky(s, t)
      BY <2>16, <2>21, StickyVia
    <2>23. ASSUME t.abort = "none" PROVE BdftlDrive(t) /\ BdftlWhole(t, found)
      <3>1. Takes(n, s, g, b)
        BY <2>16, <2>21, <2>23
      <3>2. g.log_active + g.data_active = s.log_active + s.data_active + 1
        <4>1. s.log_active \in Int /\ s.data_active \in Int
          BY <1>3 DEF BdftlDrives, Drives
        <4> QED BY <2>16, <4>1
      <3>3. /\ Stock(n, g) /\ Idle(s, b)
            /\ \A c \in BlocksOf(n) : Idle(g, c) <=> Idle(s, c) /\ c # b
        <4>1. s \in Drives(n, M) /\ Stock(n, s)
          BY <1>1, <1>3, <2>5, <2>19 DEF BdftlDrives
        <4> QED BY <2>6, <2>16, <3>1, <3>2, <4>1, Taken
      <3>4. BdftlWhole(t, found)
        BY <1>1, <1>3, <1>5, <2>6, <2>7, <2>14, <2>15, <2>16, <2>17, <2>19, <3>3, OpenedWhole
      <3>5. OneMode(t)
        <4>1. \A k \in LBAs : Optimal(t, k) <=> Optimal(s, k)
          <5>1. \A k \in LBAs : Optimal(g, k) = Optimal(s, k)
            BY <2>16 DEF Optimal
          <5> QED BY <1>5, <2>17, <2>18, <5>1
        <4>2. \A w \in LogicalPages : BlockOf(w) \in LBAs
          BY LogicalGeometry DEF LBAs
        <4>3. \A w \in LogicalPages : Ppn(t, w) = Ppn(s, w)
          BY <2>21 DEF Ppn
        <4> QED BY <1>3, <2>21, <4>1, <4>2, <4>3 DEF OneMode, BdftlDrive
      <3>6. Fits(BdftlPlanes, t) /\ Bounded(BdftlPlanes, t)
        <4>1. SameFlash(s, t)
          BY <2>15, <2>16 DEF BlockSet, SameFlash
        <4>2. Fits(BdftlPlanes, t)
          BY <1>3, <4>1, SameFits DEF SameFlash, SameBlocks, BdftlDrive
        <4>3. Stock(n, t) /\ t.log_active = 0 /\ t \in Drives(n, M)
          BY <1>1, <2>5, <2>21, <3>4 DEF BdftlWhole, BdftlDrives
        <4>4. t.data = s.data
          BY <4>1 DEF SameFlash
        <4>5. t.data_active <= PlaneSize * n /\ t.simpleCurrentFree <= PlaneSize * n /\ 0 <= PlaneSize * n
          <5>1. Len(t.free_list) \in Nat /\ t.data_active \in Int
            BY <4>3, LenProperties DEF Drives
          <5>2. PlaneSize * n \in Nat
            BY Geometry
          <5> QED BY <4>3, <5>1, <5>2 DEF Stock
        <4> QED BY <1>1, <1>3, <4>2, <4>3, <4>4, <4>5 DEF Bounded, BdftlDrive
      <3> QED BY <2>21, <3>4, <3>5, <3>6 DEF BdftlDrive, BdftlDrives
    <2>24. Goes(t, found, r)
      BY <2>21, <2>22, <2>23, GoesOn
    <2>25. InBlock(t, l) /\ InOrderOf(t, l) = PageOf(v) /\ ~InBlock(s, l)
      <3>1. b # None
        BY <2>6, Geometry DEF BlocksOf, None
      <3> QED BY <1>5, <2>17, <2>18, <2>20, <3>1 DEF InBlock
    <2>26. ASSUME t.abort = "none", NEW x \in AddressesOf(BdftlPlanes), BlockOf(x) = Pbn(t, l)
           PROVE  PageAt(t, x) = "EMPTY"
      <3>1. Idle(s, b)
        <4>1. Takes(n, s, g, b)
          BY <2>16, <2>21, <2>26
        <4>2. g.log_active + g.data_active = s.log_active + s.data_active + 1
          <5>1. s.log_active \in Int /\ s.data_active \in Int
            BY <1>3 DEF BdftlDrives, Drives
          <5> QED BY <2>16, <5>1
        <4>3. s \in Drives(n, M) /\ Stock(n, s)
          BY <1>1, <1>3, <2>5, <2>19 DEF BdftlDrives
        <4> QED BY <2>6, <2>16, <4>1, <4>2, <4>3, Taken
      <3>2. PageAt(s, x) = "EMPTY"
        BY <1>3, <2>18, <2>26, <3>1 DEF BdftlWhole, Contents
      <3>3. SameFlash(s, t)
        BY <2>15, <2>16 DEF BlockSet, SameFlash
      <3> QED BY <3>2, <3>3 DEF SameFlash, PageAt
    <2> QED BY <1>2, <2>21, <2>24, <2>25, <2>26 DEF Opens
  <1> QED BY <1>4, <1>5

\* Blocks change hands: out of block mode, and among the spare ones.
Rearranges(s, t) ==
    /\ SameFlash(s, t) /\ SameManager(s, t) /\ t.map.currentDataPage = s.map.currentDataPage
    /\ \A v \in LogicalPages : Ppn(t, v) = Ppn(s, v)
    /\ \A k \in LBAs : InBlock(t, k) => /\ InBlock(s, k) /\ Pbn(t, k) = Pbn(s, k)
                                        /\ InOrderOf(t, k) = InOrderOf(s, k)
    /\ \A k \in LBAs : Optimal(t, k) /\ Pbn(t, k) = None => InOrderOf(t, k) = 0
    /\ \A c \in BlocksOf(BdftlPlanes) : Spare(t, c) =>
          Spare(s, c) \/ \E k \in LBAs : InBlock(s, k) /\ ~InBlock(t, k) /\ c = Pbn(s, k)

LEMMA Rearranged ==
    ASSUME NEW s \in BdftlDrives, NEW found, BdftlWhole(s, found), NEW t, Rearranges(s, t), NEW after,
           \A v \in LogicalPages : v \in after => Finds(t, v)
    PROVE  BdftlWhole(t, after)
  <1>1. /\ Owners(s) /\ Contents(s) /\ Stock(BdftlPlanes, s) /\ s.log_active = 0
    BY DEF BdftlWhole
  <1>2. /\ \A c : Idle(t, c) <=> Idle(s, c)
        /\ Stock(BdftlPlanes, t) /\ t.log_active = 0
    BY <1>1, SameStock DEF Rearranges, SameManager
  <1>3. \A c : AtCurrent(t, c) <=> AtCurrent(s, c)
    BY DEF Rearranges, AtCurrent
  <1>4. (\A x : PageAt(t, x) = PageAt(s, x)) /\ t.data = s.data
    BY DEF Rearranges, SameFlash, PageAt
  <1>5. /\ \A k \in LBAs : InBlock(t, k) => /\ InBlock(s, k) /\ Pbn(t, k) = Pbn(s, k)
                                            /\ InOrderOf(t, k) = InOrderOf(s, k)
        /\ \A k \in LBAs : Optimal(t, k) /\ Pbn(t, k) = None => InOrderOf(t, k) = 0
        /\ \A c \in BlocksOf(BdftlPlanes) : Spare(t, c) =>
              Spare(s, c) \/ \E k \in LBAs : InBlock(s, k) /\ ~InBlock(t, k) /\ c = Pbn(s, k)
        /\ t.map.currentDataPage = s.map.currentDataPage
        /\ \A v \in LogicalPages : Ppn(t, v) = Ppn(s, v)
    BY DEF Rearranges
  <1>6. \A k \in LBAs : InBlock(s, k) => Pbn(s, k) \in BlocksOf(BdftlPlanes)
    BY BdftlFields DEF BlockSlots, InBlock
  <1>7. Owners(t)
    <2>1. ASSUME NEW c \in BlocksOf(BdftlPlanes), Spare(t, c) PROVE ~Idle(t, c) /\ ~AtCurrent(t, c)
      <3>1. CASE Spare(s, c)
        BY <1>1, <1>2, <1>3, <3>1 DEF Owners
      <3>2. CASE \E k \in LBAs : InBlock(s, k) /\ ~InBlock(t, k) /\ c = Pbn(s, k)
        BY <1>1, <1>2, <1>3, <3>2 DEF Owners
      <3> QED BY <1>5, <2>1, <3>1, <3>2
    <2>2. \A c \in BlocksOf(BdftlPlanes) : AtCurrent(t, c) => ~Idle(t, c)
      BY <1>1, <1>2, <1>3 DEF Owners
    <2>3. ASSUME NEW k \in LBAs, InBlock(t, k)
          PROVE  ~Idle(t, Pbn(t, k)) /\ ~AtCurrent(t, Pbn(t, k)) /\ ~Spare(t, Pbn(t, k))
      <3>1. InBlock(s, k) /\ Pbn(t, k) = Pbn(s, k) /\ Pbn(s, k) \in BlocksOf(BdftlPlanes)
        BY <1>5, <1>6, <2>3
      <3>2. ~Idle(s, Pbn(s, k)) /\ ~AtCurrent(s, Pbn(s, k)) /\ ~Spare(s, Pbn(s, k))
        BY <1>1, <3>1 DEF Owners
      <3>3. ASSUME NEW h \in LBAs, InBlock(s, h), ~InBlock(t, h), Pbn(s, k) = Pbn(s, h) PROVE FALSE
        <4>1. h = k
          BY <1>1, <3>1, <3>3 DEF Owners
        <4> QED BY <2>3, <3>3, <4>1
      <3>4. ~Spare(t, Pbn(s, k))
        BY <1>5, <3>1, <3>2, <3>3
      <3> QED BY <1>2, <1>3, <3>1, <3>2, <3>4
    <2>4. \A h, k \in LBAs : InBlock(t, h) /\ InBlock(t, k) /\ Pbn(t, h) = Pbn(t, k) => h = k
      BY <1>1, <1>5 DEF Owners
    <2> QED BY <1>5, <2>1, <2>2, <2>3, <2>4 DEF Owners
  <1>8. Contents(t)
    <2>1. \A x \in AddressesOf(BdftlPlanes) : Idle(t, BlockOf(x)) => PageAt(t, x) = "EMPTY"
      BY <1>1, <1>2, <1>4 DEF Contents
    <2>2. \A x \in AddressesOf(BdftlPlanes) :
           AtCurrent(t, BlockOf(x)) /\ PageOf(x) > PageOf(t.map.currentDataPage) => PageAt(t, x) = "EMPTY"
      BY <1>1, <1>3, <1>4, <1>5 DEF Contents
    <2>3. \A k \in LBAs, x \in AddressesOf(BdftlPlanes) :
           InBlock(t, k) /\ BlockOf(x) = Pbn(t, k) /\ PageOf(x) >= InOrderOf(t, k)
               => PageAt(t, x) \in {"EMPTY", "INVALID"}
      BY <1>1, <1>4, <1>5 DEF Contents
    <2>4. \A v \in LogicalPages : Ppn(t, v) # None =>
           /\ PageAt(t, Ppn(t, v)) = "VALID" /\ t.data[Ppn(t, v)] = v
           /\ \A l \in LBAs : InBlock(t, l) => Pbn(t, l) # BlockOf(Ppn(t, v))
      BY <1>1, <1>4, <1>5 DEF Contents
    <2> QED BY <2>1, <2>2, <2>3, <2>4 DEF Contents
  <1> QED BY <1>2, <1>7, <1>8 DEF BdftlWhole

\* A logical block turns to page mode that has nothing to convert.
Turns(s, t, found, r, l) ==
    /\ Goes(t, found, r) /\ t.map.trim_map = s.map.trim_map /\ t.abort = "none" /\ ~Optimal(t, l)

LEMMA Turned ==
    ASSUME NEW s, NEW found, NEW r, Goes(s, found, r), s.abort = "none", NEW l \in LBAs, ~InBlock(s, l),
           NEW t, t = [s EXCEPT !.map.block_map[l].optimal = FALSE]
    PROVE  Turns(s, t, found, r, l)
  <1>1. s \in BdftlDrives /\ BdftlDrive(s) /\ BdftlWhole(s, found)
    BY DEF Goes
  <1>2. PICK d \in BPages(BdftlPlanes) : d = s.map.block_map[l]
    BY <1>1, BdftlFields
  <1>3. PICK no \in BOOLEAN : no = FALSE
    BY Zenon
  <1>4. PICK e : e = [d EXCEPT !.optimal = no]
    OBVIOUS
  <1>5. t = [s EXCEPT !.map.block_map[l] = e]
    BY <1>2, <1>3, <1>4, Zenon
  <1>6. PICK b : b = d.pbn
    OBVIOUS
  <1>7. PICK p : p = d.nextPage
    OBVIOUS
  <1>8. IsBPage(e, b, p, no) /\ e \in BPages(BdftlPlanes)
    BY <1>4, <1>6, <1>7, PlainEntry DEF IsBPage
  <1>9. BlockSet(s, t, l, e)
    BY <1>1, <1>5, <1>8, SetBlock
  <1>10. BlockReads(s, t, l, b, p, no)
    BY <1>8, <1>9, BlockRead, Zenon
  <1>11. /\ t \in BdftlDrives /\ SameFlash(s, t) /\ SameManager(s, t) /\ t.abort = s.abort /\ SameMap(s.map, t.map)
         /\ t.map.currentDataPage = s.map.currentDataPage /\ t.map.trim_map = s.map.trim_map
         /\ \A w : Ppn(t, w) = Ppn(s, w)
         /\ \A x : Spare(t, x) <=> Spare(s, x)
    BY <1>9 DEF BlockSet, SameMap, Ppn, Spare
  <1>12. /\ ~Optimal(t, l)
         /\ \A k \in LBAs : k # l =>
               /\ Pbn(t, k) = Pbn(s, k) /\ InOrderOf(t, k) = InOrderOf(s, k)
               /\ Optimal(t, k) = Optimal(s, k) /\ (InBlock(t, k) <=> InBlock(s, k))
    BY <1>3, <1>10 DEF BlockReads
  <1>13. Rearranges(s, t)
    <2>1. \A k \in LBAs : InBlock(t, k) => /\ InBlock(s, k) /\ Pbn(t, k) = Pbn(s, k)
                                           /\ InOrderOf(t, k) = InOrderOf(s, k)
      BY <1>12 DEF InBlock
    <2>2. \A k \in LBAs : Optimal(t, k) /\ Pbn(t, k) = None => InOrderOf(t, k) = 0
      BY <1>1, <1>12 DEF BdftlWhole, Owners
    <2> QED BY <1>11, <2>1, <2>2 DEF Rearranges
  <1>14. ASSUME NEW w \in LogicalPages, w \in found PROVE Finds(t, w)
    <2>1. BlockOf(w) \in LBAs
      BY LogicalGeometry DEF LBAs
    <2>2. Finds(s, w)
      BY <1>1, <1>14 DEF BdftlWhole
    <2>3. (\A x : PageAt(t, x) = PageAt(s, x)) /\ t.data = s.data
      BY <1>11 DEF SameFlash, PageAt
    <2>4. CASE BlockOf(w) # l
      <3>1. Pbn(t, BlockOf(w)) = Pbn(s, BlockOf(w)) /\ Optimal(t, BlockOf(w)) = Optimal(s, BlockOf(w))
        BY <1>12, <2>1, <2>4
      <3>2. Ppn(t, w) = Ppn(s, w)
        BY <1>11
      <3> QED BY <2>2, <2>3, <3>1, <3>2 DEF Finds
    <2>5. CASE BlockOf(w) = l
      <3>1. ~Optimal(s, l)
        BY <2>2, <2>5 DEF Finds, InBlock
      <3>2. Ppn(s, w) # None
        BY <2>2, <2>5, <3>1 DEF Finds
      <3> QED BY <1>11, <1>12, <2>5, <3>2 DEF Finds
    <2> QED BY <2>4, <2>5
  <1>15. BdftlWhole(t, found)
    BY <1>1, <1>13, <1>14, Rearranged
  <1>16. OneMode(t)
    <2>1. \A w \in LogicalPages : BlockOf(w) \in LBAs
      BY LogicalGeometry DEF LBAs
    <2> QED BY <1>1, <1>11, <1>12, <2>1 DEF OneMode, BdftlDrive
  <1>17. BdftlDrive(t)
    BY <1>1, <1>11, <1>16, DriveCarried
  <1>18. t.invalid_list = s.invalid_list /\ Sticky(s, t)
    BY <1>11, StickySame DEF SameManager
  <1>19. Goes(t, found, r)
    BY <1>11, <1>15, <1>17, <1>18, GoesOn
  <1> QED BY <1>11, <1>12, <1>19 DEF Turns

\* FtlImpl_BDftl::write, the transfer to the page map.  In block mode no page has
\* an entry, so that no page gets one: its block becomes spare, or is used up.
LEMMA ConvertMoves ==
    ASSUME NEW s \in BdftlDrives, OneMode(s), NEW l \in LBAs, Optimal(s, l), NEW now,
           NEW t, t = Bdftl!Convert(s, l, now)
    PROVE  \E g : /\ g = [s EXCEPT !.map.block_map[l].optimal = FALSE]
                  /\ \/ t = g
                     \/ t = [g EXCEPT !.map.inuseBlock = Pbn(s, l)]
                     \/ t = [g EXCEPT !.map.blockQueue = Append(g.map.blockQueue, Pbn(s, l))]
  <1>1. PICK m \in BdftlMaps(BdftlPlanes) : m = s.map
    BY DEF BdftlDrives, Drives
  <1>2. PICK f \in Entries(BdftlPlanes) : f = m.trans_map
    BY DEF BdftlMaps
  <1>3. PICK moved : moved = {p \in 0 .. m.block_map[l].nextPage - 1 :
                     /\ s.block[l].page[p] = "VALID"
                     /\ f[Bdftl!Linear(l, p)].ppn # Bdftl!None}
    OBVIOUS
  <1>4. moved = {}
    <2>1. ASSUME NEW p \in 0 .. m.block_map[l].nextPage - 1 PROVE f[Bdftl!Linear(l, p)].ppn = Bdftl!None
      <3>1. p \in Pages
        <4>1. m.block_map[l].nextPage \in 0 .. BlockSize /\ BlockSize \in Nat
          BY <1>1, BdftlFields, Sizes DEF InOrderOf
        <4> QED BY <4>1 DEF Pages
      <3>2. PICK v \in LogicalPages : v = Linear(l, p) /\ BlockOf(v) = l
        BY <3>1, LogicalGeometry DEF LBAs
      <3>3. Ppn(s, v) = None
        BY <3>2 DEF OneMode
      <3>4. Bdftl!Linear(l, p) = v /\ Bdftl!None = None
        BY <3>2, BdftlNames, Zenon
      <3> QED BY <1>1, <1>2, <3>3, <3>4 DEF Ppn
    <2> QED BY <1>3, <2>1
  <1>5. PICK k : k = m.cmt + Bdftl!Cardinality(moved)
    OBVIOUS
  <1>6. k = m.cmt
    <2>1. Bdftl!Cardinality(moved) = Cardinality(moved)
      BY Zenon DEF Bdftl!Cardinality, Cardinality
    <2>2. Cardinality(moved) = 0
      BY <1>4, FS_EmptySet
    <2>3. m.cmt \in Int
      BY DEF BdftlMaps
    <2> QED BY <1>5, <2>1, <2>2, <2>3
  <1>7. PICK b : b = Pbn(s, l) /\ b = m.block_map[l].pbn
    BY <1>1 DEF Pbn
  <1>8. PICK h : h = [v \in LogicalPages |-> IF Bdftl!BlockOf(v) = l /\ Bdftl!PageOf(v) \in moved
                          THEN [f[v] EXCEPT !.ppn = Bdftl!Linear(b, Bdftl!PageOf(v)), !.create_ts = now,
                                            !.modified_ts = now, !.cached = TRUE]
                          ELSE f[v]]
    OBVIOUS
  <1>9. h = f
    <2>1. h = [v \in LogicalPages |-> f[v]]
      BY <1>4, <1>8, Zenon
    <2> QED BY <2>1 DEF Entries
  <1>10. PICK g : g = [s EXCEPT !.map.block_map[l].optimal = FALSE, !.map.cmt = k, !.map.trans_map = h]
    OBVIOUS
  <1>11. g = [s EXCEPT !.map.block_map[l].optimal = FALSE]
    <2>1. PICK B : B = [m.block_map EXCEPT ![l].optimal = FALSE]
      OBVIOUS
    <2>2. g = [s EXCEPT !.map = [m EXCEPT !.block_map = B, !.cmt = k, !.trans_map = h]]
      BY <1>1, <1>10, <2>1 DEF BdftlDrives, Drives, BdftlMaps
    <2>3. [m EXCEPT !.block_map = B, !.cmt = k, !.trans_map = h] = [m EXCEPT !.block_map = B]
      BY <1>2, <1>6, <1>9 DEF BdftlMaps
    <2>4. [s EXCEPT !.map.block_map[l].optimal = FALSE] = [s EXCEPT !.map = [m EXCEPT !.block_map = B]]
      BY <1>1, <2>1, Zenon
    <2> QED BY <2>2, <2>3, <2>4, Zenon
  <1>12. t = IF s.block[b].pages_valid = BlockSize THEN g
             ELSE IF s.map.inuseBlock = Bdftl!None THEN [g EXCEPT !.map.inuseBlock = b]
             ELSE [g EXCEPT !.map.blockQueue = Append(g.map.blockQueue, b)]
    <2> DEFINE bb == s.map.block_map[l].pbn
               mm == {p \in 0 .. s.map.block_map[l].nextPage - 1 :
                         /\ s.block[l].page[p] = "VALID"
                         /\ s.map.trans_map[Bdftl!Linear(l, p)].ppn # Bdftl!None}
               entry(v) == [s.map.trans_map[v] EXCEPT !.ppn = Bdftl!Linear(bb, Bdftl!PageOf(v)), !.create_ts = now,
                                               !.modified_ts = now, !.cached = TRUE]
               mapped == [s EXCEPT !.map.block_map[l].optimal = FALSE,
                            !.map.cmt = @ + Bdftl!Cardinality(mm),
                            !.map.trans_map = [v \in Bdftl!LogicalPages |->
                                IF Bdftl!BlockOf(v) = l /\ Bdftl!PageOf(v) \in mm THEN entry(v) ELSE @[v]]]
    <2>1. t = IF s.block[bb].pages_valid = BlockSize THEN mapped
              ELSE IF s.map.inuseBlock = Bdftl!None THEN [mapped EXCEPT !.map.inuseBlock = bb]
              ELSE [mapped EXCEPT !.map.blockQueue = Append(@, bb)]
      BY Zenon DEF Bdftl!Convert
    <2>2. mm = moved /\ bb = b
      BY <1>1, <1>2, <1>3, <1>7, Zenon
    <2>3. mapped = g
      <3>1. Bdftl!LogicalPages = LogicalPages
        BY BdftlNames, Zenon
      <3>2. [v \in Bdftl!LogicalPages |-> IF Bdftl!BlockOf(v) = l /\ Bdftl!PageOf(v) \in mm THEN entry(v) ELSE s.map.trans_map[v]] = h
        <4> HIDE DEF mm
        <4> QED BY <1>1, <1>2, <1>8, <2>2, <3>1, Zenon
      <3>3. s.map.cmt + Bdftl!Cardinality(mm) = k
        <4> HIDE DEF mm
        <4> QED BY <1>1, <1>5, <2>2, Zenon
      <3> QED BY <1>10, <3>2, <3>3, Zenon
    <2> HIDE DEF mapped, bb
    <2> QED BY <2>1, <2>2, <2>3, Zenon
  <1> QED BY <1>7, <1>11, <1>12, Zenon

Unblocks(s, t, l) ==
    /\ t \in BdftlDrives /\ SameFlash(s, t) /\ SameManager(s, t) /\ t.abort = s.abort /\ SameMap(s.map, t.map)
    /\ t.map.currentDataPage = s.map.currentDataPage /\ t.map.trim_map = s.map.trim_map
    /\ ~Optimal(t, l)
    /\ \A k \in LBAs : k # l =>
          /\ Pbn(t, k) = Pbn(s, k) /\ InOrderOf(t, k) = InOrderOf(s, k)
          /\ Optimal(t, k) = Optimal(s, k) /\ (InBlock(t, k) <=> InBlock(s, k))
    /\ \A c : Spare(t, c) => Spare(s, c) \/ c = Pbn(s, l)

LEMMA Unblocked ==
    ASSUME NEW s \in BdftlDrives, NEW l \in LBAs, NEW t, t = [s EXCEPT !.map.block_map[l].optimal = FALSE]
    PROVE  Unblocks(s, t, l)
  <1>2. PICK d \in BPages(BdftlPlanes) : d = s.map.block_map[l]
    BY BdftlFields
  <1>3. PICK no \in BOOLEAN : no = FALSE
    BY Zenon
  <1>4. PICK e : e = [d EXCEPT !.optimal = no]
    OBVIOUS
  <1>5. t = [s EXCEPT !.map.block_map[l] = e]
    BY <1>2, <1>3, <1>4, Zenon
  <1>6. PICK b : b = d.pbn
    OBVIOUS
  <1>7. PICK p : p = d.nextPage
    OBVIOUS
  <1>8. IsBPage(e, b, p, no) /\ e \in BPages(BdftlPlanes)
    BY <1>4, <1>6, <1>7, PlainEntry DEF IsBPage
  <1>9. BlockSet(s, t, l, e)
    BY <1>5, <1>8, SetBlock
  <1>10. BlockReads(s, t, l, b, p, no)
    BY <1>8, <1>9, BlockRead, Zenon
  <1>11. \A c : Spare(t, c) => Spare(s, c)
    BY <1>9 DEF BlockSet, Spare
  <1> QED BY <1>3, <1>9, <1>10, <1>11 DEF BlockSet, BlockReads, Unblocks

\* The block joins the spare ones.
LEMMA Joined ==
    ASSUME NEW s \in BdftlDrives, NEW l \in LBAs, InBlock(s, l), NEW g, Unblocks(s, g, l), NEW t,
           \/ t = g
           \/ t = [g EXCEPT !.map.inuseBlock = Pbn(s, l)]
           \/ t = [g EXCEPT !.map.blockQueue = Append(g.map.blockQueue, Pbn(s, l))]
    PROVE  Unblocks(s, t, l)
  <1>1. PICK b \in BlocksOf(BdftlPlanes) : b = Pbn(s, l)
    BY BdftlFields DEF BlockSlots, InBlock
  <1>2. g \in BdftlDrives
    BY DEF Unblocks
  <1>3. PICK q \in Seq(BlocksOf(BdftlPlanes)) : q = g.map.blockQueue
    BY <1>2, BdftlFields
  <1>4. ASSUME NEW u, NEW Q, RestSet(g, t, g.map.block_map, g.map.trim_map, u, Q),
               \A c : c = u \/ Listed(Q, c) => Spare(g, c) \/ c = b
        PROVE  Unblocks(s, t, l)
    <2>1. /\ t \in BdftlDrives /\ SameFlash(g, t) /\ SameManager(g, t) /\ t.abort = g.abort /\ SameMap(g.map, t.map)
          /\ t.map.currentDataPage = g.map.currentDataPage /\ t.map.trim_map = g.map.trim_map
          /\ t.map.block_map = g.map.block_map /\ t.map.inuseBlock = u /\ t.map.blockQueue = Q
      BY <1>4 DEF RestSet, SameMap
    <2>2. \A k : /\ Pbn(t, k) = Pbn(g, k) /\ InOrderOf(t, k) = InOrderOf(g, k)
                 /\ Optimal(t, k) = Optimal(g, k) /\ (InBlock(t, k) <=> InBlock(g, k))
      BY <2>1 DEF Pbn, InOrderOf, Optimal, InBlock
    <2>3. \A c : Spare(t, c) => Spare(s, c) \/ c = Pbn(s, l)
      BY <1>1, <1>4, <2>1 DEF Spare, Unblocks
    <2>4. SameFlash(s, t) /\ SameManager(s, t) /\ t.abort = s.abort /\ SameMap(s.map, t.map)
          /\ t.map.currentDataPage = s.map.currentDataPage /\ t.map.trim_map = s.map.trim_map
      BY <2>1 DEF Unblocks, SameFlash, SameManager, SameMap
    <2> QED BY <2>1, <2>2, <2>3, <2>4 DEF Unblocks
  <1>5. CASE t = g
    BY <1>5
  <1>6. CASE t = [g EXCEPT !.map.inuseBlock = Pbn(s, l)]
    <2>1. b \in BlockSlots(BdftlPlanes) /\ t = [g EXCEPT !.map.inuseBlock = b]
      BY <1>1, <1>6 DEF BlockSlots
    <2>2. RestSet(g, t, g.map.block_map, g.map.trim_map, b, g.map.blockQueue)
      BY <1>2, <2>1, SetSome, Zenon
    <2> QED BY <1>4, <2>2 DEF Spare
  <1>7. CASE t = [g EXCEPT !.map.blockQueue = Append(g.map.blockQueue, Pbn(s, l))]
    <2>1. PICK Q \in Seq(BlocksOf(BdftlPlanes)) : Q = Append(q, b)
      BY AppendProperties
    <2>2. t = [g EXCEPT !.map.blockQueue = Q]
      BY <1>1, <1>3, <1>7, <2>1
    <2>3. RestSet(g, t, g.map.block_map, g.map.trim_map, g.map.inuseBlock, Q)
      BY <1>2, <2>2, SetSome, Zenon
    <2>4. ASSUME NEW c, Listed(Q, c) PROVE Listed(q, c) \/ c = b
      <3>1. Len(q) \in Nat /\ Len(Q) = Len(q) + 1 /\ Q[Len(Q)] = b /\ \A j \in 1 .. Len(q) : Q[j] = q[j]
        BY <2>1, AppendProperties, LenProperties
      <3>2. \A j \in 1 .. Len(Q) : j \in 1 .. Len(q) \/ j = Len(Q)
        BY <3>1
      <3> QED BY <2>4, <3>1, <3>2 DEF Listed
    <2> QED BY <1>3, <1>4, <2>3, <2>4 DEF Spare
  <1> QED BY <1>5, <1>6, <1>7

LEMMA Converted ==
    ASSUME NEW s, NEW found, NEW r, Goes(s, found, r), s.abort = "none", NEW l \in LBAs, InBlock(s, l),
           NEW now, NEW t, t = Bdftl!Convert(s, l, now), NEW after, after = {w \in found : BlockOf(w) # l}
    PROVE  Turns(s, t, after, r, l)
  <1>1. s \in BdftlDrives /\ BdftlDrive(s) /\ BdftlWhole(s, found) /\ OneMode(s) /\ Optimal(s, l)
    BY DEF Goes, BdftlDrive, InBlock
  <1>2. PICK g : /\ g = [s EXCEPT !.map.block_map[l].optimal = FALSE]
                 /\ \/ t = g
                    \/ t = [g EXCEPT !.map.inuseBlock = Pbn(s, l)]
                    \/ t = [g EXCEPT !.map.blockQueue = Append(g.map.blockQueue, Pbn(s, l))]
    BY <1>1, ConvertMoves
  <1>3. Unblocks(s, g, l)
    BY <1>1, <1>2, Unblocked
  <1>4. Unblocks(s, t, l)
    BY <1>1, <1>2, <1>3, Joined
  <1>5. /\ t \in BdftlDrives /\ SameFlash(s, t) /\ SameManager(s, t) /\ t.abort = s.abort /\ SameMap(s.map, t.map)
        /\ t.map.currentDataPage = s.map.currentDataPage /\ t.map.trim_map = s.map.trim_map
        /\ ~Optimal(t, l) /\ \A x : Spare(t, x) => Spare(s, x) \/ x = Pbn(s, l)
    BY <1>4 DEF Unblocks
  <1>6. \A k \in LBAs : k # l =>
          /\ Pbn(t, k) = Pbn(s, k) /\ InOrderOf(t, k) = InOrderOf(s, k)
          /\ Optimal(t, k) = Optimal(s, k) /\ (InBlock(t, k) <=> InBlock(s, k))
    BY <1>4 DEF Unblocks
  <1>7. \A w : Ppn(t, w) = Ppn(s, w)
    BY <1>5 DEF Ppn, SameMap
  <1>8. ~InBlock(t, l)
    BY <1>5 DEF InBlock
  <1>9. Rearranges(s, t)
    <2>1. \A k \in LBAs : InBlock(t, k) => /\ InBlock(s, k) /\ Pbn(t, k) = Pbn(s, k)
                                           /\ InOrderOf(t, k) = InOrderOf(s, k)
      BY <1>6, <1>8
    <2>2. \A k \in LBAs : Optimal(t, k) /\ Pbn(t, k) = None => InOrderOf(t, k) = 0
      BY <1>1, <1>5, <1>6 DEF BdftlWhole, Owners
    <2>3. \A x \in BlocksOf(BdftlPlanes) : Spare(t, x) =>
             Spare(s, x) \/ \E k \in LBAs : InBlock(s, k) /\ ~InBlock(t, k) /\ x = Pbn(s, k)
      BY <1>5, <1>8
    <2> QED BY <1>5, <1>7, <2>1, <2>2, <2>3 DEF Rearranges
  <1>10. ASSUME NEW w \in LogicalPages, w \in after PROVE Finds(t, w)
    <2>1. BlockOf(w) \in LBAs /\ BlockOf(w) # l /\ w \in found
      BY <1>10, LogicalGeometry DEF LBAs
    <2>2. Finds(s, w)
      BY <1>1, <2>1 DEF BdftlWhole
    <2>3. (\A x : PageAt(t, x) = PageAt(s, x)) /\ t.data = s.data
      BY <1>5 DEF SameFlash, PageAt
    <2>4. Pbn(t, BlockOf(w)) = Pbn(s, BlockOf(w)) /\ Optimal(t, BlockOf(w)) = Optimal(s, BlockOf(w))
      BY <1>6, <2>1
    <2> QED BY <1>7, <2>2, <2>3, <2>4 DEF Finds
  <1>11. BdftlWhole(t, after)
    BY <1>1, <1>9, <1>10, Rearranged
  <1>12. OneMode(t)
    <2>1. \A w \in LogicalPages : BlockOf(w) \in LBAs
      BY LogicalGeometry DEF LBAs
    <2> QED BY <1>1, <1>5, <1>6, <1>7, <2>1 DEF OneMode
  <1>13. BdftlDrive(t)
    BY <1>1, <1>5, <1>12, DriveCarried
  <1>14. t.invalid_list = s.invalid_list /\ Sticky(s, t)
    BY <1>5, StickySame DEF SameManager
  <1>15. Goes(t, after, r)
    BY <1>5, <1>11, <1>13, <1>14, GoesOn
  <1> QED BY <1>5, <1>15 DEF Turns

\* Block::get_next_page
LEMMA NextPageEmpty ==
    ASSUME NEW s \in BdftlDrives, NEW b \in BlocksOf(BdftlPlanes), NEW x, x = Bdftl!NextPage(s, b)
    PROVE  x = None \/ (x \in AddressesOf(BdftlPlanes) /\ BlockOf(x) = b /\ PageAt(s, x) = "EMPTY")
  <1>1. PICK S : S = {p \in Pages : s.block[b].page[p] = "EMPTY"}
    OBVIOUS
  <1>2. CASE S = {}
    <2>1. x = None
      BY <1>1, <1>2, BdftlNames, Zenon DEF Bdftl!NextPage
    <2> QED BY <2>1
  <1>3. CASE S # {}
    <2>1. S \subseteq Nat
      BY <1>1, Sizes DEF Pages
    <2>2. PICK p : p = CHOOSE y \in S : \A z \in S : y <= z
      OBVIOUS
    <2>3. p \in S
      BY <1>3, <2>1, <2>2, NatMin
    <2>4. x = Linear(b, p)
      <3>1. Bdftl!Min(S) = p
        BY <2>2, Zenon DEF Bdftl!Min
      <3> QED BY <1>1, <1>3, <3>1, BdftlNames, Zenon DEF Bdftl!NextPage
    <2>5. p \in Pages /\ s.block[b].page[p] = "EMPTY"
      BY <1>1, <2>3
    <2>6. x \in AddressesOf(BdftlPlanes) /\ BlockOf(x) = b /\ PageOf(x) = p
      BY <2>4, <2>5, BdftlSizes, Geometry
    <2> QED BY <2>5, <2>6 DEF PageAt
  <1> QED BY <1>2, <1>3

\* A page that a page-mapped write may use.
Writable(s, a) ==
    /\ a \in AddressesOf(BdftlPlanes) /\ PageAt(s, a) = "EMPTY" /\ ~Idle(s, BlockOf(a))
    /\ \A l \in LBAs : InBlock(s, l) => Pbn(s, l) # BlockOf(a)
    /\ AtCurrent(s, BlockOf(a)) => ~(PageOf(a) > PageOf(s.map.currentDataPage))

LEMMA SpareWritable ==
    ASSUME NEW s \in BdftlDrives, NEW b \in BlocksOf(BdftlPlanes), Owners(s), Spare(s, b),
           NEW x, x = Bdftl!NextPage(s, b), x # None
    PROVE  Writable(s, x)
  <1>1. x \in AddressesOf(BdftlPlanes) /\ BlockOf(x) = b /\ PageAt(s, x) = "EMPTY"
    BY NextPageEmpty
  <1>2. ~Idle(s, b) /\ ~AtCurrent(s, b)
    BY DEF Owners
  <1>3. \A l \in LBAs : InBlock(s, l) => Pbn(s, l) # b
    BY DEF Owners
  <1> QED BY <1>1, <1>2, <1>3 DEF Writable

\* get_free_biftl_page: what it finds.
FindsPage(s, t, a, found, r) ==
    /\ Goes(t, found, r) /\ Sticky(s, t)
    /\ t.map.block_map = s.map.block_map /\ t.map.trim_map = s.map.trim_map
    /\ t.abort = "none" => Writable(t, a)

\* The spare blocks change only.
LEMMA SpareSet ==
    ASSUME NEW s, NEW found, NEW r, Goes(s, found, r), s.abort = "none",
           NEW u \in BlockSlots(BdftlPlanes), NEW q \in Seq(BlocksOf(BdftlPlanes)),
           NEW t, RestSet(s, t, s.map.block_map, s.map.trim_map, u, q),
           \A b \in BlocksOf(BdftlPlanes) : b = u \/ Listed(q, b) => Spare(s, b)
    PROVE  Goes(t, found, r) /\ SameFlash(s, t) /\ t.abort = "none" /\ Owners(t)
  <1>1. s \in BdftlDrives /\ BdftlDrive(s) /\ BdftlWhole(s, found)
    BY DEF Goes
  <1>2. /\ t \in BdftlDrives /\ SameFlash(s, t) /\ SameManager(s, t) /\ t.abort = s.abort
        /\ SameMap(s.map, t.map) /\ t.map.currentDataPage = s.map.currentDataPage
        /\ t.map.block_map = s.map.block_map /\ t.map.trim_map = s.map.trim_map
        /\ t.map.inuseBlock = u /\ t.map.blockQueue = q
    BY DEF RestSet, SameMap
  <1>3. /\ \A w : Ppn(t, w) = Ppn(s, w)
        /\ \A l : /\ Pbn(t, l) = Pbn(s, l) /\ InOrderOf(t, l) = InOrderOf(s, l)
                  /\ Optimal(t, l) = Optimal(s, l) /\ (InBlock(t, l) <=> InBlock(s, l))
    BY <1>2 DEF SameMap, Ppn, Pbn, InOrderOf, Optimal, InBlock
  <1>4. \A b \in BlocksOf(BdftlPlanes) : Spare(t, b) => Spare(s, b)
    BY <1>2 DEF Spare
  <1>5. Rearranges(s, t)
    BY <1>1, <1>2, <1>3, <1>4 DEF Rearranges, BdftlWhole, Owners
  <1>6. ASSUME NEW w \in LogicalPages, w \in found PROVE Finds(t, w)
    <2>1. Finds(s, w)
      BY <1>1, <1>6 DEF BdftlWhole
    <2>2. (\A x : PageAt(t, x) = PageAt(s, x)) /\ t.data = s.data
      BY <1>2 DEF SameFlash, PageAt
    <2> QED BY <1>3, <2>1, <2>2 DEF Finds
  <1>7. BdftlWhole(t, found)
    BY <1>1, <1>5, <1>6, Rearranged
  <1>8. OneMode(t)
    BY <1>1, <1>2, <1>3 DEF OneMode, BdftlDrive
  <1>9. BdftlDrive(t)
    BY <1>1, <1>2, <1>8, DriveCarried
  <1>10. t.invalid_list = s.invalid_list /\ Sticky(s, t)
    BY <1>2, StickySame DEF SameManager
  <1>11. Goes(t, found, r)
    BY <1>2, <1>7, <1>9, <1>10, GoesOn
  <1> QED BY <1>2, <1>7, <1>11 DEF BdftlWhole

LEMMA StockBounds ==
    ASSUME NEW s \in BdftlDrives, Stock(BdftlPlanes, s), s.log_active = 0,
           \A x \in AddressesOf(BdftlPlanes) : s.data[x] \in LogicalPages \cup {None}
    PROVE  Bounded(BdftlPlanes, s)
  <1>1. PICK n \in Nat \ {0} : n = BdftlPlanes
    BY BdftlSizes
  <1>2. Len(s.free_list) \in Nat /\ s.data_active \in Int
    BY LenProperties DEF BdftlDrives, Drives
  <1>3. PlaneSize * n \in Nat
    BY Geometry
  <1>4. s.data_active <= PlaneSize * n /\ s.simpleCurrentFree <= PlaneSize * n /\ 0 <= PlaneSize * n
    BY <1>1, <1>2, <1>3 DEF Stock
  <1> QED BY <1>1, <1>4 DEF Bounded

\* The current page moves on, to the next page or to a block that was nobody's.
MovesOn(s, t, b) ==
    /\ Stock(BdftlPlanes, t) /\ ~Idle(t, b) /\ ~Spare(s, b)
    /\ \A c \in BlocksOf(BdftlPlanes) : Idle(t, c) => Idle(s, c)
    /\ \A l \in LBAs : InBlock(s, l) => Pbn(s, l) # b
    /\ \A x \in AddressesOf(BdftlPlanes) : BlockOf(x) = b /\ PageOf(x) >= PageOf(t.map.currentDataPage) => PageAt(s, x) = "EMPTY"

LEMMA MovedOn ==
    ASSUME NEW s \in BdftlDrives, NEW found, BdftlWhole(s, found), NEW t, t.abort = "none",
           NEW b, b = BlockOf(t.map.currentDataPage),
           NextData(BdftlPlanes, BdftlMaps(BdftlPlanes), s, t)
    PROVE  MovesOn(s, t, b)
  <1>1. PICK n \in Nat \ {0} : n = BdftlPlanes
    BY BdftlSizes
  <1>2. PICK M : M = BdftlMaps(n)
    OBVIOUS
  <1>3. PICK a \in AddressesOf(n) : a = t.map.currentDataPage
    BY <1>1 DEF NextData
  <1>4. b \in BlocksOf(n) /\ PageOf(a) \in Pages /\ b = BlockOf(a)
    BY <1>3, Geometry
  <1>5. PICK cur \in Slots(n) : cur = s.map.currentDataPage
    BY <1>1, BdftlFields
  <1>6. Owners(s) /\ Contents(s) /\ Stock(n, s) /\ s.log_active = 0 /\ s \in Drives(n, M)
    BY <1>1, <1>2 DEF BdftlWhole, BdftlDrives
  <1>7. /\ t \in Drives(n, M) /\ t.invalid_list = s.invalid_list /\ t.log_active = s.log_active
        /\ Full(cur) => PageOf(a) = 0 /\ t.data_active = s.data_active + 1 /\ Takes(n, s, t, b)
        /\ ~Full(cur) => a = cur + 1 /\ SameManager(s, t)
    BY <1>1, <1>2, <1>3, <1>4, <1>5 DEF NextData
  <1>8. CASE Full(cur)
    <2>1. t.log_active + t.data_active = s.log_active + s.data_active + 1
      <3>1. s.log_active \in Int /\ s.data_active \in Int
        BY <1>6 DEF Drives
      <3> QED BY <1>7, <1>8, <3>1
    <2>2. /\ Stock(n, t) /\ Idle(s, b)
          /\ \A c \in BlocksOf(n) : Idle(t, c) <=> Idle(s, c) /\ c # b
      BY <1>4, <1>6, <1>7, <1>8, <2>1, Taken
    <2>3. ~Spare(s, b) /\ \A l \in LBAs : InBlock(s, l) => Pbn(s, l) # b
      BY <1>1, <1>4, <1>6, <2>2 DEF Owners
    <2>4. \A x \in AddressesOf(n) : BlockOf(x) = b => PageAt(s, x) = "EMPTY"
      BY <1>1, <1>6, <2>2 DEF Contents
    <2> QED BY <1>1, <1>4, <2>2, <2>3, <2>4 DEF MovesOn
  <1>9. CASE ~Full(cur)
    <2>1. cur # None /\ cur \in AddressesOf(n) /\ PageOf(cur) # BlockSize - 1
      BY <1>9 DEF Full, Slots
    <2>2. a = cur + 1 /\ SameManager(s, t)
      BY <1>7, <1>9
    <2>3. b = BlockOf(cur) /\ PageOf(a) = PageOf(cur) + 1
      BY <1>4, <2>1, <2>2, NextAddress
    <2>4. Stock(n, t) /\ \A c : Idle(t, c) <=> Idle(s, c)
      BY <1>6, <2>2, SameStock
    <2>5. AtCurrent(s, b)
      BY <1>5, <2>1, <2>3 DEF AtCurrent
    <2>6. ~Idle(s, b) /\ ~Spare(s, b) /\ \A l \in LBAs : InBlock(s, l) => Pbn(s, l) # b
      BY <1>1, <1>4, <1>6, <2>5 DEF Owners
    <2>7. ASSUME NEW x \in AddressesOf(n), BlockOf(x) = b, PageOf(x) >= PageOf(a) PROVE PageAt(s, x) = "EMPTY"
      <3>1. PageOf(x) \in Nat /\ PageOf(cur) \in Nat
        BY <2>1, Geometry DEF Pages
      <3>2. PageOf(x) > PageOf(s.map.currentDataPage)
        BY <1>5, <2>3, <2>7, <3>1
      <3>3. AtCurrent(s, BlockOf(x))
        BY <2>5, <2>7
      <3> QED BY <1>1, <1>6, <3>2, <3>3 DEF Contents
    <2> QED BY <1>1, <1>3, <2>4, <2>6, <2>7 DEF MovesOn
  <1> QED BY <1>8, <1>9

LEMMA MovedOnWhole ==
    ASSUME NEW s \in BdftlDrives, NEW found, BdftlWhole(s, found), NEW t, NEW a \in AddressesOf(BdftlPlanes),
           a = t.map.currentDataPage, MovesOn(s, t, BlockOf(a)), SameFlash(s, t), t.map.trans_map = s.map.trans_map,
           SameRest(t.map, s.map), t.log_active = s.log_active
    PROVE  BdftlWhole(t, found) /\ Writable(t, a)
  <1>1. PICK n \in Nat \ {0} : n = BdftlPlanes
    BY BdftlSizes
  <1>2. PICK b \in BlocksOf(n) : b = BlockOf(a) /\ PageOf(a) \in Nat
    BY <1>1, Geometry DEF Pages
  <1>3. /\ Stock(n, t) /\ ~Idle(t, b) /\ ~Spare(s, b)
        /\ \A c \in BlocksOf(n) : Idle(t, c) => Idle(s, c)
        /\ \A l \in LBAs : InBlock(s, l) => Pbn(s, l) # b
        /\ \A x \in AddressesOf(n) : BlockOf(x) = b /\ PageOf(x) >= PageOf(a) => PageAt(s, x) = "EMPTY"
    BY <1>1, <1>2 DEF MovesOn
  <1>4. /\ \A w : Ppn(t, w) = Ppn(s, w)
        /\ \A l : /\ Pbn(t, l) = Pbn(s, l) /\ InOrderOf(t, l) = InOrderOf(s, l)
                  /\ Optimal(t, l) = Optimal(s, l) /\ (InBlock(t, l) <=> InBlock(s, l))
        /\ \A c : Spare(t, c) <=> Spare(s, c)
    BY DEF SameRest, Ppn, Pbn, InOrderOf, Optimal, InBlock, Spare
  <1>5. \A c : AtCurrent(t, c) <=> c = b
    <2>1. a # None
      BY <1>1, Geometry DEF AddressesOf, None
    <2> QED BY <1>2, <2>1 DEF AtCurrent
  <1>6. (\A x : PageAt(t, x) = PageAt(s, x)) /\ t.data = s.data
    BY DEF SameFlash, PageAt
  <1>7. Owners(s) /\ Contents(s) /\ s.log_active = 0 /\ \A w \in LogicalPages : w \in found => Finds(s, w)
    BY DEF BdftlWhole
  <1>8. /\ \A x \in AddressesOf(n) : BlockOf(x) \in BlocksOf(n) /\ PageOf(x) \in Nat
        /\ \A l \in LBAs : InBlock(s, l) => Pbn(s, l) \in BlocksOf(n)
    BY <1>1, Geometry, BdftlFields DEF BlockSlots, InBlock, Pages
  <1>9. Owners(t)
    <2>1. \A c \in BlocksOf(n) : Spare(t, c) => ~Idle(t, c) /\ ~AtCurrent(t, c)
      BY <1>1, <1>3, <1>4, <1>5, <1>7 DEF Owners
    <2>2. \A l \in LBAs : InBlock(t, l) => ~Idle(t, Pbn(t, l)) /\ ~AtCurrent(t, Pbn(t, l)) /\ ~Spare(t, Pbn(t, l))
      BY <1>3, <1>4, <1>5, <1>7, <1>8 DEF Owners
    <2>3. /\ \A l, k \in LBAs : InBlock(t, l) /\ InBlock(t, k) /\ Pbn(t, l) = Pbn(t, k) => l = k
          /\ \A l \in LBAs : Optimal(t, l) /\ Pbn(t, l) = None => InOrderOf(t, l) = 0
      BY <1>4, <1>7 DEF Owners
    <2> QED BY <1>1, <1>3, <1>5, <2>1, <2>2, <2>3 DEF Owners
  <1>10. Contents(t)
    <2>1. \A x \in AddressesOf(n) : Idle(t, BlockOf(x)) => PageAt(t, x) = "EMPTY"
      BY <1>1, <1>3, <1>6, <1>7, <1>8 DEF Contents
    <2>2. \A x \in AddressesOf(n) : BlockOf(x) = b /\ PageOf(x) > PageOf(a) => PageAt(t, x) = "EMPTY"
      <3>1. \A x \in AddressesOf(n) : PageOf(x) > PageOf(a) => PageOf(x) >= PageOf(a)
        BY <1>2, <1>8
      <3> QED BY <1>3, <1>6, <3>1
    <2>3. \A l \in LBAs, x \in AddressesOf(n) :
           InBlock(t, l) /\ BlockOf(x) = Pbn(t, l) /\ PageOf(x) >= InOrderOf(t, l)
               => PageAt(t, x) \in {"EMPTY", "INVALID"}
      BY <1>1, <1>4, <1>6, <1>7 DEF Contents
    <2>4. \A w \in LogicalPages : Ppn(t, w) # None =>
           /\ PageAt(t, Ppn(t, w)) = "VALID" /\ t.data[Ppn(t, w)] = w
           /\ \A l \in LBAs : InBlock(t, l) => Pbn(t, l) # BlockOf(Ppn(t, w))
      BY <1>4, <1>6, <1>7 DEF Contents
    <2> QED BY <1>1, <1>5, <2>1, <2>2, <2>3, <2>4 DEF Contents
  <1>11. \A w \in LogicalPages : Finds(s, w) => Finds(t, w)
    BY <1>4, <1>6 DEF Finds
  <1>12. BdftlWhole(t, found)
    BY <1>1, <1>3, <1>7, <1>9, <1>10, <1>11 DEF BdftlWhole
  <1>13. PageAt(t, a) = "EMPTY"
    BY <1>1, <1>2, <1>3, <1>6
  <1>14. Writable(t, a)
    BY <1>1, <1>2, <1>3, <1>4, <1>13 DEF Writable
  <1> QED BY <1>12, <1>14

\* What the next data page leaves as it was.
PageGiven(n, M, g, t) ==
    /\ t \in Drives(n, M) /\ SameFlash(g, t) /\ Sticky(g, t) /\ t.invalid_list = g.invalid_list
    /\ t.log_active = g.log_active /\ SameMap(g.map, t.map)
    /\ SameRest(t.map, g.map) /\ t.map.currentDataPage \in AddressesOf(n)

LEMMA NextDataKept ==
    ASSUME NEW n, NEW M, M = BdftlMaps(n), NEW g, NEW t, NextData(n, M, g, t)
    PROVE  PageGiven(n, M, g, t)
  <1>1. /\ t \in Drives(n, M) /\ SameFlash(g, t) /\ Sticky(g, t) /\ t.invalid_list = g.invalid_list
        /\ t.log_active = g.log_active /\ t.map.currentDataPage \in AddressesOf(n)
    BY Zenon DEF NextData
  <1>2. /\ t.map.trans_map = g.map.trans_map /\ t.map.cmt = g.map.cmt /\ t.map.gtd = g.map.gtd
        /\ t.map.overlooked = g.map.overlooked /\ t.map.requests = g.map.requests
    BY Zenon DEF NextData
  <1>3. SameRest(t.map, g.map)
    BY Zenon DEF NextData
  <1> QED BY <1>1, <1>2, <1>3, Zenon DEF PageGiven, SameMap

LEMMA DataGoes ==
    ASSUME NEW g, NEW found, NEW r, Goes(g, found, r), g.abort = "none", NEW n, n = BdftlPlanes,
           NEW M, M = BdftlMaps(n), NEW t, NextData(n, M, g, t)
    PROVE  /\ Goes(t, found, r) /\ (t.abort = "none" => Writable(t, t.map.currentDataPage))
           /\ PageGiven(n, M, g, t)
  <1>1. PageGiven(n, M, g, t)
    BY NextDataKept
  <1>2. /\ t \in Drives(n, M) /\ SameFlash(g, t) /\ Sticky(g, t) /\ t.invalid_list = g.invalid_list
        /\ t.log_active = g.log_active /\ SameMap(g.map, t.map)
        /\ SameRest(t.map, g.map) /\ t.map.currentDataPage \in AddressesOf(n)
    BY <1>1, Zenon DEF PageGiven
  <1>3. t \in BdftlDrives
    BY <1>2, Zenon DEF BdftlDrives
  <1>4. BdftlDrive(g) /\ BdftlWhole(g, found) /\ g \in BdftlDrives
    BY Zenon DEF Goes
  <1>5. ASSUME t.abort = "none" PROVE BdftlDrive(t) /\ BdftlWhole(t, found) /\ Writable(t, t.map.currentDataPage)
    <2>1. t.map.trans_map = g.map.trans_map
      BY <1>2, Zenon DEF SameMap
    <2>2. MovesOn(g, t, BlockOf(t.map.currentDataPage))
      BY <1>4, <1>5, MovedOn
    <2>3. BdftlWhole(t, found) /\ Writable(t, t.map.currentDataPage)
      BY <1>2, <1>4, <2>1, <2>2, MovedOnWhole
    <2>4. OneMode(t)
      BY <1>2, <1>4, <2>1 DEF SameRest, OneMode, BdftlDrive, Ppn, Optimal
    <2>5. Fits(BdftlPlanes, t)
      BY <1>2, <1>4, SameFits DEF SameFlash, SameBlocks, BdftlDrive
    <2>6. Bounded(BdftlPlanes, t)
      <3>1. t.data = g.data
        BY <1>2 DEF SameFlash
      <3>2. \A x \in AddressesOf(BdftlPlanes) : t.data[x] \in LogicalPages \cup {None}
        BY <1>4, <3>1 DEF BdftlDrive, Bounded
      <3> QED BY <1>3, <2>3, <3>2, StockBounds DEF BdftlWhole
    <2> QED BY <1>3, <2>3, <2>4, <2>5, <2>6 DEF BdftlDrive, BdftlDrives
  <1>6. Goes(t, found, r)
    BY <1>2, <1>3, <1>5, GoesOn
  <1> QED BY <1>1, <1>5, <1>6, Zenon

\* Out of spare blocks: the page comes from the current block or a new one.
LEMMA DataPage ==
    ASSUME NEW s, NEW found, NEW r, Goes(s, found, r), s.abort = "none",
           NEW g, g = [s EXCEPT !.map.inuseBlock = None], NEW t, t = Bdftl!GetFreeDataPage(g)
    PROVE  FindsPage(s, t, t.map.currentDataPage, found, r)
  <1>1. PICK n \in Nat \ {0} : n = BdftlPlanes
    BY BdftlSizes
  <1>2. PICK M : M = BdftlMaps(n)
    OBVIOUS
  <1>3. s \in BdftlDrives
    BY DEF Goes
  <1>4. PICK u \in BlockSlots(BdftlPlanes) : u = None
    BY DEF BlockSlots
  <1>5. PICK q \in Seq(BlocksOf(BdftlPlanes)) : q = s.map.blockQueue
    BY <1>3, BdftlFields
  <1>6. RestSet(s, g, s.map.block_map, s.map.trim_map, u, q)
    <2>1. g = [s EXCEPT !.map.inuseBlock = u]
      BY <1>4
    <2> QED BY <1>3, <1>5, <2>1, SetSome, Zenon
  <1>7. \A b \in BlocksOf(BdftlPlanes) : b = u \/ Listed(q, b) => Spare(s, b)
    <2>1. \A b \in BlocksOf(BdftlPlanes) : b # None
      BY BdftlSizes, Geometry DEF BlocksOf, None
    <2> QED BY <1>4, <1>5, <2>1 DEF Spare
  <1>8. Goes(g, found, r) /\ SameFlash(s, g) /\ g.abort = "none"
    BY <1>5, <1>6, <1>7, SpareSet
  <1>9. g \in Drives(n, M) /\ g.invalid_list = << >> /\ g \in BdftlDrives
    BY <1>1, <1>2, <1>8 DEF Goes, BdftlDrives
  <1>10. NextData(n, M, g, t)
    <2>1. PICK i : i = "BIMODAL"
      OBVIOUS
    <2>2. t = Cmt(n, i, BdftlRequests, BdftlEntries)!GetFreeDataPage(g)
      BY <1>1, <2>1, BdftlCmt, Zenon
    <2> QED BY <1>2, <1>9, <2>2, NextDataPage, Zenon
  <1>11. Goes(t, found, r) /\ (t.abort = "none" => Writable(t, t.map.currentDataPage)) /\ PageGiven(n, M, g, t)
    BY <1>1, <1>2, <1>8, <1>10, DataGoes, Zenon
  <1>12. /\ t \in Drives(n, M) /\ SameFlash(g, t) /\ Sticky(g, t) /\ t.invalid_list = g.invalid_list
         /\ t.log_active = g.log_active /\ SameMap(g.map, t.map)
         /\ SameRest(t.map, g.map) /\ t.map.currentDataPage \in AddressesOf(n)
    BY <1>11, Zenon DEF PageGiven
  <1>13. t.map.block_map = s.map.block_map /\ t.map.trim_map = s.map.trim_map
    BY <1>6, <1>12 DEF RestSet, SameRest
  <1>14. Sticky(s, t)
    BY <1>8, <1>12 DEF Sticky
  <1>15. t.map.currentDataPage \in Slots(BdftlPlanes)
    BY <1>1, <1>12 DEF Slots
  <1> QED BY <1>11, <1>13, <1>14, <1>15, Zenon DEF FindsPage

\* A spare block is put to use, and the queue is another one.
LEMMA QueueSet ==
    ASSUME NEW s \in BdftlDrives, NEW b \in BlockSlots(BdftlPlanes), NEW p \in Seq(BlocksOf(BdftlPlanes)),
           NEW t, t = [s EXCEPT !.map.inuseBlock = b, !.map.blockQueue = p]
    PROVE  RestSet(s, t, s.map.block_map, s.map.trim_map, b, p)
  <1>1. PICK g : g = [s EXCEPT !.map.inuseBlock = b]
    OBVIOUS
  <1>2. RestSet(s, g, s.map.block_map, s.map.trim_map, b, s.map.blockQueue)
    BY <1>1, SetSome, Zenon
  <1>3. g \in BdftlDrives
    BY <1>2 DEF RestSet
  <1>4. t = [g EXCEPT !.map.blockQueue = p]
    <2>1. PICK m \in BdftlMaps(BdftlPlanes) : m = s.map
      BY DEF BdftlDrives, Drives
    <2> QED BY <1>1, <2>1 DEF BdftlDrives, Drives, BdftlMaps
  <1>5. RestSet(g, t, g.map.block_map, g.map.trim_map, g.map.inuseBlock, p)
    BY <1>3, <1>4, SetSome, Zenon
  <1> QED BY <1>2, <1>5 DEF RestSet, SameFlash, SameManager

\* The next block of the queue is put to use.
LEMMA QueuedPage ==
    ASSUME NEW s, NEW found, NEW r, Goes(s, found, r), s.abort = "none", s.map.blockQueue # << >>,
           NEW b, b = Head(s.map.blockQueue), NEW x, x = Bdftl!NextPage(s, b),
           NEW a, a = IF x = None THEN 0 ELSE x,
           NEW t, t = [Bdftl!Assert(s, x # None, "no empty page")
                       EXCEPT !.map.inuseBlock = b, !.map.blockQueue = Tail(@)]
    PROVE  FindsPage(s, t, a, found, r)
  <1>1. s \in BdftlDrives /\ BdftlDrive(s) /\ BdftlWhole(s, found)
    BY DEF Goes
  <1>2. PICK q \in Seq(BlocksOf(BdftlPlanes)) : q = s.map.blockQueue
    BY <1>1, BdftlFields
  <1>3. PICK k \in Nat \ {0} : k = Len(q)
    BY <1>2, EmptySeq, LenProperties
  <1>4. b \in BlocksOf(BdftlPlanes) /\ b = q[1]
    BY <1>2, HeadTailProperties
  <1>5. PICK p : p = Tail(q)
    OBVIOUS
  <1>12. p \in Seq(BlocksOf(BdftlPlanes)) /\ Len(p) = k - 1
    BY <1>2, <1>3, <1>5, HeadTailProperties
  <1>13. \A j \in 1 .. Len(p) : p[j] = q[j + 1]
    BY <1>2, <1>5, HeadTailProperties
  <1>6. \A y : y = b \/ Listed(p, y) => Listed(q, y)
    <2>1. 1 \in 1 .. Len(q) /\ \A j \in 1 .. k - 1 : j + 1 \in 1 .. Len(q)
      BY <1>3
    <2> QED BY <1>4, <1>12, <1>13, <2>1 DEF Listed
  <1>7. Spare(s, b)
    BY <1>2, <1>6 DEF Spare
  <1>9. b \in BlockSlots(BdftlPlanes)
    BY <1>4, Zenon DEF BlockSlots
  <1>10. CASE x # None
    <2>1. t = [s EXCEPT !.map.inuseBlock = b, !.map.blockQueue = p]
      <3>1. Bdftl!Assert(s, x # None, "no empty page") = s
        BY <1>10, Zenon DEF Bdftl!Assert
      <3> QED BY <1>2, <1>5, <3>1, Zenon
    <2>2. RestSet(s, t, s.map.block_map, s.map.trim_map, b, p)
      BY <1>1, <1>9, <1>12, <2>1, QueueSet
    <2>3. Goes(t, found, r) /\ SameFlash(s, t) /\ t.abort = "none" /\ Owners(t)
      <3>1. \A y \in BlocksOf(BdftlPlanes) : y = b \/ Listed(p, y) => Spare(s, y)
        BY <1>2, <1>6 DEF Spare
      <3>2. PICK z, y, w : z = p /\ y = b /\ w = t
        OBVIOUS
      <3>1a. z \in Seq(BlocksOf(BdftlPlanes)) /\ y \in BlockSlots(BdftlPlanes)
        BY <1>9, <1>12, <3>2
      <3>3. /\ RestSet(s, w, s.map.block_map, s.map.trim_map, y, z)
            /\ \A d \in BlocksOf(BdftlPlanes) : d = y \/ Listed(z, d) => Spare(s, d)
        BY <2>2, <3>1, <3>2, Zenon
      <3>4. Goes(w, found, r) /\ SameFlash(s, w) /\ w.abort = "none" /\ Owners(w)
        BY <3>1a, <3>3, SpareSet, Zenon
      <3> QED BY <3>2, <3>4, Zenon
    <2>4. /\ t \in BdftlDrives /\ t.map.block_map = s.map.block_map /\ t.map.trim_map = s.map.trim_map
          /\ t.abort = s.abort /\ Spare(t, b)
      BY <2>2, Zenon DEF RestSet, Spare
    <2>5. x = Bdftl!NextPage(t, b)
      <3>1. t.block = s.block
        BY <2>3, Zenon DEF SameFlash
      <3> QED BY <3>1, Zenon DEF Bdftl!NextPage
    <2>6. Writable(t, x) /\ a = x
      BY <1>4, <1>10, <2>3, <2>4, <2>5, SpareWritable, Zenon
    <2>7. Sticky(s, t)
      BY <2>4, StickySame, Zenon
    <2> QED BY <2>3, <2>4, <2>6, <2>7, Zenon DEF FindsPage
  <1>11. CASE x = None
    <2>1. PICK g : g = [s EXCEPT !.abort = "no empty page"]
      OBVIOUS
    <2>2. g = Bdftl!Assert(s, x # None, "no empty page")
      BY <1>11, <2>1, Zenon DEF Bdftl!Assert
    <2>3. /\ g \in BdftlDrives /\ g.map = s.map /\ g.abort = "no empty page" /\ SameManager(s, g)
      BY <1>1, <2>1 DEF BdftlDrives, Drives, Causes, SameManager
    <2>4. t = [g EXCEPT !.map.inuseBlock = b, !.map.blockQueue = p]
      BY <1>2, <1>5, <2>2, <2>3, Zenon
    <2>5. RestSet(g, t, g.map.block_map, g.map.trim_map, b, p)
      BY <1>9, <1>12, <2>3, <2>4, QueueSet, Zenon
    <2>6. /\ t \in BdftlDrives /\ t.map.block_map = s.map.block_map /\ t.map.trim_map = s.map.trim_map
          /\ t.abort = "no empty page" /\ SameMap(s.map, t.map) /\ t.invalid_list = s.invalid_list
      BY <2>3, <2>5, Zenon DEF RestSet, SameMap, SameManager
    <2>7. Sticky(s, t)
      BY <2>6, Zenon DEF Sticky, Harmless
    <2>8. Goes(t, found, r)
      BY <2>6, <2>7, GoesOn
    <2> QED BY <2>6, <2>7, <2>8, Zenon DEF FindsPage
  <1> QED BY <1>10, <1>11

LEMMA FoundPage ==
    ASSUME NEW s, NEW found, NEW r, Goes(s, found, r), s.abort = "none",
           NEW got, got = Bdftl!GetFreeBiftlPage(s), NEW t, t = got.state, NEW a, a = got.page
    PROVE  FindsPage(s, t, a, found, r)
  <1>1. s \in BdftlDrives /\ BdftlWhole(s, found)
    BY DEF Goes
  <1>2. PICK use \in BlockSlots(BdftlPlanes) : use = s.map.inuseBlock
    BY <1>1, BdftlFields
  <1>3. PICK b : b = Head(s.map.blockQueue)
    OBVIOUS
  <1>4. PICK g : g = [s EXCEPT !.map.inuseBlock = None]
    OBVIOUS
  <1>5. PICK u : u = Bdftl!GetFreeDataPage(g)
    OBVIOUS
  <1>6. PICK x : x = Bdftl!NextPage(s, b)
    OBVIOUS
  <1>7. PICK w : w = [Bdftl!Assert(s, x # None, "no empty page")
                      EXCEPT !.map.inuseBlock = b, !.map.blockQueue = Tail(@)]
    OBVIOUS
  <1>8. PICK y : y = Bdftl!NextPage(s, use)
    OBVIOUS
  <1>9. got = IF use # None /\ y # None THEN [state |-> s, page |-> y]
              ELSE IF use # None /\ s.map.blockQueue # << >>
                   THEN [state |-> w, page |-> IF x = None THEN 0 ELSE x]
              ELSE [state |-> u, page |-> u.map.currentDataPage]
    BY <1>2, <1>3, <1>4, <1>5, <1>6, <1>7, <1>8, Zenon DEF Bdftl!GetFreeBiftlPage, Bdftl!None, None
  <1>10. CASE use # None /\ y # None
    <2>1. t = s /\ a = y
      BY <1>9, <1>10
    <2>2. use \in BlocksOf(BdftlPlanes) /\ Spare(s, use)
      BY <1>2, <1>10 DEF BlockSlots, Spare
    <2>3. Writable(s, y)
      BY <1>1, <1>8, <1>10, <2>2, SpareWritable DEF BdftlWhole
    <2>4. Sticky(s, s)
      BY StickySame
    <2> QED BY <2>1, <2>3, <2>4 DEF FindsPage
  <1>11. CASE ~(use # None /\ y # None) /\ use # None /\ s.map.blockQueue # << >>
    <2>1. t = w /\ a = IF x = None THEN 0 ELSE x
      <3>1. PICK p : p = IF x = None THEN 0 ELSE x
        OBVIOUS
      <3>2. got = [state |-> w, page |-> p]
        BY <1>9, <1>11, <3>1, Zenon
      <3>3. got.state = w /\ got.page = p
        BY <3>2
      <3> QED BY <3>1, <3>3, Zenon
    <2>2. s.map.blockQueue # << >>
      BY <1>11, Zenon
    <2>3. FindsPage(s, w, a, found, r)
      BY <1>3, <1>6, <1>7, <2>1, <2>2, QueuedPage, Zenon
    <2> QED BY <2>1, <2>3, Zenon
  <1>12. CASE ~(use # None /\ y # None) /\ ~(use # None /\ s.map.blockQueue # << >>)
    <2>1. t = u /\ a = u.map.currentDataPage
      BY <1>9, <1>12
    <2>2. FindsPage(s, u, u.map.currentDataPage, found, r)
      BY <1>4, <1>5, DataPage
    <2> QED BY <2>1, <2>2, Zenon
  <1> QED BY <1>10, <1>11, <1>12

\* FtlImpl_DftlParent::resolve_mapping leaves what the bimodal layer looks at.
Looks(s, t, found, r, v, yes) ==
    /\ Goes(t, found, r) /\ t.abort = s.abort /\ SameView(s, t) /\ SameFlash(s, t)
    /\ t.map.trim_map = s.map.trim_map /\ (yes => Marked(t.map, v))

LEMMA Looked ==
    ASSUME NEW s, NEW found, NEW r, Goes(s, found, r), NEW v \in LogicalPages, NEW yes \in BOOLEAN,
           NEW now \in StartTimes, NEW tied, NEW t, t = Bdftl!ResolveMapping(s, v, yes, now, tied)
    PROVE  Looks(s, t, found, r, v, yes)
  <1>1. PICK n \in Nat \ {0} : n = BdftlPlanes
    BY BdftlSizes
  <1>2. PICK M : M = BdftlMaps(n)
    OBVIOUS
  <1>3. /\ s \in Drives(n, M) /\ s.invalid_list = << >> /\ s.abort \in Harmless /\ r \in Nat
        /\ s.map.requests = r + 1 /\ TableOk(s.map, BdftlEntries)
    BY <1>1, <1>2 DEF Goes, BdftlDrives
  <1>4. Resolves(n, M, s, t, BdftlEntries, v, yes)
    <2>1. PICK i : i = "BIMODAL"
      OBVIOUS
    <2>2. PICK total \in Nat \ {0} : total = BdftlEntries
      BY BdftlSizes
    <2>3. t = Cmt(n, i, BdftlRequests, total)!ResolveMapping(s, v, yes, now, tied)
      BY <1>1, <2>1, <2>2, BdftlCmt, Zenon
    <2> QED BY <1>2, <1>3, <2>2, <2>3, Resolved, Zenon
  <1>5. /\ t \in Drives(n, M) /\ SameFlash(s, t) /\ SameManager(s, t) /\ t.abort = s.abort
        /\ SameTables(M, n, s.map, t.map)
        /\ \A w \in LogicalPages : t.map.trans_map[w].ppn = s.map.trans_map[w].ppn
        /\ TableOk(t.map, BdftlEntries)
        /\ yes => Marked(t.map, v)
    BY <1>4, Zenon DEF Resolves
  <1>6. /\ t \in BdftlDrives /\ t.invalid_list = << >> /\ t.map.requests = r + 1 /\ r + 1 \in Nat
        /\ TableOk(t.map, BdftlEntries)
        /\ t.map.trim_map = s.map.trim_map
    BY <1>1, <1>2, <1>3, <1>5 DEF BdftlDrives, SameManager, SameTables, SameRest
  <1>7. SameView(s, t)
    BY <1>2, <1>5 DEF SameView, SameTables, SameRest, Ppn
  <1>8. ASSUME t.abort = "none" PROVE BdftlDrive(t) /\ BdftlWhole(t, found)
    <2>1. BdftlDrive(s) /\ BdftlWhole(s, found)
      BY <1>5, <1>8 DEF Goes
    <2>2. OneMode(t)
      <3>1. (\A l : Optimal(t, l) = Optimal(s, l)) /\ \A w \in LogicalPages : Ppn(t, w) = Ppn(s, w)
        BY <1>7, SameOwners DEF SameView
      <3> QED BY <1>6, <2>1, <3>1 DEF BdftlDrive, OneMode
    <2> QED BY <1>5, <1>6, <1>7, <2>1, <2>2, DriveCarried, WholeCarried
  <1>9. Goes(t, found, r)
    BY <1>3, <1>5, <1>6, <1>8 DEF Goes
  <1> QED BY <1>5, <1>6, <1>7, <1>9 DEF Looks

LEMMA WritableCarried ==
    ASSUME NEW s, NEW t, NEW a, Writable(s, a), SameView(s, t), SameFlash(s, t)
    PROVE  Writable(t, a)
  <1>1. /\ \A b : /\ Idle(t, b) <=> Idle(s, b)
                  /\ AtCurrent(t, b) <=> AtCurrent(s, b)
        /\ \A l : Pbn(t, l) = Pbn(s, l) /\ (InBlock(t, l) <=> InBlock(s, l))
        /\ t.map.currentDataPage = s.map.currentDataPage
    BY SameOwners
  <1>2. \A x : PageAt(t, x) = PageAt(s, x)
    BY DEF SameFlash, PageAt
  <1> QED BY <1>1, <1>2 DEF Writable

\* The end of a page-mapped write.
LEMMA BdftlMapped ==
    ASSUME NEW s, NEW found, NEW r, Goes(s, found, r), s.abort = "none", NEW v \in LogicalPages,
           NEW a, Writable(s, a), Marked(s.map, v), ~Optimal(s, BlockOf(v)), s.map.trim_map[v] = "no",
           NEW t, t = Bdftl!MapTo(s, v, a)
    PROVE  Goes(t, found \cup {v}, r)
  <1>1. PICK n \in Nat \ {0} : n = BdftlPlanes
    BY BdftlSizes
  <1>2. PICK M : M = BdftlMaps(n)
    OBVIOUS
  <1>3. /\ s \in Drives(n, M) /\ s \in BdftlDrives /\ BdftlDrive(s) /\ BdftlWhole(s, found) /\ r \in Nat
        /\ s.map.requests = r + 1 /\ TableOk(s.map, BdftlEntries) /\ s.invalid_list = << >>
    BY <1>1, <1>2 DEF Goes, BdftlDrives
  <1>4. /\ a \in AddressesOf(n) /\ PageAt(s, a) = "EMPTY" /\ ~Idle(s, BlockOf(a))
        /\ \A l \in LBAs : InBlock(s, l) => Pbn(s, l) # BlockOf(a)
        /\ AtCurrent(s, BlockOf(a)) => ~(PageOf(a) > PageOf(s.map.currentDataPage))
    BY <1>1 DEF Writable
  <1>5. /\ Maps(n, M, s, t, v, a)
        /\ \A total : TableOk(s.map, total) /\ Marked(s.map, v) => TableOk(t.map, total)
    <2>1. PICK i : i = "BIMODAL"
      OBVIOUS
    <2>2. t = Cmt(n, i, BdftlRequests, BdftlEntries)!MapTo(s, v, a)
      BY <1>1, <2>1, BdftlCmt, Zenon
    <2> QED BY <1>2, <1>3, <1>4, <2>2, MappedTo, Zenon
  <1>6. /\ t \in Drives(n, M) /\ SameManager(s, t) /\ SameTables(M, n, s.map, t.map) /\ t.abort = "none"
        /\ \A x \in AddressesOf(n) : t.data[x] = IF x = a THEN v ELSE IF s.data[x] = v THEN None ELSE s.data[x]
        /\ \A x \in AddressesOf(n) : PageAt(t, x) = IF x = Ppn(s, v) THEN "INVALID"
                                                ELSE IF x = a THEN "VALID" ELSE PageAt(s, x)
        /\ Fits(n, s) => Fits(n, t)
        /\ \A w \in LogicalPages : Ppn(t, w) = IF w = v THEN a ELSE Ppn(s, w)
    BY <1>4, <1>5 DEF Maps, Leads, Ppn
  <1>7. TableOk(t.map, BdftlEntries) /\ t.map.requests = r + 1 /\ t.invalid_list = << >>
    BY <1>3, <1>5, <1>6 DEF SameTables, SameManager
  <1>8. /\ t.map.currentDataPage = s.map.currentDataPage /\ t.map.trim_map = s.map.trim_map
        /\ \A l : /\ Pbn(t, l) = Pbn(s, l) /\ InOrderOf(t, l) = InOrderOf(s, l)
                  /\ Optimal(t, l) = Optimal(s, l) /\ (InBlock(t, l) <=> InBlock(s, l))
        /\ \A b : (Spare(t, b) <=> Spare(s, b)) /\ (AtCurrent(t, b) <=> AtCurrent(s, b))
    BY <1>2, <1>6 DEF SameTables, SameRest, Pbn, InOrderOf, Optimal, InBlock, Spare, AtCurrent
  <1>9. Stock(n, s) /\ s.log_active = 0 /\ Owners(s) /\ Contents(s) /\ \A w \in LogicalPages : w \in found => Finds(s, w)
    BY <1>1, <1>3 DEF BdftlWhole
  <1>10. Stock(n, t) /\ t.log_active = 0 /\ \A b : Idle(t, b) <=> Idle(s, b)
    BY <1>6, <1>9, SameStock DEF SameManager
  <1>11. Owners(t)
    BY <1>8, <1>9, <1>10 DEF Owners
  <1>12. \A w \in LogicalPages : Ppn(s, w) # None =>
            /\ Ppn(s, w) \in AddressesOf(n) /\ PageAt(s, Ppn(s, w)) = "VALID" /\ s.data[Ppn(s, w)] = w
            /\ \A l \in LBAs : InBlock(s, l) => Pbn(s, l) # BlockOf(Ppn(s, w))
    BY <1>1, <1>3, <1>9, BdftlFields DEF Contents, Slots
  <1>13. \A x \in AddressesOf(n) : x # None
    BY Geometry DEF AddressesOf, None
  <1>14. \A x \in AddressesOf(n) : x # a /\ PageAt(s, x) = "EMPTY" => PageAt(t, x) = "EMPTY"
    BY <1>6, <1>12, <1>13
  <1>15. Contents(t)
    <2>1. \A x \in AddressesOf(n) : Idle(t, BlockOf(x)) => PageAt(t, x) = "EMPTY"
      BY <1>1, <1>4, <1>9, <1>10, <1>14 DEF Contents
    <2>2. \A x \in AddressesOf(n) :
           AtCurrent(t, BlockOf(x)) /\ PageOf(x) > PageOf(t.map.currentDataPage) => PageAt(t, x) = "EMPTY"
      BY <1>1, <1>4, <1>8, <1>9, <1>14 DEF Contents
    <2>3. \A l \in LBAs, x \in AddressesOf(n) :
           InBlock(t, l) /\ BlockOf(x) = Pbn(t, l) /\ PageOf(x) >= InOrderOf(t, l)
               => PageAt(t, x) \in {"EMPTY", "INVALID"}
      BY <1>1, <1>4, <1>6, <1>8, <1>9 DEF Contents
    <2>4. ASSUME NEW w \in LogicalPages, Ppn(t, w) # None
          PROVE  /\ PageAt(t, Ppn(t, w)) = "VALID" /\ t.data[Ppn(t, w)] = w
                 /\ \A l \in LBAs : InBlock(t, l) => Pbn(t, l) # BlockOf(Ppn(t, w))
      <3>1. CASE w = v
        <4>1. Ppn(t, w) = a /\ a # Ppn(s, v)
          BY <1>4, <1>6, <1>12, <1>13, <3>1
        <4> QED BY <1>4, <1>6, <1>8, <3>1, <4>1
      <3>2. CASE w # v
        <4>1. PICK x \in AddressesOf(n) : x = Ppn(t, w) /\ x = Ppn(s, w)
          BY <1>6, <1>12, <2>4, <3>2
        <4>2. PageAt(s, x) = "VALID" /\ s.data[x] = w /\ \A l \in LBAs : InBlock(s, l) => Pbn(s, l) # BlockOf(x)
          BY <1>12, <1>13, <4>1
        <4>3. x # a /\ x # Ppn(s, v)
          BY <1>4, <1>12, <1>13, <3>2, <4>2
        <4> QED BY <1>6, <1>8, <3>2, <4>1, <4>2, <4>3
      <3> QED BY <3>1, <3>2
    <2> QED BY <1>1, <2>1, <2>2, <2>3, <2>4 DEF Contents
  <1>16. ASSUME NEW w \in LogicalPages, w \in found \cup {v} PROVE Finds(t, w)
    <2>1. CASE w = v
      <3>1. Ppn(t, v) # None /\ ~Optimal(t, BlockOf(v))
        BY <1>4, <1>6, <1>8, <1>13
      <3> QED BY <2>1, <3>1 DEF Finds
    <2>2. CASE w # v /\ ~Optimal(s, BlockOf(w))
      <3>1. Ppn(s, w) # None
        BY <1>9, <1>16, <2>2 DEF Finds
      <3>2. Ppn(t, w) # None /\ ~Optimal(t, BlockOf(w))
        BY <1>6, <1>8, <2>2, <3>1
      <3> QED BY <3>2 DEF Finds
    <2>3. CASE w # v /\ Optimal(s, BlockOf(w))
      <3>1. PICK l \in LBAs : l = BlockOf(w) /\ PageOf(w) \in Pages
        BY LogicalGeometry DEF LBAs
      <3>2. PICK x : x = Linear(Pbn(s, l), PageOf(w))
        OBVIOUS
      <3>3. InBlock(s, l) /\ PageAt(s, x) = "VALID" /\ s.data[x] = w
        BY <1>9, <1>16, <2>3, <3>1, <3>2 DEF Finds, InBlock
      <3>4. Pbn(s, l) \in BlocksOf(n)
        BY <1>1, <1>3, <3>3, BdftlFields DEF BlockSlots, InBlock
      <3>5. x \in AddressesOf(n) /\ BlockOf(x) = Pbn(s, l)
        BY <3>1, <3>2, <3>4, Geometry
      <3>6. x # a
        BY <1>4, <3>3, <3>5
      <3>7. x # Ppn(s, v)
        BY <1>12, <1>13, <3>3, <3>5
      <3>8. PageAt(t, x) = "VALID" /\ t.data[x] = w
        BY <1>6, <2>3, <3>3, <3>5, <3>6, <3>7
      <3>9. Optimal(t, l) /\ Pbn(t, l) = Pbn(s, l) /\ Pbn(s, l) # None
        BY <1>8, <3>3 DEF InBlock
      <3> QED BY <3>1, <3>2, <3>8, <3>9 DEF Finds
    <2> QED BY <1>16, <2>1, <2>2, <2>3
  <1>17. BdftlWhole(t, found \cup {v})
    BY <1>1, <1>10, <1>11, <1>15, <1>16 DEF BdftlWhole
  <1>18. OneMode(t)
    BY <1>3, <1>6, <1>8 DEF OneMode, BdftlDrive
  <1>19. t \in BdftlDrives
    BY <1>1, <1>2, <1>6 DEF BdftlDrives
  <1>20. Fits(n, t) /\ Bounded(n, t)
    <2>1. \A x \in AddressesOf(n) : t.data[x] \in LogicalPages \cup {None}
      BY <1>1, <1>3, <1>6 DEF BdftlDrive, Bounded
    <2> QED BY <1>1, <1>3, <1>6, <1>10, <1>19, <2>1, StockBounds DEF BdftlDrive
  <1>21. BdftlDrive(t)
    BY <1>1, <1>18, <1>19, <1>20 DEF BdftlDrive, BdftlDrives
  <1>22. t.abort \in Harmless
    BY <1>6, Zenon DEF Harmless
  <1> QED BY <1>3, <1>7, <1>17, <1>19, <1>21, <1>22 DEF Goes

\* Changes behind a failed assertion, whatever they are, leave what it says.
Says(s, c) == "abort" \in DOMAIN s /\ s.abort = c

LEMMA SaysStill ==
    ASSUME NEW s, NEW c, Says(s, c), NEW x
    PROVE  /\ Says([s EXCEPT !.block = x], c) /\ Says([s EXCEPT !.data = x], c)
           /\ Says([s EXCEPT !.plane = x], c) /\ Says([s EXCEPT !.map = x], c)
  BY DEF Says

LEMMA DriveSays ==
    ASSUME NEW s \in BdftlDrives
    PROVE  Says(s, s.abort)
  BY DEF Says, BdftlDrives, Drives

LEMMA WriteSays ==
    ASSUME NEW s, NEW a, NEW o,
           o = Bdftl!Assert(s, \A p \in {Bdftl!PageOf(a)} : s.block[Bdftl!BlockOf(a)].page[p] = "EMPTY", "page not empty"),
           NEW c, Says(o, c), NEW r, NEW v, NEW t, t = Bdftl!IssueWrite(s, a, r, v)
    PROVE  Says(t, c)
  <1>1. PICK b, ps, payload : b = Bdftl!BlockOf(a) /\ ps = {Bdftl!PageOf(a)} /\ payload = [p \in Bdftl!Pages |-> v]
    OBVIOUS
  <1>2. PICK u : u = Bdftl!PlaneWrite(s, b, ps, payload)
    OBVIOUS
  <1>3. t = Bdftl!PlaneReplace(u, r)
    BY <1>1, <1>2, Zenon DEF Bdftl!IssueWrite
  <1>5. Bdftl!Assert(s, \A p \in ps : s.block[b].page[p] = "EMPTY", "page not empty") = o
    BY <1>1, Zenon
  <1>6. PICK B : B = [o.block EXCEPT ![b] = Bdftl!BlockWrite(@, ps)]
    OBVIOUS
  <1>7. PICK D : D = [x \in Bdftl!Addresses |-> IF Bdftl!BlockOf(x) = b /\ Bdftl!PageOf(x) \in ps
                                                THEN payload[Bdftl!PageOf(x)] ELSE o.data[x]]
    OBVIOUS
  <1>4. PICK x : x = [o EXCEPT !.block = B]
    OBVIOUS
  <1>8. PICK w : w = [x EXCEPT !.data = D]
    OBVIOUS
  <1>9. Says(x, c) /\ Says(w, c)
    BY <1>4, <1>8, SaysStill
  <1>10. w = [o EXCEPT !.block[b] = Bdftl!BlockWrite(@, ps),
                       !.data = [y \in Bdftl!Addresses |-> IF Bdftl!BlockOf(y) = b /\ Bdftl!PageOf(y) \in ps
                                                THEN payload[Bdftl!PageOf(y)] ELSE @[y]]]
    <2>1. w = [o EXCEPT !.block = B, !.data = D]
      BY <1>4, <1>8, Zenon
    <2> QED BY <1>6, <1>7, <2>1, Zenon
  <1>11. PICK P : P = [w.plane EXCEPT ![Bdftl!PlaneOf(b)].free_blocks = @ - 1]
    OBVIOUS
  <1>12. PICK z : z = [w EXCEPT !.plane = P]
    OBVIOUS
  <1>13. Says(z, c)
    BY <1>9, <1>12, SaysStill
  <1>14. u = w \/ u = z
    <2>1. z = [w EXCEPT !.plane[Bdftl!PlaneOf(b)].free_blocks = @ - 1]
      BY <1>11, <1>12, Zenon
    <2>2. u = IF s.block[b].state = "FREE" /\ ps # {} THEN z ELSE w
      BY <1>2, <1>5, <1>10, <2>1, Zenon DEF Bdftl!PlaneWrite
    <2> QED BY <2>2, Zenon
  <1>15. Says(u, c)
    BY <1>9, <1>13, <1>14, Zenon
  <1>16. PICK Q : Q = [u.block EXCEPT ![Bdftl!BlockOf(r)] = Bdftl!BlockInvalidate(@, Bdftl!PageOf(r))]
    OBVIOUS
  <1>17. t = u \/ t = [u EXCEPT !.block = Q]
    <2>1. t = u \/ t = [u EXCEPT !.block[Bdftl!BlockOf(r)] = Bdftl!BlockInvalidate(@, Bdftl!PageOf(r))]
      BY <1>3, Zenon DEF Bdftl!PlaneReplace
    <2> QED BY <1>16, <2>1, Zenon
  <1>18. PICK y : y = [u EXCEPT !.block = Q]
    OBVIOUS
  <1>19. Says(y, c)
    BY <1>15, <1>18, SaysStill
  <1> QED BY <1>15, <1>17, <1>18, <1>19, Zenon

LEMMA StuckWrite ==
    ASSUME NEW s, NEW c, Says(s, c), c # "none", NEW a, NEW r, NEW v, NEW t, t = Bdftl!IssueWrite(s, a, r, v)
    PROVE  Says(t, c)
  <1>1. s.abort # "none"
    BY DEF Says
  <1>2. Bdftl!Assert(s, \A p \in {Bdftl!PageOf(a)} : s.block[Bdftl!BlockOf(a)].page[p] = "EMPTY", "page not empty") = s
    BY <1>1, Zenon DEF Bdftl!Assert
  <1> QED BY <1>2, WriteSays

\* A write to a page that is not empty fails the assertion of Page::_write.
LEMMA FailedWrite ==
    ASSUME NEW s, Says(s, "none"), NEW a, PageAt(s, a) # "EMPTY", NEW r, NEW v, NEW t, t = Bdftl!IssueWrite(s, a, r, v)
    PROVE  t.abort = "page not empty"
  <1>1. PICK o : o = [s EXCEPT !.abort = "page not empty"]
    OBVIOUS
  <1>2. Bdftl!Assert(s, \A p \in {Bdftl!PageOf(a)} : s.block[Bdftl!BlockOf(a)].page[p] = "EMPTY", "page not empty") = o
    <2>1. ~ \A p \in {Bdftl!PageOf(a)} : s.block[Bdftl!BlockOf(a)].page[p] = "EMPTY"
      BY BdftlNames, Zenon DEF PageAt
    <2> QED BY <1>1, <2>1, Zenon DEF Bdftl!Assert, Says
  <1>3. Says(o, "page not empty")
    BY <1>1 DEF Says
  <1>4. Says(t, "page not empty")
    BY <1>2, <1>3, WriteSays
  <1> QED BY <1>4 DEF Says

\* A request that is through, or that has failed an assertion.
Finishes(t, found, r) == t.abort \in Harmless /\ (t.abort = "none" => Goes(t, found, r))

\* A write in order: page a, the next of the block of logical block l, gets page v.
Appends(s, t, v, l, a) ==
    /\ t \in BdftlDrives /\ SameManager(s, t) /\ SameMap(s.map, t.map)
    /\ t.map.currentDataPage = s.map.currentDataPage /\ t.map.trim_map = s.map.trim_map
    /\ t.map.inuseBlock = s.map.inuseBlock /\ t.map.blockQueue = s.map.blockQueue
    /\ BlockReads(s, t, l, Pbn(s, l), PageOf(v) + 1, Optimal(s, l))
    /\ PageAt(s, a) = "EMPTY" \/ s.abort # "none" => t.abort = s.abort
    /\ PageAt(s, a) # "EMPTY" /\ s.abort = "none" => t.abort = "page not empty"
    /\ \A x \in AddressesOf(BdftlPlanes) : t.data[x] = IF x = a THEN v ELSE IF s.data[x] = v THEN None ELSE s.data[x]
    /\ \A x \in AddressesOf(BdftlPlanes) : PageAt(t, x) = IF x = a THEN "VALID" ELSE PageAt(s, x)
    /\ Fits(BdftlPlanes, s) /\ PageAt(s, a) = "EMPTY" => Fits(BdftlPlanes, t)

\* The old copy is outdated and the block of logical block l is one page further.
MakesRoom(s, v, l, u, g) == u = Bdftl!Outdate(s, v) /\ g = [u EXCEPT !.map.block_map[l].nextPage = @ + 1]

LEMMA Appended ==
    ASSUME NEW s \in BdftlDrives, NEW v \in LogicalPages, NEW l \in LBAs, InBlock(s, l), InOrderOf(s, l) = PageOf(v),
           NEW u, NEW g, MakesRoom(s, v, l, u, g),
           NEW a, a = Linear(Pbn(s, l), PageOf(v)), NEW t, t = Bdftl!IssueWrite(g, a, None, v)
    PROVE  Appends(s, t, v, l, a)
  <1>1. PICK n \in Nat \ {0} : n = BdftlPlanes
    BY BdftlSizes
  <1>2. PICK M : M = BdftlMaps(n)
    OBVIOUS
  <1>3. PICK i : i = "BIMODAL"
    OBVIOUS
  <1>4. s \in Drives(n, M) /\ v \in Int
    BY <1>1, <1>2, Sizes DEF BdftlDrives, LogicalPages
  <1>5. u \in Drives(n, M) /\ Outdates(n, s, u, v)
    <2>1. u = Chip(n, i, 1)!Outdate(s, v)
      BY <1>1, <1>3, BdftlChip, Zenon DEF MakesRoom
    <2> QED BY <1>4, <2>1, Outdated
  <1>6. u \in BdftlDrives
    BY <1>1, <1>2, <1>5 DEF BdftlDrives
  <1>7. PICK d \in BPages(BdftlPlanes) : d = u.map.block_map[l]
    BY <1>6, BdftlFields
  <1>8. u.map = s.map
    BY <1>5 DEF Outdates
  <1>9. d.nextPage = PageOf(v) /\ d.pbn = Pbn(s, l) /\ d.optimal = Optimal(s, l)
    BY <1>7, <1>8 DEF InOrderOf, Pbn, Optimal
  <1>10. PICK p \in 0 .. BlockSize : p = PageOf(v) + 1
    BY LogicalGeometry, Sizes DEF Pages
  <1>11. PICK e : e = [d EXCEPT !.nextPage = p]
    OBVIOUS
  <1>12. g = [u EXCEPT !.map.block_map[l] = e]
    BY <1>7, <1>9, <1>10, <1>11, Zenon DEF MakesRoom
  <1>13. PICK b, yes : b = d.pbn /\ yes = d.optimal
    OBVIOUS
  <1>14. IsBPage(e, b, p, yes) /\ e \in BPages(BdftlPlanes)
    BY <1>11, <1>13, NextEntry DEF IsBPage
  <1>15. BlockSet(u, g, l, e)
    BY <1>6, <1>12, <1>14, SetBlock
  <1>16. BlockReads(u, g, l, b, p, yes)
    BY <1>14, <1>15, BlockRead, Zenon
  <1>17. g \in BdftlDrives /\ g \in Drives(n, M)
    BY <1>1, <1>2, <1>15 DEF BlockSet, BdftlDrives
  <1>18. b \in BlocksOf(n)
    BY <1>1, <1>9, <1>13, BdftlFields DEF InBlock, BlockSlots
  <1>19. a \in AddressesOf(n)
    BY <1>9, <1>13, <1>18, LogicalGeometry, Geometry
  <1>20. t \in Drives(n, M) /\ Issues(n, g, t, a, None, v)
    <2>1. PICK no : no = None
      OBVIOUS
    <2>2. t = Chip(n, i, 1)!IssueWrite(g, a, no, v)
      BY <1>1, <1>3, <2>1, BdftlChip, Zenon
    <2>3. t \in Drives(n, M) /\ Issues(n, g, t, a, no, v)
      BY <1>4, <1>17, <1>19, <2>1, <2>2, Issued
    <2> QED BY <2>1, <2>3
  <1>21. t \in BdftlDrives
    BY <1>1, <1>2, <1>20, Zenon DEF BdftlDrives
  <1>22. /\ t.map = g.map /\ SameManager(g, t) /\ SameFlash(u, g) /\ SameManager(u, g) /\ SameManager(s, u)
         /\ g.abort = u.abort /\ u.abort = s.abort /\ SameBlocks(s, u)
         /\ SameMap(u.map, g.map) /\ g.map.currentDataPage = u.map.currentDataPage
         /\ g.map.trim_map = u.map.trim_map /\ g.map.inuseBlock = u.map.inuseBlock
         /\ g.map.blockQueue = u.map.blockQueue
    BY <1>5, <1>15, <1>20, Zenon DEF Issues, BlockSet, Outdates
  <1>23. SameManager(s, t) /\ SameMap(s.map, t.map)
    BY <1>8, <1>22 DEF SameManager, SameMap
  <1>24. BlockReads(s, t, l, Pbn(s, l), PageOf(v) + 1, Optimal(s, l))
    <2>2. \A k : /\ Pbn(t, k) = Pbn(g, k) /\ InOrderOf(t, k) = InOrderOf(g, k) /\ Optimal(t, k) = Optimal(g, k)
                 /\ Pbn(u, k) = Pbn(s, k) /\ InOrderOf(u, k) = InOrderOf(s, k) /\ Optimal(u, k) = Optimal(s, k)
      BY <1>8, <1>22, Zenon DEF Pbn, InOrderOf, Optimal
    <2>3. \A k : (InBlock(t, k) <=> InBlock(g, k)) /\ (InBlock(u, k) <=> InBlock(s, k))
      BY <2>2, Zenon DEF InBlock
    <2>1. BlockReads(s, t, l, b, p, yes)
      BY <1>16, <2>2, <2>3, Zenon DEF BlockReads
    <2>4. b = Pbn(s, l) /\ yes = Optimal(s, l) /\ p = PageOf(v) + 1
      BY <1>9, <1>10, <1>13, Zenon
    <2> QED BY <2>1, <2>4
  <1>25. \A x : PageAt(g, x) = PageAt(s, x)
    BY <1>22 DEF SameFlash, SameBlocks, PageAt
  <1>26. Fits(n, s) => Fits(n, g)
    <2>1. SameBlocks(s, g)
      BY <1>22 DEF SameFlash, SameBlocks
    <2> QED BY <2>1, SameFits, Zenon
  <1>27. \A x \in AddressesOf(n) : x # None
    BY Geometry DEF AddressesOf, None
  <1>28. \A x \in AddressesOf(n) : g.data[x] = IF s.data[x] = v THEN None ELSE s.data[x]
    BY <1>5, <1>22, Zenon DEF Outdates, SameFlash
  <1>29. \A x \in AddressesOf(n) : t.data[x] = IF x = a THEN v ELSE IF s.data[x] = v THEN None ELSE s.data[x]
    BY <1>20, <1>28, Zenon DEF Issues
  <1>30. \A x \in AddressesOf(n) : PageAt(t, x) = IF x = a THEN "VALID" ELSE PageAt(s, x)
    BY <1>20, <1>25, <1>27, Zenon DEF Issues
  <1>31. /\ PageAt(s, a) = "EMPTY" \/ s.abort # "none" => t.abort = s.abort
         /\ Fits(n, s) /\ PageAt(s, a) = "EMPTY" => Fits(n, t)
    BY <1>20, <1>22, <1>25, <1>26, Zenon DEF Issues
  <1>32. ASSUME PageAt(s, a) # "EMPTY", s.abort = "none" PROVE t.abort = "page not empty"
    <2>1. g \in BdftlDrives
      BY <1>1, <1>2, <1>17, Zenon DEF BdftlDrives
    <2>2. PageAt(g, a) # "EMPTY" /\ g.abort = "none"
      BY <1>22, <1>25, <1>32, Zenon
    <2>3. Says(g, "none")
      BY <2>1, <2>2, DriveSays, Zenon
    <2> QED BY <2>2, <2>3, FailedWrite, Zenon
  <1> QED BY <1>1, <1>8, <1>21, <1>22, <1>23, <1>24, <1>29, <1>30, <1>31, <1>32, Zenon DEF Appends

LEMMA AppendedWhole ==
    ASSUME NEW s \in BdftlDrives, NEW found, BdftlWhole(s, found), OneMode(s), NEW v \in LogicalPages,
           NEW l \in LBAs, l = BlockOf(v), InBlock(s, l), InOrderOf(s, l) = PageOf(v),
           NEW a, a = Linear(Pbn(s, l), PageOf(v)), PageAt(s, a) = "EMPTY", NEW t, Appends(s, t, v, l, a)
    PROVE  BdftlWhole(t, found \cup {v}) /\ OneMode(t)
  <1>1. PICK n \in Nat \ {0} : n = BdftlPlanes
    BY BdftlSizes
  <1>2. PICK b \in BlocksOf(n) : b = Pbn(s, l)
    BY <1>1, BdftlFields DEF InBlock, BlockSlots
  <1>3. PageOf(v) \in Pages
    BY LogicalGeometry
  <1>4. a \in AddressesOf(n) /\ BlockOf(a) = b /\ PageOf(a) = PageOf(v)
    BY <1>2, <1>3, Geometry
  <1>5. /\ Stock(n, s) /\ s.log_active = 0 /\ Owners(s) /\ Contents(s)
        /\ \A w \in LogicalPages : w \in found => Finds(s, w)
    BY <1>1 DEF BdftlWhole
  <1>6. PageOf(v) \in Int /\ PageOf(v) >= PageOf(v) /\ \A x \in AddressesOf(n) : PageOf(x) \in Int
    BY <1>3, Geometry, Sizes DEF Pages
  <1>7. PageAt(s, a) = "EMPTY"
    OBVIOUS
  <1>8. /\ t \in BdftlDrives /\ SameManager(s, t) /\ SameMap(s.map, t.map)
        /\ t.map.currentDataPage = s.map.currentDataPage /\ t.map.trim_map = s.map.trim_map
        /\ t.map.inuseBlock = s.map.inuseBlock /\ t.map.blockQueue = s.map.blockQueue
        /\ \A x \in AddressesOf(n) : t.data[x] = IF x = a THEN v ELSE IF s.data[x] = v THEN None ELSE s.data[x]
        /\ \A x \in AddressesOf(n) : PageAt(t, x) = IF x = a THEN "VALID" ELSE PageAt(s, x)
        /\ BlockReads(s, t, l, Pbn(s, l), PageOf(v) + 1, Optimal(s, l))
    BY <1>1 DEF Appends
  <1>9. /\ Pbn(t, l) = b /\ InOrderOf(t, l) = PageOf(v) + 1 /\ Optimal(t, l) /\ InBlock(t, l) /\ Optimal(s, l)
        /\ \A k \in LBAs : k # l =>
              /\ Pbn(t, k) = Pbn(s, k) /\ InOrderOf(t, k) = InOrderOf(s, k)
              /\ Optimal(t, k) = Optimal(s, k) /\ (InBlock(t, k) <=> InBlock(s, k))
    BY <1>2, <1>8 DEF BlockReads, InBlock
  <1>10. /\ \A k \in LBAs : Pbn(t, k) = Pbn(s, k) /\ (InBlock(t, k) <=> InBlock(s, k)) /\ (Optimal(t, k) <=> Optimal(s, k))
         /\ \A k \in LBAs : Pbn(s, k) = b /\ InBlock(s, k) => k = l
    BY <1>2, <1>5, <1>9 DEF Owners
  <1>11. \A c : /\ Spare(t, c) <=> Spare(s, c)
                /\ AtCurrent(t, c) <=> AtCurrent(s, c)
    BY <1>8 DEF Spare, AtCurrent
  <1>12. \A w : Ppn(t, w) = Ppn(s, w)
    BY <1>8 DEF Ppn, SameMap
  <1>13. Stock(n, t) /\ t.log_active = 0 /\ \A c : Idle(t, c) <=> Idle(s, c)
    BY <1>5, <1>8, SameStock DEF SameManager
  <1>14. Owners(t)
    <2>1. \A k \in LBAs : Optimal(t, k) /\ Pbn(t, k) = None => InOrderOf(t, k) = 0
      BY <1>5, <1>9 DEF Owners, InBlock
    <2> QED BY <1>5, <1>10, <1>11, <1>13, <2>1 DEF Owners
  <1>15. ~Idle(s, b) /\ ~AtCurrent(s, b)
    BY <1>2, <1>5 DEF Owners
  <1>16. \A w \in LogicalPages : Ppn(s, w) # None =>
            /\ Ppn(s, w) \in AddressesOf(n) /\ PageAt(s, Ppn(s, w)) = "VALID" /\ s.data[Ppn(s, w)] = w
            /\ \A k \in LBAs : InBlock(s, k) => Pbn(s, k) # BlockOf(Ppn(s, w))
    BY <1>1, <1>5, BdftlFields DEF Contents, Slots
  <1>17. Ppn(s, v) = None
    BY <1>9 DEF OneMode
  <1>18. Contents(t)
    <2>1. \A x \in AddressesOf(n) : Idle(t, BlockOf(x)) => PageAt(t, x) = "EMPTY"
      BY <1>1, <1>4, <1>5, <1>8, <1>13, <1>15 DEF Contents
    <2>2. \A x \in AddressesOf(n) :
           AtCurrent(t, BlockOf(x)) /\ PageOf(x) > PageOf(t.map.currentDataPage) => PageAt(t, x) = "EMPTY"
      BY <1>1, <1>4, <1>5, <1>8, <1>11, <1>15 DEF Contents
    <2>3. ASSUME NEW k \in LBAs, NEW x \in AddressesOf(n), InBlock(t, k), BlockOf(x) = Pbn(t, k), PageOf(x) >= InOrderOf(t, k)
          PROVE  PageAt(t, x) \in {"EMPTY", "INVALID"}
      <3>1. CASE k = l
        <4>1. PageOf(x) \in Int /\ PageOf(x) >= PageOf(v) + 1
          BY <1>6, <1>9, <2>3, <3>1
        <4>2. PageOf(x) >= PageOf(v) /\ PageOf(x) # PageOf(v)
          BY <1>6, <4>1
        <4>3. PageAt(s, x) \in {"EMPTY", "INVALID"} /\ x # a
          BY <1>1, <1>2, <1>4, <1>5, <1>9, <2>3, <3>1, <4>2 DEF Contents
        <4> QED BY <1>8, <4>3
      <3>2. CASE k # l
        <4>1. InBlock(s, k) /\ BlockOf(x) = Pbn(s, k) /\ PageOf(x) >= InOrderOf(s, k)
          BY <1>9, <2>3, <3>2
        <4>2. PageAt(s, x) \in {"EMPTY", "INVALID"} /\ x # a
          BY <1>1, <1>4, <1>5, <1>10, <3>2, <4>1 DEF Contents
        <4> QED BY <1>8, <4>2
      <3> QED BY <3>1, <3>2
    <2>4. ASSUME NEW w \in LogicalPages, Ppn(t, w) # None
          PROVE  /\ PageAt(t, Ppn(t, w)) = "VALID" /\ t.data[Ppn(t, w)] = w
                 /\ \A k \in LBAs : InBlock(t, k) => Pbn(t, k) # BlockOf(Ppn(t, w))
      <3>1. PICK x \in AddressesOf(n) : x = Ppn(t, w) /\ x = Ppn(s, w)
        BY <1>12, <1>16, <2>4
      <3>2. PageAt(s, x) = "VALID" /\ s.data[x] = w /\ \A k \in LBAs : InBlock(s, k) => Pbn(s, k) # BlockOf(x)
        BY <1>12, <1>16, <2>4, <3>1
      <3>3. x # a /\ w # v
        BY <1>7, <1>12, <1>17, <2>4, <3>2
      <3> QED BY <1>8, <1>10, <3>1, <3>2, <3>3
    <2> QED BY <1>1, <2>1, <2>2, <2>3, <2>4 DEF Contents
  <1>19. ASSUME NEW w \in LogicalPages, w \in found \cup {v} PROVE Finds(t, w)
    <2>1. CASE w = v
      <3>1. PageAt(t, a) = "VALID" /\ t.data[a] = v
        BY <1>4, <1>8
      <3>2. Pbn(t, l) # None /\ a = Linear(Pbn(t, l), PageOf(v))
        BY <1>2, <1>9 DEF InBlock
      <3> QED BY <1>9, <2>1, <3>1, <3>2 DEF Finds
    <2>2. CASE w # v
      <3>1. PICK k \in LBAs : k = BlockOf(w) /\ PageOf(w) \in Pages
        BY LogicalGeometry DEF LBAs
      <3>2. Finds(s, w)
        BY <1>5, <1>19, <2>2
      <3>3. CASE ~Optimal(s, k)
        BY <1>10, <1>12, <3>1, <3>2, <3>3 DEF Finds
      <3>4. CASE Optimal(s, k)
        <4>1. PICK x : x = Linear(Pbn(s, k), PageOf(w))
          OBVIOUS
        <4>2. InBlock(s, k) /\ PageAt(s, x) = "VALID" /\ s.data[x] = w
          BY <3>1, <3>2, <3>4, <4>1 DEF Finds, InBlock
        <4>3. Pbn(s, k) \in BlocksOf(n)
          BY <1>1, <4>2, BdftlFields DEF BlockSlots, InBlock
        <4>4. x \in AddressesOf(n) /\ x # a
          BY <1>7, <3>1, <4>1, <4>2, <4>3, Geometry
        <4>5. PageAt(t, x) = "VALID" /\ t.data[x] = w
          BY <1>8, <2>2, <4>2, <4>4
        <4>6. Optimal(t, k) /\ Pbn(t, k) = Pbn(s, k) /\ Pbn(s, k) # None
          BY <1>10, <4>2 DEF InBlock
        <4> QED BY <3>1, <4>1, <4>5, <4>6 DEF Finds
      <3> QED BY <3>3, <3>4
    <2> QED BY <2>1, <2>2
  <1>20. OneMode(t)
    <2>1. \A w \in LogicalPages : BlockOf(w) \in LBAs
      BY LogicalGeometry DEF LBAs
    <2> QED BY <1>8, <1>10, <1>12, <2>1 DEF OneMode
  <1> QED BY <1>1, <1>13, <1>14, <1>18, <1>19, <1>20 DEF BdftlWhole

\* Page a of the block gets page v, and t is what issue leaves of g.
WritesTo(s, v, l, g, a, t) == a = Linear(Pbn(s, l), PageOf(v)) /\ t = Bdftl!IssueWrite(g, a, None, v)

LEMMA InOrderWritten ==
    ASSUME NEW s, NEW found, NEW r, Goes(s, found, r), NEW v \in LogicalPages, NEW l \in LBAs, l = BlockOf(v),
           InBlock(s, l), InOrderOf(s, l) = PageOf(v), NEW u, NEW g, MakesRoom(s, v, l, u, g),
           NEW a, NEW t, WritesTo(s, v, l, g, a, t)
    PROVE  Finishes(t, found \cup {v}, r) \/ (s.abort = "none" /\ t.abort = "page not empty" /\ Ahead(s, l))
  <1>1. /\ s \in BdftlDrives /\ s.invalid_list = << >> /\ s.abort \in Harmless /\ r \in Nat
        /\ s.map.requests = r + 1 /\ TableOk(s.map, BdftlEntries)
    BY DEF Goes
  <1>2. Appends(s, t, v, l, a)
    <2>1. a = Linear(Pbn(s, l), PageOf(v)) /\ t = Bdftl!IssueWrite(g, a, None, v)
      BY Zenon DEF WritesTo
    <2> QED BY <1>1, <2>1, Appended, Zenon
  <1>6. a = Linear(Pbn(s, l), PageOf(v))
    BY Zenon DEF WritesTo
  <1>3. CASE s.abort # "none"
    BY <1>1, <1>2, <1>3, Zenon DEF Appends, Finishes
  <1>4. CASE s.abort = "none" /\ PageAt(s, a) # "EMPTY"
    <2>1. PICK n \in Nat \ {0} : n = BdftlPlanes
      BY BdftlSizes
    <2>2. Contents(s)
      BY <1>4 DEF Goes, BdftlWhole
    <2>3. Pbn(s, l) \in BlocksOf(n) /\ PageOf(v) \in Pages
      BY <1>1, <2>1, BdftlFields, LogicalGeometry DEF InBlock, BlockSlots
    <2>4. a \in AddressesOf(n) /\ BlockOf(a) = Pbn(s, l) /\ PageOf(a) = PageOf(v)
      BY <1>6, <2>3, Geometry
    <2>5. PageOf(v) >= PageOf(v) /\ PageOf(v) < BlockSize
      BY <2>3, Sizes DEF Pages
    <2>6. PageAt(s, a) = "INVALID"
      BY <1>4, <2>1, <2>2, <2>4, <2>5 DEF Contents
    <2>7. Ahead(s, l)
      BY <1>6, <2>5, <2>6 DEF Ahead
    <2>8. t.abort = "page not empty"
      BY <1>2, <1>4, Zenon DEF Appends
    <2> QED BY <1>4, <2>7, <2>8
  <1>5. CASE s.abort = "none" /\ PageAt(s, a) = "EMPTY"
    <2>1. BdftlDrive(s) /\ BdftlWhole(s, found) /\ OneMode(s)
      BY <1>5 DEF Goes, BdftlDrive
    <2>2. BdftlWhole(t, found \cup {v}) /\ OneMode(t)
      <3>1. PICK z, y, b : z = s /\ y = t /\ b = a
        OBVIOUS
      <3>2. z \in BdftlDrives
        BY <1>1, <3>1
      <3>3. /\ BdftlWhole(z, found) /\ OneMode(z) /\ InBlock(z, l) /\ InOrderOf(z, l) = PageOf(v)
            /\ b = Linear(Pbn(z, l), PageOf(v)) /\ PageAt(z, b) = "EMPTY" /\ Appends(z, y, v, l, b)
        BY <1>2, <1>5, <1>6, <2>1, <3>1, Zenon
      <3>4. BdftlWhole(y, found \cup {v}) /\ OneMode(y)
        BY <3>2, <3>3, AppendedWhole, Zenon
      <3> QED BY <3>1, <3>4, Zenon
    <2>3. /\ t \in BdftlDrives /\ SameManager(s, t) /\ SameMap(s.map, t.map) /\ t.abort = "none"
          /\ Fits(BdftlPlanes, s) => Fits(BdftlPlanes, t)
          /\ \A x \in AddressesOf(BdftlPlanes) : t.data[x] = IF x = a THEN v ELSE IF s.data[x] = v THEN None ELSE s.data[x]
      BY <1>2, <1>5, Zenon DEF Appends
    <2>4. \A x \in AddressesOf(BdftlPlanes) : t.data[x] \in LogicalPages \cup {None}
      BY <2>1, <2>3, Zenon DEF BdftlDrive, Bounded
    <2>5. Bounded(BdftlPlanes, t)
      BY <2>2, <2>3, <2>4, StockBounds, Zenon DEF BdftlWhole
    <2>6. BdftlDrive(t)
      BY <2>1, <2>2, <2>3, <2>5, Zenon DEF BdftlDrive, BdftlDrives
    <2>7. TableOk(t.map, BdftlEntries)
      BY <1>1, <2>3, SameTable DEF SameMap
    <2>8. t.invalid_list = << >> /\ t.map.requests = r + 1 /\ t.abort \in Harmless
      BY <1>1, <2>3, Zenon DEF SameManager, SameMap, Harmless
    <2>9. Goes(t, found \cup {v}, r)
      BY <1>1, <2>2, <2>3, <2>6, <2>7, <2>8, Zenon DEF Goes
    <2> QED BY <2>8, <2>9 DEF Finishes
  <1> QED BY <1>3, <1>4, <1>5

LEMMA MapStuck ==
    ASSUME NEW s, NEW c, Says(s, c), c # "none", NEW v, NEW a, NEW t, t = Bdftl!MapTo(s, v, a)
    PROVE  Says(t, c)
  <1>3. PICK m : m = [s.map EXCEPT !.trans_map[v].ppn = a]
    OBVIOUS
  <1>4. PICK x : x = [s EXCEPT !.map = m]
    OBVIOUS
  <1>5. x = [s EXCEPT !.map.trans_map[v].ppn = a]
    BY <1>3, <1>4, Zenon
  <1>6. PICK D : D = [y \in Bdftl!Addresses |-> IF x.data[y] = v THEN Bdftl!None ELSE x.data[y]]
    OBVIOUS
  <1>7. PICK w : w = [x EXCEPT !.data = D]
    OBVIOUS
  <1>8. w = Bdftl!Outdate(x, v)
    BY <1>6, <1>7, Zenon DEF Bdftl!Outdate
  <1>9. Says(x, c) /\ Says(w, c)
    BY <1>4, <1>7, SaysStill
  <1>10. PICK r : r = s.map.trans_map[v].ppn
    OBVIOUS
  <1>11. t = Bdftl!IssueWrite(w, a, r, v)
    BY <1>5, <1>8, <1>10, Zenon DEF Bdftl!MapTo
  <1> QED BY <1>9, <1>11, StuckWrite

\* A write out of order.
LEMMA PageWritten ==
    ASSUME NEW s, NEW found, NEW r, Goes(s, found, r), s.abort = "none", NEW v \in LogicalPages,
           ~Optimal(s, BlockOf(v)), s.map.trim_map[v] = "no", NEW got, got = Bdftl!GetFreeBiftlPage(s),
           NEW now \in StartTimes, NEW tied,
           NEW t, t = Bdftl!MapTo(Bdftl!ResolveMapping(got.state, v, TRUE, now, tied), v, got.page)
    PROVE  Finishes(t, found \cup {v}, r)
  <1>1. PICK g, a : g = got.state /\ a = got.page
    OBVIOUS
  <1>2. PICK yes \in BOOLEAN : yes = TRUE /\ yes
    BY Zenon
  <1>3. PICK h : h = Bdftl!ResolveMapping(g, v, yes, now, tied)
    OBVIOUS
  <1>4. t = Bdftl!MapTo(h, v, a)
    BY <1>1, <1>2, <1>3, Zenon
  <1>5. FindsPage(s, g, a, found, r)
    BY <1>1, FoundPage
  <1>6. Goes(g, found, r) /\ Sticky(s, g) /\ g.map.block_map = s.map.block_map /\ g.map.trim_map = s.map.trim_map
        /\ (g.abort = "none" => Writable(g, a))
    BY <1>5 DEF FindsPage
  <1>7. Looks(g, h, found, r, v, yes)
    BY <1>3, <1>6, Looked
  <1>8. /\ Goes(h, found, r) /\ h.abort = g.abort /\ SameView(g, h) /\ SameFlash(g, h)
        /\ h.map.trim_map = g.map.trim_map /\ Marked(h.map, v)
    BY <1>2, <1>7, Zenon DEF Looks
  <1>9. h \in BdftlDrives /\ h.abort \in Harmless
    BY <1>8 DEF Goes
  <1>10. CASE h.abort # "none"
    <2>1. t.abort = h.abort
      <3>1. PICK c : c = h.abort
        OBVIOUS
      <3>2. Says(h, c)
        BY <1>9, <3>1, DriveSays, Zenon
      <3>3. Says(t, c)
        BY <1>4, <1>10, <3>1, <3>2, MapStuck
      <3> QED BY <3>1, <3>3 DEF Says
    <2> QED BY <1>9, <1>10, <2>1 DEF Finishes
  <1>11. CASE h.abort = "none"
    <2>1. Writable(h, a)
      BY <1>6, <1>8, <1>11, WritableCarried
    <2>2. ~Optimal(h, BlockOf(v)) /\ h.map.trim_map[v] = "no"
      BY <1>6, <1>8 DEF SameView, Optimal
    <2>3. Goes(t, found \cup {v}, r)
      BY <1>4, <1>8, <1>11, <2>1, <2>2, BdftlMapped
    <2>4. t.abort \in Harmless
      BY <2>3 DEF Goes
    <2> QED BY <2>3, <2>4 DEF Finishes
  <1> QED BY <1>10, <1>11

\* The trim mark of page v is taken back.
TrimTaken(f, T, v) == T = [f EXCEPT ![v] = "no"]
TrimBack(f, T, v) == /\ T \in [LogicalPages -> TrimStates] /\ T[v] = "no"
                     /\ \A w \in LogicalPages : w # v => T[w] = f[w]

LEMMA TrimTakenBack ==
    ASSUME NEW s \in BdftlDrives, NEW v \in LogicalPages, NEW T, TrimTaken(s.map.trim_map, T, v)
    PROVE  TrimBack(s.map.trim_map, T, v)
  <1>1. PICK f \in [LogicalPages -> TrimStates] : f = s.map.trim_map
    BY BdftlFields
  <1>2. PICK no \in TrimStates : no = "no"
    BY DEF TrimStates
  <1>3. T = [f EXCEPT ![v] = no]
    BY <1>1, <1>2 DEF TrimTaken
  <1>4. T \in [LogicalPages -> TrimStates] /\ Updated(LogicalPages, f, T, v, no)
    BY <1>3, Update
  <1> QED BY <1>1, <1>2, <1>4 DEF Updated, TrimBack

\* FtlImpl_BDftl::write.  What a conversion leaves unmapped is no longer found.
LEMMA BdftlWrites ==
    ASSUME NEW s, NEW found, NEW r, Goes(s, found, r), s.abort = "none", NEW v \in LogicalPages,
           NEW turns \in BOOLEAN, turns <=> InBlock(s, BlockOf(v)) /\ InOrderOf(s, BlockOf(v)) # PageOf(v),
           NEW after, after = IF turns THEN {w \in found : BlockOf(w) # BlockOf(v)} ELSE found,
           NEW now \in StartTimes, NEW tied, NEW t, t = Bdftl!WriteResult(s, v, now, tied)
    PROVE  Finishes(t, after \cup {v}, r) \/ AheadAbort(s, t.abort)
  <1>1. PICK l \in LBAs : l = BlockOf(v)
    BY LogicalGeometry DEF LBAs
  <1>2. PICK g : g = Bdftl!Opened(s, v)
    OBVIOUS
  <1>3. Opens(s, g, found, r, v)
    BY <1>2, Opened
  <1>4. /\ Goes(g, found, r) /\ g.map.trans_map = s.map.trans_map /\ g.map.trim_map = s.map.trim_map
        /\ g.abort # "none" => InBlock(g, l) /\ InOrderOf(g, l) = PageOf(v)
        /\ turns <=> InBlock(g, l) /\ InOrderOf(g, l) # PageOf(v)
        /\ g = s \/ (g.abort = "none" => \A x \in AddressesOf(BdftlPlanes) :
                        BlockOf(x) = Pbn(g, l) => PageAt(g, x) = "EMPTY")
    BY <1>1, <1>3 DEF Opens
  <1>5. PICK T : T = [g.map.trim_map EXCEPT ![v] = "no"]
    OBVIOUS
  <1>6. T \in [LogicalPages -> TrimStates] /\ T[v] = "no" /\ \A w \in LogicalPages : w # v => T[w] = g.map.trim_map[w]
    <2>1. g \in BdftlDrives
      BY <1>4 DEF Goes
    <2>2. TrimTaken(g.map.trim_map, T, v)
      BY <1>5, Zenon DEF TrimTaken
    <2>3. TrimBack(g.map.trim_map, T, v)
      BY <2>1, <2>2, TrimTakenBack, Zenon
    <2> QED BY <2>3, Zenon DEF TrimBack
  <1>7. PICK h : h = [g EXCEPT !.map.trim_map = T]
    OBVIOUS
  <1>8. h = [Bdftl!Opened(s, v) EXCEPT !.map.trim_map[v] = "no"]
    <2>1. h = [g EXCEPT !.map.trim_map[v] = "no"]
      BY <1>5, <1>7, Zenon
    <2> QED BY <1>2, <2>1, Zenon
  <1>9. /\ Goes(h, found, r)
        /\ RestSet(g, h, g.map.block_map, T, g.map.inuseBlock, g.map.blockQueue)
    <2>1. \A w \in LogicalPages : T[w] # "no" => g.map.trim_map[w] # "no"
      BY <1>6
    <2> QED BY <1>4, <1>6, <1>7, <2>1, TrimSet
  <1>10. h.map.block_map = g.map.block_map /\ h.map.trim_map[v] = "no" /\ h.abort = g.abort /\ h \in BdftlDrives
    BY <1>6, <1>9 DEF RestSet
  <1>11. /\ InBlock(h, l) <=> InBlock(g, l)
         /\ InOrderOf(h, l) = InOrderOf(g, l) /\ Optimal(h, l) = Optimal(g, l)
    BY <1>10 DEF InBlock, InOrderOf, Optimal, Pbn
  <1>12. PICK u : u = [Bdftl!Outdate(h, v) EXCEPT !.map.block_map[l].nextPage = @ + 1]
    OBVIOUS
  <1>13. PICK moved : moved = IF Bdftl!Converts(h, v) THEN Bdftl!Convert(h, l, now)
                              ELSE [h EXCEPT !.map.block_map[l].optimal = FALSE]
    OBVIOUS
  <1>14. PICK free : free = Bdftl!GetFreeBiftlPage(moved)
    OBVIOUS
  <1>15. PICK a : a = Linear(Pbn(h, l), PageOf(v))
    OBVIOUS
  <1>16. t = IF Bdftl!InOrder(h, v) THEN Bdftl!IssueWrite(u, a, None, v)
             ELSE Bdftl!MapTo(Bdftl!ResolveMapping(free.state, v, TRUE, now, tied), v, free.page)
    <2>1. Bdftl!BlockOf(v) = l /\ Bdftl!Linear(Bdftl!Pbn(h, v), Bdftl!PageOf(v)) = a /\ Bdftl!None = None
      BY <1>1, <1>15, BdftlNames, Zenon
    <2>2. t = IF Bdftl!InOrder(h, v)
              THEN Bdftl!IssueWrite([Bdftl!Outdate(h, v) EXCEPT !.map.block_map[Bdftl!BlockOf(v)].nextPage = @ + 1],
                                    Bdftl!Linear(Bdftl!Pbn(h, v), Bdftl!PageOf(v)), Bdftl!None, v)
              ELSE LET y == Bdftl!GetFreeBiftlPage(
                                IF Bdftl!Converts(h, v) THEN Bdftl!Convert(h, Bdftl!BlockOf(v), now)
                                ELSE [h EXCEPT !.map.block_map[Bdftl!BlockOf(v)].optimal = FALSE])
                   IN Bdftl!MapTo(Bdftl!ResolveMapping(y.state, v, TRUE, now, tied), v, y.page)
      BY <1>8 DEF Bdftl!WriteResult
    <2>3. free = Bdftl!GetFreeBiftlPage(
                                IF Bdftl!Converts(h, v) THEN Bdftl!Convert(h, Bdftl!BlockOf(v), now)
                                ELSE [h EXCEPT !.map.block_map[Bdftl!BlockOf(v)].optimal = FALSE])
      BY <1>13, <1>14, <2>1, Zenon
    <2> QED BY <1>12, <2>1, <2>2, <2>3, Zenon
  <1>17. /\ Bdftl!InOrder(h, v) <=> InBlock(h, l) /\ InOrderOf(h, l) = PageOf(v)
         /\ Bdftl!Converts(h, v) <=> InBlock(h, l) /\ InOrderOf(h, l) # PageOf(v)
    BY <1>1, BdftlNames, Zenon
  <1>18. CASE InBlock(h, l) /\ InOrderOf(h, l) = PageOf(v)
    <2>1. t = Bdftl!IssueWrite(u, a, None, v)
      BY <1>16, <1>17, <1>18, Zenon
    <2>2. PICK x : x = Bdftl!Outdate(h, v)
      OBVIOUS
    <2>3. MakesRoom(h, v, l, x, u)
      BY <1>12, <2>2, Zenon DEF MakesRoom
    <2>4. Finishes(t, found \cup {v}, r) \/ (h.abort = "none" /\ t.abort = "page not empty" /\ Ahead(h, l))
      <3>1. WritesTo(h, v, l, u, a, t)
        BY <1>15, <2>1, Zenon DEF WritesTo
      <3>2. Goes(h, found, r) /\ l \in LBAs /\ l = BlockOf(v) /\ InBlock(h, l) /\ InOrderOf(h, l) = PageOf(v)
        BY <1>1, <1>9, <1>18, Zenon
      <3> QED BY <2>3, <3>1, <3>2, InOrderWritten, Zenon
    <2>5. ~turns
      BY <1>4, <1>11, <1>18
    <2>6. ASSUME h.abort = "none", t.abort = "page not empty", Ahead(h, l) PROVE AheadAbort(s, t.abort)
      <3>1. SameFlash(g, h) /\ h.map.block_map = g.map.block_map
        BY <1>9 DEF RestSet
      <3>2. InBlock(g, l) /\ PageAt(g, a) = "INVALID"
        BY <1>11, <1>15, <1>18, <2>6, <3>1 DEF Ahead, SameFlash, PageAt, Pbn
      <3>3. Pbn(g, l) \in BlocksOf(BdftlPlanes) /\ PageOf(v) \in Pages /\ Pbn(h, l) = Pbn(g, l)
        BY <1>4, <3>1, <3>2, BdftlFields, LogicalGeometry DEF Goes, InBlock, BlockSlots, Pbn
      <3>4. a \in AddressesOf(BdftlPlanes) /\ BlockOf(a) = Pbn(g, l)
        BY <1>15, <3>3, BdftlSizes, Geometry
      <3>5. g = s
        BY <1>4, <1>10, <2>6, <3>2, <3>4
      <3>6. Ahead(s, l)
        BY <2>6, <3>1, <3>5 DEF Ahead, SameFlash, PageAt, InBlock, InOrderOf, Optimal, Pbn
      <3> QED BY <2>6, <3>6 DEF AheadAbort
    <2> QED BY <2>4, <2>5, <2>6
  <1>19. CASE ~(InBlock(h, l) /\ InOrderOf(h, l) = PageOf(v))
    <2>1. h.abort = "none"
      BY <1>4, <1>10, <1>11, <1>19
    <2>2. Turns(h, moved, after, r, l)
      <3>1. CASE InBlock(h, l)
        <4>1. moved = Bdftl!Convert(h, l, now)
          BY <1>13, <1>17, <1>19, <3>1, Zenon
        <4>2. turns /\ after = {w \in found : BlockOf(w) # l}
          BY <1>1, <1>4, <1>11, <1>19, <3>1
        <4> QED BY <1>9, <2>1, <3>1, <4>1, <4>2, Converted
      <3>2. CASE ~InBlock(h, l)
        <4>1. moved = [h EXCEPT !.map.block_map[l].optimal = FALSE]
          BY <1>13, <1>17, <3>2, Zenon
        <4>2. after = found
          BY <1>4, <1>11, <3>2
        <4> QED BY <1>9, <2>1, <3>2, <4>1, <4>2, Turned
      <3> QED BY <3>1, <3>2
    <2>3. /\ Goes(moved, after, r) /\ moved.map.trim_map = h.map.trim_map /\ moved.abort = "none"
          /\ ~Optimal(moved, l)
      BY <2>2 DEF Turns
    <2>4. t = Bdftl!MapTo(Bdftl!ResolveMapping(free.state, v, TRUE, now, tied), v, free.page)
      BY <1>16, <1>17, <1>19, Zenon
    <2>5. moved.map.trim_map[v] = "no" /\ ~Optimal(moved, BlockOf(v))
      BY <1>1, <1>10, <2>3
    <2> QED BY <1>14, <2>3, <2>4, <2>5, PageWritten
  <1> QED BY <1>18, <1>19

\* A trim of a page in block mode: page a becomes invalid.
Blots(s, t, v, a) ==
    /\ t \in BdftlDrives /\ t.map = s.map /\ SameManager(s, t) /\ t.abort = s.abort
    /\ \A x \in AddressesOf(BdftlPlanes) : t.data[x] = IF s.data[x] = v THEN None ELSE s.data[x]
    /\ \A x \in AddressesOf(BdftlPlanes) : PageAt(t, x) = IF x = a THEN "INVALID" ELSE PageAt(s, x)
    /\ Fits(BdftlPlanes, s) => Fits(BdftlPlanes, t)

LEMMA Blotted ==
    ASSUME NEW s \in BdftlDrives, NEW v \in LogicalPages, NEW a \in AddressesOf(BdftlPlanes),
           NEW t, t = Bdftl!Outdate(Bdftl!PlaneReplace(s, a), v)
    PROVE  Blots(s, t, v, a)
  <1>1. PICK n \in Nat \ {0} : n = BdftlPlanes
    BY BdftlSizes
  <1>2. PICK M : M = BdftlMaps(n)
    OBVIOUS
  <1>3. PICK i : i = "BIMODAL"
    OBVIOUS
  <1>4. s \in Drives(n, M) /\ v \in Int /\ a \in AddressesOf(n)
    BY <1>1, <1>2, Sizes DEF BdftlDrives, LogicalPages
  <1>5. PICK u : u = Bdftl!PlaneReplace(s, a)
    OBVIOUS
  <1>6. u \in Drives(n, M) /\ Invalidates(n, s, u, a)
    <2>1. u = Chip(n, i, 1)!PlaneReplace(s, a)
      BY <1>1, <1>3, <1>5, BdftlChip, Zenon
    <2> QED BY <1>4, <2>1, Invalidated
  <1>7. t \in Drives(n, M) /\ Outdates(n, u, t, v)
    <2>1. t = Chip(n, i, 1)!Outdate(u, v)
      BY <1>1, <1>3, <1>5, BdftlChip, Zenon
    <2> QED BY <1>4, <1>6, <2>1, Outdated
  <1>8. t \in BdftlDrives
    BY <1>1, <1>2, <1>7 DEF BdftlDrives
  <1>9. t.map = s.map /\ SameManager(s, t) /\ t.abort = s.abort
    BY <1>6, <1>7 DEF Invalidates, Outdates, SameManager
  <1>10. \A x \in AddressesOf(n) : t.data[x] = IF s.data[x] = v THEN None ELSE s.data[x]
    BY <1>6, <1>7 DEF Invalidates, Outdates
  <1>11. SameBlocks(u, t)
    BY <1>7 DEF Outdates
  <1>12. \A x \in AddressesOf(n) : PageAt(t, x) = IF x = a THEN "INVALID" ELSE PageAt(s, x)
    BY <1>6, <1>11, SameFits DEF Invalidates
  <1>13. Fits(n, s) => Fits(n, t)
    BY <1>6, <1>11, SameFits DEF Invalidates
  <1> QED BY <1>1, <1>8, <1>9, <1>10, <1>12, <1>13 DEF Blots

\* Its block b is erased and given back, and logical block l has none.
Frees(s, t, l, b) ==
    /\ t \in BdftlDrives /\ SameMap(s.map, t.map) /\ t.map.currentDataPage = s.map.currentDataPage
    /\ t.map.trim_map = s.map.trim_map /\ t.map.inuseBlock = s.map.inuseBlock
    /\ t.map.blockQueue = s.map.blockQueue /\ BlockReads(s, t, l, None, 0, TRUE)
    /\ t.simpleCurrentFree = s.simpleCurrentFree /\ t.invalid_list = s.invalid_list
    /\ t.free_list = Append(s.free_list, b) /\ Sticky(s, t)
    /\ t.log_active = s.log_active /\ t.data_active = s.data_active - 1
    /\ t.abort = "none" => Erases(BdftlPlanes, s, t, b)

LEMMA Freed ==
    ASSUME NEW s \in BdftlDrives, NEW l \in LBAs, NEW b \in BlocksOf(BdftlPlanes),
           NEW u, u = [s EXCEPT !.map.block_map[l] = Bdftl!BPage],
           NEW t, t = Bdftl!EraseAndInvalidate(u, b, "DATA")
    PROVE  Frees(s, t, l, b)
  <1>1. PICK n \in Nat \ {0} : n = BdftlPlanes
    BY BdftlSizes
  <1>2. PICK M : M = BdftlMaps(n)
    OBVIOUS
  <1>3. PICK i, type : i = "BIMODAL" /\ type = "DATA"
    OBVIOUS
  <1>4. PICK e : e = Bdftl!BPage
    OBVIOUS
  <1>5. PICK yes \in BOOLEAN : yes = TRUE
    BY Zenon
  <1>6. IsBPage(e, None, 0, yes) /\ e \in BPages(BdftlPlanes)
    BY <1>4, <1>5, FreshEntry, Zenon DEF IsBPage
  <1>7. BlockSet(s, u, l, e)
    BY <1>4, <1>6, SetBlock
  <1>8. BlockReads(s, u, l, None, 0, yes)
    BY <1>6, <1>7, BlockRead, Zenon
  <1>9. u \in Drives(n, M) /\ b \in BlocksOf(n)
    BY <1>1, <1>2, <1>7 DEF BlockSet, BdftlDrives
  <1>10. t \in Drives(n, M) /\ Releases(n, u, t, b, type)
    <2>1. t = Chip(n, i, 1)!EraseAndInvalidate(u, b, type)
      BY <1>1, <1>3, BdftlChip, Zenon
    <2> QED BY <1>9, <2>1, Released
  <1>11. /\ SameFlash(s, u) /\ SameManager(s, u) /\ u.abort = s.abort /\ SameMap(s.map, u.map)
         /\ u.map.currentDataPage = s.map.currentDataPage
         /\ u.map.trim_map = s.map.trim_map /\ u.map.inuseBlock = s.map.inuseBlock
         /\ u.map.blockQueue = s.map.blockQueue
    BY <1>7 DEF BlockSet
  <1>12. /\ t.map = u.map /\ t.simpleCurrentFree = u.simpleCurrentFree /\ t.invalid_list = u.invalid_list
         /\ t.free_list = Append(u.free_list, b) /\ Sticky(u, t)
         /\ t.log_active = u.log_active /\ t.data_active = u.data_active - 1
         /\ t.abort = "none" => Erases(n, u, t, b)
    BY <1>3, <1>10 DEF Releases
  <1>13. Sticky(s, t)
    BY <1>11, <1>12 DEF Sticky
  <1>14. t.abort = "none" => Erases(n, s, t, b)
    <2>1. SameBlocks(s, u)
      BY <1>11 DEF SameFlash, SameBlocks
    <2>2. /\ \A x : PageAt(u, x) = PageAt(s, x)
          /\ \A c : Used(u, c) = Used(s, c)
          /\ Fits(n, s) => Fits(n, u)
      BY <2>1, SameFits
    <2>3. u.data = s.data
      BY <1>11 DEF SameFlash
    <2> QED BY <1>12, <2>2, <2>3 DEF Erases
  <1>15. BlockReads(s, t, l, None, 0, yes)
    <2>1. \A k : /\ Pbn(t, k) = Pbn(u, k) /\ InOrderOf(t, k) = InOrderOf(u, k) /\ Optimal(t, k) = Optimal(u, k)
      BY <1>12 DEF Pbn, InOrderOf, Optimal
    <2>2. \A k : InBlock(t, k) <=> InBlock(u, k)
      BY <2>1 DEF InBlock
    <2> QED BY <1>8, <2>1, <2>2 DEF BlockReads
  <1>16. BlockReads(s, t, l, None, 0, TRUE)
    BY <1>5, <1>15, Zenon
  <1>17. SameMap(s.map, t.map) /\ t \in BdftlDrives
    BY <1>1, <1>2, <1>10, <1>11, <1>12 DEF BdftlDrives
  <1> QED BY <1>1, <1>11, <1>12, <1>13, <1>14, <1>16, <1>17 DEF Frees, SameManager

LEMMA BlottedWhole ==
    ASSUME NEW s \in BdftlDrives, NEW found, BdftlWhole(s, found), OneMode(s), NEW v \in LogicalPages,
           NEW l \in LBAs, l = BlockOf(v), InBlock(s, l), NEW a, a = Linear(Pbn(s, l), PageOf(v)),
           NEW t, Blots(s, t, v, a)
    PROVE  BdftlWhole(t, found \ {v})
  <1>1. PICK n \in Nat \ {0} : n = BdftlPlanes
    BY BdftlSizes
  <1>2. PICK b \in BlocksOf(n) : b = Pbn(s, l)
    BY <1>1, BdftlFields DEF InBlock, BlockSlots
  <1>3. PageOf(v) \in Pages
    BY LogicalGeometry
  <1>4. a \in AddressesOf(n) /\ BlockOf(a) = b /\ PageOf(a) = PageOf(v)
    BY <1>2, <1>3, Geometry
  <1>5. /\ Stock(n, s) /\ s.log_active = 0 /\ Owners(s) /\ Contents(s)
        /\ \A w \in LogicalPages : w \in found => Finds(s, w)
    BY <1>1 DEF BdftlWhole
  <1>6. /\ t.map = s.map /\ SameManager(s, t)
        /\ \A x \in AddressesOf(n) : t.data[x] = IF s.data[x] = v THEN None ELSE s.data[x]
        /\ \A x \in AddressesOf(n) : PageAt(t, x) = IF x = a THEN "INVALID" ELSE PageAt(s, x)
    BY <1>1 DEF Blots
  <1>7. SameView(s, t)
    BY <1>6 DEF SameView, Ppn
  <1>8. /\ \A c : /\ Idle(t, c) <=> Idle(s, c)
                  /\ AtCurrent(t, c) <=> AtCurrent(s, c)
        /\ \A k : /\ Pbn(t, k) = Pbn(s, k) /\ InOrderOf(t, k) = InOrderOf(s, k)
                  /\ Optimal(t, k) = Optimal(s, k) /\ (InBlock(t, k) <=> InBlock(s, k))
        /\ t.map.currentDataPage = s.map.currentDataPage /\ Stock(n, t) /\ Owners(t)
    BY <1>5, <1>7, SameOwners
  <1>9. \A w : Ppn(t, w) = Ppn(s, w)
    BY <1>6 DEF Ppn
  <1>10. /\ \A x \in AddressesOf(n) : x # a => PageAt(t, x) = PageAt(s, x)
         /\ ~Idle(s, BlockOf(a)) /\ ~AtCurrent(s, BlockOf(a))
    BY <1>2, <1>4, <1>5, <1>6 DEF Owners
  <1>11. \A w \in LogicalPages : Ppn(s, w) # None =>
            /\ Ppn(s, w) \in AddressesOf(n) /\ PageAt(s, Ppn(s, w)) = "VALID" /\ s.data[Ppn(s, w)] = w
            /\ \A k \in LBAs : InBlock(s, k) => Pbn(s, k) # BlockOf(Ppn(s, w))
    BY <1>1, <1>5, BdftlFields DEF Contents, Slots
  <1>12. Ppn(s, v) = None
    BY DEF OneMode, InBlock
  <1>13. Contents(t)
    <2>1. \A x \in AddressesOf(n) : Idle(t, BlockOf(x)) => PageAt(t, x) = "EMPTY"
      BY <1>1, <1>5, <1>8, <1>10 DEF Contents
    <2>2. \A x \in AddressesOf(n) :
           AtCurrent(t, BlockOf(x)) /\ PageOf(x) > PageOf(t.map.currentDataPage) => PageAt(t, x) = "EMPTY"
      BY <1>1, <1>5, <1>8, <1>10 DEF Contents
    <2>3. \A k \in LBAs, x \in AddressesOf(n) :
           InBlock(t, k) /\ BlockOf(x) = Pbn(t, k) /\ PageOf(x) >= InOrderOf(t, k)
               => PageAt(t, x) \in {"EMPTY", "INVALID"}
      BY <1>1, <1>5, <1>6, <1>8 DEF Contents
    <2>4. ASSUME NEW w \in LogicalPages, Ppn(t, w) # None
          PROVE  /\ PageAt(t, Ppn(t, w)) = "VALID" /\ t.data[Ppn(t, w)] = w
                 /\ \A k \in LBAs : InBlock(t, k) => Pbn(t, k) # BlockOf(Ppn(t, w))
      <3>1. PICK x \in AddressesOf(n) : x = Ppn(t, w) /\ x = Ppn(s, w)
        BY <1>9, <1>11, <2>4
      <3>2. PageAt(s, x) = "VALID" /\ s.data[x] = w /\ \A k \in LBAs : InBlock(s, k) => Pbn(s, k) # BlockOf(x)
        BY <1>9, <1>11, <2>4, <3>1
      <3>3. x # a /\ w # v
        BY <1>2, <1>4, <1>9, <1>12, <2>4, <3>2
      <3> QED BY <1>6, <1>8, <3>1, <3>2, <3>3
    <2> QED BY <1>1, <2>1, <2>2, <2>3, <2>4 DEF Contents
  <1>14. ASSUME NEW w \in LogicalPages, w \in found \ {v} PROVE Finds(t, w)
    <2>1. PICK k \in LBAs : k = BlockOf(w) /\ PageOf(w) \in Pages /\ w = Linear(k, PageOf(w))
      BY LogicalGeometry DEF LBAs
    <2>2. Finds(s, w) /\ w # v
      BY <1>5, <1>14
    <2>3. CASE ~Optimal(s, k)
      BY <1>8, <1>9, <2>1, <2>2, <2>3 DEF Finds
    <2>4. CASE Optimal(s, k)
      <3>1. PICK x : x = Linear(Pbn(s, k), PageOf(w))
        OBVIOUS
      <3>2. InBlock(s, k) /\ PageAt(s, x) = "VALID" /\ s.data[x] = w
        BY <2>1, <2>2, <2>4, <3>1 DEF Finds, InBlock
      <3>3. Pbn(s, k) \in BlocksOf(n)
        BY <1>1, <3>2, BdftlFields DEF BlockSlots, InBlock
      <3>4. x \in AddressesOf(n) /\ BlockOf(x) = Pbn(s, k) /\ PageOf(x) = PageOf(w)
        BY <2>1, <3>1, <3>3, Geometry
      <3>5. x # a
        <4>1. SUFFICES ASSUME x = a PROVE FALSE
          OBVIOUS
        <4>2. Pbn(s, k) = Pbn(s, l) /\ PageOf(w) = PageOf(v)
          BY <1>2, <1>4, <3>4, <4>1
        <4>3. k = l
          BY <1>5, <3>2, <4>2 DEF Owners
        <4>4. v = Linear(l, PageOf(v))
          BY LogicalGeometry
        <4> QED BY <2>1, <2>2, <4>2, <4>3, <4>4
      <3>6. PageAt(t, x) = "VALID" /\ t.data[x] = w
        BY <1>6, <2>2, <3>2, <3>4, <3>5
      <3>7. Optimal(t, k) /\ Pbn(t, k) = Pbn(s, k) /\ Pbn(s, k) # None
        BY <1>8, <3>2 DEF InBlock
      <3> QED BY <2>1, <3>1, <3>6, <3>7 DEF Finds
    <2> QED BY <2>3, <2>4
  <1>15. t.log_active = 0
    BY <1>5, <1>6 DEF SameManager
  <1> QED BY <1>1, <1>8, <1>13, <1>14, <1>15 DEF BdftlWhole

LEMMA FreedWhole ==
    ASSUME NEW s \in BdftlDrives, NEW found, BdftlWhole(s, found), NEW l \in LBAs, InBlock(s, l),
           NEW b, b = Pbn(s, l), \A x \in AddressesOf(BdftlPlanes) : BlockOf(x) = b => PageAt(s, x) = "INVALID",
           NEW t, Frees(s, t, l, b), t.abort = "none"
    PROVE  BdftlWhole(t, found)
  <1>1. PICK n \in Nat \ {0} : n = BdftlPlanes
    BY BdftlSizes
  <1>2. PICK M : M = BdftlMaps(n)
    OBVIOUS
  <1>3. b \in BlocksOf(n)
    BY <1>1, BdftlFields DEF InBlock, BlockSlots
  <1>4. /\ Stock(n, s) /\ s.log_active = 0 /\ Owners(s) /\ Contents(s)
        /\ \A w \in LogicalPages : w \in found => Finds(s, w)
    BY <1>1 DEF BdftlWhole
  <1>5. /\ t \in BdftlDrives /\ SameMap(s.map, t.map) /\ t.map.currentDataPage = s.map.currentDataPage
        /\ t.map.inuseBlock = s.map.inuseBlock /\ t.map.blockQueue = s.map.blockQueue
        /\ t.simpleCurrentFree = s.simpleCurrentFree /\ t.invalid_list = s.invalid_list
        /\ t.free_list = Append(s.free_list, b) /\ t.log_active = s.log_active
        /\ t.data_active = s.data_active - 1
    BY DEF Frees
  <1>6. /\ Pbn(t, l) = None /\ InOrderOf(t, l) = 0 /\ Optimal(t, l)
        /\ \A k \in LBAs : k # l =>
              /\ Pbn(t, k) = Pbn(s, k) /\ InOrderOf(t, k) = InOrderOf(s, k)
              /\ Optimal(t, k) = Optimal(s, k) /\ (InBlock(t, k) <=> InBlock(s, k))
    BY DEF Frees, BlockReads
  <1>7. ~InBlock(t, l)
    BY <1>6 DEF InBlock
  <1>8. /\ \A x \in AddressesOf(n) : PageAt(t, x) = IF BlockOf(x) = b THEN "EMPTY" ELSE PageAt(s, x)
        /\ \A x \in AddressesOf(n) : t.data[x] = IF BlockOf(x) = b THEN None ELSE s.data[x]
    BY <1>1 DEF Frees, Erases
  <1>9. ~Idle(s, b) /\ ~AtCurrent(s, b) /\ ~Spare(s, b) /\ \A k \in LBAs : InBlock(s, k) /\ Pbn(s, k) = b => k = l
    BY <1>4 DEF Owners
  <1>10. Stock(n, t) /\ \A c \in BlocksOf(n) : Idle(t, c) <=> Idle(s, c) \/ c = b
    <2>1. t.log_active + t.data_active = s.log_active + s.data_active - 1
      <3>1. s.data_active \in Int /\ s.log_active \in Int
        BY DEF BdftlDrives, Drives
      <3> QED BY <1>5, <3>1
    <2>2. s \in Drives(n, M) /\ t \in Drives(n, M)
      BY <1>1, <1>2, <1>5 DEF BdftlDrives
    <2> QED BY <1>3, <1>4, <1>5, <1>9, <2>1, <2>2, Returned
  <1>11. \A c : (Spare(t, c) <=> Spare(s, c)) /\ (AtCurrent(t, c) <=> AtCurrent(s, c))
    BY <1>5 DEF Spare, AtCurrent
  <1>12. \A w : Ppn(t, w) = Ppn(s, w)
    BY <1>5 DEF Ppn, SameMap
  <1>13. \A k \in LBAs : InBlock(t, k) => /\ k # l /\ InBlock(s, k) /\ Pbn(t, k) = Pbn(s, k)
                                          /\ Pbn(s, k) # b /\ Pbn(s, k) \in BlocksOf(n)
                                          /\ InOrderOf(t, k) = InOrderOf(s, k)
    <2>1. \A k \in LBAs : InBlock(s, k) => Pbn(s, k) \in BlocksOf(n)
      BY <1>1, BdftlFields DEF InBlock, BlockSlots
    <2> QED BY <1>6, <1>7, <1>9, <2>1
  <1>14. Owners(t)
    <2>1. \A c \in BlocksOf(n) : Spare(t, c) => ~Idle(t, c) /\ ~AtCurrent(t, c)
      BY <1>1, <1>4, <1>9, <1>10, <1>11 DEF Owners
    <2>2. \A c \in BlocksOf(n) : AtCurrent(t, c) => ~Idle(t, c)
      BY <1>1, <1>4, <1>9, <1>10, <1>11 DEF Owners
    <2>3. \A k \in LBAs : InBlock(t, k) =>
             ~Idle(t, Pbn(t, k)) /\ ~AtCurrent(t, Pbn(t, k)) /\ ~Spare(t, Pbn(t, k))
      BY <1>4, <1>10, <1>11, <1>13 DEF Owners
    <2>4. \A k, h \in LBAs : InBlock(t, k) /\ InBlock(t, h) /\ Pbn(t, k) = Pbn(t, h) => k = h
      BY <1>4, <1>13 DEF Owners
    <2>5. \A k \in LBAs : Optimal(t, k) /\ Pbn(t, k) = None => InOrderOf(t, k) = 0
      BY <1>4, <1>6 DEF Owners
    <2> QED BY <1>1, <2>1, <2>2, <2>3, <2>4, <2>5 DEF Owners
  <1>15. \A x \in AddressesOf(n) : BlockOf(x) \in BlocksOf(n)
    BY Geometry
  <1>16. \A x \in AddressesOf(n) : PageAt(s, x) = "EMPTY" => PageAt(t, x) = "EMPTY"
    BY <1>8
  <1>17. Contents(t)
    <2>1. \A x \in AddressesOf(n) : Idle(t, BlockOf(x)) => PageAt(t, x) = "EMPTY"
      BY <1>1, <1>4, <1>8, <1>10, <1>15, <1>16 DEF Contents
    <2>2. \A x \in AddressesOf(n) :
           AtCurrent(t, BlockOf(x)) /\ PageOf(x) > PageOf(t.map.currentDataPage) => PageAt(t, x) = "EMPTY"
      BY <1>1, <1>4, <1>5, <1>11, <1>16 DEF Contents
    <2>3. \A k \in LBAs, x \in AddressesOf(n) :
           InBlock(t, k) /\ BlockOf(x) = Pbn(t, k) /\ PageOf(x) >= InOrderOf(t, k)
               => PageAt(t, x) \in {"EMPTY", "INVALID"}
      BY <1>1, <1>4, <1>8, <1>13 DEF Contents
    <2>4. ASSUME NEW w \in LogicalPages, Ppn(t, w) # None
          PROVE  /\ PageAt(t, Ppn(t, w)) = "VALID" /\ t.data[Ppn(t, w)] = w
                 /\ \A k \in LBAs : InBlock(t, k) => Pbn(t, k) # BlockOf(Ppn(t, w))
      <3>1. PICK x : x = Ppn(t, w) /\ x = Ppn(s, w)
        BY <1>12
      <3>2. x \in AddressesOf(n) /\ x # None
        BY <1>1, <1>12, <2>4, <3>1, BdftlFields DEF Slots
      <3>3. PageAt(s, x) = "VALID" /\ s.data[x] = w /\ \A k \in LBAs : InBlock(s, k) => Pbn(s, k) # BlockOf(x)
        BY <1>4, <3>1, <3>2 DEF Contents
      <3>4. BlockOf(x) # b
        BY <3>3
      <3> QED BY <1>8, <1>13, <3>1, <3>2, <3>3, <3>4
    <2> QED BY <1>1, <2>1, <2>2, <2>3, <2>4 DEF Contents
  <1>18. ASSUME NEW w \in LogicalPages, w \in found PROVE Finds(t, w)
    <2>1. PICK k \in LBAs : k = BlockOf(w) /\ PageOf(w) \in Pages
      BY LogicalGeometry DEF LBAs
    <2>2. Finds(s, w)
      BY <1>4, <1>18
    <2>3. k # l
      <3>1. SUFFICES ASSUME k = l PROVE FALSE
        OBVIOUS
      <3>2. PICK x : x = Linear(b, PageOf(w))
        OBVIOUS
      <3>3. x \in AddressesOf(n) /\ BlockOf(x) = b
        BY <1>3, <2>1, <3>2, Geometry
      <3>4. PageAt(s, x) = "VALID"
        BY <2>1, <2>2, <3>1, <3>2 DEF Finds, InBlock
      <3> QED BY <1>1, <3>3, <3>4
    <2>4. CASE ~Optimal(s, k)
      BY <1>6, <1>12, <2>1, <2>2, <2>3, <2>4 DEF Finds
    <2>5. CASE Optimal(s, k)
      <3>1. PICK x : x = Linear(Pbn(s, k), PageOf(w))
        OBVIOUS
      <3>2. InBlock(s, k) /\ PageAt(s, x) = "VALID" /\ s.data[x] = w
        BY <2>1, <2>2, <2>5, <3>1 DEF Finds, InBlock
      <3>3. InBlock(t, k) /\ Pbn(t, k) = Pbn(s, k) /\ Pbn(s, k) # b /\ Pbn(s, k) \in BlocksOf(n)
        BY <1>6, <1>13, <2>3, <3>2
      <3>4. x \in AddressesOf(n) /\ BlockOf(x) # b
        BY <2>1, <3>1, <3>3, Geometry
      <3>5. PageAt(t, x) = "VALID" /\ t.data[x] = w
        BY <1>8, <3>2, <3>4
      <3>6. Optimal(t, k) /\ Pbn(t, k) # None
        BY <3>3 DEF InBlock
      <3> QED BY <2>1, <3>1, <3>3, <3>5, <3>6 DEF Finds
    <2> QED BY <2>4, <2>5
  <1> QED BY <1>1, <1>4, <1>5, <1>10, <1>14, <1>17, <1>18 DEF BdftlWhole

\* A request ends with the drive intact, whatever the pages hold.
Closes(t, r) ==
    /\ t.abort \in Harmless
    /\ t.abort = "none" => /\ BdftlDrive(t) /\ t.map.requests = r + 1
                           /\ TableOk(t.map, BdftlEntries)

LEMMA BlottedDrive ==
    ASSUME NEW s, BdftlDrive(s), NEW v, NEW a, NEW t, Blots(s, t, v, a)
    PROVE  BdftlDrive(t)
  <1>1. /\ t \in BdftlDrives /\ t.map = s.map /\ SameManager(s, t) /\ Fits(BdftlPlanes, t)
        /\ \A x \in AddressesOf(BdftlPlanes) : t.data[x] = IF s.data[x] = v THEN None ELSE s.data[x]
    BY DEF Blots, BdftlDrive
  <1>2. Bounded(BdftlPlanes, t)
    BY <1>1 DEF Bounded, BdftlDrive, SameManager
  <1>3. OneMode(t)
    BY <1>1 DEF OneMode, BdftlDrive, Ppn, Optimal
  <1> QED BY <1>1, <1>2, <1>3 DEF BdftlDrive, BdftlDrives

LEMMA FreedDrive ==
    ASSUME NEW s, BdftlDrive(s), NEW l \in LBAs, Optimal(s, l), NEW b, NEW t, Frees(s, t, l, b), t.abort = "none"
    PROVE  BdftlDrive(t)
  <1>1. /\ t \in BdftlDrives /\ SameMap(s.map, t.map) /\ t.map.trim_map = s.map.trim_map
        /\ t.simpleCurrentFree = s.simpleCurrentFree
        /\ t.log_active = s.log_active /\ t.data_active = s.data_active - 1
        /\ Optimal(t, l) /\ \A k \in LBAs : k # l => Optimal(t, k) = Optimal(s, k)
    BY DEF Frees, BlockReads
  <1>2. /\ \A x \in AddressesOf(BdftlPlanes) : t.data[x] = IF BlockOf(x) = b THEN None ELSE s.data[x]
        /\ Fits(BdftlPlanes, t)
    BY DEF Frees, Erases, BdftlDrive
  <1>3. Bounded(BdftlPlanes, t)
    <2>1. s.data_active \in Int /\ PlaneSize * BdftlPlanes \in Int
      <3>1. PlaneSize * BdftlPlanes \in Nat
        BY BdftlSizes, Geometry
      <3> QED BY <3>1 DEF BdftlDrive, Drives
    <2>2. Bounded(BdftlPlanes, s)
      BY DEF BdftlDrive
    <2>3. \A x \in AddressesOf(BdftlPlanes) : t.data[x] \in LogicalPages \cup {None}
      BY <1>2, <2>2 DEF Bounded
    <2> QED BY <1>1, <2>1, <2>2, <2>3 DEF Bounded
  <1>4. OneMode(t)
    <2>1. \A k \in LBAs : Optimal(t, k) => Optimal(s, k)
      BY <1>1
    <2>2. \A w \in LogicalPages : BlockOf(w) \in LBAs
      BY LogicalGeometry DEF LBAs
    <2> QED BY <1>1, <2>1, <2>2 DEF OneMode, BdftlDrive, Ppn, SameMap
  <1> QED BY <1>1, <1>2, <1>3, <1>4 DEF BdftlDrive, BdftlDrives

\* FtlImpl_BDftl::trim of a page in a block in block mode.  The page is
\* gone, or trimmed ahead; without a block the trim spoils a page of whoever has it.
LEMMA BlockTrimmed ==
    ASSUME NEW s, NEW found, NEW r, Goes(s, found, r), s.abort = "none", NEW v \in LogicalPages,
           NEW l \in LBAs, l = BlockOf(v), Optimal(s, l), NEW t, t = Bdftl!TrimOptimal(s, v)
    PROVE  /\ Closes(t, r)
           /\ InBlock(s, l) /\ t.abort = "none" => BdftlWhole(t, found \ {v})
  <1>1. PICK n \in Nat \ {0} : n = BdftlPlanes
    BY BdftlSizes
  <1>2. /\ s \in BdftlDrives /\ BdftlDrive(s) /\ BdftlWhole(s, found) /\ r \in Nat
        /\ s.map.requests = r + 1 /\ TableOk(s.map, BdftlEntries) /\ OneMode(s)
    BY DEF Goes, BdftlDrive
  <1>3. PICK a : a = IF Pbn(s, l) = None THEN (PageOf(v) - 1) % (PlaneSize * n * BlockSize)
                     ELSE Linear(Pbn(s, l), PageOf(v))
    OBVIOUS
  <1>4. PageOf(v) \in Pages
    BY LogicalGeometry
  <1>5. a \in AddressesOf(n)
    <2>1. CASE Pbn(s, l) = None
      <3>1. PICK k \in Nat \ {0} : k = PlaneSize * n * BlockSize
        <4>1. PICK c \in Nat \ {0}, d \in Nat \ {0} : c = PlaneSize * n /\ d = BlockSize
          BY Geometry, Sizes
        <4>2. c * d \in Nat \ {0}
          BY <4>1
        <4> QED BY <4>1, <4>2
      <3>2. PageOf(v) - 1 \in Int
        BY <1>4, Sizes DEF Pages
      <3>3. (PageOf(v) - 1) % k \in 0 .. k - 1
        BY <3>1, <3>2
      <3>4. AddressesOf(n) = 0 .. k - 1
        BY <3>1 DEF AddressesOf
      <3> QED BY <1>3, <2>1, <3>1, <3>3, <3>4
    <2>2. CASE Pbn(s, l) # None
      <3>1. Pbn(s, l) \in BlocksOf(n)
        BY <1>1, <1>2, <2>2, BdftlFields DEF BlockSlots
      <3> QED BY <1>3, <1>4, <2>2, <3>1, Geometry
    <2> QED BY <2>1, <2>2
  <1>6. PICK i : i = Bdftl!Outdate(Bdftl!PlaneReplace(s, a), v)
    OBVIOUS
  <1>7. Blots(s, i, v, a)
    BY <1>1, <1>2, <1>5, <1>6, Blotted
  <1>8. PICK b : b = BlockOf(a)
    OBVIOUS
  <1>9. PICK u : u = [i EXCEPT !.map.block_map[l] = Bdftl!BPage]
    OBVIOUS
  <1>10. t = IF i.block[b].state = "INACTIVE" THEN Bdftl!EraseAndInvalidate(u, b, "DATA") ELSE i
    <2>1. Bdftl!BlockOf(v) = l /\ Bdftl!BlockOf(a) = b
      BY <1>8, BdftlNames, Zenon
    <2>2. a = IF Bdftl!Pbn(s, v) = Bdftl!None
              THEN (Bdftl!PageOf(v) - 1) % (Bdftl!NumBlocks * BlockSize)
              ELSE Bdftl!Linear(Bdftl!Pbn(s, v), Bdftl!PageOf(v))
      <3>1. Bdftl!NumBlocks = PlaneSize * n
        BY <1>1, Zenon DEF Bdftl!NumBlocks
      <3> QED BY <1>3, <3>1, BdftlNames, Zenon
    <2> QED BY <1>6, <1>9, <2>1, <2>2, Zenon DEF Bdftl!TrimOptimal
  <1>11. /\ i \in BdftlDrives /\ BdftlDrive(i) /\ i.map = s.map /\ i.abort = "none" /\ Fits(n, i)
         /\ (InBlock(i, l) <=> InBlock(s, l)) /\ Optimal(i, l) /\ Pbn(i, l) = Pbn(s, l)
    <2>1. BdftlDrive(i)
      BY <1>2, <1>7, BlottedDrive
    <2> QED BY <1>1, <1>7, <2>1 DEF Blots, BdftlDrive, InBlock, Optimal, Pbn
  <1>12. b \in BlocksOf(n)
    BY <1>5, <1>8, Geometry
  <1>13. ASSUME NEW x, x.trans_map = s.map.trans_map, x.cmt = s.map.cmt, x.gtd = s.map.gtd,
                x.overlooked = s.map.overlooked
         PROVE  TableOk(x, BdftlEntries)
    BY <1>2, <1>13, SameTable
  <1>14. ASSUME InBlock(s, l)
         PROVE  BdftlWhole(i, found \ {v}) /\ b = Pbn(s, l)
    <2>1. a = Linear(Pbn(s, l), PageOf(v))
      BY <1>3, <1>14 DEF InBlock
    <2>2. BdftlWhole(i, found \ {v})
      BY <1>2, <1>7, <1>14, <2>1, BlottedWhole
    <2>3. Pbn(s, l) \in BlocksOf(n)
      BY <1>1, <1>2, <1>14, BdftlFields DEF BlockSlots, InBlock
    <2> QED BY <1>4, <1>8, <2>1, <2>2, <2>3, Geometry
  <1>15. CASE i.block[b].state = "INACTIVE"
    <2>1. t = Bdftl!EraseAndInvalidate(u, b, "DATA")
      BY <1>10, <1>15, Zenon
    <2>2. Frees(i, t, l, b)
      BY <1>1, <1>9, <1>11, <1>12, <2>1, Freed
    <2>3. t.abort \in Harmless /\ SameMap(s.map, t.map)
      BY <1>11, <2>2 DEF Frees, Sticky
    <2>4. TableOk(t.map, BdftlEntries) /\ t.map.requests = r + 1
      BY <1>2, <1>13, <2>3 DEF SameMap
    <2>5. t.abort = "none" => BdftlDrive(t)
      BY <1>11, <2>2, FreedDrive
    <2>6. ASSUME InBlock(s, l), t.abort = "none"
          PROVE  BdftlWhole(t, found \ {v})
      <3>1. BdftlWhole(i, found \ {v}) /\ b = Pbn(i, l) /\ InBlock(i, l)
        BY <1>11, <1>14, <2>6
      <3>2. ASSUME NEW x \in AddressesOf(n), BlockOf(x) = b PROVE PageAt(i, x) = "INVALID"
        <4>1. BlockFits(i.block[b]) /\ PageOf(x) \in Pages
          BY <1>11, <1>12, Geometry DEF Fits
        <4>2. \A p \in Pages : i.block[b].page[p] = "INVALID"
          BY <1>15, <4>1 DEF BlockFits
        <4> QED BY <3>2, <4>1, <4>2 DEF PageAt
      <3> QED BY <1>1, <1>11, <2>2, <2>6, <3>1, <3>2, FreedWhole
    <2> QED BY <2>3, <2>4, <2>5, <2>6 DEF Closes
  <1>16. CASE i.block[b].state # "INACTIVE"
    <2>1. t = i
      BY <1>10, <1>16, Zenon
    <2>2. TableOk(i.map, BdftlEntries)
      BY <1>11, <1>13
    <2>3. Closes(i, r)
      BY <1>2, <1>11, <2>2 DEF Closes, Harmless
    <2> QED BY <1>14, <2>1, <2>3
  <1> QED BY <1>15, <1>16

\* A trim of a page of the page map: it is noted, the entry leads nowhere, and
\* the trim map is read.
Forgets(s, t, found, r, v, known) ==
    /\ Goes(t, found \ {v}, r) /\ t.abort = "none" /\ t.map.trim_map = known
    /\ \A k : /\ Optimal(t, k) = Optimal(s, k) /\ Pbn(t, k) = Pbn(s, k)
              /\ InOrderOf(t, k) = InOrderOf(s, k) /\ (InBlock(t, k) <=> InBlock(s, k))

\* What the table and the drive hold once an entry leads nowhere.
PageUnmaps(n, M, s, noted, x, v, total) ==
    /\ x \in Drives(n, M) /\ SameManager(noted, x) /\ SameTables(M, n, noted.map, x.map) /\ x.abort = "none"
    /\ TableOk(x.map, total)
    /\ \A a \in AddressesOf(n) : PageAt(x, a) = IF a = Ppn(s, v) THEN "INVALID" ELSE PageAt(s, a)
    /\ \A a \in AddressesOf(n) : x.data[a] \in {s.data[a], None} /\ (s.data[a] # v => x.data[a] = s.data[a])
    /\ \A w \in LogicalPages : Ppn(x, w) = IF w = v THEN None ELSE Ppn(s, w)
    /\ Fits(n, s) => Fits(n, x)

LEMMA PageUnmapped ==
    ASSUME NEW n, NEW M, NEW s, NEW noted, NEW x, NEW v, NEW total,
           Unmaps(n, M, noted, x, v, total), SameFlash(s, noted), noted.abort = "none",
           noted.map.trans_map = s.map.trans_map
    PROVE  PageUnmaps(n, M, s, noted, x, v, total)
  <1>1. /\ \A a : PageAt(noted, a) = PageAt(s, a)
        /\ Fits(n, s) => Fits(n, noted)
    BY SameFits DEF SameFlash, SameBlocks
  <1>2. noted.data = s.data
    BY DEF SameFlash
  <1> QED BY <1>1, <1>2 DEF Unmaps, Leads, Ppn, PageUnmaps

\* The entry of v leads nowhere, and nothing else has changed but the trim map.
Detaches(s, t, r, v, known) ==
    /\ t \in BdftlDrives /\ SameManager(s, t) /\ t.abort = "none" /\ t.map.trim_map = known
    /\ t.map.requests = r + 1 /\ t.map.block_map = s.map.block_map /\ t.map.inuseBlock = s.map.inuseBlock
    /\ t.map.blockQueue = s.map.blockQueue /\ t.map.currentDataPage = s.map.currentDataPage
    /\ TableOk(t.map, BdftlEntries)
    /\ \A a \in AddressesOf(BdftlPlanes) :
           PageAt(t, a) = IF a = Ppn(s, v) THEN "INVALID" ELSE PageAt(s, a)
    /\ \A a \in AddressesOf(BdftlPlanes) :
           t.data[a] \in {s.data[a], None} /\ (s.data[a] # v => t.data[a] = s.data[a])
    /\ \A w \in LogicalPages : Ppn(t, w) = IF w = v THEN None ELSE Ppn(s, w)
    /\ Fits(BdftlPlanes, s) => Fits(BdftlPlanes, t)

\* The table as the request left it, with what it knows of the block's trims.
LEMMA Detached ==
    ASSUME NEW n, n = BdftlPlanes, NEW M, M = BdftlMaps(n), NEW s, NEW noted, NEW x, NEW t, NEW v, NEW r, NEW known,
           PageUnmaps(n, M, s, noted, x, v, BdftlEntries), SameManager(s, noted),
           noted.map.requests = r + 1, noted.map.currentDataPage = s.map.currentDataPage,
           noted.map.block_map = s.map.block_map, noted.map.inuseBlock = s.map.inuseBlock,
           noted.map.blockQueue = s.map.blockQueue,
           RestSet(x, t, x.map.block_map, known, x.map.inuseBlock, x.map.blockQueue)
    PROVE  Detaches(s, t, r, v, known)
  <1>1. /\ t \in BdftlDrives /\ t.abort = "none" /\ t.map.trim_map = known
        /\ SameFlash(x, t) /\ SameManager(x, t) /\ SameMap(x.map, t.map)
    BY DEF RestSet, PageUnmaps, SameMap
  <1>2. SameManager(s, t)
    BY <1>1 DEF PageUnmaps, SameManager
  <1>3. /\ t.map.requests = r + 1 /\ t.map.block_map = s.map.block_map /\ t.map.inuseBlock = s.map.inuseBlock
        /\ t.map.blockQueue = s.map.blockQueue /\ t.map.currentDataPage = s.map.currentDataPage
    BY <1>1 DEF RestSet, PageUnmaps, SameTables, SameRest, SameMap
  <1>4. TableOk(t.map, BdftlEntries)
    BY <1>1, SameTable DEF SameMap, PageUnmaps
  <1>5. /\ \A a : PageAt(t, a) = PageAt(x, a)
        /\ t.data = x.data
        /\ Fits(n, x) => Fits(n, t)
    BY <1>1, SameFits DEF SameFlash, SameBlocks
  <1>6. \A w : Ppn(t, w) = Ppn(x, w)
    BY <1>1 DEF SameMap, Ppn
  <1>7. /\ \A a \in AddressesOf(n) : PageAt(x, a) = IF a = Ppn(s, v) THEN "INVALID" ELSE PageAt(s, a)
        /\ \A a \in AddressesOf(n) : x.data[a] \in {s.data[a], None} /\ (s.data[a] # v => x.data[a] = s.data[a])
        /\ \A w \in LogicalPages : Ppn(x, w) = IF w = v THEN None ELSE Ppn(s, w)
        /\ Fits(n, s) => Fits(n, x)
    BY DEF PageUnmaps
  <1> QED BY <1>1, <1>2, <1>3, <1>4, <1>5, <1>6, <1>7 DEF Detaches

LEMMA DetachedForgets ==
    ASSUME NEW s, NEW found, NEW r, Goes(s, found, r), s.abort = "none", NEW v \in LogicalPages,
           ~Optimal(s, BlockOf(v)), NEW known \in [LogicalPages -> TrimStates],
           \A w \in LogicalPages : known[w] # "no" => w = v \/ s.map.trim_map[w] # "no",
           NEW t, Detaches(s, t, r, v, known)
    PROVE  Forgets(s, t, found, r, v, known)
  <1>1. PICK n \in Nat \ {0} : n = BdftlPlanes
    BY BdftlSizes
  <1>2. /\ s \in BdftlDrives /\ BdftlDrive(s) /\ BdftlWhole(s, found) /\ r \in Nat /\ r + 1 \in Nat
        /\ s.map.requests = r + 1 /\ TableOk(s.map, BdftlEntries) /\ OneMode(s)
        /\ s.invalid_list = << >>
    BY DEF Goes, BdftlDrive
  <1>3. /\ t \in BdftlDrives /\ SameManager(s, t) /\ t.abort = "none" /\ t.map.trim_map = known
        /\ t.map.requests = r + 1 /\ t.invalid_list = << >>
        /\ t.map.block_map = s.map.block_map /\ t.map.inuseBlock = s.map.inuseBlock
        /\ t.map.blockQueue = s.map.blockQueue /\ t.map.currentDataPage = s.map.currentDataPage
        /\ TableOk(t.map, BdftlEntries)
    BY <1>2 DEF Detaches, SameManager
  <1>4. /\ \A a \in AddressesOf(n) : PageAt(t, a) = IF a = Ppn(s, v) THEN "INVALID" ELSE PageAt(s, a)
        /\ \A a \in AddressesOf(n) : t.data[a] \in {s.data[a], None} /\ (s.data[a] # v => t.data[a] = s.data[a])
        /\ \A w \in LogicalPages : Ppn(t, w) = IF w = v THEN None ELSE Ppn(s, w)
        /\ Fits(n, t)
    BY <1>1, <1>2 DEF Detaches, BdftlDrive
  <1>5. /\ \A k : /\ Optimal(t, k) = Optimal(s, k) /\ Pbn(t, k) = Pbn(s, k)
                  /\ InOrderOf(t, k) = InOrderOf(s, k) /\ (InBlock(t, k) <=> InBlock(s, k))
        /\ \A b : (Spare(t, b) <=> Spare(s, b)) /\ (AtCurrent(t, b) <=> AtCurrent(s, b))
    BY <1>3 DEF Pbn, InOrderOf, Optimal, InBlock, Spare, AtCurrent
  <1>6. Stock(n, s) /\ s.log_active = 0 /\ Owners(s) /\ Contents(s) /\ \A w \in LogicalPages : w \in found => Finds(s, w)
    BY <1>1, <1>2 DEF BdftlWhole
  <1>7. Stock(n, t) /\ t.log_active = 0 /\ \A b : Idle(t, b) <=> Idle(s, b)
    <2>1. SameManager(s, t)
      BY <1>3
    <2>2. (\A b : Idle(t, b) <=> Idle(s, b)) /\ (Stock(n, s) => Stock(n, t))
      BY <2>1, SameStock
    <2>3. t.log_active = s.log_active
      BY <2>1 DEF SameManager
    <2> QED BY <1>6, <2>2, <2>3
  <1>8. Owners(t)
    BY <1>5, <1>6, <1>7 DEF Owners
  <1>9. \A w \in LogicalPages : Ppn(s, w) # None =>
            /\ Ppn(s, w) \in AddressesOf(n) /\ PageAt(s, Ppn(s, w)) = "VALID" /\ s.data[Ppn(s, w)] = w
            /\ \A k \in LBAs : InBlock(s, k) => Pbn(s, k) # BlockOf(Ppn(s, w))
    BY <1>1, <1>2, <1>6, BdftlFields DEF Contents, Slots
  <1>10. \A a \in AddressesOf(n) : a # None
    BY Geometry DEF AddressesOf, None
  <1>11. \A a \in AddressesOf(n) : PageAt(s, a) = "EMPTY" => PageAt(t, a) = "EMPTY"
    BY <1>4, <1>9, <1>10
  <1>12. Contents(t)
    <2>1. \A a \in AddressesOf(BdftlPlanes) : Idle(t, BlockOf(a)) => PageAt(t, a) = "EMPTY"
      BY <1>1, <1>6, <1>7, <1>11 DEF Contents
    <2>2. \A a \in AddressesOf(BdftlPlanes) :
           AtCurrent(t, BlockOf(a)) /\ PageOf(a) > PageOf(t.map.currentDataPage) => PageAt(t, a) = "EMPTY"
      BY <1>1, <1>3, <1>5, <1>6, <1>11 DEF Contents
    <2>3. \A k \in LBAs, a \in AddressesOf(BdftlPlanes) :
           InBlock(t, k) /\ BlockOf(a) = Pbn(t, k) /\ PageOf(a) >= InOrderOf(t, k)
               => PageAt(t, a) \in {"EMPTY", "INVALID"}
      <3>1. \A k \in LBAs, a \in AddressesOf(n) :
               InBlock(s, k) /\ BlockOf(a) = Pbn(s, k) /\ PageOf(a) >= InOrderOf(s, k)
                   => PageAt(s, a) \in {"EMPTY", "INVALID"}
        BY <1>1, <1>6 DEF Contents
      <3>2. \A a \in AddressesOf(n) : PageAt(t, a) \in {PageAt(s, a), "INVALID"}
        BY <1>4
      <3> QED BY <1>1, <1>5, <3>1, <3>2
    <2>4. ASSUME NEW w \in LogicalPages, Ppn(t, w) # None
          PROVE  /\ PageAt(t, Ppn(t, w)) = "VALID" /\ t.data[Ppn(t, w)] = w
                 /\ \A k \in LBAs : InBlock(t, k) => Pbn(t, k) # BlockOf(Ppn(t, w))
      <3>1. PICK a : a = Ppn(t, w) /\ a = Ppn(s, w) /\ w # v
        BY <1>4, <2>4
      <3>2. /\ a \in AddressesOf(n) /\ PageAt(s, a) = "VALID" /\ s.data[a] = w
            /\ \A k \in LBAs : InBlock(s, k) => Pbn(s, k) # BlockOf(a)
        BY <1>9, <2>4, <3>1
      <3>3. a # Ppn(s, v)
        BY <1>9, <1>10, <3>1, <3>2
      <3> QED BY <1>4, <1>5, <3>1, <3>2, <3>3
    <2> QED BY <2>1, <2>2, <2>3, <2>4 DEF Contents
  <1>13. ASSUME NEW w \in LogicalPages, w \in found \ {v} PROVE Finds(t, w)
    <2>1. PICK k \in LBAs : k = BlockOf(w) /\ PageOf(w) \in Pages
      BY LogicalGeometry DEF LBAs
    <2>2. Finds(s, w) /\ w # v
      BY <1>6, <1>13
    <2>3. CASE ~Optimal(s, k)
      BY <1>4, <1>5, <2>1, <2>2, <2>3 DEF Finds
    <2>4. CASE Optimal(s, k)
      <3>1. PICK a : a = Linear(Pbn(s, k), PageOf(w))
        OBVIOUS
      <3>2. InBlock(s, k) /\ PageAt(s, a) = "VALID" /\ s.data[a] = w
        BY <2>1, <2>2, <2>4, <3>1 DEF Finds, InBlock
      <3>3. Pbn(s, k) \in BlocksOf(n)
        BY <1>1, <1>2, <3>2, BdftlFields DEF BlockSlots, InBlock
      <3>4. a \in AddressesOf(n) /\ BlockOf(a) = Pbn(s, k)
        BY <2>1, <3>1, <3>3, Geometry
      <3>5. a # Ppn(s, v)
        BY <1>9, <1>10, <3>2, <3>4
      <3>6. PageAt(t, a) = "VALID" /\ t.data[a] = w
        BY <1>4, <2>2, <3>2, <3>4, <3>5
      <3>7. Optimal(t, k) /\ Pbn(t, k) = Pbn(s, k) /\ Pbn(s, k) # None
        BY <1>5, <3>2 DEF InBlock
      <3> QED BY <2>1, <3>1, <3>6, <3>7 DEF Finds
    <2> QED BY <2>3, <2>4
  <1>14. BdftlWhole(t, found \ {v})
    BY <1>1, <1>7, <1>8, <1>12, <1>13 DEF BdftlWhole
  <1>15. OneMode(t)
    BY <1>2, <1>3, <1>4, <1>5 DEF OneMode
  <1>16. Bounded(n, t)
    <2>1. \A a \in AddressesOf(n) : t.data[a] \in LogicalPages \cup {None}
      BY <1>1, <1>2, <1>4 DEF Bounded, BdftlDrive
    <2> QED BY <1>1, <1>2, <1>3, <2>1 DEF Bounded, BdftlDrive, SameManager
  <1>17. BdftlDrive(t)
    BY <1>1, <1>3, <1>4, <1>15, <1>16 DEF BdftlDrive, BdftlDrives
  <1>18. Goes(t, found \ {v}, r)
    BY <1>2, <1>3, <1>14, <1>17 DEF Goes, Harmless
  <1> QED BY <1>3, <1>5, <1>18 DEF Forgets

LEMMA Forgotten ==
    ASSUME NEW s, NEW found, NEW r, Goes(s, found, r), s.abort = "none", NEW v \in LogicalPages,
           ~Optimal(s, BlockOf(v)), NEW T \in [LogicalPages -> TrimStates],
           NEW noted, noted = [s EXCEPT !.map.trim_map = T],
           NEW x, x = Bdftl!Unmap(noted, v), NEW known \in [LogicalPages -> TrimStates],
           \A w \in LogicalPages : known[w] # "no" => w = v \/ s.map.trim_map[w] # "no",
           NEW t, t = [x EXCEPT !.map.trim_map = known]
    PROVE  Forgets(s, t, found, r, v, known)
  <1>1. PICK n \in Nat \ {0} : n = BdftlPlanes
    BY BdftlSizes
  <1>2. PICK M : M = BdftlMaps(n)
    OBVIOUS
  <1>3. /\ s \in BdftlDrives /\ BdftlDrive(s) /\ BdftlWhole(s, found) /\ r \in Nat /\ r + 1 \in Nat
        /\ s.map.requests = r + 1 /\ TableOk(s.map, BdftlEntries) /\ OneMode(s)
        /\ s.invalid_list = << >>
    BY DEF Goes, BdftlDrive
  <1>4. RestSet(s, noted, s.map.block_map, T, s.map.inuseBlock, s.map.blockQueue)
    BY <1>3, SetSome
  <1>5. /\ noted \in Drives(n, M) /\ SameFlash(s, noted) /\ SameManager(s, noted) /\ noted.abort = "none"
        /\ TableOk(noted.map, BdftlEntries) /\ noted.map.trans_map = s.map.trans_map
        /\ noted.map.requests = r + 1 /\ noted.map.currentDataPage = s.map.currentDataPage
        /\ noted.map.block_map = s.map.block_map /\ noted.map.inuseBlock = s.map.inuseBlock
        /\ noted.map.blockQueue = s.map.blockQueue
    <2>1. TableOk(noted.map, BdftlEntries)
      BY <1>3, <1>4, SameTable DEF RestSet
    <2> QED BY <1>1, <1>2, <1>3, <1>4, <2>1 DEF RestSet, BdftlDrives
  <1>6. Unmaps(n, M, noted, x, v, BdftlEntries)
    <2>1. PICK i : i = "BIMODAL"
      OBVIOUS
    <2>2. PICK total \in Nat : total = BdftlEntries
      BY BdftlSizes
    <2>3. x = Cmt(n, i, BdftlRequests, total)!Unmap(noted, v)
      BY <1>1, <2>1, <2>2, BdftlCmt, Zenon
    <2> QED BY <1>2, <1>3, <1>5, <2>2, <2>3, Unmapped, Zenon
  <1>7. PageUnmaps(n, M, s, noted, x, v, BdftlEntries)
    BY <1>5, <1>6, PageUnmapped, Zenon
  <1>8. x \in BdftlDrives
    BY <1>1, <1>2, <1>7 DEF BdftlDrives, PageUnmaps
  <1>9. RestSet(x, t, x.map.block_map, known, x.map.inuseBlock, x.map.blockQueue)
    BY <1>8, SetSome
  <1>10. Detaches(s, t, r, v, known)
    BY <1>1, <1>2, <1>5, <1>7, <1>9, Detached, Zenon
  <1> QED BY <1>10, DetachedForgets, Zenon

\* When every page of the logical block is trimmed it is optimal again.
LEMMA Cleared ==
    ASSUME NEW s, NEW found, NEW r, Goes(s, found, r), s.abort = "none", NEW l \in LBAs, ~Optimal(s, l),
           \A w \in LogicalPages : BlockOf(w) = l => s.map.trim_map[w] # "no",
           NEW t, t = [s EXCEPT !.map.block_map[l] = Bdftl!BPage]
    PROVE  Goes(t, found, r)
  <1>1. s \in BdftlDrives /\ BdftlDrive(s) /\ BdftlWhole(s, found) /\ OneMode(s)
    BY DEF Goes, BdftlDrive
  <1>2. PICK e : e = Bdftl!BPage
    OBVIOUS
  <1>3. PICK yes \in BOOLEAN : yes = TRUE
    BY Zenon
  <1>4. IsBPage(e, None, 0, yes) /\ e \in BPages(BdftlPlanes)
    BY <1>2, <1>3, FreshEntry, Zenon DEF IsBPage
  <1>5. BlockSet(s, t, l, e)
    BY <1>1, <1>2, <1>4, SetBlock
  <1>6. BlockReads(s, t, l, None, 0, yes)
    BY <1>4, <1>5, BlockRead, Zenon
  <1>7. /\ Pbn(t, l) = None /\ InOrderOf(t, l) = 0 /\ Optimal(t, l)
        /\ \A k \in LBAs : k # l =>
              /\ Pbn(t, k) = Pbn(s, k) /\ InOrderOf(t, k) = InOrderOf(s, k)
              /\ Optimal(t, k) = Optimal(s, k) /\ (InBlock(t, k) <=> InBlock(s, k))
    BY <1>3, <1>6 DEF BlockReads
  <1>8. /\ t \in BdftlDrives /\ SameFlash(s, t) /\ SameManager(s, t) /\ t.abort = s.abort
        /\ SameMap(s.map, t.map) /\ t.map.currentDataPage = s.map.currentDataPage
        /\ t.map.trim_map = s.map.trim_map /\ t.map.inuseBlock = s.map.inuseBlock
        /\ t.map.blockQueue = s.map.blockQueue
    BY <1>5 DEF BlockSet
  <1>9. /\ \A w \in LogicalPages : BlockOf(w) \in LBAs
        /\ \A w : Ppn(t, w) = Ppn(s, w)
        /\ \A b : Spare(t, b) <=> Spare(s, b)
    BY <1>8, LogicalGeometry DEF LBAs, Ppn, SameMap, Spare
  <1>10. OneMode(t)
    BY <1>1, <1>7, <1>8, <1>9 DEF OneMode
  <1>11. BdftlDrive(t)
    BY <1>1, <1>8, <1>10, DriveCarried
  <1>12. \A k \in LBAs : InBlock(t, k) => k # l
    BY <1>7 DEF InBlock
  <1>13. Rearranges(s, t)
    <2>1. \A k \in LBAs : Optimal(t, k) /\ Pbn(t, k) = None => InOrderOf(t, k) = 0
      BY <1>1, <1>7 DEF BdftlWhole, Owners
    <2> QED BY <1>7, <1>8, <1>9, <1>12, <2>1 DEF Rearranges
  <1>14. ASSUME NEW w \in LogicalPages, w \in found PROVE Finds(t, w)
    <2>1. Finds(s, w) /\ BlockOf(w) \in LBAs
      BY <1>1, <1>9, <1>14 DEF BdftlWhole
    <2>2. BlockOf(w) # l
      BY <1>1, <2>1 DEF Finds, OneMode
    <2>3. \A a : PageAt(t, a) = PageAt(s, a)
      BY <1>8 DEF SameFlash, PageAt
    <2>4. t.data = s.data
      BY <1>8 DEF SameFlash
    <2> QED BY <1>7, <1>9, <2>1, <2>2, <2>3, <2>4 DEF Finds
  <1>15. BdftlWhole(t, found)
    BY <1>1, <1>13, <1>14, Rearranged
  <1>16. Sticky(s, t) /\ t.invalid_list = s.invalid_list
    BY <1>8, StickySame DEF SameManager
  <1> QED BY <1>8, <1>11, <1>15, <1>16, GoesOn

\* FtlImpl_BDftl::trim.  A trim in a logical block in block mode that has no
\* physical one is the only one that may spoil other pages.
LEMMA BdftlTrims ==
    ASSUME NEW s, NEW found, NEW r, Goes(s, found, r), s.abort = "none", NEW v \in LogicalPages,
           NEW l \in LBAs, l = BlockOf(v), NEW clean \in BOOLEAN,
           clean <=> ~Optimal(s, l) \/ InBlock(s, l), NEW junk, NEW t, t = Bdftl!TrimResult(s, v, junk)
    PROVE  Closes(t, r) /\ (clean /\ t.abort = "none" => BdftlWhole(t, found \ {v}))
  <1>1. s \in BdftlDrives /\ BdftlDrive(s) /\ OneMode(s)
    BY DEF Goes, BdftlDrive
  <1>2. PICK f \in [LogicalPages -> TrimStates] : f = s.map.trim_map
    BY <1>1, BdftlFields
  <1>3. PICK T : T = [f EXCEPT ![v] = "yes"]
    OBVIOUS
  <1>4. T \in [LogicalPages -> TrimStates] /\ T[v] = "yes" /\ \A w \in LogicalPages : w # v => T[w] = f[w]
    <2>1. PICK yes \in TrimStates : yes = "yes"
      BY DEF TrimStates
    <2>2. T \in [LogicalPages -> TrimStates] /\ Updated(LogicalPages, f, T, v, yes)
      BY <1>3, <2>1, Update, Zenon
    <2> QED BY <2>1, <2>2 DEF Updated
  <1>5. PICK noted : noted = [s EXCEPT !.map.trim_map = T]
    OBVIOUS
  <1>6. noted = [s EXCEPT !.map.trim_map[v] = "yes"]
    BY <1>2, <1>3, <1>5, Zenon
  <1>7. RestSet(s, noted, s.map.block_map, T, s.map.inuseBlock, s.map.blockQueue)
    BY <1>1, <1>4, <1>5, SetSome
  <1>8. noted.map.trim_map = T /\ noted.map.block_map = s.map.block_map /\ SameFlash(s, noted) /\ noted.abort = "none"
    BY <1>7 DEF RestSet
  <1>9. PICK known \in [LogicalPages -> TrimStates] :
            known = [w \in LogicalPages |->
                       IF w \in Bdftl!PagesOf(l) /\ T[w] = "unknown"
                       THEN (IF w \in junk THEN "yes" ELSE "no") ELSE T[w]]
    BY <1>4 DEF TrimStates
  <1>10. PICK x : x = Bdftl!Unmap(noted, v)
    OBVIOUS
  <1>11. PICK y : y = [x EXCEPT !.map.trim_map = known]
    OBVIOUS
  <1>12. t = IF Optimal(s, l) THEN Bdftl!TrimOptimal(noted, v)
             ELSE IF \A w \in Bdftl!PagesOf(l) : known[w] = "yes"
             THEN [y EXCEPT !.map.block_map[l] = Bdftl!BPage]
             ELSE y
    <2>1. Bdftl!BlockOf(v) = l /\ Bdftl!Optimal(s, v) = Optimal(s, l) /\ Bdftl!LogicalPages = LogicalPages
      BY BdftlNames, Zenon
    <2>2. PICK D : D = Bdftl!LogicalPages
      OBVIOUS
    <2>3. PICK P : P = Bdftl!PagesOf(l) /\ P = Bdftl!PagesOf(Bdftl!BlockOf(v))
      BY <2>1
    <2>4. known = [w \in D |->
                       IF w \in P /\ noted.map.trim_map[w] = "unknown"
                       THEN (IF w \in junk THEN "yes" ELSE "no") ELSE noted.map.trim_map[w]]
      BY <1>8, <1>9, <2>1, <2>2, <2>3
    <2>5. known = [w \in Bdftl!LogicalPages |->
                       IF w \in Bdftl!PagesOf(Bdftl!BlockOf(v))
                          /\ [s EXCEPT !.map.trim_map[v] = "yes"].map.trim_map[w] = "unknown"
                       THEN (IF w \in junk THEN "yes" ELSE "no")
                       ELSE [s EXCEPT !.map.trim_map[v] = "yes"].map.trim_map[w]]
      BY <1>6, <2>2, <2>3, <2>4
    <2>6. t = IF Bdftl!Optimal(s, v) THEN Bdftl!TrimOptimal([s EXCEPT !.map.trim_map[v] = "yes"], v)
              ELSE IF \A w \in Bdftl!PagesOf(Bdftl!BlockOf(v)) : known[w] = "yes"
              THEN [[Bdftl!Unmap([s EXCEPT !.map.trim_map[v] = "yes"], v) EXCEPT !.map.trim_map = known]
                       EXCEPT !.map.block_map[Bdftl!BlockOf(v)] = Bdftl!BPage]
              ELSE [Bdftl!Unmap([s EXCEPT !.map.trim_map[v] = "yes"], v) EXCEPT !.map.trim_map = known]
      BY <2>5 DEF Bdftl!TrimResult
    <2> QED BY <1>6, <1>10, <1>11, <2>1, <2>6, Zenon
  <1>13. CASE Optimal(s, l)
    <2>1. t = Bdftl!TrimOptimal(noted, v)
      BY <1>12, <1>13
    <2>2. Goes(noted, found, r)
      <3>1. \A w \in LogicalPages : T[w] # "no" => s.map.trim_map[w] # "no" \/ Ppn(s, w) = None
        BY <1>1, <1>2, <1>4, <1>13 DEF OneMode
      <3> QED BY <1>4, <1>5, <3>1, TrimSet
    <2>3. Optimal(noted, l) /\ (InBlock(noted, l) <=> InBlock(s, l))
      BY <1>8, <1>13 DEF Optimal, Pbn, InBlock
    <2>4. Closes(t, r) /\ (InBlock(noted, l) /\ t.abort = "none" => BdftlWhole(t, found \ {v}))
      BY <1>8, <2>1, <2>2, <2>3, BlockTrimmed
    <2> QED BY <1>13, <2>3, <2>4
  <1>14. CASE ~Optimal(s, l)
    <2>1. \A w \in LogicalPages : known[w] # "no" => w = v \/ s.map.trim_map[w] # "no"
      BY <1>2, <1>4, <1>9
    <2>2. Forgets(s, y, found, r, v, known)
      BY <1>4, <1>5, <1>10, <1>11, <1>14, <2>1, Forgotten
    <2>3. Goes(y, found \ {v}, r) /\ y.abort = "none" /\ y.map.trim_map = known /\ ~Optimal(y, l)
      BY <1>14, <2>2 DEF Forgets
    <2>4. Goes(t, found \ {v}, r)
      <3>1. CASE \A w \in Bdftl!PagesOf(l) : known[w] = "yes"
        <4>1. t = [y EXCEPT !.map.block_map[l] = Bdftl!BPage]
          BY <1>12, <1>14, <3>1
        <4>2. ASSUME NEW w \in LogicalPages, BlockOf(w) = l PROVE y.map.trim_map[w] # "no"
          <5>1. w = Linear(l, PageOf(w)) /\ PageOf(w) \in Pages
            BY <4>2, LogicalGeometry
          <5>2. w \in Bdftl!PagesOf(l)
            BY <5>1, BdftlNames, Zenon DEF Bdftl!PagesOf
          <5> QED BY <2>3, <3>1, <5>2
        <4> QED BY <2>3, <4>1, <4>2, Cleared
      <3>2. CASE ~\A w \in Bdftl!PagesOf(l) : known[w] = "yes"
        <4>1. t = y
          BY <1>12, <1>14, <3>2
        <4> QED BY <2>3, <4>1
      <3> QED BY <3>1, <3>2
    <2> QED BY <2>4 DEF Goes, Closes
  <1> QED BY <1>13, <1>14

\* A request is served, and what an invariant means for it that no block is in
\* two uses: once one is, nothing is said of the drive any more.
BdftlServed(s, t, alive, gone) == /\ Sticky(s, t) \/ AheadAbort(s, t.abort)
                                  /\ t.abort = "none" /\ None \notin gone => BdftlOk(t, alive, gone)

LEMMA ClosedOk ==
    ASSUME NEW s, s.abort = "none", NEW r \in Nat, r + 1 <= BdftlRequests, NEW alive, NEW gone,
           NEW t, Closes(t, r), t.abort = "none" /\ None \notin gone => BdftlWhole(t, alive \ gone)
    PROVE  BdftlServed(s, t, alive, gone)
  <1>1. t.abort \in Harmless /\ (t.abort = "none" /\ None \notin gone => BdftlOk(t, alive, gone))
    BY DEF Closes, BdftlOk
  <1> QED BY <1>1 DEF BdftlServed, Sticky

LEMMA FinishedOk ==
    ASSUME NEW s, s.abort = "none", NEW r \in Nat, r + 1 <= BdftlRequests, NEW alive, NEW gone, NEW found,
           \A w \in LogicalPages : w \in alive \ gone => w \in found, NEW t, Finishes(t, found, r)
    PROVE  BdftlServed(s, t, alive, gone)
  <1>1. Closes(t, r) /\ (t.abort = "none" => BdftlWhole(t, found))
    BY DEF Finishes, Goes, Closes
  <1>2. t.abort = "none" => BdftlWhole(t, alive \ gone)
    BY <1>1 DEF BdftlWhole
  <1> QED BY <1>1, <1>2, ClosedOk

\* The request is counted before it is served.
LEMMA BdftlCounted ==
    ASSUME NEW s, NEW alive, NEW gone, BdftlOk(s, alive, gone), s.abort = "none",
           NEW u, u = [s EXCEPT !.map.requests = @ + 1]
    PROVE  /\ s.map.requests \in Nat /\ Goes(u, alive \ gone, s.map.requests) /\ u.abort = "none"
           /\ u.map.block_map = s.map.block_map /\ SameFlash(s, u) /\ OneMode(s)
  <1>1. PICK M : M = BdftlMaps(BdftlPlanes)
    OBVIOUS
  <1>2. s \in Drives(BdftlPlanes, M) /\ BdftlDrive(s) /\ BdftlWhole(s, alive \ gone) /\ OneMode(s)
    BY <1>1 DEF BdftlOk, BdftlDrive
  <1>3. CountedSet(BdftlPlanes, M, s, u)
    BY <1>1, <1>2, CountedRequest
  <1>4. PICK r \in Nat : r = s.map.requests
    <2>1. s.map \in BdftlMaps(BdftlPlanes)
      BY <1>1, <1>2 DEF Drives
    <2> QED BY <2>1 DEF BdftlMaps
  <1>5. /\ u \in BdftlDrives /\ SameFlash(s, u) /\ SameManager(s, u) /\ u.abort = "none"
        /\ SameRest(u.map, s.map) /\ u.map.trans_map = s.map.trans_map /\ u.map.requests = r + 1
        /\ u.map.currentDataPage = s.map.currentDataPage /\ u.map.cmt = s.map.cmt /\ u.map.gtd = s.map.gtd
        /\ u.map.overlooked = s.map.overlooked
    BY <1>1, <1>3, <1>4 DEF CountedSet, BdftlDrives
  <1>6. SameView(s, u) /\ u.map.trim_map = s.map.trim_map /\ u.map.block_map = s.map.block_map
    BY <1>5 DEF SameView, SameRest, Ppn
  <1>7. OneMode(u)
    BY <1>2, <1>5, <1>6 DEF OneMode, Ppn, Optimal
  <1>8. BdftlDrive(u) /\ BdftlWhole(u, alive \ gone)
    BY <1>2, <1>5, <1>6, <1>7, DriveCarried, WholeCarried
  <1>9. TableOk(u.map, BdftlEntries)
    BY <1>4, <1>5, SameTable DEF BdftlOk
  <1>10. u.invalid_list = << >>
    BY <1>2, <1>5 DEF BdftlWhole, Stock, SameManager
  <1> QED BY <1>2, <1>4, <1>5, <1>6, <1>8, <1>9, <1>10 DEF Goes, Harmless

LEMMA BdftlTables ==
    ASSUME NEW n, NEW f \in Entries(n), NEW a \in Slots(n), NEW g \in [LogicalPages -> Slots(n)],
           NEW B \in [0 .. LogicalBlocks - 1 -> BPages(n)], NEW T \in [LogicalPages -> TrimStates],
           NEW b \in BlockSlots(n), NEW q \in Seq(BlocksOf(n)), NEW m,
           m = [trans_map |-> f, cmt |-> 0, currentDataPage |-> a, requests |-> 0, gtd |-> g,
                overlooked |-> {}, block_map |-> B, trim_map |-> T, inuseBlock |-> b, blockQueue |-> q]
    PROVE  m \in BdftlMaps(n)
  BY DEF BdftlMaps

\* A new drive.
NewTables(n, m, e, p) ==
    /\ e \in Entry(n) /\ e.ppn = None /\ ~e.cached /\ e.create_ts = -1
    /\ e.modified_ts = -1 /\ e.last_visited_time = -1 /\ IsBPage(p, None, 0, TRUE)
    /\ m.trans_map = [v \in LogicalPages |-> e] /\ m.cmt = 0 /\ m.currentDataPage = None /\ m.requests = 0
    /\ m.block_map = [l \in LBAs |-> p] /\ m.inuseBlock = None /\ m.blockQueue = << >>

LEMMA BdftlStart ==
    ASSUME NEW n \in Nat \ {0}, n = BdftlPlanes, NEW m, NEW e, NEW p, NewTables(n, m, e, p),
           NEW s \in BdftlDrives, IsNew(n, s, m)
    PROVE  BdftlOk(s, {}, {})
  <1>1. /\ e \in Entry(n) /\ e.ppn = None /\ ~e.cached /\ e.create_ts = -1
        /\ e.modified_ts = -1 /\ e.last_visited_time = -1 /\ IsBPage(p, None, 0, TRUE)
        /\ m.trans_map = [v \in LogicalPages |-> e] /\ m.cmt = 0 /\ m.currentDataPage = None /\ m.requests = 0
        /\ m.block_map = [l \in LBAs |-> p] /\ m.inuseBlock = None /\ m.blockQueue = << >>
    BY DEF NewTables
  <1>10. /\ s.map = m /\ s.abort = "none" /\ s.simpleCurrentFree = 0 /\ s.free_list = << >>
         /\ s.invalid_list = << >> /\ s.log_active = 0 /\ s.data_active = 0 /\ Fits(n, s)
         /\ \A x \in AddressesOf(n) : PageAt(s, x) = "EMPTY" /\ s.data[x] = None
    BY DEF IsNew
  <1>11. TableOk(m, BdftlEntries)
    BY <1>1, BdftlSizes, FreshTable
  <1>12. \A v \in LogicalPages : Ppn(s, v) = None
    BY <1>1, <1>10 DEF Ppn
  <1>13. \A l \in LBAs : Pbn(s, l) = None /\ InOrderOf(s, l) = 0 /\ ~InBlock(s, l)
    BY <1>1, <1>10 DEF IsBPage, Pbn, InOrderOf, InBlock
  <1>14. \A b : (~Spare(s, b) /\ ~AtCurrent(s, b)) \/ b = None
    <2>1. \A b : ~Listed(<< >>, b)
      BY DEF Listed
    <2> QED BY <1>1, <1>10, <2>1 DEF Spare, AtCurrent
  <1>15. PlaneSize * n \in Nat /\ None \notin BlocksOf(n)
    BY Geometry DEF BlocksOf, None
  <1>16. Stock(n, s)
    BY <1>10, <1>15 DEF Stock
  <1>17. Owners(s)
    <2>1. \A b \in BlocksOf(n) : ~Spare(s, b) /\ ~AtCurrent(s, b)
      BY <1>14, <1>15
    <2> QED BY <1>13, <2>1 DEF Owners
  <1>18. Contents(s)
    BY <1>10, <1>12, <1>13 DEF Contents
  <1>19. BdftlWhole(s, {} \ {})
    BY <1>10, <1>16, <1>17, <1>18 DEF BdftlWhole
  <1>20. BdftlDrive(s)
    <2>1. OneMode(s)
      BY <1>12 DEF OneMode
    <2>2. Bounded(n, s)
      BY <1>10, <1>15 DEF Bounded
    <2> QED BY <1>10, <2>1, <2>2 DEF BdftlDrive, BdftlDrives
  <1>21. PICK c \in Nat : c = 0 /\ c <= BdftlRequests
    BY BdftlSizes
  <1>22. s.map.requests = c /\ TableOk(s.map, BdftlEntries)
    BY <1>1, <1>10, <1>11, <1>21
  <1> QED BY <1>10, <1>19, <1>20, <1>21, <1>22 DEF BdftlOk, Harmless

LEMMA BdftlInitInv == Init => BdftlInv
  <1> SUFFICES ASSUME Bdftl!Init
      PROVE  BdftlOk(drive, live, lost) /\ live \subseteq LogicalPages /\ lost \subseteq LogicalPages
    BY DEF Init, BdftlInv
  <1>1. PICK n \in Nat \ {0} : n = BdftlPlanes
    BY BdftlSizes
  <1>2. PICK e \in Entry(n) : /\ e = Bdftl!MPage /\ ~e.cached /\ e.ppn = None /\ e.create_ts = -1
                              /\ e.modified_ts = -1 /\ e.last_visited_time = -1
    <2>1. PICK e : e = Cmt(n, "BIMODAL", 0, 0)!MPage
      OBVIOUS
    <2>2. /\ e \in Entry(n) /\ ~e.cached /\ e.ppn = None /\ e.create_ts = -1 /\ e.modified_ts = -1
          /\ e.last_visited_time = -1
      BY <2>1, NewEntry, Zenon
    <2>3. e = Bdftl!MPage
      BY <2>1, Zenon DEF Bdftl!MPage, Bdftl!None, Cmt!MPage, Cmt!None
    <2> QED BY <2>2, <2>3, Zenon
  <1>3. PICK p : p = Bdftl!BPage /\ IsBPage(p, None, 0, TRUE)
    BY FreshEntry, Zenon
  <1>4. PICK m : m = [trans_map |-> [v \in LogicalPages |-> e], cmt |-> 0, currentDataPage |-> None, requests |-> 0,
                      gtd |-> [v \in LogicalPages |-> None], overlooked |-> {}, block_map |-> [l \in LBAs |-> p],
                      trim_map |-> [v \in LogicalPages |-> "unknown"], inuseBlock |-> None, blockQueue |-> << >>]
    OBVIOUS
  <1>5. drive = Bdftl!NewDrive(m) /\ live = {} /\ lost = {}
    <2>1. Bdftl!DftlTables.trans_map = [v \in LogicalPages |-> e] /\ Bdftl!DftlTables.gtd = [v \in LogicalPages |-> None]
      <3>1. Bdftl!LogicalPages = LogicalPages /\ Bdftl!None = None
        BY BdftlNames
      <3> QED BY <1>2, <3>1 DEF Bdftl!DftlTables
    <2>2. Bdftl!LBAs = LBAs /\ Bdftl!LogicalPages = LogicalPages /\ Bdftl!None = None
      BY BdftlNames, Zenon DEF Bdftl!LBAs, LBAs
    <2>3. PICK f, g : f = [v \in LogicalPages |-> e] /\ g = [v \in LogicalPages |-> None]
      OBVIOUS
    <2>4. m = [trans_map |-> Bdftl!DftlTables.trans_map, cmt |-> 0, currentDataPage |-> Bdftl!None, requests |-> 0,
               gtd |-> Bdftl!DftlTables.gtd, overlooked |-> {}, block_map |-> [l \in Bdftl!LBAs |-> Bdftl!BPage],
               trim_map |-> [v \in Bdftl!LogicalPages |-> "unknown"], inuseBlock |-> Bdftl!None,
               blockQueue |-> << >>]
      BY <1>3, <1>4, <2>1, <2>2, <2>3
    <2> QED BY <2>4, Zenon DEF Bdftl!Init, Bdftl!Start
  <1>6. /\ m.trans_map = [v \in LogicalPages |-> e] /\ m.cmt = 0 /\ m.currentDataPage = None /\ m.requests = 0
        /\ m.block_map = [l \in LBAs |-> p] /\ m.inuseBlock = None /\ m.blockQueue = << >>
    BY <1>4
  <1>7. m \in BdftlMaps(n)
    <2>1. PICK f \in Entries(n) : f = [v \in LogicalPages |-> e]
      BY DEF Entries
    <2>2. PICK g \in [LogicalPages -> Slots(n)] : g = [v \in LogicalPages |-> None]
      BY DEF Slots
    <2>3. PICK B \in [0 .. LogicalBlocks - 1 -> BPages(n)] : B = [l \in LBAs |-> p]
      BY <1>1, <1>3 DEF IsBPage, LBAs
    <2>4. PICK T \in [LogicalPages -> TrimStates] : T = [v \in LogicalPages |-> "unknown"]
      BY DEF TrimStates
    <2>5. PICK q \in Seq(BlocksOf(n)) : q = << >>
      <3>1. << >> \in Seq(BlocksOf(n))
        OBVIOUS
      <3> QED BY <3>1, Zenon
    <2>6. PICK a \in Slots(n), b \in BlockSlots(n) : a = None /\ b = None
      BY DEF Slots, BlockSlots
    <2>7. m = [trans_map |-> f, cmt |-> 0, currentDataPage |-> a, requests |-> 0, gtd |-> g,
               overlooked |-> {}, block_map |-> B, trim_map |-> T, inuseBlock |-> b, blockQueue |-> q]
      BY <1>4, <2>1, <2>2, <2>3, <2>4, <2>5, <2>6, Zenon
    <2> QED BY <2>7, BdftlTables, Zenon
  <1>8. drive \in BdftlDrives /\ IsNew(n, drive, m)
    <2>1. PICK i : i = "BIMODAL"
      OBVIOUS
    <2>2. PICK M : M = BdftlMaps(n)
      OBVIOUS
    <2>3. drive = Chip(n, i, 1)!NewDrive(m)
      BY <1>1, <1>5, <2>1, BdftlChip, Zenon
    <2>4. m \in M
      BY <1>7, <2>2, Zenon
    <2>5. drive \in Drives(n, M) /\ IsNew(n, drive, m)
      BY <2>3, <2>4, NewDriveFits, Zenon
    <2> QED BY <1>1, <2>2, <2>5, Zenon DEF BdftlDrives
  <1>9. BdftlOk(drive, {}, {})
    <2>1. NewTables(n, m, e, p)
      BY <1>2, <1>3, <1>6 DEF NewTables
    <2> QED BY <1>1, <1>8, <2>1, BdftlStart
  <1> QED BY <1>5, <1>9

\* A request that ends in a failed assertion leaves the tables as they were.
LEMMA BdftlEnds ==
    ASSUME NEW s, NEW alive, NEW gone, BdftlOk(s, alive, gone), NEW c, c \in Harmless \/ AheadAbort(s, c),
           NEW t, t = [s EXCEPT !.abort = c]
    PROVE  BdftlOk(t, alive, gone)
  <1>1. PICK M : M = BdftlMaps(BdftlPlanes)
    OBVIOUS
  <1>2. s \in Drives(BdftlPlanes, M) /\ BdftlDrive(s)
    BY <1>1 DEF BdftlOk, BdftlDrive
  <1>3. t \in Drives(BdftlPlanes, M) /\ SameFlash(s, t) /\ SameManager(s, t) /\ t.map = s.map /\ t.abort = c
    BY <1>2 DEF Drives, SameFlash, SameManager, Causes, Harmless, AheadAbort
  <1>4. SameView(s, t) /\ t \in BdftlDrives
    BY <1>1, <1>3 DEF SameView, Ppn, BdftlDrives
  <1>5. OneMode(t)
    BY <1>2, <1>3 DEF BdftlDrive, OneMode, Ppn, Optimal
  <1>6. BdftlDrive(t)
    BY <1>2, <1>3, <1>4, <1>5, DriveCarried
  <1>7. BdftlWhole(t, alive \ gone)
    BY <1>3, <1>4, WholeCarried DEF BdftlOk
  <1>8. AheadAbort(s, c) => AheadAbort(t, c)
    BY <1>3 DEF AheadAbort, Ahead, InBlock, Optimal, Pbn, InOrderOf, PageAt, SameFlash
  <1> QED BY <1>3, <1>6, <1>7, <1>8 DEF BdftlOk

LEMMA BdftlReads ==
    ASSUME NEW s, NEW found, NEW r, Goes(s, found, r), NEW v \in LogicalPages, ~Optimal(s, BlockOf(v)),
           NEW now \in StartTimes, NEW tied, NEW t, t = Bdftl!ReadResult(s, v, now, tied)
    PROVE  Finishes(t, found, r)
  <1>1. PICK no \in BOOLEAN : no = FALSE
    BY Zenon
  <1>2. t = Bdftl!ResolveMapping(s, v, no, now, tied)
    <2>1. Bdftl!Optimal(s, v) = Optimal(s, BlockOf(v))
      BY BdftlNames
    <2> QED BY <1>1, <2>1, Zenon DEF Bdftl!ReadResult
  <1>3. Looks(s, t, found, r, v, no)
    BY <1>2, Looked
  <1>4. Goes(t, found, r)
    BY <1>3 DEF Looks
  <1> QED BY <1>4 DEF Finishes, Goes

\* Every request keeps the invariant, however it ends.
LEMMA BdftlServeInv ==
    ASSUME BdftlOk(drive, live, lost), live \subseteq LogicalPages, lost \subseteq LogicalPages,
           NEW t, NEW after \in SUBSET LogicalPages, NEW gone, None \notin gone => gone \subseteq LogicalPages,
           BdftlServed(drive, t, after, gone), Bdftl!Serve(t, after, gone), None \notin lost'
    PROVE  BdftlOk(drive', live', lost') /\ live' \subseteq LogicalPages /\ lost' \subseteq LogicalPages
  <1>1. CASE t.abort = "none"
    <2>1. drive' = t /\ live' = after /\ lost' = gone
      BY <1>1, Zenon DEF Bdftl!Serve
    <2> QED BY <1>1, <2>1 DEF BdftlServed
  <1>2. CASE t.abort # "none"
    <2>1. drive' = [drive EXCEPT !.abort = t.abort] /\ live' = live /\ lost' = lost /\ drive.abort = "none"
      BY <1>2, Zenon DEF Bdftl!Serve
    <2>2. PICK c : c = t.abort /\ (c \in Harmless \/ AheadAbort(drive, c))
      BY <2>1 DEF BdftlServed, Sticky, Harmless
    <2>3. PICK d : d = [drive EXCEPT !.abort = c]
      OBVIOUS
    <2>4. BdftlOk(d, live, lost)
      BY <2>2, <2>3, BdftlEnds
    <2> QED BY <2>1, <2>2, <2>3, <2>4
  <1> QED BY <1>1, <1>2

\* A block that is in two uses stays so, and it is a stray trim that puts it there.
LEMMA MixedStays ==
    ASSUME Bdftl!Next, None \in lost, lost = LogicalPages \cup {None}
    PROVE  lost' = LogicalPages \cup {None}
  <1>1. Bdftl!None = None /\ Bdftl!Everything = LogicalPages \cup {None}
    BY BdftlNames, Zenon DEF Bdftl!Everything
  <1>2. PICK v : \/ \E now, tied : Bdftl!Read(v, now, tied) \/ Bdftl!Write(v, now, tied)
                 \/ Bdftl!Trim(v)
    BY Zenon DEF Bdftl!Next
  <1>3. ASSUME NEW now, NEW tied, Bdftl!Read(v, now, tied) PROVE lost' = lost
    BY <1>3, Zenon DEF Bdftl!Read, Bdftl!Serve
  <1>4. ASSUME NEW now, NEW tied, Bdftl!Write(v, now, tied) PROVE lost' = lost
    BY <1>1, <1>4, Zenon DEF Bdftl!Write, Bdftl!Serve, Bdftl!Mixed
  <1>5. ASSUME Bdftl!Trim(v) PROVE lost' = LogicalPages \cup {None}
    BY <1>1, <1>5, Zenon DEF Bdftl!Trim, Bdftl!Serve
  <1> QED BY <1>2, <1>3, <1>4, <1>5

LEMMA HostView ==
    ASSUME Bdftl!Next, live \subseteq LogicalPages
    PROVE  live' \subseteq LogicalPages
  <1>1. PICK v \in BdftlPages :
            \/ \E now, tied : Bdftl!Read(v, now, tied) \/ Bdftl!Write(v, now, tied)
            \/ Bdftl!Trim(v)
    BY Zenon DEF Bdftl!Next
  <1>2. v \in LogicalPages
    BY FtlsAssumption DEF LogicalPages
  <1>3. ASSUME NEW now, NEW tied, Bdftl!Read(v, now, tied) PROVE live' = live
    BY <1>3, Zenon DEF Bdftl!Read, Bdftl!Serve
  <1>4. ASSUME NEW now, NEW tied, Bdftl!Write(v, now, tied) PROVE live' \in {live, live \cup {v}}
    BY <1>4, Zenon DEF Bdftl!Write, Bdftl!Serve
  <1>5. ASSUME Bdftl!Trim(v) PROVE live' \in {live, live \ {v}}
    BY <1>5, Zenon DEF Bdftl!Trim, Bdftl!Serve
  <1> QED BY <1>1, <1>2, <1>3, <1>4, <1>5

LEMMA MixedMeans ==
    ASSUME Bdftl!Next, BdftlOk(drive, live, lost), live \subseteq LogicalPages, lost \subseteq LogicalPages,
           None \in lost'
    PROVE  lost' = LogicalPages \cup {None}
  <1>1. Bdftl!None = None /\ Bdftl!Everything = LogicalPages \cup {None}
    BY BdftlNames, Zenon DEF Bdftl!Everything
  <1>2. PICK v : \/ \E now, tied : Bdftl!Read(v, now, tied) \/ Bdftl!Write(v, now, tied)
                 \/ Bdftl!Trim(v)
    BY Zenon DEF Bdftl!Next
  <1>3. None \notin LogicalPages
    BY LogicalGeometry, Sizes DEF LogicalPages, None
  <1>4. ASSUME NEW now, NEW tied, Bdftl!Read(v, now, tied) PROVE lost' = lost
    BY <1>4, Zenon DEF Bdftl!Read, Bdftl!Serve
  <1>5. ASSUME NEW now, NEW tied, Bdftl!Write(v, now, tied) PROVE lost' \subseteq lost \cup live
    <2>1. Bdftl!WriteFaults(drive, v) \subseteq live
      BY Zenon DEF Bdftl!WriteFaults
    <2>2. lost' \in {lost, (lost \ {v}) \cup Bdftl!WriteFaults(drive, v)}
      BY <1>5, Zenon DEF Bdftl!Write, Bdftl!Serve
    <2> QED BY <2>1, <2>2
  <1>6. ASSUME Bdftl!Trim(v) PROVE lost' \in {lost, LogicalPages \cup {None}}
    BY <1>1, <1>6, Zenon DEF Bdftl!Trim, Bdftl!Serve
  <1> QED BY <1>2, <1>3, <1>4, <1>5, <1>6

LEMMA BdftlNextInv ==
    ASSUME BdftlInv, [Next]_vars
    PROVE  BdftlInv'
  <1>0. None \in LogicalPages \cup {None}
    OBVIOUS
  <1>3. CASE ftl' = "BIMODAL" /\ None \in lost'
    <2>1. CASE UNCHANGED vars
      BY <1>3, <2>1 DEF vars, BdftlInv
    <2>2. CASE Next
      <3>1. BdftlStep
        BY <1>3, <2>2 DEF Next, BastStep, FastStep, DftlStep, PageStep
      <3> QED BY <1>0, <1>3, <3>1, MixedStays, MixedMeans, HostView DEF BdftlStep, BdftlInv
    <2> QED BY <2>1, <2>2
  <1> SUFFICES ASSUME ftl' = "BIMODAL", None \notin lost'
      PROVE  BdftlOk(drive', live', lost') /\ live' \subseteq LogicalPages /\ lost' \subseteq LogicalPages
    BY <1>3 DEF BdftlInv
  <1>1. CASE UNCHANGED vars
    BY <1>0, <1>1 DEF vars, BdftlInv
  <1>2. CASE Next
    <2>1. BdftlStep
      BY <1>2 DEF Next, BastStep, FastStep, DftlStep, PageStep
    <2>2. BdftlOk(drive, live, lost) /\ live \subseteq LogicalPages /\ lost \subseteq LogicalPages /\ Bdftl!Next
      BY <1>0, <2>1, MixedStays DEF BdftlStep, BdftlInv
    <2>3. PICK v \in BdftlPages :
              \/ \E now \in StartTimes, tied \in BdftlPages : Bdftl!Read(v, now, tied) \/ Bdftl!Write(v, now, tied)
              \/ Bdftl!Trim(v)
      BY <2>2, Zenon DEF Bdftl!Next
    <2>4. v \in LogicalPages
      BY FtlsAssumption DEF LogicalPages
    <2>5. PICK l \in LBAs : l = BlockOf(v)
      BY <2>4, LogicalGeometry DEF LBAs
    <2>6. PICK u : u = [drive EXCEPT !.map.requests = @ + 1]
      OBVIOUS
    <2>7. u = Bdftl!Counted
      BY <2>6, Zenon DEF Bdftl!Counted
    <2>8. drive.map.requests < BdftlRequests /\ drive.abort = "none"
      BY <2>3, BdftlNames, Zenon DEF Bdftl!Read, Bdftl!Write, Bdftl!Trim, Bdftl!MayServe, Bdftl!Serve
    <2>9. PICK found : found = live \ lost
      OBVIOUS
    <2>10. PICK r : r = drive.map.requests
      OBVIOUS
    <2>11. /\ r \in Nat /\ Goes(u, found, r) /\ u.abort = "none" /\ r + 1 <= BdftlRequests
           /\ u.map.block_map = drive.map.block_map /\ SameFlash(drive, u)
      <3>1. /\ r \in Nat /\ Goes(u, found, r) /\ u.abort = "none"
            /\ u.map.block_map = drive.map.block_map /\ SameFlash(drive, u)
        BY <2>2, <2>6, <2>8, <2>9, <2>10, BdftlCounted, Zenon
      <3> QED BY <2>8, <2>10, <3>1, BdftlSizes
    <2>12. /\ \A k : /\ Optimal(u, k) = Optimal(drive, k) /\ Pbn(u, k) = Pbn(drive, k)
                     /\ InOrderOf(u, k) = InOrderOf(drive, k) /\ (InBlock(u, k) <=> InBlock(drive, k))
           /\ \A a : PageAt(u, a) = PageAt(drive, a)
      BY <2>11 DEF Optimal, Pbn, InOrderOf, InBlock, SameFlash, PageAt
    <2>13. CASE \E now \in StartTimes, tied \in BdftlPages : Bdftl!Read(v, now, tied)
      <3>0. PICK now \in StartTimes, tied \in BdftlPages : Bdftl!Read(v, now, tied)
        BY <2>13
      <3>1. PICK t : t = Bdftl!ReadResult(u, v, now, tied)
        OBVIOUS
      <3>2. Bdftl!Serve(t, live, lost) /\ ~Bdftl!Optimal(drive, v)
        BY <2>7, <3>0, <3>1, Zenon DEF Bdftl!Read
      <3>3. ~Optimal(u, BlockOf(v))
        BY <2>12, <3>2, BdftlNames
      <3>4. Finishes(t, found, r)
        BY <2>4, <2>11, <3>1, <3>3, BdftlReads
      <3>5. BdftlServed(drive, t, live, lost)
        BY <2>8, <2>9, <2>11, <3>4, FinishedOk
      <3> QED BY <2>2, <3>2, <3>5, BdftlServeInv
    <2>14. CASE \E now \in StartTimes, tied \in BdftlPages : Bdftl!Write(v, now, tied)
      <3>0. PICK now \in StartTimes, tied \in BdftlPages : Bdftl!Write(v, now, tied)
        BY <2>14
      <3>1. PICK t : t = Bdftl!WriteResult(u, v, now, tied)
        OBVIOUS
      <3>2. PICK gone : gone = (lost \ {v}) \cup Bdftl!WriteFaults(drive, v)
        OBVIOUS
      <3>3. PICK alive : alive = live \cup {v}
        OBVIOUS
      <3>4. Bdftl!Serve(t, alive, gone)
        <4>1. ~Bdftl!Mixed
          <5>1. None \notin LogicalPages
            BY Sizes DEF LogicalPages, None
          <5> QED BY <2>2, <5>1, BdftlNames, Zenon DEF Bdftl!Mixed
        <4> QED BY <2>7, <3>0, <3>1, <3>2, <3>3, <4>1, Zenon DEF Bdftl!Write
      <3>5. PICK turns \in BOOLEAN : turns <=> InBlock(u, BlockOf(v)) /\ InOrderOf(u, BlockOf(v)) # PageOf(v)
        OBVIOUS
      <3>6. PICK after : after = IF turns THEN {w \in found : BlockOf(w) # BlockOf(v)} ELSE found
        OBVIOUS
      <3>7. Finishes(t, after \cup {v}, r) \/ AheadAbort(u, t.abort)
        BY <2>4, <2>11, <3>1, <3>5, <3>6, BdftlWrites
      <3>8. turns => Bdftl!WriteFaults(drive, v) = (Bdftl!PagesOf(l) \cap live) \ {v}
        <4>1. SUFFICES ASSUME turns PROVE Bdftl!WriteFaults(drive, v) = (Bdftl!PagesOf(l) \cap live) \ {v}
          OBVIOUS
        <4>2. InBlock(drive, l) /\ InOrderOf(drive, l) # PageOf(v)
          BY <2>5, <2>12, <3>5, <4>1
        <4>3. Bdftl!Pbn(drive, v) # Bdftl!None /\ Bdftl!BlockOf(v) = l /\ Bdftl!Converts(drive, v)
          BY <2>5, <4>2, BdftlNames DEF InBlock
        <4>4. Bdftl!Opened(drive, v) = drive
          BY <4>3, Zenon DEF Bdftl!Opened
        <4> QED BY <4>3, <4>4, Zenon DEF Bdftl!WriteFaults
      <3>9. Bdftl!WriteFaults(drive, v) \subseteq live
        BY Zenon DEF Bdftl!WriteFaults
      <3>10. ASSUME NEW w \in LogicalPages, w \in alive \ gone PROVE w \in after \cup {v}
        <4>1. CASE w = v
          BY <4>1
        <4>2. CASE w # v /\ ~turns
          BY <2>9, <3>2, <3>3, <3>6, <3>10, <4>2
        <4>3. CASE w # v /\ turns
          <5>1. w \in found /\ w \notin Bdftl!PagesOf(l)
            BY <2>9, <3>2, <3>3, <3>8, <3>10, <4>3
          <5>2. BlockOf(w) # l
            <6>1. SUFFICES ASSUME BlockOf(w) = l PROVE w \in Bdftl!PagesOf(l)
              BY <5>1
            <6>2. w = Linear(l, PageOf(w)) /\ PageOf(w) \in Pages
              BY <6>1, LogicalGeometry
            <6> QED BY <6>2, BdftlNames, Zenon DEF Bdftl!PagesOf
          <5> QED BY <2>5, <3>6, <4>3, <5>1, <5>2
        <4> QED BY <4>1, <4>2, <4>3
      <3>11. BdftlServed(drive, t, alive, gone)
        <4>1. CASE Finishes(t, after \cup {v}, r)
          BY <2>8, <2>11, <3>10, <4>1, FinishedOk
        <4>2. CASE AheadAbort(u, t.abort)
          <5>1. t.abort = "page not empty" /\ \E k \in LBAs : Ahead(u, k)
            BY <4>2, Zenon DEF AheadAbort
          <5>2. \A k \in LBAs : Ahead(u, k) => Ahead(drive, k)
            BY <2>12 DEF Ahead
          <5>3. AheadAbort(drive, t.abort)
            BY <5>1, <5>2, Zenon DEF AheadAbort
          <5>4. t.abort # "none"
            BY <5>1
          <5> QED BY <5>3, <5>4 DEF BdftlServed
        <4> QED BY <3>7, <4>1, <4>2
      <3>12. alive \in SUBSET LogicalPages /\ gone \in SUBSET LogicalPages
        BY <2>2, <2>4, <3>2, <3>3, <3>9
      <3> QED BY <2>2, <3>4, <3>11, <3>12, BdftlServeInv
    <2>15. CASE Bdftl!Trim(v)
      <3>1. PICK gone : gone = IF Bdftl!StrayTrim(drive, v) THEN Bdftl!Everything ELSE lost
        OBVIOUS
      <3>2. PICK alive : alive = live \ {v}
        OBVIOUS
      <3>3. PICK junk : Bdftl!Serve(Bdftl!TrimResult(u, v, junk), alive, gone)
        BY <2>7, <2>15, <3>1, <3>2, Zenon DEF Bdftl!Trim
      <3>4. PICK t : t = Bdftl!TrimResult(u, v, junk)
        OBVIOUS
      <3>5. PICK clean \in BOOLEAN : clean <=> ~Optimal(u, l) \/ InBlock(u, l)
        OBVIOUS
      <3>6. Closes(t, r) /\ (clean /\ t.abort = "none" => BdftlWhole(t, found \ {v}))
        BY <2>4, <2>5, <2>11, <3>4, <3>5, BdftlTrims
      <3>7. ~Bdftl!StrayTrim(drive, v) => clean
        <4>1. /\ Bdftl!Optimal(drive, v) = Optimal(drive, l) /\ Bdftl!Pbn(drive, v) = Pbn(drive, l)
              /\ Bdftl!None = None
          BY <2>5, BdftlNames, Zenon
        <4>2. Bdftl!StrayTrim(drive, v) <=> Optimal(drive, l) /\ Pbn(drive, l) = None
          BY <4>1, Zenon DEF Bdftl!StrayTrim
        <4> QED BY <2>12, <3>5, <4>2 DEF InBlock
      <3>8. None \notin gone => clean /\ gone = lost
        <4>1. None \in Bdftl!Everything
          BY BdftlNames DEF Bdftl!Everything
        <4> QED BY <3>1, <3>7, <4>1
      <3>9. t.abort = "none" /\ None \notin gone => BdftlWhole(t, alive \ gone)
        <4>1. found \ {v} = (live \ {v}) \ lost
          BY <2>9
        <4> QED BY <3>2, <3>6, <3>8, <4>1
      <3>10. BdftlServed(drive, t, alive, gone)
        BY <2>8, <2>11, <3>6, <3>9, ClosedOk
      <3>11. alive \in SUBSET LogicalPages /\ (None \notin gone => gone \subseteq LogicalPages)
        BY <2>2, <3>2, <3>8
      <3> QED BY <2>2, <3>3, <3>4, <3>10, <3>11, BdftlServeInv
    <2> QED BY <2>3, <2>13, <2>14, <2>15
  <1> QED BY <1>1, <1>2

LEMMA BdftlMeans ==
    ASSUME BdftlOk(drive, live, lost), live \subseteq LogicalPages, lost \subseteq LogicalPages
    PROVE  /\ Bdftl!TypeOK /\ Bdftl!ReadsLastWrite /\ Bdftl!ProgramsOnce /\ Bdftl!CountersMatchTables
           /\ Bdftl!BlockStateMatchesPages /\ Bdftl!UncachedIsPersistent /\ Bdftl!OptimalHasNoEntries
  <1>1. PICK n \in Nat \ {0} : n = BdftlPlanes
    BY BdftlSizes
  <1>2. PICK M : M = BdftlMaps(n)
    OBVIOUS
  <1>3. /\ BdftlDrive(drive) /\ drive \in Drives(n, M) /\ Fits(n, drive) /\ Bounded(n, drive) /\ OneMode(drive)
        /\ drive.abort \in Harmless \/ AheadAbort(drive, drive.abort)
        /\ drive \in BdftlDrives
    BY <1>1, <1>2 DEF BdftlOk, BdftlDrive, BdftlDrives
  <1>6. PICK i : i = "BIMODAL"
    OBVIOUS
  <1>7. Chip(n, i, 1)!FlashTypeOK /\ Chip(n, i, 1)!ActiveWithinDrive
    BY <1>3, Typed
  <1>8. PICK r \in Nat : r = drive.map.requests /\ r <= BdftlRequests /\ TableOk(drive.map, BdftlEntries)
    <2>1. drive.map \in BdftlMaps(n)
      BY <1>2, <1>3 DEF Drives
    <2> QED BY <2>1 DEF BdftlOk, BdftlMaps
  <1>9. Bdftl!TypeOK
    <2>1. PICK q \in Nat : q = BdftlRequests
      BY BdftlSizes
    <2>2. PICK k : k = BdftlEntries
      OBVIOUS
    <2>3. Cmt(n, i, q, k)!DftlTypeOK
      BY <1>2, <1>3, <1>7, <1>8, <2>1, CmtTyped, Zenon
    <2>4. Bdftl!DftlTypeOK
      BY <1>1, <1>6, <2>1, <2>2, <2>3, Zenon
        DEF Bdftl!DftlTypeOK, Cmt!DftlTypeOK, Cmt!FlashTypeOK, Cmt!ActiveWithinDrive,
            Bdftl!FlashTypeOK, Bdftl!ActiveWithinDrive, Cmt!Stamps, Bdftl!Stamps, Cmt!Everything, Bdftl!Everything,
            Cmt!Blocks, Bdftl!Blocks,
       Cmt!BlockType, Bdftl!BlockType,
       Cmt!Planes, Bdftl!Planes, Cmt!PlaneType, Bdftl!PlaneType, Cmt!Addresses, Bdftl!Addresses,
       Cmt!LogicalPages, Bdftl!LogicalPages, Cmt!None, Bdftl!None, Cmt!Aborts, Bdftl!Aborts,
       Cmt!NumBlocks, Bdftl!NumBlocks, Cmt!Pages, Bdftl!Pages, Cmt!PageStates, Bdftl!PageStates,
       Cmt!BlockStates, Bdftl!BlockStates
    <2>5. /\ drive.map.block_map \in [LBAs -> BPages(n)] /\ drive.map.trim_map \in [LogicalPages -> TrimStates]
          /\ drive.map.inuseBlock \in BlockSlots(n) /\ drive.map.blockQueue \in Seq(BlocksOf(n))
      BY <1>1, <1>3, BdftlFields
    <2>6. Bdftl!Blocks = BlocksOf(n) /\ Bdftl!None = None /\ Bdftl!LBAs = LBAs /\ Bdftl!LogicalPages = LogicalPages
      BY <1>1, BdftlNames, Zenon DEF Bdftl!Blocks, Bdftl!NumBlocks, BlocksOf, Bdftl!LBAs, LBAs
    <2>7. \A B : Bdftl!Seq(B) = Seq(B)
      BY Zenon DEF Bdftl!Seq
    <2> QED BY <2>4, <2>5, <2>6, Zenon DEF Bdftl!TypeOK, BPages, BlockSlots, TrimStates
  <1>10. Bdftl!CountersMatchTables /\ Bdftl!UncachedIsPersistent
    <2>1. PICK q : q = BdftlRequests
      OBVIOUS
    <2>2. PICK k : k = BdftlEntries
      OBVIOUS
    <2>0. drive.abort # "no victim"
      BY <1>3 DEF Harmless, AheadAbort
    <2>3. Cmt(n, i, q, k)!CountersMatchTables /\ Cmt(n, i, q, k)!UncachedIsPersistent
      BY <1>8, <2>0, CmtCounted, Zenon
    <2> QED BY <1>1, <1>6, <2>1, <2>2, <2>3, Zenon
        DEF Bdftl!CountersMatchTables, Cmt!CountersMatchTables, Bdftl!UncachedIsPersistent, Cmt!UncachedIsPersistent,
            Bdftl!Cached, Cmt!Cached, Bdftl!LogicalPages, Cmt!LogicalPages, Bdftl!None, Cmt!None,
            Bdftl!Cardinality, Cmt!Cardinality
  <1>11. Bdftl!BlockStateMatchesPages
    <2>1. Chip(n, i, 1)!BlockStateMatchesPages
      BY <1>3, Truthful
    <2> QED BY <1>1, <1>6, <2>1, Zenon
        DEF Bdftl!BlockStateMatchesPages, Chip!BlockStateMatchesPages, Bdftl!Blocks, Chip!Blocks,
            Bdftl!NumBlocks, Chip!NumBlocks, Bdftl!Pages, Chip!Pages, Bdftl!Cardinality, Chip!Cardinality
  <1>12. Bdftl!ProgramsOnce
    <2>1. ASSUME drive.abort = "page not empty"
          PROVE  \E l \in Bdftl!LBAs : Bdftl!TrimmedAhead(drive, l)
      <3>1. PICK l \in LBAs : Ahead(drive, l)
        BY <1>3, <2>1 DEF AheadAbort, Harmless
      <3>2. PICK a : a = Linear(Pbn(drive, l), InOrderOf(drive, l))
        OBVIOUS
      <3>3. Bdftl!PageState(drive, a) = PageAt(drive, a) /\ Bdftl!Linear(Pbn(drive, l), InOrderOf(drive, l)) = a
        BY <3>2, BdftlNames, Zenon DEF Bdftl!PageState, PageAt
      <3>4. Bdftl!LBAs = LBAs /\ Bdftl!None = None
        BY BdftlNames, Zenon DEF Bdftl!LBAs, LBAs
      <3>5. /\ Optimal(drive, l) /\ Pbn(drive, l) # None /\ InOrderOf(drive, l) < BlockSize
            /\ PageAt(drive, a) = "INVALID"
        BY <3>1, <3>2 DEF Ahead, InBlock
      <3>6. Bdftl!TrimmedAhead(drive, l)
        BY <3>3, <3>4, <3>5, Zenon DEF Bdftl!TrimmedAhead, Optimal, Pbn, InOrderOf
      <3> QED BY <3>4, <3>6
    <2> QED BY <2>1, Zenon DEF Bdftl!ProgramsOnce
  <1>13. Bdftl!OptimalHasNoEntries
    <2>1. \A v \in LogicalPages : Optimal(drive, BlockOf(v)) => drive.map.trans_map[v].ppn = None
      BY <1>3 DEF OneMode, Ppn
    <2> QED BY <2>1, BdftlNames, Zenon DEF Bdftl!OptimalHasNoEntries
  <1>14. Bdftl!ReadsLastWrite
    <2>1. ASSUME NEW v \in live \ lost
          PROVE  Bdftl!Holds(Bdftl!ReadAddress(drive, v), v)
      <3>1. v \in LogicalPages
        BY <2>1
      <3>2. BdftlWhole(drive, live \ lost)
        BY DEF BdftlOk
      <3>3. Finds(drive, v) /\ Contents(drive)
        BY <2>1, <3>1, <3>2 DEF BdftlWhole
      <3>4. PICK l \in LBAs : l = BlockOf(v) /\ PageOf(v) \in Pages
        BY <3>1, LogicalGeometry DEF LBAs
      <3>5. PICK a : a = IF Optimal(drive, l) THEN Linear(Pbn(drive, l), PageOf(v)) ELSE Ppn(drive, v)
        OBVIOUS
      <3>6. a # None /\ PageAt(drive, a) = "VALID" /\ drive.data[a] = v /\ (Optimal(drive, l) => Pbn(drive, l) # None)
        <4>1. CASE Optimal(drive, l)
          <5>1. Pbn(drive, l) # None /\ PageAt(drive, a) = "VALID" /\ drive.data[a] = v
            BY <3>3, <3>4, <3>5, <4>1 DEF Finds
          <5>2. Pbn(drive, l) \in BlocksOf(n)
            BY <1>1, <1>3, <5>1, BdftlFields DEF BlockSlots
          <5>3. a \in AddressesOf(n)
            BY <3>4, <3>5, <4>1, <5>2, Geometry
          <5>4. a # None
            BY <5>3, Geometry DEF AddressesOf, None
          <5> QED BY <5>1, <5>4
        <4>2. CASE ~Optimal(drive, l)
          <5>1. a = Ppn(drive, v) /\ a # None
            BY <3>3, <3>4, <3>5, <4>2 DEF Finds
          <5>2. PageAt(drive, a) = "VALID" /\ drive.data[a] = v
            BY <3>1, <3>3, <5>1 DEF Contents
          <5> QED BY <4>2, <5>1, <5>2
        <4> QED BY <4>1, <4>2
      <3>7. Bdftl!ReadAddress(drive, v) = a
        <4>1. /\ Bdftl!Optimal(drive, v) = Optimal(drive, l) /\ Bdftl!Pbn(drive, v) = Pbn(drive, l)
              /\ Bdftl!Linear(Bdftl!Pbn(drive, v), Bdftl!PageOf(v)) = Linear(Pbn(drive, l), PageOf(v))
              /\ Bdftl!None = None
          BY <3>4, BdftlNames, Zenon
        <4>2. CASE Optimal(drive, l)
          BY <3>5, <3>6, <4>1, <4>2, Zenon DEF Bdftl!ReadAddress
        <4>3. CASE ~Optimal(drive, l)
          BY <3>5, <4>1, <4>3, Zenon DEF Bdftl!ReadAddress, Ppn
        <4> QED BY <4>2, <4>3
      <3>8. Bdftl!PageState(drive, a) = PageAt(drive, a)
        BY BdftlNames, Zenon DEF Bdftl!PageState, PageAt
      <3>9. Bdftl!None = None
        BY BdftlNames, Zenon
      <3> QED BY <3>6, <3>7, <3>8, <3>9, Zenon DEF Bdftl!Holds
    <2> QED BY <2>1, Zenon DEF Bdftl!ReadsLastWrite
  <1> QED BY <1>9, <1>10, <1>11, <1>12, <1>13, <1>14

-----------------------------------------------------------------------------
\* The layers together.  A system has one of them; the invariant says for each
\* what its tables, the drive and the host's view have to do with each other.
LayersInv == BastInv /\ DftlInv /\ BdftlInv /\ PageInv

\* Every reachable state of BAST, DFTL, the bimodal and the page-mapped layer keeps
\* its layer's invariant, whatever request comes next and wherever it ends.
THEOREM LayersInvariant == Spec => []LayersInv
  <1>1. Init => LayersInv
    BY BastInitInv, DftlInitInv, BdftlInitInv, PageInitInv DEF LayersInv
  <1>2. LayersInv /\ [Next]_vars => LayersInv'
    <2>1. SUFFICES ASSUME LayersInv, [Next]_vars PROVE LayersInv'
      OBVIOUS
    <2>2. BastInv'
      BY <2>1, BastNextInv DEF LayersInv
    <2>3. DftlInv'
      BY <2>1, DftlNextInv DEF LayersInv
    <2>4. BdftlInv'
      BY <2>1, BdftlNextInv DEF LayersInv
    <2>5. PageInv'
      BY <2>1, PageNextInv DEF LayersInv
    <2> QED BY <2>2, <2>3, <2>4, <2>5 DEF LayersInv
  <1> QED BY <1>1, <1>2, PTL DEF Spec

\* What the invariant means, layer by layer, in one place.
LEMMA LayersMean ==
    ASSUME LayersInv
    PROVE  /\ ftl = "BAST" => /\ Bast!TypeOK /\ Bast!ReadsLastWrite /\ Bast!TrimmedStaysGone
                              /\ Bast!PageAssertHolds /\ Bast!BlocksPartitioned
                              /\ Bast!CountersMatchTables /\ Bast!BlockStateMatchesPages
           /\ ftl = "DFTL" => /\ Dftl!TypeOK /\ Dftl!ReadsLastWrite /\ Dftl!TrimmedStaysGone
                              /\ Dftl!PageAssertHolds /\ Dftl!CountersMatchTables
                              /\ Dftl!BlockStateMatchesPages /\ Dftl!UncachedIsPersistent
           /\ ftl = "BIMODAL" => Bdftl!ReadsLastWrite /\ Bdftl!ProgramsOnce
           /\ ftl = "BIMODAL" /\ None \notin lost =>
                  /\ Bdftl!TypeOK /\ Bdftl!CountersMatchTables /\ Bdftl!BlockStateMatchesPages
                  /\ Bdftl!UncachedIsPersistent /\ Bdftl!OptimalHasNoEntries
           /\ ftl = "PAGE" => Page!TypeOK /\ Page!CountersMatchTables
  <1>1. CASE ftl = "BAST"
    <2>1. BastKept(drive, live) /\ live \subseteq LogicalPages /\ lost = {}
      BY <1>1 DEF LayersInv, BastInv
    <2> QED BY <1>1, <2>1, BastMeans
  <1>2. CASE ftl = "DFTL"
    <2>1. DftlOk(drive, live) /\ lost = {}
      BY <1>2 DEF LayersInv, DftlInv
    <2> QED BY <1>2, <2>1, DftlMeans
  <1>3. CASE ftl = "BIMODAL"
    <2>1. CASE BdftlOk(drive, live, lost) /\ live \subseteq LogicalPages /\ lost \subseteq LogicalPages
      BY <1>3, <2>1, BdftlMeans
    <2>2. CASE lost = LogicalPages \cup {None}
      <3>1. Bdftl!ProgramsOnce
        BY <2>2, BdftlNames DEF Bdftl!ProgramsOnce, Bdftl!Mixed
      <3>2. Bdftl!ReadsLastWrite
        BY <1>3, <2>2 DEF LayersInv, BdftlInv, Bdftl!ReadsLastWrite
      <3> QED BY <1>3, <2>2, <3>1, <3>2
    <2> QED BY <1>3, <2>1, <2>2 DEF LayersInv, BdftlInv
  <1>4. CASE ftl = "PAGE"
    <2>1. PageOk(drive) /\ live = {} /\ lost = {}
      BY <1>4 DEF LayersInv, PageInv
    <2> QED BY <1>4, <2>1, PageMeans
  <1> QED BY <1>1, <1>2, <1>3, <1>4

\* Block::block, Plane::plane, the lists and counters of Block_manager and the
\* tables of each layer keep their types, and no counter leaves its range (in the
\* bimodal layer, and so below, until a stray trim has put a block to two uses).
THEOREM LayersTyped == Spec => [](ftl # "FAST" /\ None \notin lost => TypeOK)
  <1>1. LayersInv => (ftl # "FAST" /\ None \notin lost => TypeOK)
    BY LayersMean DEF TypeOK
  <1> QED BY <1>1, LayersInvariant, PTL

\* FtlImpl_Bast::read, FtlImpl_Dftl::read and FtlImpl_BDftl::read are led to the last
\* write of a page, through every switch, merge, eviction and write-back before it;
\* for the bimodal layer, unless a fault that BdftlFtl names has hit the page.
THEOREM ReadsCorrect == Spec => [](ftl # "FAST" => ReadsLastWrite)
  <1>1. LayersInv => (ftl # "FAST" => ReadsLastWrite)
    BY LayersMean DEF ReadsLastWrite
  <1> QED BY <1>1, LayersInvariant, PTL

\* FtlImpl_Bast::trim and FtlImpl_Dftl::trim: no merge, eviction or write-back
\* brings a page back that was trimmed, or makes one of what was never written.
THEOREM TrimsCorrect == Spec => []TrimmedStaysGone
  <1>1. LayersInv => TrimmedStaysGone
    BY LayersMean DEF TrimmedStaysGone
  <1> QED BY <1>1, LayersInvariant, PTL

\* Page::_write: the assertion that a page is empty before it is programmed never
\* fails in BAST and DFTL, in a host write, a merge or a write-back.  In the bimodal
\* layer it fails only after a stray trim, or where the page that is due next in
\* block mode was trimmed ahead of its write.
THEOREM ProgramsCorrect == Spec => [](ftl # "FAST" => ProgramsEmptyPages)
  <1>1. LayersInv => (ftl # "FAST" => ProgramsEmptyPages)
    BY LayersMean DEF ProgramsEmptyPages
  <1> QED BY <1>1, LayersInvariant, PTL

\* FtlImpl_Bast: every block is free, the log block or the data block of one logical
\* block, and its two tables and Block_manager's lists account for the whole drive.
THEOREM NoBlockLeaks == Spec => [](ftl # "FAST" => BlocksPartitioned)
  <1>1. LayersInv => (ftl # "FAST" => BlocksPartitioned)
    BY LayersMean DEF BlocksPartitioned
  <1> QED BY <1>1, LayersInvariant, PTL

\* Block_manager::data_active and log_active are the sizes of BAST's tables,
\* FtlImpl_DftlParent's cmt is at most the number of cached entries, and the page
\* layer's numPagesActive, an unsigned long, at most the drive's pages until a trim
\* takes it below zero.
THEOREM CountersCorrect == Spec => [](ftl # "FAST" /\ None \notin lost => CountersMatchTables)
  <1>1. LayersInv => (ftl # "FAST" /\ None \notin lost => CountersMatchTables)
    BY LayersMean DEF CountersMatchTables
  <1> QED BY <1>1, LayersInvariant, PTL

\* Block::write and Block::invalidate_page: a block's state and its count of invalid
\* pages tell the truth about its pages, so a trim erases no block with valid ones.
THEOREM BlockStatesCorrect == Spec => [](ftl # "FAST" /\ None \notin lost => BlockStateMatchesPages)
  <1>1. LayersInv => (ftl # "FAST" /\ None \notin lost => BlockStateMatchesPages)
    BY LayersMean DEF BlockStateMatchesPages
  <1> QED BY <1>1, LayersInvariant, PTL

\* FtlImpl_DftlParent::resolve_mapping, for events with any start times: an entry
\* that is not cached is on flash as it was last set, or was trimmed since, or was
\* written in the cache at the very time at which it had come in.
THEOREM EvictionsCorrect == Spec => [](None \notin lost => UncachedIsPersistent)
  <1>1. LayersInv => (None \notin lost => UncachedIsPersistent)
    BY LayersMean DEF UncachedIsPersistent
  <1> QED BY <1>1, LayersInvariant, PTL

\* FtlImpl_BDftl::trim: a logical block that is optimal again has no entry left in
\* the page map, whatever trim_map held when the drive was made.
THEOREM OneModeCorrect == Spec => [](None \notin lost => OneModePerBlock)
  <1>1. LayersInv => (None \notin lost => OneModePerBlock)
    BY LayersMean DEF OneModePerBlock
  <1> QED BY <1>1, LayersInvariant, PTL
=============================================================================
