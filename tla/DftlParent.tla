----------------------------- MODULE DftlParent -----------------------------
(***************************************************************************)
(* The cached mapping table that the page-mapped layers share              *)
(* (FTLs/dftl_parent.cpp).  Every logical page has an entry; the entries   *)
(* flagged "cached" are in RAM, the others only in translation pages on    *)
(* flash.  A miss evicts the entry visited longest ago, which is written   *)
(* back when its two time stamps differ.  The times are the start times    *)
(* of the host's events: any, in any order, and several may be equal.      *)
(*                                                                         *)
(* drive.map.trans_map : the entries                                       *)
(* drive.map.cmt : how many entries the layer believes to be cached        *)
(* drive.map.currentDataPage : the page written last, or None              *)
(* drive.map.requests : requests served, to bound the model                *)
(* drive.map.gtd : what the translation pages on flash hold.  The code     *)
(*     simulates those writes and keeps no such copy.                      *)
(* drive.map.overlooked : entries changed and not written back since whose *)
(*     two stamps are equal all the same: nothing will write them back.    *)
(*     The code keeps no such set either.                                  *)
(*                                                                         *)
(* Left out: reverse_trans_map, read only by cleanup_block, which an empty *)
(* cost index never calls (a trim also writes it at index -1).             *)
(***************************************************************************)
EXTENDS FtlParent

CONSTANTS MaxRequests,      \* bound: requests of the host
          StartTimes,       \* start times of the host's events
          TotalCMTentries,  \* entries the cache may hold
          AddressPerPage    \* entries of a translation page

\* FtlImpl_DftlParent::MPage::MPage
MPage == [ppn |-> None, create_ts |-> -1, modified_ts |-> -1, last_visited_time |-> -1,
          cached |-> FALSE]

\* FtlImpl_DftlParent::FtlImpl_DftlParent
DftlTables == [trans_map |-> [v \in LogicalPages |-> MPage], cmt |-> 0, currentDataPage |-> None,
               requests |-> 0, gtd |-> [v \in LogicalPages |-> None], overlooked |-> {}]

Cached(s) == {v \in LogicalPages : s.map.trans_map[v].cached}

\* FtlImpl_DftlParent::evict_page_from_cache, the loop body, and
\* evict_specific_page_from_cache: a changed entry is written back, with every
\* cached entry of its translation page, then it leaves the cache.  (The last
\* translation page may be larger than what is left of the table; the loop then
\* reads past its end, which is left out: the cfg's tables divide evenly.)
Evict(s, victim) ==
    LET e == s.map.trans_map[victim]
        saved == IF e.create_ts = e.modified_ts THEN {}
                 ELSE {v \in Cached(s) : v \div AddressPerPage = victim \div AddressPerPage}
        written == [v \in LogicalPages |->
                       IF v \in saved
                       THEN [s.map.trans_map[v] EXCEPT !.create_ts = s.map.trans_map[v].modified_ts]
                       ELSE s.map.trans_map[v]]
        checked == Assert(s, e.cached /\ e.create_ts >= 0 /\ e.modified_ts >= 0, "no victim")
    IN [checked EXCEPT
           !.map.gtd = [v \in LogicalPages |-> IF v \in saved THEN s.map.trans_map[v].ppn ELSE @[v]],
           !.map.overlooked = @ \ saved,
           !.map.cmt = @ - 1,
           !.map.trans_map = [written EXCEPT ![victim] =
               [MPage EXCEPT !.ppn = e.ppn, !.create_ts = -2, !.modified_ts = -2,
                             !.last_visited_time = -2]]]

\* mpage_last_visited_time_compare: the first of the index.  With no entry cached
\* all keys are equal.  Which of the entries visited at the same time comes first
\* depends on how they got there: "tied" does, if it is one of them.
Oldest(s, tied) ==
    LET among == IF Cached(s) = {} THEN LogicalPages ELSE Cached(s)
        oldest == {v \in among : \A w \in among :
            s.map.trans_map[v].last_visited_time <= s.map.trans_map[w].last_visited_time}
    IN IF tied \in oldest THEN tied ELSE CHOOSE v \in oldest : TRUE

\* FtlImpl_DftlParent::evict_page_from_cache: every turn lowers cmt by one.
EvictFromCache(s, tied) ==
    LET turns == IF s.map.cmt >= TotalCMTentries THEN s.map.cmt - TotalCMTentries + 1 ELSE 0
        evicted[n \in 0 .. turns] ==
            IF n = 0 THEN s ELSE Evict(evicted[n - 1], Oldest(evicted[n - 1], tied))
    IN evicted[turns]

\* Mutant: an entry brought in by a write is not marked as changed.
ResolveMissClean(s, lpn, isWrite, now, tied) ==
    LET e == s.map.trans_map[lpn]
        room == EvictFromCache(s, tied)
    IN IF e.cached
       THEN [s EXCEPT !.map.trans_map[lpn] =
                          [e EXCEPT !.modified_ts = IF isWrite THEN now ELSE e.modified_ts,
                                    !.last_visited_time = now],
                      !.map.overlooked = IF ~isWrite THEN @
                                         ELSE IF now = e.create_ts THEN @ \cup {lpn} ELSE @ \ {lpn}]
       ELSE [room EXCEPT !.map.cmt = @ + 1,
                         !.map.trans_map[lpn] =
                             [@ EXCEPT !.create_ts = now, !.modified_ts = now,
                                       !.last_visited_time = now, !.cached = TRUE],
                         !.map.overlooked = IF isWrite THEN @ \ {lpn} ELSE @]

\* FtlImpl_DftlParent::resolve_mapping (lookup_CMT, consult_GTD) for an event with
\* start time "now".  A write that finds the entry in the cache at the very time
\* the entry was brought in leaves it with equal stamps.
ResolveMapping(s, lpn, isWrite, now, tied) ==
    LET e == s.map.trans_map[lpn]
        room == EvictFromCache(s, tied)
    IN IF e.cached
       THEN [s EXCEPT !.map.trans_map[lpn] =
                          [e EXCEPT !.modified_ts = IF isWrite THEN now ELSE e.modified_ts,
                                    !.last_visited_time = now],
                      !.map.overlooked = IF ~isWrite THEN @
                                         ELSE IF now = e.create_ts THEN @ \cup {lpn} ELSE @ \ {lpn}]
       ELSE [room EXCEPT !.map.cmt = @ + 1,
                         !.map.trans_map[lpn] =
                             [@ EXCEPT !.create_ts = now, !.modified_ts = IF isWrite THEN now + 1 ELSE now,
                                       !.last_visited_time = now, !.cached = TRUE],
                         !.map.overlooked = IF isWrite THEN @ \ {lpn} ELSE @]

\* FtlImpl_DftlParent::get_free_data_page: the next page of the block in use, or
\* the first of a new one, after a collection.
GetFreeDataPage(s) ==
    LET full == s.map.currentDataPage = None \/ PageOf(s.map.currentDataPage) = BlockSize - 1
        got == GetFreeBlock(InsertEvents(s), "DATA")
    IN IF full THEN [got.state EXCEPT !.map.currentDataPage = Linear(got.block, 0)]
       ELSE [s EXCEPT !.map.currentDataPage = @ + 1]

\* The end of a page-mapped write: the entry leads to page a, the old page is
\* replaced.
MapTo(s, lpn, a) ==
    IssueWrite(Outdate([s EXCEPT !.map.trans_map[lpn].ppn = a], lpn), a,
               s.map.trans_map[lpn].ppn, lpn)

\* A page-mapped trim: the page is invalidated and the entry evicted.  The copy
\* of the entry made before that is stored back: it counts as cached again,
\* which cmt does not know, and its new value is not marked as changed.
Unmap(s, lpn) ==
    LET e == s.map.trans_map[lpn]
        invalid == PlaneReplace(s, e.ppn)
        evicted == IF e.cached THEN Evict(invalid, lpn) ELSE invalid
    IN IF e.ppn = None THEN s
       ELSE [Outdate(evicted, lpn) EXCEPT !.map.trans_map[lpn] = [e EXCEPT !.ppn = None]]

-----------------------------------------------------------------------------
Stamps == {-2, -1} \cup StartTimes \cup {now + 1 : now \in StartTimes}

\* The entries of the mapping table, its counter and the drive keep their types.
DftlTypeOK ==
    /\ FlashTypeOK /\ ActiveWithinDrive
    /\ drive.map.trans_map \in
           [LogicalPages -> [ppn : Addresses \cup {None}, create_ts : Stamps, modified_ts : Stamps,
                             last_visited_time : Stamps, cached : BOOLEAN]]
    /\ drive.map.cmt \in Int /\ drive.map.requests \in 0 .. MaxRequests
    /\ drive.map.currentDataPage \in Addresses \cup {None}
    /\ drive.map.overlooked \subseteq LogicalPages

\* An entry that is only on flash is there as it was last set, unless it was
\* changed at the time at which it was brought in.
UncachedIsPersistent ==
    \A v \in LogicalPages \ (Cached(drive) \cup drive.map.overlooked) :
        drive.map.trans_map[v].ppn \in {None, drive.map.gtd[v]}

\* The layer never believes more entries cached than are, so that the assertion
\* on the victim of an eviction holds.
CountersMatchTables == drive.abort # "no victim" /\ drive.map.cmt <= Cardinality(Cached(drive))
=============================================================================
