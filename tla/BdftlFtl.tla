------------------------------ MODULE BdftlFtl ------------------------------
(***************************************************************************)
(* The bimodal translation layer (FTLs/bdftl_ftl.cpp).  A logical block    *)
(* that is written in order from its first page is "optimal": it has one   *)
(* physical block and needs no page map.  The first write out of order     *)
(* turns it over to the cached mapping table; what was left empty in its   *)
(* block is used up first.  Trimming every page makes it optimal again.    *)
(*                                                                         *)
(* drive.map.block_map : per logical block pbn (here a block number, or    *)
(*     None), next page and whether it is optimal                          *)
(* drive.map.trim_map : pages trimmed and not written since.  The array is *)
(*     not initialised: "unknown" until it is written, or read as one or   *)
(*     the other                                                           *)
(* drive.map.inuseBlock, drive.map.blockQueue : blocks with empty pages    *)
(***************************************************************************)
EXTENDS DftlParent, FiniteSetsExt

\* FtlImpl_BDftl::FtlImpl_BDftl, BPage::BPage
BPage == [pbn |-> None, nextPage |-> 0, optimal |-> TRUE]
Init ==
    Start([trans_map |-> DftlTables.trans_map, cmt |-> 0, currentDataPage |-> None, requests |-> 0,
           gtd |-> DftlTables.gtd, overlooked |-> {}, block_map |-> [l \in LBAs |-> BPage],
           trim_map |-> [v \in LogicalPages |-> "unknown"], inuseBlock |-> None,
           blockQueue |-> << >>])

Optimal(s, lpn) == s.map.block_map[BlockOf(lpn)].optimal
Pbn(s, lpn) == s.map.block_map[BlockOf(lpn)].pbn

\* FtlImpl_BDftl::read: the address it issues, None for a read of nothing.
ReadAddress(s, lpn) ==
    IF ~Optimal(s, lpn) THEN s.map.trans_map[lpn].ppn
    ELSE IF Pbn(s, lpn) = None THEN None
    ELSE Linear(Pbn(s, lpn), PageOf(lpn))
ReadResult(s, lpn, now, tied) ==
    IF Optimal(s, lpn) THEN s ELSE ResolveMapping(s, lpn, FALSE, now, tied)

-----------------------------------------------------------------------------
\* Block::get_next_page: the first empty page, None in a full block.
NextPage(s, b) ==
    LET empty == {p \in Pages : s.block[b].page[p] = "EMPTY"}
    IN IF empty = {} THEN None ELSE Linear(b, Min(empty))

\* FtlImpl_BDftl::get_free_biftl_page: the state and the page.
GetFreeBiftlPage(s) ==
    LET use == s.map.inuseBlock
        queued == Head(s.map.blockQueue)
        dftl == GetFreeDataPage([s EXCEPT !.map.inuseBlock = None])
    IN IF use # None /\ NextPage(s, use) # None THEN [state |-> s, page |-> NextPage(s, use)]
       ELSE IF use # None /\ s.map.blockQueue # << >>
       THEN [state |-> [Assert(s, NextPage(s, queued) # None, "no empty page")
                        EXCEPT !.map.inuseBlock = queued, !.map.blockQueue = Tail(@)],
             page |-> IF NextPage(s, queued) = None THEN 0 ELSE NextPage(s, queued)]
       ELSE [state |-> dftl, page |-> dftl.map.currentDataPage]

\* The transfer to the page map.  The pages looked at are those of the physical
\* block that has the logical block's number, and only pages that already have
\* an entry get one: the entry of every other page stays empty.
Convert(s, l, now) ==
    LET b == s.map.block_map[l].pbn
        moved == {p \in 0 .. s.map.block_map[l].nextPage - 1 :
                     /\ s.block[l].page[p] = "VALID"
                     /\ s.map.trans_map[Linear(l, p)].ppn # None}
        entry(v) == [s.map.trans_map[v] EXCEPT !.ppn = Linear(b, PageOf(v)), !.create_ts = now,
                                               !.modified_ts = now, !.cached = TRUE]
        mapped == [s EXCEPT !.map.block_map[l].optimal = FALSE,
                            !.map.cmt = @ + Cardinality(moved),
                            !.map.trans_map = [v \in LogicalPages |->
                                IF BlockOf(v) = l /\ PageOf(v) \in moved THEN entry(v) ELSE @[v]]]
    IN IF s.block[b].pages_valid = BlockSize THEN mapped
       ELSE IF s.map.inuseBlock = None THEN [mapped EXCEPT !.map.inuseBlock = b]
       ELSE [mapped EXCEPT !.map.blockQueue = Append(@, b)]

\* The first write at offset 0 takes a block.
Opened(s, lpn) ==
    LET got == GetFreeBlock(s, "DATA")
    IN IF Optimal(s, lpn) /\ Pbn(s, lpn) = None /\ PageOf(lpn) = 0
       THEN [got.state EXCEPT !.map.block_map[BlockOf(lpn)].pbn = got.block] ELSE s

InOrder(s, lpn) ==
    Optimal(s, lpn) /\ Pbn(s, lpn) # None /\ s.map.block_map[BlockOf(lpn)].nextPage = PageOf(lpn)
Converts(s, lpn) == Optimal(s, lpn) /\ Pbn(s, lpn) # None /\ ~InOrder(s, lpn)

\* FtlImpl_BDftl::write
WriteResult(s, lpn, now, tied) ==
    LET l == BlockOf(lpn)
        opened == [Opened(s, lpn) EXCEPT !.map.trim_map[lpn] = "no"]
        inOrder == [Outdate(opened, lpn) EXCEPT !.map.block_map[l].nextPage = @ + 1]
        moved == IF Converts(opened, lpn) THEN Convert(opened, l, now)
                 ELSE [opened EXCEPT !.map.block_map[l].optimal = FALSE]
        free == GetFreeBiftlPage(moved)
    IN IF InOrder(opened, lpn)
       THEN IssueWrite(inOrder, Linear(Pbn(opened, lpn), PageOf(lpn)), None, lpn)
       ELSE MapTo(ResolveMapping(free.state, lpn, TRUE, now, tied), lpn, free.page)

-----------------------------------------------------------------------------
\* FtlImpl_BDftl::trim of a page in an optimal block.  Without a block the
\* address is -1 and the offset: a page of whoever has it (sizes are powers of 2).
TrimOptimal(s, lpn) ==
    LET l == BlockOf(lpn)
        a == IF Pbn(s, lpn) = None THEN (PageOf(lpn) - 1) % (NumBlocks * BlockSize)
             ELSE Linear(Pbn(s, lpn), PageOf(lpn))
        invalid == Outdate(PlaneReplace(s, a), lpn)
    IN IF invalid.block[BlockOf(a)].state = "INACTIVE"
       THEN EraseAndInvalidate([invalid EXCEPT !.map.block_map[l] = BPage], BlockOf(a), "DATA")
       ELSE invalid

\* Mutant: a block is made optimal again by the first trim of one of its pages.
TrimResultEager(s, lpn, junk) ==
    IF Optimal(s, lpn) THEN TrimOptimal(s, lpn)
    ELSE [Unmap(s, lpn) EXCEPT !.map.block_map[BlockOf(lpn)] = BPage]

\* FtlImpl_BDftl::trim.  "junk" is what the unknown entries turn out to hold.
TrimResult(s, lpn, junk) ==
    LET l == BlockOf(lpn)
        noted == [s EXCEPT !.map.trim_map[lpn] = "yes"]
        known == [v \in LogicalPages |->
                     IF v \in PagesOf(l) /\ noted.map.trim_map[v] = "unknown"
                     THEN (IF v \in junk THEN "yes" ELSE "no") ELSE noted.map.trim_map[v]]
        unmapped == [Unmap(noted, lpn) EXCEPT !.map.trim_map = known]
    IN IF Optimal(s, lpn) THEN TrimOptimal(noted, lpn)
       ELSE IF \A v \in PagesOf(l) : known[v] = "yes"
       THEN [unmapped EXCEPT !.map.block_map[l] = BPage]
       ELSE unmapped

-----------------------------------------------------------------------------
\* The faults of the layer.  A conversion leaves what the block held unmapped.
WriteFaults(s, lpn) ==
    IF Converts(Opened(s, lpn), lpn) THEN (PagesOf(BlockOf(lpn)) \cap live) \ {lpn} ELSE {}

\* A trim in an optimal block that has no physical one: the page made invalid,
\* and the block erased when it is the last one, is somebody else's.
StrayTrim(s, lpn) == Optimal(s, lpn) /\ Pbn(s, lpn) = None

\* A page of an optimal block that was trimmed before it was written: the write
\* in order that is due to it finds it INVALID.
TrimmedAhead(s, l) ==
    LET next == Linear(s.map.block_map[l].pbn, s.map.block_map[l].nextPage)
    IN /\ s.map.block_map[l].optimal /\ s.map.block_map[l].pbn # None
       /\ s.map.block_map[l].nextPage < BlockSize /\ PageState(s, next) = "INVALID"

Read(lpn, now, tied) ==
    /\ MayServe(MaxRequests)
    /\ ~Optimal(drive, lpn)      \* otherwise a read changes nothing
    /\ Serve(ReadResult(Counted, lpn, now, tied), live, lost)

Write(lpn, now, tied) ==
    /\ MayServe(MaxRequests)
    /\ Serve(WriteResult(Counted, lpn, now, tied), live \cup {lpn},
             IF Mixed THEN lost ELSE (lost \ {lpn}) \cup WriteFaults(drive, lpn))

Trim(lpn) == /\ MayServe(MaxRequests)
             /\ \E junk \in SUBSET {v \in PagesOf(BlockOf(lpn)) :
                                       ~Optimal(drive, lpn) /\ drive.map.trim_map[v] = "unknown"} :
                    Serve(TrimResult(Counted, lpn, junk), live \ {lpn},
                          IF StrayTrim(drive, lpn) THEN Everything ELSE lost)

Next == \E lpn \in HostPages :
            \/ \E now \in StartTimes, tied \in HostPages : Read(lpn, now, tied) \/ Write(lpn, now, tied)
            \/ Trim(lpn)

-----------------------------------------------------------------------------
\* Block map, trim map, block queue and the tables of DFTL keep their types.
TypeOK ==
    /\ DftlTypeOK
    /\ drive.map.block_map \in
           [LBAs -> [pbn : Blocks \cup {None}, nextPage : 0 .. BlockSize, optimal : BOOLEAN]]
    /\ drive.map.trim_map \in [LogicalPages -> {"unknown", "yes", "no"}]
    /\ drive.map.inuseBlock \in Blocks \cup {None} /\ drive.map.blockQueue \in Seq(Blocks)

\* A read of a live page leads to its last write, unless a named fault hit it.
ReadsLastWrite == \A lpn \in live \ lost : Holds(ReadAddress(drive, lpn), lpn)

\* The only page programmed twice is one that was trimmed ahead of its write.
ProgramsOnce ==
    drive.abort = "page not empty" => Mixed \/ \E l \in LBAs : TrimmedAhead(drive, l)

\* A block made optimal again has nothing left in the page map.
OptimalHasNoEntries ==
    \A lpn \in LogicalPages : Optimal(drive, lpn) => drive.map.trans_map[lpn].ppn = None
=============================================================================
