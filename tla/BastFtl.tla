------------------------------ MODULE BastFtl -------------------------------
(***************************************************************************)
(* The BAST translation layer (FTLs/bast_ftl.cpp) over the block manager   *)
(* and the flash array.  A logical block has at most one data block, in    *)
(* which page i is at offset i, and at most one log block with a page map. *)
(* Writes go to the log block; a full one is switched in, when it was      *)
(* written in order, or merged with the data block into a new block.       *)
(*                                                                         *)
(* Each request is one action: the simulator is sequential.  Page contents *)
(* are abstract: a page holds the last write of some logical page, until   *)
(* that page is written again or trimmed, or nothing anybody may read.     *)
(***************************************************************************)
EXTENDS FtlParent

\* LogPageBlock::LogPageBlock, and the absence of one.
NewLog(b) == [block |-> b, pages |-> [p \in Pages |-> None]]
NoLog == NewLog(None)

\* FtlImpl_Bast::FtlImpl_Bast.
\* drive.map.log_map   : per logical block its log block and page map, or no block
\* drive.map.data_list : per logical block its data block, or None
Init == Start([log_map |-> [l \in LBAs |-> NoLog], data_list |-> [l \in LBAs |-> None]])

-----------------------------------------------------------------------------
Logged(s) == {l \in LBAs : s.map.log_map[l].block # None}

\* Where the tables say page p of logical block l is: log first, then data.
Lookup(s, l, p) ==
    IF s.map.log_map[l].pages[p] # None THEN Linear(s.map.log_map[l].block, s.map.log_map[l].pages[p])
    ELSE IF s.map.data_list[l] # None THEN Linear(s.map.data_list[l], p)
    ELSE None

\* FtlImpl_Bast::read: the address it issues.  A page that is in no block, or
\* invalid, is read from address 0.  Reading changes no table.
ReadAddress(s, lpn) ==
    LET a == Lookup(s, BlockOf(lpn), PageOf(lpn))
    IN IF a = None \/ PageState(s, a) = "INVALID" THEN 0 ELSE a

\* FtlImpl_Bast::dispose_logblock
DisposeLog(s, l) == [s EXCEPT !.map.log_map[l] = NoLog]

\* FtlImpl_Bast::is_sequential, the test: every page is at its own offset.
Sequential(log) == \A p \in Pages : log.pages[p] = p

\* The data block of l, if it has one, is erased.
ErasedData(s, l) ==
    IF s.map.data_list[l] = None THEN s ELSE EraseAndInvalidate(s, s.map.data_list[l], "DATA")

\* Mutant: the old data block is switched out and not erased.
SwitchLogKeeps(s, l) ==
    DisposeLog([PromoteToData(s) EXCEPT !.map.data_list[l] = s.map.log_map[l].block,
                                        !.data_active = s.data_active], l)

\* FtlImpl_Bast::is_sequential, the switch: the log block becomes the data block.
SwitchLog(s, l) ==
    DisposeLog([ErasedData(PromoteToData(s), l) EXCEPT !.map.data_list[l] = s.map.log_map[l].block], l)

\* Mutant: pages that are only in the data block are not copied.
MergeLogOnly(s, l, got) ==
    LET source(p) == Lookup(s, l, p)
        copied == {p \in Pages : s.map.log_map[l].pages[p] # None /\ PageState(s, source(p)) = "VALID"}
        merged == PlaneWrite(got.state, got.block, copied, [p \in copied |-> s.data[source(p)]])
        noLog == EraseAndInvalidate(merged, s.map.log_map[l].block, "LOG")
    IN DisposeLog([ErasedData(noLog, l) EXCEPT !.map.data_list[l] = got.block], l)

\* Mutant: a merge copies pages that a trim has invalidated.
MergeCopiesInvalid(s, l, got) ==
    LET source(p) == Lookup(s, l, p)
        copied == {p \in Pages : source(p) # None /\ PageState(s, source(p)) # "EMPTY"}
        merged == PlaneWrite(got.state, got.block, copied, [p \in copied |-> s.data[source(p)]])
        noLog == EraseAndInvalidate(merged, s.map.log_map[l].block, "LOG")
    IN DisposeLog([ErasedData(noLog, l) EXCEPT !.map.data_list[l] = got.block], l)

\* FtlImpl_Bast::random_merge: the valid pages of the log and data block are
\* copied to a new data block, each at its offset, and both blocks are erased
\* (so that the copies' sources are invalidated first does not show).
MergeInto(s, l, got) ==
    LET source(p) == Lookup(s, l, p)
        copied == {p \in Pages : source(p) # None /\ PageState(s, source(p)) = "VALID"}
        merged == PlaneWrite(got.state, got.block, copied, [p \in copied |-> s.data[source(p)]])
        noLog == EraseAndInvalidate(merged, s.map.log_map[l].block, "LOG")
    IN DisposeLog([ErasedData(noLog, l) EXCEPT !.map.data_list[l] = got.block], l)

RandomMerge(s, l) == MergeInto(s, l, GetFreeBlock(s, "DATA"))

MergeLog(s, l) == IF Sequential(s.map.log_map[l]) THEN SwitchLog(s, l) ELSE RandomMerge(s, l)

\* The log block allocate_new_logblock merges first when the limit is reached:
\* random()%size-1 is an index before the last, and -1 counts as 0.
Victims(s, l) ==
    LET logged == Logged(s)
    IN IF l \in logged \/ Cardinality(logged) < LogBlockLimit THEN {None}
       ELSE IF Cardinality(logged) = 1 THEN logged
       ELSE {v \in logged : \E w \in logged : v < w}

\* FtlImpl_Bast::allocate_new_logblock
OpenLog(got, l) == [got.state EXCEPT !.map.log_map[l] = NewLog(got.block)]
AllocateLog(s, l, victim) ==
    OpenLog(GetFreeBlock(IF victim = None THEN s ELSE MergeLog(s, victim), "LOG"), l)

\* The write's target: the next free page of the log block, or the first page
\* of a new one once the full block is merged.
PlaceInLog(s, l, p) ==
    LET log == s.map.log_map[l]
        numValid == s.block[log.block].pages_valid
    IN IF numValid < BlockSize
       THEN [s EXCEPT !.map.log_map[l].pages[p] = numValid]
       ELSE [AllocateLog(MergeLog(s, l), l, None) EXCEPT !.map.log_map[l].pages[p] = 0]

\* The page a write makes invalid: the one in the data block unless it is empty,
\* otherwise the one the log block held, if the block had room for this write.
Replaced(before, after, l, p) ==
    LET inData == Linear(after.map.data_list[l], p)
        inLog == Linear(before.map.log_map[l].block, before.map.log_map[l].pages[p])
        hadRoom == before.block[before.map.log_map[l].block].pages_valid < BlockSize
    IN IF after.map.data_list[l] # None /\ PageState(after, inData) # "EMPTY" THEN inData
       ELSE IF before.map.log_map[l].pages[p] # None /\ hadRoom THEN inLog
       ELSE None

\* FtlImpl_Bast::write
WriteTo(opened, placed, lpn) ==
    LET log == placed.map.log_map[BlockOf(lpn)]
    IN IssueWrite(Outdate(placed, lpn), Linear(log.block, log.pages[PageOf(lpn)]),
                  Replaced(opened, placed, BlockOf(lpn), PageOf(lpn)), lpn)
WriteResult(s, lpn, victim) ==
    LET l == BlockOf(lpn)
        opened == IF l \in Logged(s) THEN s ELSE AllocateLog(s, l, victim)
    IN WriteTo(opened, PlaceInLog(opened, l, PageOf(lpn)), lpn)

\* FtlImpl_Bast::trim, the log block: the page becomes invalid and unmapped, and
\* a block with nothing but invalid pages is erased.
TrimLog(s, l, p) ==
    LET log == s.map.log_map[l]
        unmapped == [PlaneReplace(s, Linear(log.block, log.pages[p]))
                     EXCEPT !.map.log_map[l].pages[p] = None]
    IN IF log.pages[p] = None THEN s
       ELSE IF unmapped.block[log.block].state = "INACTIVE"
       THEN EraseAndInvalidate(DisposeLog(unmapped, l), log.block, "LOG")
       ELSE unmapped

\* FtlImpl_Bast::trim, the data block.
TrimData(s, l, p) ==
    LET b == s.map.data_list[l]
        invalid == PlaneReplace(s, Linear(b, p))
    IN IF b = None THEN s
       ELSE IF invalid.block[b].state = "INACTIVE"
       THEN EraseAndInvalidate([invalid EXCEPT !.map.data_list[l] = None], b, "DATA")
       ELSE invalid

\* FtlImpl_Bast::trim
TrimResult(s, lpn) ==
    LET l == BlockOf(lpn)
        p == PageOf(lpn)
    IN TrimData(TrimLog(Outdate(s, lpn), l, p), l, p)

-----------------------------------------------------------------------------
Write(lpn) ==
    \E victim \in Victims(drive, BlockOf(lpn)) :
        Serve(WriteResult(drive, lpn, victim), live \cup {lpn}, lost)

Trim(lpn) == Serve(TrimResult(drive, lpn), live \ {lpn}, lost)

Next == \E lpn \in HostPages : Write(lpn) \/ Trim(lpn)

-----------------------------------------------------------------------------
\* The page maps of the log blocks, the data list and the drive keep their types.
TypeOK ==
    /\ FlashTypeOK /\ ActiveWithinDrive
    /\ drive.map.log_map \in
           [LBAs -> [block : Blocks \cup {None}, pages : [Pages -> Pages \cup {None}]]]
    /\ drive.map.data_list \in [LBAs -> Blocks \cup {None}]

\* A read of a live page leads to its last write (FtlImpl_Bast::read).
ReadsLastWrite == \A lpn \in live : Holds(ReadAddress(drive, lpn), lpn)

\* No valid page of the drive is mapped for a page that is not live.
TrimmedStaysGone ==
    \A lpn \in LogicalPages \ live :
        LET a == Lookup(drive, BlockOf(lpn), PageOf(lpn))
        IN a = None \/ PageState(drive, a) # "VALID"

LogBlocks == {drive.map.log_map[l].block : l \in Logged(drive)}
DataMapped == {l \in LBAs : drive.map.data_list[l] # None}
DataBlocks == {drive.map.data_list[l] : l \in DataMapped}

\* Every block is free, a log block or a data block, and only one of these.
BlocksPartitioned ==
    /\ Blocks = FreeBlocks \cup LogBlocks \cup DataBlocks
    /\ NumBlocks = Len(drive.free_list) + (NumBlocks - drive.simpleCurrentFree)
                   + Cardinality(Logged(drive)) + Cardinality(DataMapped)

\* Block_manager's counters by type are the sizes of the two tables.
CountersMatchTables ==
    /\ drive.log_active = Cardinality(Logged(drive))
    /\ drive.data_active = Cardinality(DataMapped)
=============================================================================
