------------------------------ MODULE FastFtl -------------------------------
(***************************************************************************)
(* The FAST translation layer (FTLs/fast_ftl.cpp).  A logical block has a  *)
(* data block, in which page i is at offset i.  A write whose page is      *)
(* taken goes to a log: to the one sequential (SW) log block when it is at *)
(* offset 0 or belongs to that block's owner, otherwise to the next page   *)
(* of the random (RW) log blocks, which any logical block may use.         *)
(*                                                                         *)
(* drive.map.log_pages : the RW log blocks, oldest first; empty until the  *)
(*     first request, then always LogBlockLimit of them                    *)
(* drive.map.log_page_next : pages of the RW log in use                    *)
(* drive.map.sequential : the SW log block, its owner and next offset      *)
(* drive.map.data_list : per logical block its data block, or None         *)
(* drive.map.requests : requests served, to bound the model                *)
(*                                                                         *)
(* The layer loses data in several ways.  Each is named below and adds the *)
(* pages it hits to "lost"; the properties say that nothing else is lost.  *)
(***************************************************************************)
EXTENDS FtlParent

CONSTANT MaxRequests    \* bound: requests of the host

NoSequential == [block |-> None, offset |-> 0, lba |-> None]

\* FtlImpl_Fast::FtlImpl_Fast
Init == Start([log_pages |-> << >>, log_page_next |-> 0, sequential |-> NoSequential,
               data_list |-> [l \in LBAs |-> None], requests |-> 0])

RwLog(s) == 1 .. Len(s.map.log_pages)
SwBlock(s) == s.map.sequential.block
SwOwner(s) == s.map.sequential.lba

\* A log block at the end of the RW list.
AppendLogBlock(got) ==
    [got.state EXCEPT !.map.log_pages = Append(@, [block |-> got.block, numPages |-> 0,
                                                   aPages |-> [p \in Pages |-> None]])]
AddLogBlock(s) == AppendLogBlock(GetFreeBlock(s, "LOG"))

\* FtlImpl_Fast::initialize_log_pages, at the first request.
InitializeLogPages(s) ==
    LET grown[n \in 0 .. LogBlockLimit] == IF n = 0 THEN s ELSE AddLogBlock(grown[n - 1])
    IN IF s.map.log_pages = << >> THEN grown[LogBlockLimit] ELSE s

-----------------------------------------------------------------------------
\* Where a page is in the RW log: the first copy, which is the oldest.
Copies(s, lpn) == {c \in RwLog(s) \X Pages : s.map.log_pages[c[1]].aPages[c[2]] = lpn}
FirstCopy(s, lpn) ==
    CHOOSE c \in Copies(s, lpn) :
        \A d \in Copies(s, lpn) : c[1] < d[1] \/ (c[1] = d[1] /\ c[2] <= d[2])
CopyAddress(s, c) == Linear(s.map.log_pages[c[1]].block, c[2])

InSequential(s, lpn) ==
    /\ SwOwner(s) = BlockOf(lpn)
    /\ s.map.sequential.offset > PageOf(lpn)

\* FtlImpl_Fast::read: the address it issues, None for a read of nothing.
ReadAddress(s, lpn) ==
    IF Copies(s, lpn) # {} THEN CopyAddress(s, FirstCopy(s, lpn))
    ELSE IF InSequential(s, lpn) THEN Linear(SwBlock(s), PageOf(lpn))
    ELSE IF s.map.data_list[BlockOf(lpn)] # None
    THEN Linear(s.map.data_list[BlockOf(lpn)], PageOf(lpn))
    ELSE None

-----------------------------------------------------------------------------
\* Pages of block b are written from the addresses given.
CopyPages(s, b, source) ==
    PlaneWrite(s, b, {p \in Pages : source[p] # None},
               [p \in {q \in Pages : source[q] # None} |-> s.data[source[p]]])

ValidOr(s, a, other) == IF a # None /\ PageState(s, a) = "VALID" THEN a ELSE other
At(b, p) == IF b = None THEN None ELSE Linear(b, p)

\* Invalidate the data block of l, if any, and put block b in its place.
ReplaceData(s, l, b) ==
    LET old == s.map.data_list[l]
        freed == IF old = None THEN s ELSE Invalidate(s, old, "DATA")
    IN [freed EXCEPT !.map.data_list[l] = b]

\* FtlImpl_Fast::switch_sequential.  After a trim has emptied the SW block it
\* has no owner but may still count as full: the table is read at index -1.
SwitchSequential(s) ==
    IF SwOwner(s) = None THEN Assert(s, FALSE, "bad address")
    ELSE ReplaceData(s, SwOwner(s), SwBlock(s))

\* FtlImpl_Fast::merge_sequential: valid pages of the SW block, else of the data
\* block, go to a new block; both are invalidated.
CollectIfShort(s) == IF NumFreeBlocks(s) < 5 THEN InsertEvents(s) ELSE s
MergeSequentialInto(s, new) ==
    LET l == SwOwner(s)
        source == [p \in Pages |-> ValidOr(s, At(SwBlock(s), p),
                                           ValidOr(s, At(s.map.data_list[l], p), None))]
    IN ReplaceData(Invalidate(CopyPages(s, new, source), SwBlock(s), "DATA"), l, new)
MergeSequential(s) ==
    LET got == GetFreeBlock(s, "DATA")
    IN IF SwOwner(s) = None THEN s ELSE MergeSequentialInto(CollectIfShort(got.state), got.block)

\* The copy of page p of block l that a random merge takes from the RW log: the
\* newest one.  The first page of a log block is never looked at.
MergeSource(s, l, p) ==
    LET found == {c \in Copies(s, Linear(l, p)) : c[2] > 0}
        newest == CHOOSE c \in found : \A d \in found : d[1] < c[1] \/ (d[1] = c[1] /\ d[2] <= c[2])
    IN IF found = {} THEN None ELSE CopyAddress(s, newest)

\* Older copies of a page that has been copied ("pinned") are unmapped.
Unpin(s, l, pinned) ==
    [s EXCEPT !.map.log_pages = [i \in RwLog(s) |->
        [@[i] EXCEPT !.aPages = [p \in Pages |->
            IF /\ p > 0 /\ @[p] # None /\ BlockOf(@[p]) = l /\ PageOf(@[p]) \in pinned
               /\ CopyAddress(s, <<i, p>>) # MergeSource(s, l, PageOf(@[p]))
            THEN None ELSE @[p]]]]]

\* FtlImpl_Fast::random_merge, the loop body: all of block l into a new block.
\* Nothing asks whether l has a data block: without one the address is -1, which
\* wraps, so that the drive's last block is taken for it (sizes are powers of 2).
LastBlock == NumBlocks - 1
DataPage(s, l, p) ==
    IF s.map.data_list[l] = None THEN (p - 1) % (NumBlocks * BlockSize)
    ELSE Linear(s.map.data_list[l], p)
MergeInto(s, l, new) ==
    LET old == IF s.map.data_list[l] = None THEN LastBlock ELSE s.map.data_list[l]
        source == [p \in Pages |->
                      IF s.block[new].page[p] # "EMPTY" THEN None
                      ELSE IF MergeSource(s, l, p) # None THEN MergeSource(s, l, p)
                      ELSE ValidOr(s, DataPage(s, l, p), None)]
        pinned == {p \in Pages : source[p] # None}
        merged == Unpin(CopyPages(s, new, source), l, pinned)
    IN [Invalidate(merged, old, "DATA") EXCEPT !.map.data_list[l] = new]
MergeBlock(s, l) ==
    LET got == GetFreeBlock(CollectIfShort(s), "DATA") IN MergeInto(got.state, l, got.block)

\* FtlImpl_Fast::random_merge: the logical blocks of the oldest log block, in
\* ascending order, then that block leaves the list and a new one is added.
RandomMerge(s) ==
    LET victim == s.map.log_pages[1]
        owners == {BlockOf(victim.aPages[p]) : p \in {q \in Pages : victim.aPages[q] # None}}
        merged[l \in -1 .. LogicalBlocks - 1] ==
            IF l = -1 THEN s
            ELSE IF l \in owners THEN MergeBlock(merged[l - 1], l) ELSE merged[l - 1]
        left == [merged[LogicalBlocks - 1] EXCEPT !.map.log_pages = Tail(@),
                                                  !.map.log_page_next = @ - BlockSize]
    IN AddLogBlock(Invalidate(left, victim.block, "LOG"))

RwFull(s) == s.map.log_page_next = LogBlockLimit * BlockSize

\* Append to the first RW log block with room.
AppendToRw(s, lpn) ==
    LET i == CHOOSE j \in RwLog(s) : /\ s.map.log_pages[j].numPages # BlockSize
                                     /\ \A k \in 1 .. j - 1 : s.map.log_pages[k].numPages = BlockSize
        p == s.map.log_page_next % BlockSize
    IN [state |-> [s EXCEPT !.map.log_pages[i].aPages[p] = lpn,
                            !.map.log_pages[i].numPages = @ + 1,
                            !.map.log_page_next = @ + 1],
        target |-> Linear(s.map.log_pages[i].block, p)]

\* A new SW log block for l.  The event is written to its first page, whatever
\* its offset in the logical block is.
StartSequential(got, l) ==
    [state |-> [got.state EXCEPT !.map.sequential = [block |-> got.block, offset |-> 1, lba |-> l]],
     target |-> Linear(got.block, 0)]
NewSequential(s, l) == StartSequential(GetFreeBlock(s, "DATA"), l)

\* FtlImpl_Fast::write_to_log_block: the state and the page the write goes to.
WriteToLog(s, lpn) ==
    LET l == BlockOf(lpn)
        sw == s.map.sequential
    IN IF PageOf(lpn) = 0
       THEN NewSequential(IF sw.offset = BlockSize THEN SwitchSequential(s)
                          ELSE MergeSequential(s), l)
       ELSE IF sw.lba = l /\ sw.offset = PageOf(lpn)
       THEN [state |-> [Assert(s, s.block[sw.block].pages_valid < BlockSize, "bad address")
                        EXCEPT !.map.sequential.offset = @ + 1],
             target |-> Linear(sw.block, s.block[sw.block].pages_valid)]
       ELSE IF sw.lba = l THEN NewSequential(MergeSequential(s), l)
       ELSE AppendToRw(IF RwFull(s) THEN RandomMerge(s) ELSE s, lpn)

\* FtlImpl_Fast::write, where the write goes.
NewData(got, lpn) ==
    [state |-> [got.state EXCEPT !.map.data_list[BlockOf(lpn)] = got.block],
     target |-> Linear(got.block, PageOf(lpn))]
Place(s, lpn) ==
    LET inData == At(s.map.data_list[BlockOf(lpn)], PageOf(lpn))
    IN IF inData = None THEN NewData(GetFreeBlock(s, "DATA"), lpn)
       ELSE IF PageState(s, inData) = "EMPTY" THEN [state |-> s, target |-> inData]
       ELSE WriteToLog(s, lpn)

\* FtlImpl_Fast::write.  Nothing the write makes out of date is invalidated.
WriteResult(s, lpn) ==
    LET placed == Place(s, lpn)
    IN IssueWrite(Outdate(InsertEvents(placed.state), lpn), placed.target, None, lpn)

-----------------------------------------------------------------------------
\* FtlImpl_Fast::trim: the page is invalidated where a read would find it, and a
\* block with nothing but invalid pages is erased.  A log block erased that way
\* stays in the list, and the logical block's data block is forgotten; whatever
\* the block was, it is uncounted as a log block.
TrimResult(s, lpn) ==
    LET l == BlockOf(lpn)
        a == ReadAddress(s, lpn)
        invalid == PlaneReplace(s, a)
        inLog == Copies(s, lpn) # {}
        unmapped == IF inLog THEN [invalid EXCEPT
                            !.map.log_pages[FirstCopy(s, lpn)[1]].aPages[FirstCopy(s, lpn)[2]] = None]
                    ELSE invalid
        erased == EraseAndInvalidate(unmapped, BlockOf(a), "LOG")
        trimmed == IF a = None \/ invalid.block[BlockOf(a)].state # "INACTIVE" THEN unmapped
                   ELSE IF ~inLog /\ InSequential(s, lpn)
                   THEN [erased EXCEPT !.map.sequential.lba = None]
                   ELSE [erased EXCEPT !.map.data_list[l] = None]
    IN InsertEvents(Outdate(trimmed, lpn))

-----------------------------------------------------------------------------
\* The faults of the layer: the pages a request leaves unreadable or stale.
\* A page with a copy in the RW log is written again: reads find the old copy.
RewritesLogged(s, lpn) == Copies(s, lpn) # {}
\* A write out of order to the SW log's owner: it lands on the first page.
OutOfOrder(s, lpn) ==
    /\ s.map.data_list[BlockOf(lpn)] # None
    /\ PageState(s, Linear(s.map.data_list[BlockOf(lpn)], PageOf(lpn))) # "EMPTY"
    /\ PageOf(lpn) \notin {0, s.map.sequential.offset} /\ SwOwner(s) = BlockOf(lpn)
\* A write in place while the SW log block still has a copy: reads find that one.
InPlaceBehindLog(s, lpn) ==
    /\ InSequential(s, lpn)
    /\ s.map.data_list[BlockOf(lpn)] # None =>
           PageState(s, Linear(s.map.data_list[BlockOf(lpn)], PageOf(lpn))) = "EMPTY"
\* The log block a write frees by a random merge, if it does.
Freed(s, lpn) ==
    IF s.map.log_pages # << >> /\ Place(s, lpn).state.map.log_pages[1].block # s.map.log_pages[1].block
    THEN {s.map.log_pages[1]} ELSE {}
\* A random merge drops the first page of the block it frees.
DropsFirst(s, lpn) == {victim.aPages[0] : victim \in Freed(s, lpn)} \ {None}
\* A random merge of a logical block that a trim has left without a data block:
\* the last block of the drive waits to be erased, whoever uses it.
MergesWithout(s, lpn) ==
    \E victim \in Freed(s, lpn), p \in Pages :
        victim.aPages[p] # None /\ s.map.data_list[BlockOf(victim.aPages[p])] = None

WriteFaults(s, lpn) ==
    (IF RewritesLogged(s, lpn) \/ InPlaceBehindLog(s, lpn) THEN {lpn} ELSE {})
    \cup (IF OutOfOrder(s, lpn) THEN {lpn, Linear(BlockOf(lpn), 0)} ELSE {})
    \cup DropsFirst(s, lpn)
    \cup (IF MergesWithout(s, lpn) THEN Everything ELSE {})

\* A trim that erases a block of the RW log forgets the data block, and the
\* erased block is in use twice from then on.
TrimFaults(s, lpn) ==
    LET after == TrimResult(s, lpn)
    IN IF Copies(s, lpn) # {} /\ after.free_list # s.free_list THEN Everything ELSE {}

-----------------------------------------------------------------------------
Ready == InitializeLogPages(Counted)

Read == /\ MayServe(MaxRequests)
        /\ drive.map.log_pages = << >>    \* otherwise a read changes nothing
        /\ Serve(Ready, live, lost)

Write(lpn) == /\ MayServe(MaxRequests)
              /\ Serve(WriteResult(Ready, lpn), live \cup {lpn}, lost \cup WriteFaults(Ready, lpn))

Trim(lpn) == /\ MayServe(MaxRequests)
             /\ Serve(TrimResult(Ready, lpn), live \ {lpn}, lost \cup TrimFaults(Ready, lpn))

Next == Read \/ \E lpn \in HostPages : Write(lpn) \/ Trim(lpn)

-----------------------------------------------------------------------------
\* Both logs, the data list and the drive keep their types.
TypeOK ==
    /\ FlashTypeOK
    /\ drive.log_active + drive.data_active <= NumBlocks
    /\ drive.map.log_pages \in Seq([block : Blocks, numPages : 0 .. BlockSize,
                                    aPages : [Pages -> LogicalPages \cup {None}]])
    /\ drive.map.log_page_next \in 0 .. LogBlockLimit * BlockSize
    /\ drive.map.sequential \in [block : Blocks \cup {None}, offset : 0 .. BlockSize,
                                 lba : LBAs \cup {None}]
    /\ drive.map.data_list \in [LBAs -> Blocks \cup {None}]

\* A read of a live page leads to its last write, unless a named fault hit it.
ReadsLastWrite == \A lpn \in live \ lost : Holds(ReadAddress(drive, lpn), lpn)

\* Every use of a block: a never-used, erased, waiting, log or data block.
Uses ==
    [b \in Blocks |->
        Cardinality({i \in 1 .. Len(drive.free_list) : drive.free_list[i] = b})
        + Cardinality({i \in 1 .. Len(drive.invalid_list) : drive.invalid_list[i] = b})
        + Cardinality({i \in RwLog(drive) : drive.map.log_pages[i].block = b})
        + Cardinality({l \in LBAs : drive.map.data_list[l] = b})
        + Cardinality({o \in {SwOwner(drive)} \ {None} : SwBlock(drive) = b})
        + Cardinality({n \in {b} : n >= drive.simpleCurrentFree})]

\* Every block has one use, until a trim has erased a block of the RW log or a
\* merge has given away the last block.
BlocksPartitioned == ~Mixed => \A b \in Blocks : Uses[b] = 1

\* As long as no block has two uses, no page is programmed twice.
ProgramsOnce == drive.abort = "page not empty" => Mixed

\* The append finds a block with room: the counter is the sum over the list.
CountersMatchTables ==
    LET used[i \in 0 .. Len(drive.map.log_pages)] ==
            IF i = 0 THEN 0 ELSE used[i - 1] + drive.map.log_pages[i].numPages
    IN drive.map.log_page_next = used[Len(drive.map.log_pages)]
=============================================================================
