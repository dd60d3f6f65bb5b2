----------------------------- MODULE FtlParent ------------------------------
(***************************************************************************)
(* What the translation layers share (FtlParent, ssd_ftlparent.cpp): the   *)
(* drive they work on and the host above them.                             *)
(*                                                                         *)
(* A request is one action, because the simulator is sequential.  Page     *)
(* contents are abstract: a page holds the last write of some logical page *)
(* until that page is written again or trimmed, or nothing worth reading.  *)
(***************************************************************************)
EXTENDS BlockManager

CONSTANTS LogicalBlocks,  \* logical blocks, 0 .. LogicalBlocks - 1
          HostPages       \* logical pages the host reads, writes and trims

VARIABLES drive,  \* flash array, block manager and the layer's tables (drive.map)
          live,   \* logical pages written and not trimmed since: the host's view
          lost    \* logical pages that a known fault of the layer has hit, and None
                  \* once a fault has put a block to two uses

vars == <<drive, live, lost>>

LBAs == 0 .. LogicalBlocks - 1
LogicalPages == 0 .. LogicalBlocks * BlockSize - 1
PagesOf(l) == {Linear(l, p) : p \in Pages}

\* A block in two uses: from then on any page may be read from or written to the
\* wrong place, and no later request makes that good.
Everything == LogicalPages \cup {None}
Mixed == None \in lost

\* FtlParent::FtlParent: a new drive, with the tables of the layer.
Start(tables) ==
    /\ drive = NewDrive(tables)
    /\ live = {} /\ lost = {}

\* Writing or trimming makes every stored copy of a logical page out of date.
Outdate(s, lpn) == [s EXCEPT !.data = [a \in Addresses |-> IF @[a] = lpn THEN None ELSE @[a]]]

\* A request ends in state s, or in the assertion that failed on the way.
Serve(s, nowLive, nowLost) ==
    /\ drive.abort = "none"
    /\ IF s.abort = "none"
       THEN drive' = s /\ live' = nowLive /\ lost' = nowLost
       ELSE drive' = [drive EXCEPT !.abort = s.abort] /\ UNCHANGED <<live, lost>>

\* The layers that count requests stop at a bound.
MayServe(bound) == drive.map.requests < bound
Counted == [drive EXCEPT !.map.requests = @ + 1]

Aborts == {"none", "no free block", "page not empty", "block worn out", "too many log blocks",
           "empty cost index", "bad address", "no victim", "no empty page"}

FlashTypeOK ==
    /\ drive.block \in [Blocks -> BlockType]
    /\ drive.plane \in [Planes -> PlaneType]
    /\ drive.data \in [Addresses -> LogicalPages \cup {None}]
    /\ drive.abort \in Aborts
    /\ drive.simpleCurrentFree \in 0 .. NumBlocks
    /\ drive.free_list \in Seq(Blocks) /\ drive.invalid_list \in Seq(Blocks)
    /\ drive.log_active \in Int /\ drive.data_active \in Int
    /\ live \subseteq LogicalPages /\ lost \subseteq Everything

\* The counters of blocks in use stay within the drive, each of them in the layers
\* that uncount a block as the type it was counted as.
ActiveWithinDrive == drive.log_active <= NumBlocks /\ drive.data_active <= NumBlocks

\* The page a read leads to holds the last write of the logical page.
Holds(a, lpn) == a # None /\ PageState(drive, a) = "VALID" /\ drive.data[a] = lpn

\* The blocks that are nobody's: never handed out, erased, or waiting for it.
FreeBlocks == {drive.free_list[i] : i \in 1 .. Len(drive.free_list)}
              \cup {b \in Blocks : b >= drive.simpleCurrentFree}

\* A block's cached state and counters tell the truth about its pages: trim
\* erases a block because its state says that every page is invalid.
BlockStateMatchesPages ==
    \A b \in Blocks : LET blk == drive.block[b]
                          in(st) == {p \in Pages : blk.page[p] = st}
                      IN /\ (blk.state = "FREE") = (in("EMPTY") = Pages)
                         /\ (blk.state = "INACTIVE") = (in("INVALID") = Pages)
                         /\ blk.pages_invalid = Cardinality(in("INVALID"))

\* Page::_write asserts that its page is EMPTY.
PageAssertHolds == drive.abort # "page not empty"
=============================================================================
