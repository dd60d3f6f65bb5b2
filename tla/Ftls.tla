-------------------------------- MODULE Ftls --------------------------------
(***************************************************************************)
(* FlashSim with one of its translation layers: FTL_IMPLEMENTATION, read   *)
(* from ssd.conf, decides which one the drive gets.  All of them share the *)
(* host, the block manager and the flash array; each is given a drive of   *)
(* its own size.                                                           *)
(***************************************************************************)
EXTENDS Integers

CONSTANTS Implementations,  \* the translation layers to choose from
          BlockSize, BlockErases, PlaneSize, LogicalBlocks, AddressPerPage,
          BastPlanes, FastPlanes, DftlPlanes, BdftlPlanes, PagePlanes,  \* planes of each drive
          BastLogBlocks, FastLogBlocks,  \* BAST_LOG_BLOCK_LIMIT, FAST_LOG_BLOCK_LIMIT
          DftlEntries, BdftlEntries,     \* entries the cached mapping tables may hold
          BastPages, FastPages, DftlPages, BdftlPages, PagePages,  \* pages the host uses
          FastRequests, DftlRequests, BdftlRequests, PageRequests, \* bounds on its requests
          StartTimes,    \* start times its events may have
          LongValues     \* values of an unsigned long

VARIABLES drive, live, lost,
          ftl     \* FTL_IMPLEMENTATION

vars == <<drive, live, lost, ftl>>

\* The host stays within the logical pages, every cache holds an entry, FAST
\* follows the next pointer of its first log block, and the translation pages
\* divide the table evenly.  (The layers that shift addresses are only faithful
\* for sizes that are powers of two, as in the cfg.)
ASSUME FtlsAssumption ==
    /\ Implementations \subseteq {"PAGE", "BAST", "FAST", "DFTL", "BIMODAL"}
    /\ {BlockSize, PlaneSize, LogicalBlocks, AddressPerPage} \subseteq Nat \ {0}
    /\ BlockErases \in Nat
    /\ {BastPlanes, FastPlanes, DftlPlanes, BdftlPlanes, PagePlanes} \subseteq Nat \ {0}
    /\ {BastLogBlocks, DftlEntries, BdftlEntries} \subseteq Nat \ {0}
    /\ FastLogBlocks \in Nat \ {0, 1}
    /\ BastPages \cup FastPages \cup DftlPages \cup BdftlPages \cup PagePages
           \subseteq 0 .. LogicalBlocks * BlockSize - 1
    /\ {FastRequests, DftlRequests, BdftlRequests, PageRequests} \subseteq Nat
    /\ (LogicalBlocks * BlockSize) % AddressPerPage = 0
    /\ StartTimes \subseteq Nat
    /\ LongValues \in Nat /\ LongValues > PlaneSize * PagePlanes * BlockSize

Bast == INSTANCE BastFtl WITH FtlImplementation <- "BAST", NumPlanes <- BastPlanes,
            LogBlockLimit <- BastLogBlocks, HostPages <- BastPages
Fast == INSTANCE FastFtl WITH FtlImplementation <- "FAST", NumPlanes <- FastPlanes,
            LogBlockLimit <- FastLogBlocks, HostPages <- FastPages, MaxRequests <- FastRequests
Dftl == INSTANCE DftlFtl WITH FtlImplementation <- "DFTL", NumPlanes <- DftlPlanes,
            LogBlockLimit <- 1, HostPages <- DftlPages, MaxRequests <- DftlRequests,
            TotalCMTentries <- DftlEntries
Bdftl == INSTANCE BdftlFtl WITH FtlImplementation <- "BIMODAL", NumPlanes <- BdftlPlanes,
            LogBlockLimit <- 1, HostPages <- BdftlPages, MaxRequests <- BdftlRequests,
            TotalCMTentries <- BdftlEntries
Page == INSTANCE PageFtl WITH FtlImplementation <- "PAGE", NumPlanes <- PagePlanes,
            LogBlockLimit <- 1, HostPages <- PagePages, MaxRequests <- PageRequests

Init == /\ ftl \in Implementations
        /\ \/ ftl = "BAST" /\ Bast!Init
           \/ ftl = "FAST" /\ Fast!Init
           \/ ftl = "DFTL" /\ Dftl!Init
           \/ ftl = "BIMODAL" /\ Bdftl!Init
           \/ ftl = "PAGE" /\ Page!Init

BastStep == ftl = "BAST" /\ Bast!Next /\ UNCHANGED ftl
FastStep == ftl = "FAST" /\ Fast!Next /\ UNCHANGED ftl
DftlStep == ftl = "DFTL" /\ Dftl!Next /\ UNCHANGED ftl
BdftlStep == ftl = "BIMODAL" /\ Bdftl!Next /\ UNCHANGED ftl
PageStep == ftl = "PAGE" /\ Page!Next /\ UNCHANGED ftl

Next == BastStep \/ FastStep \/ DftlStep \/ BdftlStep \/ PageStep

Spec == Init /\ [][Next]_vars

-----------------------------------------------------------------------------
\* The tables of the chosen layer, the drive and the host's view keep their types.
TypeOK ==
    /\ ftl = "BAST" => Bast!TypeOK
    /\ ftl = "FAST" => Fast!TypeOK
    /\ ftl = "DFTL" => Dftl!TypeOK
    /\ ftl = "BIMODAL" => Bdftl!TypeOK
    /\ ftl = "PAGE" => Page!TypeOK

\* A read of a page that was written and not trimmed since is sent to the page
\* of the drive that holds the last write, through every switch, merge, eviction,
\* conversion and collection before it (BAST and DFTL), and unless one of the
\* faults that FastFtl and BdftlFtl name has hit the page or the whole drive.
ReadsLastWrite ==
    /\ ftl = "BAST" => Bast!ReadsLastWrite
    /\ ftl = "FAST" => Fast!ReadsLastWrite
    /\ ftl = "DFTL" => Dftl!ReadsLastWrite
    /\ ftl = "BIMODAL" => Bdftl!ReadsLastWrite

\* A page that was trimmed, or never written, is not readable: no merge or
\* write-back brings an older copy back (BAST, DFTL).
TrimmedStaysGone ==
    /\ ftl = "BAST" => Bast!TrimmedStaysGone
    /\ ftl = "DFTL" => Dftl!TrimmedStaysGone

\* Page::_write asserts that its page is EMPTY.  BAST and DFTL never program a
\* page that is not.  FAST does only once a block has two uses, the bimodal layer
\* besides when the page due next in an optimal block was trimmed ahead of it
\* (W0, T1, W1: the trim invalidates page 1 while it is empty).
ProgramsEmptyPages ==
    /\ ftl = "BAST" => Bast!PageAssertHolds
    /\ ftl = "FAST" => Fast!ProgramsOnce
    /\ ftl = "DFTL" => Dftl!PageAssertHolds
    /\ ftl = "BIMODAL" => Bdftl!ProgramsOnce

\* Every block is free, a log block or a data block of one logical block, and
\* never two of these: nothing leaks and nothing is handed out twice (BAST, and
\* FAST with its waiting list and its sequential block, until a fault it names
\* puts a block to two uses).
BlocksPartitioned ==
    /\ ftl = "BAST" => Bast!BlocksPartitioned
    /\ ftl = "FAST" => Fast!BlocksPartitioned

\* Counters that decide when to merge, to evict or to collect agree with the
\* tables they count: BAST's blocks by type, FAST's pages in the log (an append
\* looks for a block with room without looking at the end of the list), DFTL's
\* cached entries (an eviction asserts that it finds one), the ideal layer's
\* pages in use (until a trim of pages never written wraps the counter).
CountersMatchTables ==
    /\ ftl = "BAST" => Bast!CountersMatchTables
    /\ ftl = "FAST" => Fast!CountersMatchTables
    /\ ftl = "DFTL" => Dftl!CountersMatchTables
    /\ ftl = "BIMODAL" => Bdftl!CountersMatchTables
    /\ ftl = "PAGE" => Page!CountersMatchTables

\* A block's cached state and counters tell the truth about its pages: a trim
\* erases a block because its state says that every page is invalid.
BlockStateMatchesPages ==
    /\ ftl = "BAST" => Bast!BlockStateMatchesPages
    /\ ftl = "FAST" => Fast!BlockStateMatchesPages
    /\ ftl = "DFTL" => Dftl!BlockStateMatchesPages
    /\ ftl = "BIMODAL" => Bdftl!BlockStateMatchesPages

\* A mapping that is not in the cache is on flash as it was last set: the two time
\* stamps of an entry tell whether it must be written back, whatever the start
\* times of the events.  Two changes may be forgotten: a trim, and a write that
\* finds the entry in the cache at the time at which it came in (DFTL, bimodal).
UncachedIsPersistent ==
    /\ ftl = "DFTL" => Dftl!UncachedIsPersistent
    /\ ftl = "BIMODAL" => Bdftl!UncachedIsPersistent

\* A logical block is in block mode or in page mode and not in both: when trims
\* make it optimal again, whatever trim_map held at the start, no entry of the
\* page map is left behind.
OneModePerBlock == ftl = "BIMODAL" => Bdftl!OptimalHasNoEntries
=============================================================================
