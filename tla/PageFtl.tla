------------------------------ MODULE PageFtl -------------------------------
(***************************************************************************)
(* The ideal page-mapped layer (FTLs/page_ftl.cpp).  It stores nothing: it *)
(* counts pages, and charges an erase (always of the first block) when the *)
(* drive is full or a block has been trimmed.                              *)
(*                                                                         *)
(* drive.map.numPagesActive : pages in use, an unsigned long.  A trim of a *)
(*     block takes a block's pages off it whether they were written or not *)
(* drive.map.trim_map : pages trimmed; the array is not initialised, and a *)
(*     write does not clear it                                             *)
(* drive.map.wrapped : whether a trim has taken the counter below zero.    *)
(*     The code keeps no such flag.                                        *)
(***************************************************************************)
EXTENDS FtlParent

CONSTANTS MaxRequests,  \* bound: requests of the host
          LongValues    \* values of an unsigned long, 2^64 in the code

NumPages == NumBlocks * BlockSize

\* FtlImpl_Page::FtlImpl_Page
Init == Start([numPagesActive |-> 0, requests |-> 0, wrapped |-> FALSE,
               trim_map |-> [v \in LogicalPages |-> "unknown"]])

\* An erase of the first block; a failure is printed and ignored.
EraseFirst(s) == IF s.block[0].erases_remaining < 1 THEN s ELSE PlaneErase(s, 0)

\* Arithmetic of an unsigned long.
Plus(n, k) == (n + k) % LongValues

\* FtlImpl_Page::write
WriteResult(s) ==
    LET room == IF s.map.numPagesActive = NumPages
                THEN [EraseFirst(s) EXCEPT !.map.numPagesActive = Plus(@, -BlockSize)] ELSE s
    IN [room EXCEPT !.map.numPagesActive = Plus(@, 1)]

\* FtlImpl_Page::trim.  "junk" is what the unknown entries turn out to hold.
TrimResult(s, lpn, junk) ==
    LET l == BlockOf(lpn)
        known == [v \in LogicalPages |->
                     IF v = lpn THEN "yes"
                     ELSE IF v \in PagesOf(l) /\ s.map.trim_map[v] = "unknown"
                     THEN (IF v \in junk THEN "yes" ELSE "no") ELSE s.map.trim_map[v]]
        cleared == [v \in LogicalPages |-> IF v \in PagesOf(l) THEN "no" ELSE known[v]]
    IN IF \A v \in PagesOf(l) : known[v] = "yes"
       THEN [EraseFirst(s) EXCEPT !.map.trim_map = cleared,
                                  !.map.numPagesActive = Plus(@, -BlockSize),
                                  !.map.wrapped = @ \/ s.map.numPagesActive < BlockSize]
       ELSE [s EXCEPT !.map.trim_map = known]

\* FtlImpl_Page::read changes nothing.
Write == MayServe(MaxRequests) /\ Serve(WriteResult(Counted), live, lost)
Trim(lpn) == /\ MayServe(MaxRequests)
             /\ \E junk \in SUBSET {v \in PagesOf(BlockOf(lpn)) : drive.map.trim_map[v] = "unknown"} :
                    Serve(TrimResult(Counted, lpn, junk), live, lost)

Next == Write \/ \E lpn \in HostPages : Trim(lpn)

-----------------------------------------------------------------------------
\* Counter and trim map of the ideal layer, and the drive, keep their types.
TypeOK == /\ FlashTypeOK /\ ActiveWithinDrive
          /\ drive.map.numPagesActive \in 0 .. LongValues - 1 /\ drive.map.wrapped \in BOOLEAN
          /\ drive.map.trim_map \in [LogicalPages -> {"unknown", "yes", "no"}]

\* The drive counts no more pages in use than it has, until the counter wraps.
CountersMatchTables == drive.map.numPagesActive <= NumPages \/ drive.map.wrapped
=============================================================================
