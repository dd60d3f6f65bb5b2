------------------------------ MODULE DftlFtl -------------------------------
(***************************************************************************)
(* The DFTL translation layer (FTLs/dftl_ftl.cpp): pure page mapping over  *)
(* the cached mapping table.                                               *)
(***************************************************************************)
EXTENDS DftlParent

\* FtlImpl_Dftl::FtlImpl_Dftl
Init == Start(DftlTables)

\* FtlImpl_Dftl::read: the address it issues, None for a read of nothing.
ReadAddress(s, lpn) == s.map.trans_map[lpn].ppn
ReadResult(s, lpn, now, tied) == ResolveMapping(s, lpn, FALSE, now, tied)

\* FtlImpl_Dftl::write
WriteResult(s, lpn, now, tied) ==
    LET ready == GetFreeDataPage(ResolveMapping(s, lpn, TRUE, now, tied))
    IN MapTo(ready, lpn, ready.map.currentDataPage)

\* FtlImpl_Dftl::trim
TrimResult(s, lpn) == Unmap(s, lpn)

Read(lpn, now, tied) ==
    MayServe(MaxRequests) /\ Serve(ReadResult(Counted, lpn, now, tied), live, lost)
Write(lpn, now, tied) ==
    MayServe(MaxRequests) /\ Serve(WriteResult(Counted, lpn, now, tied), live \cup {lpn}, lost)
Trim(lpn) == MayServe(MaxRequests) /\ Serve(TrimResult(Counted, lpn), live \ {lpn}, lost)

Next == \E lpn \in HostPages :
            \/ \E now \in StartTimes, tied \in HostPages : Read(lpn, now, tied) \/ Write(lpn, now, tied)
            \/ Trim(lpn)

-----------------------------------------------------------------------------
\* DFTL has no state of its own.
TypeOK == DftlTypeOK

\* A read of a live page leads to its last write (FtlImpl_Dftl::read).
ReadsLastWrite == \A lpn \in live : Holds(ReadAddress(drive, lpn), lpn)

\* A page that is not live has no page of the drive (FtlImpl_Dftl::trim).
TrimmedStaysGone == \A lpn \in LogicalPages \ live : drive.map.trans_map[lpn].ppn = None
=============================================================================
