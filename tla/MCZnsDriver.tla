---------------------------- MODULE MCZnsDriver -----------------------------
(* ZnsDriver on small instances.  Entries cover every page of every zone.  *)
EXTENDS ZnsDriver

Lbas == 0..(NumZones * ZoneSize - 1)

Entry(op, action, lba) == [opcode |-> op, zsa |-> action, lba |-> lba]

\* Appends and resets inside the array, and the refused entries.
AppendSqes ==
    {Entry("WRITE", "OTHER", l) : l \in Lbas}
    \cup {Entry("ZONE_MGMT", "RESET", z * ZoneSize) : z \in Zones}
    \cup {Entry("ZONE_MGMT", "OTHER", 0), Entry("OTHER", "OTHER", 0)}

ReadSqes == {Entry("READ", "OTHER", l) : l \in Lbas}

\* The first zone after the array, which the bridge shows as an empty word, and
\* two whose numbers do not fit and name the first two zones.
OutsideLbas == {NumZones * ZoneSize, ZoneIds * ZoneSize, (ZoneIds + 1) * ZoneSize + 1}
OutsideSqes ==
    {Entry(op, "RESET", l) : op \in {"WRITE", "READ", "ZONE_MGMT"}, l \in OutsideLbas}

AllSqes == AppendSqes \cup ReadSqes \cup OutsideSqes
InsideSqes == AppendSqes \cup ReadSqes
=============================================================================
