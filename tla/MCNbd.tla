------------------------------- MODULE MCNbd --------------------------------
(* NbdClients with two zones of two pages.                                 *)
EXTENDS NbdClients

Req(t, p, n, d) == [type |-> t, from |-> p, len |-> n, data |-> d]

\* The last page of zone 0 (closes it) and the first of zone 1 (opens it).
Writes == {Req("WRITE", 1, 1, 1), Req("WRITE", ZoneSize, 1, 0)}
Reads  == {Req("READ", 0, 1, 0)}
Others == {Req("TRIM", 0, 1, 0)} \cup {Req(t, 0, 1, 0) : t \in {"FLUSH", "CLOSE", "OTHER"}}

AllRequests == Writes \cup Reads \cup Others
WriteRequests == Writes
FirstZone == {0}
=============================================================================
