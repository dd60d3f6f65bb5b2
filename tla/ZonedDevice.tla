---------------------------- MODULE ZonedDevice -----------------------------
(***************************************************************************)
(* What the ZNS controller promises its host: an abstract zoned device.    *)
(* A zone is its write pointer and its erase count; a zone is full when    *)
(* the pointer is at the end, open when it is between.  A command is       *)
(* decided and carried out in one step, against the zones as they are: a   *)
(* write lands exactly at the write pointer and opens a zone only while    *)
(* fewer than MaxOpen are open, a read touches nothing, a reset empties    *)
(* the zone until its wear limit.  A refused command changes no zone.      *)
(*                                                                         *)
(* Nothing here counts open zones: the number is that of the zones that    *)
(* are open.  ZnsDriver is compared with this module.                      *)
(***************************************************************************)
EXTENDS Integers, FiniteSets

CONSTANTS ZoneSize, MaxOpen, WearLimit, Zones, Sqes

VARIABLES zone,     \* [Zones -> [wp, erases]]
          hot,      \* over the thermal limit
          phase,    \* "ready", "busy" (accepted), "done" (decided)
          cmd,      \* the command in hand
          code      \* status code of the last decision, 0 for success

vars == <<zone, hot, phase, cmd, code>>

Target(e) == e.lba \div ZoneSize
Page(e)   == e.lba % ZoneSize
Full(z)   == zone[z].wp = ZoneSize
Open      == {z \in Zones : 0 < zone[z].wp /\ zone[z].wp < ZoneSize}

Init ==
    /\ zone = [z \in Zones |-> [wp |-> 0, erases |-> 0]]
    /\ hot = FALSE
    /\ phase = "ready"
    /\ cmd \in Sqes
    /\ code = 0

Heat ==
    /\ phase = "ready"
    /\ hot' = ~hot
    /\ UNCHANGED <<zone, phase, cmd, code>>

Refuse(e) ==
    /\ phase = "ready"
    /\ \/ e.opcode = "OTHER" /\ code' = 1
       \/ e.opcode = "ZONE_MGMT" /\ e.zsa # "RESET" /\ code' = 2
    /\ cmd' = e
    /\ UNCHANGED <<zone, hot, phase>>

Accept(e) ==
    /\ phase = "ready"
    /\ \/ e.opcode \in {"READ", "WRITE"}
       \/ e.opcode = "ZONE_MGMT" /\ e.zsa = "RESET"
    /\ cmd' = e
    /\ phase' = "busy"
    /\ UNCHANGED <<zone, hot, code>>

WriteAllowed ==
    /\ ~Full(Target(cmd))
    /\ Page(cmd) = zone[Target(cmd)].wp
    /\ Page(cmd) = 0 => Cardinality(Open) < MaxOpen

Write ==
    /\ cmd.opcode = "WRITE" /\ ~hot
    /\ WriteAllowed
    /\ zone' = [zone EXCEPT ![Target(cmd)].wp = @ + 1]
    /\ code' = 0

Read ==
    /\ cmd.opcode = "READ" /\ ~hot
    /\ Page(cmd) < zone[Target(cmd)].wp
    /\ zone' = zone
    /\ code' = 0

ResetZone ==
    /\ cmd.opcode = "ZONE_MGMT" /\ ~hot
    /\ zone[Target(cmd)].erases < WearLimit
    /\ zone' = [zone EXCEPT ![Target(cmd)] = [wp |-> 0, erases |-> @.erases + 1]]
    /\ code' = 0

\* The status code names the rule that was broken.
Reject ==
    /\ \/ hot /\ code' = 36
       \/ /\ ~hot /\ cmd.opcode = "WRITE"
          /\ \/ Full(Target(cmd)) /\ code' = 131
             \/ ~Full(Target(cmd)) /\ Page(cmd) # zone[Target(cmd)].wp /\ code' = 130
             \/ /\ Page(cmd) = 0 /\ zone[Target(cmd)].wp = 0
                /\ Cardinality(Open) >= MaxOpen /\ code' = 129
       \/ /\ ~hot /\ cmd.opcode = "READ"
          /\ Page(cmd) >= zone[Target(cmd)].wp /\ code' = 128
       \/ /\ ~hot /\ cmd.opcode = "ZONE_MGMT"
          /\ zone[Target(cmd)].erases >= WearLimit /\ code' = 36
    /\ zone' = zone

Decide ==
    /\ phase = "busy"
    /\ Write \/ Read \/ ResetZone \/ Reject
    /\ phase' = "done"
    /\ UNCHANGED <<hot, cmd>>

Return ==
    /\ phase = "done"
    /\ phase' = "ready"
    /\ UNCHANGED <<zone, hot, cmd, code>>

Next ==
    \/ Heat
    \/ \E e \in Sqes : Refuse(e) \/ Accept(e)
    \/ Decide
    \/ Return

SafeSpec == Init /\ [][Next]_vars

Spec == SafeSpec /\ WF_vars(Decide) /\ WF_vars(Return)
=============================================================================
