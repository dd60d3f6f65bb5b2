------------------------------- MODULE CoSim --------------------------------
(***************************************************************************)
(* The co-simulation end to end: the stress test of host_ftl/src/main.rs   *)
(* over the host FTL, connected to the simulator process of NbdServer.     *)
(* The main thread resets the first zones over the management socket; then *)
(* each worker fills its zone page by page, reading every page back before *)
(* the next.  A worker takes the FTL's mutex for one call at a time, so    *)
(* the workers' calls interleave.                                          *)
(*                                                                         *)
(* Three branches of the host are not among the steps because this server  *)
(* and this workload never take them (NothingLeftOut says so): a refused   *)
(* append with its reset and retry, StorageFull and a read of an unmapped  *)
(* page.  HostStore has them.                                              *)
(***************************************************************************)
EXTENDS NbdServer

CONSTANTS Workers,      \* number of worker threads (3)
          ResetZones    \* zones 0.. the main thread resets first (3)

ASSUME CoSimAssumption ==
    /\ Workers \in 1..NumZones
    /\ ResetZones \in 0..NumZones

VARIABLES wp, full, l2p, cur, pc, call, result,   \* the host FTL
          worker,    \* [phase, page] of each worker
          owner,     \* the worker whose call is in progress
          resets     \* zones the main thread has reset

W == 0..(Workers - 1)

Host == INSTANCE HostFtl WITH
    LogicalPages <- Workers * ZoneSize,
    Values       <- 1..Workers

hostVars == <<wp, full, l2p, cur, pc, call, result>>
testVars == <<worker, owner, resets>>
vars     == <<serverVars, hostVars, testVars>>

\* The signature byte and the logical page of a worker's next step.
Signature(w) == w + 1
Lba(w)       == w * ZoneSize + worker[w].page

Init ==
    /\ ServerInit
    /\ Host!HostInit
    /\ worker = [w \in W |-> [phase |-> "write", page |-> 0]]
    /\ owner = 0
    /\ resets = 0

Server == (NbdThread \/ MgmtThread) /\ UNCHANGED <<hostVars, testVars>>

BackUnchanged == UNCHANGED <<bridgeVars, nbdVars, disk>>

\* Mutant: the main thread does not wait for the acknowledgement.
ResetNextNoWait ==
    /\ resets < ResetZones
    /\ mpc \in {"accept", "ack"}
    /\ mpc' = "command" /\ mzone' = resets
    /\ resets' = resets + 1
    /\ UNCHANGED <<hostVars, wire, worker, owner>> /\ BackUnchanged

(***************************************************************************)
(* main: zone_reset of the workers' zones, one after the other.            *)
(***************************************************************************)
ResetNext ==
    /\ resets < ResetZones
    /\ Host!StartReset(resets)
    /\ UNCHANGED <<reply, testVars>> /\ BackUnchanged

ResetDone ==
    /\ Host!EndReset
    /\ resets' = resets + 1
    /\ UNCHANGED <<reply, worker, owner>> /\ BackUnchanged

(***************************************************************************)
(* A worker's loop.                                                        *)
(***************************************************************************)
Phase(w, p) == worker' = [worker EXCEPT ![w].phase = p]

Verified(w) ==
    worker' = [worker EXCEPT ![w] =
                 IF @.page + 1 < ZoneSize
                 THEN [phase |-> "write", page |-> @.page + 1]
                 ELSE [phase |-> "done", page |-> @.page]]

CallWrite(w) ==
    /\ resets = ResetZones
    /\ worker[w].phase = "write"
    /\ Host!StartWrite(Lba(w), Signature(w), w)
    /\ Phase(w, "writing")
    /\ owner' = w
    /\ UNCHANGED <<reply, resets>> /\ BackUnchanged

CallRead(w) ==
    /\ worker[w].phase = "read"
    /\ Host!StartRead(Lba(w))
    /\ Phase(w, "reading")
    /\ owner' = w
    /\ UNCHANGED <<reply, resets>> /\ BackUnchanged

\* The reply to the call in progress reaches its worker.
WriteReturns ==
    /\ Host!EndWrite
    /\ Phase(owner, "read")
    /\ reply' = None
    /\ UNCHANGED <<owner, resets>> /\ BackUnchanged

\* Mutant: the page read back is not compared.
ReadReturnsUnchecked ==
    /\ Host!EndRead
    /\ Verified(owner)
    /\ reply' = None
    /\ UNCHANGED <<owner, resets>> /\ BackUnchanged

ReadReturns ==
    /\ Host!EndRead
    /\ \/ result'.value = Signature(owner) /\ Verified(owner)
       \/ result'.value # Signature(owner) /\ Phase(owner, "failed")
    /\ reply' = None
    /\ UNCHANGED <<owner, resets>> /\ BackUnchanged

ReadHangs ==
    /\ Host!ReadHangs
    /\ reply' = None
    /\ UNCHANGED testVars /\ BackUnchanged

Stopped(w) == worker[w].phase \in {"done", "failed"}

\* All threads joined; the servers keep waiting for clients.
Finished ==
    /\ \A w \in W : Stopped(w)
    /\ UNCHANGED vars

HostStep ==
    \/ ResetNext \/ ResetDone \/ WriteReturns \/ ReadReturns \/ ReadHangs
    \/ \E w \in W : CallWrite(w) \/ CallRead(w)

Next == Server \/ HostStep \/ Finished

\* Threads keep running, and a worker that waits for the mutex gets it.
Spec == /\ Init /\ [][Next]_vars
        /\ WF_vars(NbdThread /\ UNCHANGED <<hostVars, testVars>>)
        /\ WF_vars(MgmtThread /\ UNCHANGED <<hostVars, testVars>>)
        /\ WF_vars(ResetNext \/ ResetDone \/ WriteReturns \/ ReadReturns)
        /\ \A w \in W : SF_vars(CallWrite(w) \/ CallRead(w))

-----------------------------------------------------------------------------
\* The server answers every append with success, a worker always finds its
\* zone not full, and the page it reads back is mapped: the host's error
\* branches are dead in this system, whatever the RTL decides.
NothingLeftOut ==
    /\ pc = "append" /\ reply # None => reply.err = OK
    /\ \A w \in W : worker[w].phase = "write" => ~full[w]
    /\ \A w \in W : worker[w].phase = "read" => l2p[Lba(w)] # Host!Unmapped

\* The two threads of the server have no lock between them; what keeps them
\* off the RTL at the same time is the host, which holds its mutex until the
\* acknowledgement or the reply is in.
OneHardwareUser ==
    \/ npc \in {"accept", "recv"} /\ request = None
    \/ mpc \in {"accept", "ack"}

\* Each worker's pages sit in its own zone at the offsets it wrote them, so
\* calls of other workers in between do not disturb its mapping.
WorkerOwnsZone ==
    \A w \in W, p \in Pages :
        LET a == l2p[w * ZoneSize + p]
        IN  a # Host!Unmapped => a = [zone |-> w, page |-> p]

\* The server acknowledges writes it drops, but no worker reports its zone as
\* verified unless the device really holds all of its pages.
VerifiedIsStored ==
    \A w \in W : worker[w].phase = "done" =>
        \A p \in Pages : disk[w * ZoneSize + p] = Signature(w)

\* main.rs: all workers end and are joined.
AllWorkersStop == <>(\A w \in W : Stopped(w))
=============================================================================
