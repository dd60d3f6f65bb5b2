-------------------------------- MODULE Bus --------------------------------
(***************************************************************************)
(* The bus of the drive (ssd_bus.cpp, ssd_channel.cpp), the times of an    *)
(* event that uses it (ssd_event.cpp), the drive's memory (ssd_ram.cpp)    *)
(* and the time at which the drive is ready again (Ssd::ready_at).         *)
(*                                                                         *)
(* A lock is not held: it reserves an interval of simulated time.  Events  *)
(* are served one after another, but the times at which they start are     *)
(* those of the caller and may go back: the copies of a merge all start    *)
(* from the time of the write that caused it.  The controller that locks   *)
(* a channel is a stub at this commit; here an event locks any channel, at *)
(* its start time plus the time it has taken so far, for any duration.     *)
(*                                                                         *)
(* channel[c].timings : the reserved intervals; the code sorts them by     *)
(*                      lock time, so a set does                           *)
(* granted            : history of every reservation made                  *)
(***************************************************************************)
EXTENDS Integers, Sequences

CONSTANTS NumChannels,     \* SSD_SIZE: a channel for each package
          NumDies,         \* PACKAGE_SIZE: dies connected to a channel
          MaxConnections,  \* BUS_MAX_CONNECT
          Durations,       \* delays a channel is locked for
          RamDelay,        \* RAM_READ_DELAY, RAM_WRITE_DELAY
          MaxTime,         \* bound on the times at which a lock is asked for
          MaxEvents, MaxLocks   \* bounds on events and reservations

Channels == 0 .. NumChannels - 1
Never == -1                \* ready_at of a channel that was not used

ASSUME BusAssumption ==
    /\ NumChannels \in Nat \ {0} /\ MaxConnections \in Nat /\ NumDies \in Nat
    /\ Durations \subseteq Nat \ {0} /\ RamDelay \in Nat \ {0} /\ MaxTime \in Nat

VARIABLES channel, event, granted
busVars == <<channel, event, granted>>

\* Channel::connect: a device beyond the limit is refused, with a message.
Connect(n) == IF n < MaxConnections THEN n + 1 ELSE n

\* The constructors: each die of a package connects to the package's channel.
NewChannel ==
    LET connected[n \in Nat] == IF n = 0 THEN 0 ELSE Connect(connected[n - 1])
    IN [timings |-> {}, ready_at |-> Never, num_connected |-> connected[NumDies]]

NewEvent(n, t) == [id |-> n, start_time |-> t, time_taken |-> 0, bus_wait_time |-> 0]

BusInit == /\ channel = [c \in Channels |-> NewChannel]
           /\ event = NewEvent(0, 0)
           /\ granted = << >>

-----------------------------------------------------------------------------
\* Mutant: an interval that has begun is dropped.
UnlockBegun(T, start) == {e \in T : e.lock > start}

\* Channel::unlock: intervals that are over at the time given are dropped.
Unlock(T, start) == {e \in T : e.unlock > start}

Earliest(T) == CHOOSE e \in T : \A f \in T : e.lock <= f.lock
Latest(T) == CHOOSE e \in T : \A f \in T : f.lock <= e.lock

\* The intervals with room for d before the next one.
RoomAfter(T, d) ==
    {e \in T : /\ \E f \in T : f.lock > e.lock
               /\ \A f \in T : f.lock > e.lock => f.lock - e.unlock >= d}

\* Mutant: only the room before the first and after the last interval is used.
SchedTimeAtEnds(T, start, d) ==
    IF T = {} \/ (Earliest(T).lock > start /\ Earliest(T).lock - start >= d) THEN start
    ELSE Latest(T).unlock

\* Channel::lock: before the first interval, else between two, else after all.
SchedTime(T, start, d) ==
    IF T = {} \/ (Earliest(T).lock > start /\ Earliest(T).lock - start >= d) THEN start
    ELSE IF RoomAfter(T, d) # {} THEN Earliest(RoomAfter(T, d)).unlock
    ELSE Latest(T).unlock

\* Channel::lock: the interval enters the table.
Reserve(ch, T, lock, d) ==
    [ch EXCEPT !.timings = T \cup {[lock |-> lock, unlock |-> lock + d]},
               !.ready_at = IF lock + d > @ THEN lock + d ELSE @]

\* Mutant: the wait for the channel is not part of the time taken.
ChargeServiceOnly(ev, wait, d) == [ev EXCEPT !.bus_wait_time = @ + wait, !.time_taken = @ + d]

\* Event::incr_bus_wait_time and incr_time_taken: only what is positive counts.
Charge(ev, wait, d) ==
    [ev EXCEPT !.bus_wait_time = IF wait > 0 THEN @ + wait ELSE @,
               !.time_taken = IF wait + d > 0 THEN @ + wait + d ELSE @]

LockAt(c, d, start, T, lock) ==
    /\ channel' = [channel EXCEPT ![c] = Reserve(@, T, lock, d)]
    /\ event' = Charge(event, lock - start, d)
    /\ granted' = Append(granted, [channel |-> c, id |-> event.id, start |-> start,
                                   lock |-> lock, unlock |-> lock + d])

\* Bus::lock, Channel::lock of channel c for the current event.
Lock(c, d) ==
    LET start == event.start_time + event.time_taken
        T == Unlock(channel[c].timings, start)
    IN /\ Len(granted) < MaxLocks /\ start <= MaxTime
       /\ channel[c].num_connected <= MaxConnections
       /\ LockAt(c, d, start, T, SchedTime(T, start, d))

\* Ram::read, Ram::write of one page.
RamAccess == /\ event.start_time + event.time_taken < MaxTime
             /\ event' = Charge(event, 0, RamDelay)
             /\ UNCHANGED <<channel, granted>>

\* Event::Event: the next event starts at a time of the caller's.
Arrive(t) == /\ event.id < MaxEvents
             /\ event' = NewEvent(event.id + 1, t)
             /\ UNCHANGED <<channel, granted>>

BusNext == \/ \E t \in 0 .. MaxTime : Arrive(t)
           \/ \E c \in Channels, d \in Durations : Lock(c, d)
           \/ RamAccess

\* Ssd::ready_at: the channel that is first done with what it was given.
ReadyAt ==
    LET used == {channel[c].ready_at : c \in Channels} \ {Never}
    IN IF used = {} THEN Never ELSE CHOOSE t \in used : \A u \in used : t <= u

-----------------------------------------------------------------------------
Fits(T, t, d) == \A e \in T : e.unlock <= t \/ t + d <= e.lock

\* "event is sent across bus as soon as bus channel is available"
\* (ssd_channel.cpp:120): of all times from the one asked for on, Channel::lock
\* takes the first at which no interval of its table is in the way.
EarliestFit ==
    [][Len(granted') > Len(granted) =>
          LET g == granted'[Len(granted')]
              T == channel[g.channel].timings
          IN /\ Fits(T, g.lock, g.unlock - g.lock)
             /\ \A t \in g.start .. g.lock - 1 : ~Fits(T, t, g.unlock - g.lock)]_busVars

\* A channel is double-booked in one way only: a reservation asked for at or after
\* the end of an interval made Channel::lock forget it, and a later one was then
\* asked for at an earlier time.  With requests in order of time it never is.
OverlapOnlyBehindExpiry ==
    \A i, j \in 1 .. Len(granted) :
        /\ i < j /\ granted[i].channel = granted[j].channel
        /\ granted[i].lock < granted[j].unlock /\ granted[j].lock < granted[i].unlock
        => /\ granted[j].start < granted[i].unlock
           /\ \E k \in i + 1 .. j - 1 : /\ granted[k].channel = granted[i].channel
                                        /\ granted[k].start >= granted[i].unlock

\* The times reported agree with what was granted.  An event is never on two
\* channels, or twice on one, at once: time_taken carries its waits into its next
\* lock.  And at Ssd::ready_at some channel that was used has nothing left to do.
TimesAgree ==
    /\ \A i, j \in 1 .. Len(granted) :
          i < j /\ granted[i].id = granted[j].id => granted[i].unlock <= granted[j].lock
    /\ granted # << >> =>
          \E i \in 1 .. Len(granted) :
             \A j \in 1 .. Len(granted) :
                granted[j].channel = granted[i].channel => granted[j].unlock <= ReadyAt
=============================================================================
