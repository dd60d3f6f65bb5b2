# TestFlashSim in TLA+

A verification project for the code in this repository: a zoned (ZNS) SSD
controller in Verilog, the C and C++ code that drives it under Verilator, the
simulator process that serves it over NBD, the host-managed FTL in Rust, and
the FlashSim C++ simulator they grew out of.

## The system and its parts

| Part | State | Operations | Interacts with |
|---|---|---|---|
| Validator RTL (`zns_fsm_validator.v`, `zns_rules_checker.v`, `zns_resources_tracker.v`) | state register, status, error code, store register and strobe, open-zone counter | one clock edge | reads metadata words, raises a store |
| Bridge (`hardware_bridge.cpp`) | input pins, last address, read latch, 1024 metadata words | `verilator_tick_hardware`, pin setters | owns the metadata, clocks the RTL |
| Synthesised controller (`zns_controller.py`, `zns_address_resolver.v`, `zns_metadata_bram.v`, `zns_thermal_manager.v`) | resolver, RAM and thermal registers, 4096 words | one clock edge | replaces the bridge in hardware |
| Driver (`zns_driver.c`) | a command in progress | `zns_process_nvme_command`, `zns_controller_init` | sets pins, ticks, polls |
| Gate (`ssd_controller.cpp`, `thermal_manager.cpp`) | software copy of the zones, die temperature | `direct_zns_gate`, `set_temperature` | calls the driver |
| Simulator process (`nbd_server.cpp`, `sim_main.cpp`) | user data, one NBD session, one management session | READ, WRITE, TRIM, FLUSH, DISCONNECT; zone reset | two threads, one RTL, no lock |
| Host FTL (`host_ftl/src`) | zone pointers, L2P table, current zone | `logical_write`, `logical_read`, `zone_reset` | NBD connection and management socket |
| Stress test (`main.rs`) | three workers | reset, then write and read back every page | calls the FTL under a mutex |
| EEPROM controller (`zns_eeprom_controller.v`) | shift register, bit counter, divider, SPI lines | one clock edge | dumps a telemetry word when the supply fails |
| Flash array (`ssd_page.cpp`, `ssd_block.cpp`, `ssd_plane.cpp`, `ssd_die.cpp`, `ssd_package.cpp`, `ssd_ssd.cpp`) | page states, block counters and states, free-block counters, wear figures of every level | read, write, replace, erase, merge | called through `Controller::issue` |
| Block manager (`ssd_bm.cpp`) | first-use pointer, list of erased blocks, counters by type | `get_free_block`, `promote_block`, `erase_and_invalidate`, `invalidate`, `insert_events` | called by every FTL, erases |
| Translation layers (`FTLs/`: BAST, FAST, DFTL, bimodal, ideal page mapping) | mapping tables, log blocks, cached mappings, block modes | `read`, `write`, `trim`, merges, evictions, conversions | allocate and erase through the block manager |
| Channel and bus (`ssd_channel.cpp`, `ssd_bus.cpp`, `ssd_event.cpp`) | reserved time slots, the times of an event | `lock`, `unlock`, `connect` | timing of events |

What is hard here: the metadata word reaches the rules one tick late, through
an address that was evaluated a tick earlier; requests leave the RTL in the
middle of a command and the next request starts from there; two threads clock
the same hardware; the server acknowledges writes it drops; the host trusts
replies it does not look at; the translation layers keep the same facts in
tables, page states, cached block states and unsigned counters, and act on
whichever is at hand; a channel forgets reservations by the start time of one
event that a later event may precede.  `PROJECT.json` lists these hazards at their lines, each
with the properties that cover it, and every part of the system with what is
and is not modelled of it.

What makes each part correct, in short: the device gives a verdict for every
command, refuses what the rules forbid, changes only the target zone, and
keeps count of open zones; the server answers every request and leaves the
hardware ready; the host's table leads to the data last written; a translation
layer reads back the last write whatever it moved, loses no block and uses none
twice; a channel carries one event at a time, as early as it can; the EEPROM
gets the word that was latched.

## Modules

* `ZnsRtl`: the RTL as operators.  `ErrorCode` is the rules checker, `NewCount`
  the tracker, `Posedge` a clock edge.  Widths follow `ZoneSize` (7-bit
  pointer and 8-bit fields for 64 pages); the limits are constants.
* `HardwareBridge`: the variables of the bridge and the action `Tick`.
* `ZnsDriver`: one command as submit, poll ticks and two drain ticks.
* `ZonedDevice`: what a host may expect of a zoned device; commands are
  decided in one step and open zones are counted, not tracked.  `ZnsDriver`
  instantiates it with a refinement mapping (`Device`).
* `ZnsGate`: `direct_zns_gate` and its software copy of the zones.
* `ZnsTop`: the same RTL behind the real resolver, block RAM and thermal
  register.  `Clock` is one edge of all of them; the host has the timing of
  `tb_zns_controller.v`, the sensor changes at any time.
* `NbdServer`: the NBD thread and the management thread, one step per group of
  pin assignments, tick or block of memory updates.  `NbdClients` closes it
  with clients that send any request.
* `HostFtl`: the Rust FTL alone.  `HostStore` closes it with a device that
  keeps the NBD contract (and may refuse writes), `CoSim` with `NbdServer` and
  the workers of the stress test.
* `Eeprom`: the SPI state machine edge by edge, with the receiving EEPROM; the
  trigger and the word on the pins change at any edge.
* `Flash`: pages, blocks and planes as operators on a state record.
  `BlockManager` extends it with the hand-out, waiting list, collection and
  return of blocks, `FtlParent` with the host: the pages it has written and not
  trimmed (`live`) and those a named fault has hit (`lost`), with `None` among them
  once a fault has put a block to two uses.
* `BastFtl`, `FastFtl`, `PageFtl`, and `DftlFtl` and `BdftlFtl` over
  `DftlParent`: one module per layer.  Actions are whole requests, since
  FlashSim is sequential; merges, evictions, conversions and collections are
  operators inside them, in the code's order.
* `Ftls`: a drive with one of the five layers, chosen as `FTL_IMPLEMENTATION`
  chooses it; the size of each layer's drive, its limits and the pages the host
  uses are constants.  Each property is a conjunction over the layers it is about.
* `Bus`: channels as sets of reserved intervals, the waits and service times of
  an event, the RAM's delay, `ready_at`.  `SsdArray` extends `Flash` with die,
  package and drive: wear figures and the dispatch of merges.  `Hardware`
  joins them and `Eeprom` for TLC.
* `MCZnsDriver`, `MCZnsGate`, `MCNbd`: instances for TLC.
* `ZnsGateProofs` (driver and gate), `ZnsTopProofs`, `NbdProofs`,
  `HostStoreProofs`, `CoSimProofs`, `HardwareProofs` and `FtlsProofs`: the
  theorems about the modules they are named after, and their lemmas.
  `DriveProofs`, which `FtlsProofs` extends, has the lemmas on flash array and
  block manager, the invariant of BAST and the cached mapping table.

Operators whose comment begins with "Mutant:" are defects seeded on purpose:
`PROJECT.json` says which definition each replaces and which property must
then fail.  They are used by nothing else.

## Runs

| Run | Shows |
|---|---|
| `driver_all` | With every command on every page, with a zone past the array and with zone numbers too large for the 32 bits the driver passes on: metadata words stay consistent, the counter within the limit, the rules see the current word of the target zone, errors are genuine, only the word the 32-bit number names changes, every command completes. |
| `gate_refines` | Without reads, driver, bridge and RTL implement `ZonedDevice` (safety and liveness), the tracker's count is the number of open zones, the software pointer follows the hardware. |
| `driver_read_opens` (violation) | A read that passes the rules stores `bram_wdata`, which only writes and resets assign: a zone gets another zone's word and the open-zone limit is broken. |
| `top_controller` | In the synthesised controller the two registered stages before the rules have caught up when they decide, an address past the last zone never stores although it aliases a real word, and at the testbench's sampling time the verdict agrees with memory and, when the temperature is steady, with the sensor. |
| `nbd_server` | Every request is answered and every WRITE gets a verdict in fewer than ten polls, from any state an earlier request leaves the RTL in. |
| `nbd_race` (violation) | A management reset during a WRITE leaves the RTL outside IDLE when the WRITE ends. |
| `host_store` | Over a device that keeps the NBD contract, mapped data is intact until a write is retried, also when a zone reset fails, and calls return. |
| `host_retry` (violation) | A retried write is recorded at a stale page. |
| `cosim_three` | In the stress test the host's mutex keeps the server's threads apart, workers keep to their zones, and "verified" means stored. |
| `cosim_join` (violation) | A worker waits for data that an error reply does not carry and holds the mutex: the threads are never joined. |
| `translation_layers` | Any order of reads, writes and trims on each of the five layers, until the drive wears out or has no block left: reads find the last write, trimmed pages stay gone, no page is programmed twice, no block leaks or is used twice, counters, cached block states and evicted mappings agree with what they stand for. Each of these but for the faults listed below, which the modules name. |
| `hardware` | Channels grant the earliest interval that fits and are double-booked in one way only (behind a reservation that expired for an event starting later); the times of an event add up to what it was granted; free-block counts never fall short and cached wear figures are not overtaken, for writes, erases and merges at all levels; the EEPROM receives the word latched, within the testbench's time and once per trigger. |

### Bounds

* RTL runs: two zones of two or three pages, one open zone, one erasure, a
  counter of four values, zone numbers of two bits (`ZoneIds`) and one larger
  number for each zone of the array.  Each rule, first, middle and last page, a full zone,
  the open-zone limit and the wear limit all occur; a third zone adds no new
  relation, since rules, tracker and store look at one zone and one counter.
* `top_controller`: the testbench's own timing (ten edges high, six low), two
  zones and one address past them.
* NBD runs: every request type; writes to the last page of one zone and the
  first of another, so that zones are closed and opened against the limit.
* Host runs: two zones of two pages, two logical pages, two values.
* `cosim_three`: the three workers and zones of `main.rs`, two pages each.
* `translation_layers`: blocks of two pages with one erase each, two logical
  blocks, three logical pages in use.  BAST: four blocks, one log block, no
  bound on requests.  FAST: eight blocks, two random log blocks, nine requests:
  both logs fill, switch, sequential and random merges and a collection happen.
  DFTL and bimodal: a cache of two entries and of one, translation pages of two
  entries, six requests with start times 0 and 1 in any order: hits, misses, equal
  times, write-backs with and without neighbours, conversion and return to block
  mode happen.  Ideal layer: eight requests, past the size of its drive, with an
  `unsigned long` of sixteen values (`LongValues`), more than it has pages.
  Both ways to stop (worn out, no free block) are
  reached.
* `hardware`: two channels, two events at times 0 to 3, durations 1 and 2, four
  reservations: enough for a gap before, between and after, touching intervals,
  and an event that starts before the previous one.  The array has two children
  at each level, five of its blocks in use, one in the other half at each
  level, and five operations.  The EEPROM has its real 32 bits and two words:
  the testbench's and one with first and last bit set.

### Fairness and deadlock

The driver's polling loop and the server's threads are weakly fair: each is a
thread that runs until it waits for input.  A worker of the stress test has
strong fairness on taking the mutex, which the standard library's lock gives in
practice to a thread that keeps asking.  Clients need not send anything.
Deadlock is checked except where the system really stops: a stuck worker
(`CoSim`), a simulator that ends in a failed assertion (`Ftls`), and the bounded
operations of `Hardware`.

## Proofs

A theorem holds for every value of the constants that satisfies the modules'
assumptions: every zone size, number of zones, limit, set of commands, number of
workers, width of a word, geometry of a drive.  The bounds of the runs
(`MaxOperations`, `MaxLocks`, `MaxTime` and the like) are constants too, so they
do not limit the theorems.  No property below is inductive by itself; each proof
rests on an inductive invariant that says where a command, call or request
stands, and the property follows from it.

| Module | Theorems (property) | Inductive invariant |
|---|---|---|
| `ZnsGateProofs`, the driver | `TypeCorrect` (`TypeOK`), `MetadataCorrect` (`MetadataOK`), `CountCorrect` (`CountBounded`), `QuietCorrect` (`QuietBetweenCommands`), `FreshCorrect` (`FreshMetadata`), `FailureCorrect` (`FailureIsGenuine`), `TargetCorrect` (`OnlyTargetZone`) | `IInv` |
| `ZnsGateProofs`, the gate | `TrackerExact` (`CountIsOpenZones`), `Refinement` (`Device!SafeSpec`), `MirrorCorrect` (`MirrorFollowsPointer`), `GateRefinement` | `CInv`, `GInv` |
| `ZnsTopProofs` | `TargetSeen` (`RulesSeeTarget`), `StoresCorrect` (`StoresOnlyTarget`), `VerdictCorrect` (`VerdictMatchesMemory`), `ThermalCorrect` (`ThermalVerdict`) | `IInv` |
| `NbdProofs` | `DecidedCorrect` (`WriteAlwaysDecided`), `BoundaryCorrect` (`BoundaryStates`), `IdleCorrect` (`WriteEndsIdle`) | `NInv` |
| `HostStoreProofs` | `IntactCorrect` (`IntactUnlessRetried`) | `HInv` |
| `CoSimProofs` | `ErrorPathsDead` (`NothingLeftOut`), `HardwareCorrect` (`OneHardwareUser`), `ZoneCorrect` (`WorkerOwnsZone`), `VerifiedCorrect` (`VerifiedIsStored`) | `CInv` |
| `HardwareProofs` | `DumpCorrect` (`DumpIsExact`), `OverlapCorrect` (`OverlapOnlyBehindExpiry`), `TimesCorrect` (`TimesAgree`), `EarliestFitCorrect` (`EarliestFit`), `FreeCountCorrect` (`FreeCountNotShort`), `LeastWornCorrect` (`LeastWornIsNoWorse`) | `EepromInv`, `BusInv`, `ArrayInv` |
| `FtlsProofs` | `LayersTyped` (`TypeOK`), `ReadsCorrect` (`ReadsLastWrite`), `TrimsCorrect` (`TrimmedStaysGone`), `ProgramsCorrect` (`ProgramsEmptyPages`), `NoBlockLeaks` (`BlocksPartitioned`), `CountersCorrect` (`CountersMatchTables`), `BlockStatesCorrect` (`BlockStateMatchesPages`), `EvictionsCorrect` (`UncachedIsPersistent`), `OneModeCorrect` (`OneModePerBlock`), `LayersInvariant` | `LayersInv`: `BastInv`, `DftlInv`, `BdftlInv`, `PageInv` |

* Driver.  `IInv` adds what pins and registers hold at each control point
  (`AtReady`, `AtPoll`, `AtDrain1`, `AtDrain2`): that the address equals the
  zone pin once the machine has left IDLE, that the latch equals the addressed
  word from VALIDATE on, that in EXECUTE the checker still finds no error.
  `WordsOK` covers the read latch and the store register too, because a read
  stores that register unassigned: metadata stays consistent only because every
  word the register can hold is consistent.
* Gate and refinement.  These theorems assume `AppendOnly`: no reads, and zones
  in the array (the instance of `gate_refines` satisfies it).  They need it:
  `driver_read_opens` shows a read breaking the count.
  `CInv` adds that the pins are the command's own while it is polled and that
  the counter is the number of open zones; a store changes both in one tick, by
  one, and a counting lemma relates them.  `Refinement` maps the decision of a
  command to the tick that leaves VALIDATE for ERROR or that leaves EXECUTE:
  that tick is the deciding step of `ZonedDevice`, submission and return are its
  other two, every other tick is a stutter, and the initial states correspond.  It is the
  safety part, `SafeSpec`; the fairness of `ZonedDevice!Spec` is checked by TLC.
  `GInv` follows a call of the gate from the pointer it read to the verdict.
* Synthesised controller.  The edges since the trigger rose are the one clock
  that testbench, resolver, RAM and machine have in common; `IInv` gives for
  each number of edges the state of the machine, how far resolver and RAM have
  followed the address, and what the memory was before the command.  The
  testbench must hold the trigger for six edges and lower it for two.
* Server.  The theorems assume `Concurrent = FALSE`, clients that take turns,
  because `nbd_race` refutes `WriteEndsIdle` without it; `CoSimProofs` shows
  that the stress test's clients do.  `NInv` gives the states in which a request
  may find and leave the RTL, and how many polls a WRITE can have made in each.
* Host FTL.  Until a write is retried (`HInv` promises nothing after, as
  `host_retry` shows it cannot): table entries point below their zone's pointer,
  so an append never hits a page in use, and every mapped page holds the last
  value, but for a zone whose reset the device has done and the host not yet
  learnt of.
* Stress test.  `CInv` ties the workers' progress to the host's pointers, table
  and the server's memory, and says which one message or thread is under way for
  the one call in progress.  It holds whatever verdicts the RTL gives.
* EEPROM.  `EepromInv` gives, for each state, bit and divider count, how many
  bits the EEPROM has, how far the register is shifted, and how many edges have
  passed.  `WaitAssumption` is what the testbench must wait: `8 * WordBits + 10`.
* Bus.  `BusInv` relates the history of grants to the channels' tables: each
  grant is in its table or a later request made the channel forget it.
* Flash array.  `ArrayInv` adds to the two properties that the unit which
  remembers a block as erased last is that block's unit: an erase elsewhere then
  cannot touch the places the unit's figures were read from.  It needs the
  arithmetic of addresses (`Quotient`, `PeerUnit`).
* Translation layers.  `FtlsAssumption` asks that sizes be positive, the host
  stay within the logical pages, translation pages divide the table and an
  `unsigned long` can count the drive's pages.  The theorems are about BAST, DFTL, the bimodal
  and the page-mapped layer: those whose property also speaks of FAST say
  `ftl # "FAST"`.  What they share: each block's state and counters tell the
  truth about its pages (`Fits`), and, where blocks are given back, the first-use
  pointer, the list of erased blocks and the counters account for the drive
  (`Stock`).
  * BAST.  `BastInv` adds that every block is nobody's, one log block or one data
    block (`Owns`), that a block that is nobody's is erased, that a log block is
    written from its first page on, and that a live page is in the log where the
    page map leads, or at its own offset in the data block (`BlockKept`).
    `DataKept` says that a valid page of a data block is one the host can read:
    a merge then copies nothing that was trimmed.  Merges are proved as a
    loop over the pages, with what is done and what is left to do.
  * DFTL.  `DftlInv` needs to know which pages are still empty (all behind the
    current page, and all of blocks not handed out) and what the two time
    stamps of an entry say: equal while cached means that flash has the mapping, that the page
    was trimmed, or that the entry is one of those the code overlooks
    (`Kept`).  The start times of the events are arbitrary: nothing is assumed of
    their order, and several may be equal.  The write-back of neighbours on the
    same translation page keeps all this.
  * Bimodal.  `BdftlInv` adds that a block is that of the current page, spare, or
    of one logical block in block mode, never two of these (`Owners`), that the
    pages behind each one's last write are empty or trimmed ahead (`Contents`), that a live page
    is found in the mode its block is in (`Finds`), and that a page of a block in
    block mode, or trimmed, has no entry (`OneMode`).  The invariant
    holds until a stray trim has put a block to two uses (`None` in `lost`); the
    layer serves on after that, and the theorems about it then promise nothing.
  * Page-mapped.  `PageInv` is about a count: every write adds one to
    `numPagesActive`, a rewrite too, until a block is erased to make room; the count
    is that of an `unsigned long`, so the bound on it ends at the trim that takes it
    below zero.  The drive's own flash is touched by erases only.

Model-checked only:

* liveness, and ENABLED with it, which are out of the prover's reach:
  `CommandCompletes`, the fairness part of `ImplementsDevice`,
  `EveryRequestAnswered`, `CallsReturn`, `AllWorkersStop`;
* what the properties of `Ftls` say of the bimodal layer once a stray trim has put
  a block to two uses (its types, counters, block states, cache and modes);
* what they say of FAST.  Its merges walk lists of log
  blocks, so that their proof is an induction over those lists, through each of
  the six faults below.

## Faults of the layers

FAST and the bimodal layer lose data in ways that follow from their code.  Their
modules name each one and add the pages it hits to `lost`; the properties say
that nothing else goes wrong.  A fault that puts a block to two uses adds every
page and `None` (`Everything`): from then on (`Mixed`) the layer goes on serving
requests, any page may be wrong for good, and `BlocksPartitioned`,
`ProgramsEmptyPages` and `ReadsLastWrite` promise nothing of it.

FAST (`FastFtl`):
* `RewritesLogged`: reads and trims take the oldest copy in the random log
  (`fast_ftl.cpp:98`), so a page written to it again reads stale.
* `InPlaceBehindLog`: a page written into an empty place of its data block while
  the sequential log still has a copy reads as that copy.
* `OutOfOrder`: a write out of order to the owner of the sequential log starts a
  new one and lands on its first page, whatever its offset.
* `DropsFirst`: `random_merge` never copies the first page of a log block
  (`fast_ftl.cpp:380`, `i>0`) and then frees it.
* `TrimFaults`: a trim that empties a random log block puts it on the free list
  and leaves it in the log.
* `MergesWithout`: `random_merge` does not ask whether the logical block has a
  data block (`fast_ftl.cpp:434`, `463`).  After a trim it may have none; the
  address -1 wraps, as `Address::set_linear_address` lets it, to the drive's last
  block, whose pages are copied and which is put on the waiting list, whoever
  uses it (W1, T1, W1, T0, then W3 until the log is merged).

FAST also miscounts: a trim counts every block it erases out as a log block, a
data block too.  `data_active` then drifts upward past the size of the drive and
`log_active` down until it wraps, and the next log block is refused ("too many
log blocks").  What holds of the two counters is the bound on their sum, which is
what FAST's `TypeOK` states.  No data is lost by it.

Bimodal (`BdftlFtl`):
* `WriteFaults`: a conversion to page mode looks at the wrong block and maps
  only pages already mapped (`bdftl_ftl.cpp:150-161`): what the block held is
  unreachable until it is written again.
* `StrayTrim`: a trim in block mode of a logical block without a physical one
  invalidates a page at address -1 plus the offset, and erases that page's block
  when it was the last one.
* `TrimmedAhead`: a trim of the page that is due next in a block in block mode
  invalidates it while it is empty (`bdftl_ftl.cpp:282`); the write that then
  programs it (W0, T1, W1) fails the assertion of `Page::_write`.  The simulator
  ends there, so no page is lost by it.

DFTL and bimodal (`DftlParent`): whether a cached entry must be written back is
decided by comparing the times at which it was brought in and changed, which are
start times of the host's events.  A write that finds an entry in the cache at
the time at which it came in, and the repository's own workloads issue events
with equal times, leaves the two equal, so that the change is not written back;
neither is a trim's, since the entry is stored back unmarked.
`drive.map.overlooked` keeps the entries the first case has hit, and
`UncachedIsPersistent` says that no other mapping is forgotten.  The simulator
reads through its table in memory, so it is the simulated device that would lose
the mapping at a power failure, not a read.

DFTL: a trimmed entry stays flagged as cached without being counted, so `cmt`
may be below the entries cached, never above (`CountersMatchTables`).

Page-mapped (`PageFtl`): a trim that completes a block takes a block's pages off
`numPagesActive` whether they were written or not (`page_ftl.cpp:115`), so that
the unsigned counter wraps and the layer collects no more.  `drive.map.wrapped`
says that this has happened; until then the counter stays within the drive.

## Not modelled

* Byte layouts, socket set-up, log output and statistics; reading the
  configuration file.
* Wall-clock time between processes: the two-second timeout of the management
  client, and with it an acknowledgement that comes after it.  A zone reset that
  fails for another reason is modelled (`ResetFails`, `ZoneResetFails`) when no
  command is out.  Errors of the NBD transport are not.
* Malformed NBD requests: `nbd_server.cpp:85-89` copies without looking at the
  bounds or at a short payload.  `ReceiveWrite` has whole pages inside the
  device, which is what the host FTL, a client with fixed pages, sends.
* Undefined behaviour of three places: FAST's `switch_sequential` after a trim
  has emptied the sequential block reads `data_list[-1]` (`SwitchSequential` ends
  the run there), an eviction whose last translation page is larger than what is
  left of the table reads past its end (`FtlsAssumption` has the pages divide the
  table), and a trim of DFTL writes `reverse_trans_map[-1]`.
* FlashSim at this commit has stubs: `Controller::issue` and `cost_insert`
  (`flashsim_stubs.cpp`, `ssd_bm.cpp`).  `IssueWrite` takes from `Ssd::write`
  and `Ssd::replace` that a WRITE writes its page and then invalidates the page
  it replaces; `Bus` lets an event lock any channel for any duration, which
  covers whatever a controller does.  The index that the stub leaves empty makes
  `update_block` and the end of `insert_events` undefined behaviour; the models
  take the outcome in which nothing is collected.  So `cleanup_block` of DFTL
  and of the bimodal layer is unreachable, and `reverse_trans_map`, read only
  there, is left out.
* Page contents are "the last write of logical page n" or nothing; reads of
  unmapped pages go to physical page 0 and promise nothing.  A request for the
  first page past the end, which the check in `ssd_ssd.cpp:150` lets through,
  is not sent.
* `get_least_worn` and `disconnect` have no caller but their own kind and
  destructors; `consolidate_metaevent` has none.
* `ssd_ftl.cpp` implements a class that `ssd.h` does not declare; the wear
  leveler and the garbage collector are place-holders; `ssd_raidssd.cpp` hands
  events to several drives and keeps no state.
* `zns_manager.cpp` and `zns_ftl.cpp`: `validate_and_advance_zns` has no caller,
  `reset_zns_zone` no implementation.
* The crypto engine (a function on bits), the fixed text `eeprom_manager.cpp`
  writes, NBD negotiation and `ftl.rs`, which nothing calls, and the drivers of
  workloads.  Verilator's output in `obj_dir` is generated from the RTL.

## Disagreements seen and not run

Four disagreements between code and documents are runs (`expect: violation`).
Others met while reading:

* `hardware_bridge.cpp:38` ties the bound error to 0: a write to the first page of
  a zone outside the array is counted as an open zone that no metadata word
  records and no reset gives back.  As many of them as the limit, and error 0x02
  refuses every first write from then on; `ZnsSpecification.md:120` has it for
  the attempt to open a fifth zone.  With zones outside the array only the limit
  is checked (`CountBounded`), inside it the exact count (`CountIsOpenZones`).
* `zns_driver.c:23` cuts the zone number to 32 bits, so a command for an LBA of
  2^38 or more is carried out on a zone of the array (`ZoneId`, `OnlyTargetZone`).
* `ssd_page.cpp:92` asserts that a page is empty when it is programmed; in the
  bimodal layer it need not be (`TrimmedAhead` above, `ProgramsEmptyPages`).
* `zns_rules_checker.v` refuses a reset after 10 erasures; `ZnsSpecification.md:257`
  and scenario 7 of `tb_zns_controller.v` expect 5.
* `zns_controller.py:14` describes opcode 1 as Read and 2 as Write; the RTL it
  feeds takes 1 as write and 2 as zone reset.
* `ssd_controller.cpp:54` increments byte 2 of the software zone as its erase
  counter; in the structure that byte belongs to the write pointer.
* `Readme.md:399` says the management reset clears the counter of open zones;
  the code clears the metadata words and leaves the counter.
* `Readme.md:404` says the hardware validates the stress test's writes; the
  server acknowledges a refused WRITE as done.
* `ftl_write_pipeline.rs:27` reports a full device while lower zones are empty:
  zones are searched upward only.
* `Plane::update_wear_stats` never raises the maximum it compares with, so
  `least_worn` is the last block better than block 0, not the best.
* `Plane::erase` raises `free_blocks` for blocks that were never written, so
  the counter can exceed the truth (`FreeCountNotShort` states what does hold).

## Plan

Done: device, driver, server, host, stress test, synthesised controller, EEPROM
controller, flash array, bus, block manager and the five translation layers.
Proved: every safety property of the runs; for the translation layers, of four
of the five.  What is left:

1. FAST: `BlockStateMatchesPages` and the types first, which need only the
   lemmas on the drive in `DriveProofs`; then `BlocksPartitioned`, with its
   waiting list and its sequential block as further owners; last `ReadsLastWrite`
   outside the faults.
2. The cost index, when `cost_insert` is no longer a stub: it makes the
   collections of DFTL and of the bimodal layer reachable.
