# Verification of the sensor system

TLA+ models of this repository, from the accelerometer FIFO of a node to the
capture file on the host's disk and to what an operator is told about it, with the
TLC configurations that check them and TLAPS proofs about the parts whose
correctness must not depend on a small instance.

The system promises one thing above all (`docs/architecture/PRODUCT-INVARIANTS.md`,
`docs/adr/0006`, `docs/adr/0009`): every position of a measurement stream is, in
the end, a sample or an explicit, exact statement that it is missing. Nothing is
lost silently, repeated, shifted or invented, whatever is lost on the line,
whoever crashes and whichever buffer overflows. A position passes through several
bounded buffers on two cores, a half-duplex bus and two threads of the host.
The properties say of each stage what it must not do to a position, and
`DeliveryChain` says it of the chain. Around the chain stand the parts that decide
who records what: startup, operations, safe state, commissioning, retention.

Paths are relative to `src/`. `HS/` stands for `host_v2/crates/sensor-host/src/`.

- [1 Inventory](#1-inventory)
- [2 Modules and how they correspond to the code](#2-modules-and-how-they-correspond-to-the-code)
- [3 Runs](#3-runs)
- [4 Fairness](#4-fairness)
- [5 Proofs](#5-proofs)
- [6 Where code and documents disagree](#6-where-code-and-documents-disagree)
- [7 What is not modelled](#7-what-is-not-modelled)
- [8 Plan](#8-plan)
- [9 Running it](#9-running-it)

## 1 Inventory

### The node (`node/`, C++ on an RP2040 with two cores)

| Part | State | Operations | Correct when |
|---|---|---|---|
| Acquisition engine (`acquisition/`, `timing/`, `processing/`) | FIFO level, DRDY time stamps, filter, timing segment | FIFO service, reload, overflow handling, end of recording | what it cannot vouch for becomes a break or a loss, never a sample |
| Source sequencer, sample ingress (`measurement/source_sequencer.h`, `sample_ingress.h`) | next sequence, pending events, fault | publish sample / break / loss, flush | a claimed sequence always reaches the queue, in order |
| SPSC queue (`runtime/spsc_queue.h`) | ring, two wrapping cursors | try_push, try_front, pop_front | bounded FIFO, no slot touched by both cores |
| Sensor runtime, core runtimes, fault latch (`runtime/`) | lifecycle state, latch | Start, Stop, Enter/ExitMaintenance, polls of both cores | a finished Stop has delivered the session, a fault is terminal |
| Measurement journal and ledgers (`measurement/measurement_journal.h`, `stream_gap.h`, `stream_continuity.h`) | sample ring without sequence numbers, gap ledger, break ledger, cursors `released <= retained_from <= produced`, `delivered`, prepared view | append sample / gap / break, read, deliver, cancel, release | the arithmetic that finds a sample is never off; overload is counted, never refused |
| Delivery session (`measurement/delivery_session.h`) | one-shot token, prepared end | prepare_pull, complete, abort, release | only the outstanding answer can be settled |
| Protocol handlers, outbox, endpoint (`protocol_v3/`) | cached response, transmit state | pull, state, lifecycle, configuration, commissioning | an answer is queued exactly when its delivery is completed |
| Operation mailbox, lifecycle handler (`runtime/operation_mailbox.h`, `protocol_v3/lifecycle_handler.h`) | waiting command, what is remembered of it | submit, execute, report | an operation executes at most once and is always answered |
| Commissioning and configuration (`runtime/`, `config/`) | flash record, boot metadata, active values | assign address, change, rollback, reboot | an address is given once and survives every boot |
| Watchdog, boot loader (`runtime/core_progress_watchdog.h`, `boot/`) | heartbeats; slots and metadata | feed; program, trial boot, roll back | a stalled core reboots; some slot always boots |

### The host (`host_v2/`, Rust)

| Part | State | Operations | Correct when |
|---|---|---|---|
| Transactions, channel agent, endpoint (`HS/transaction.rs`, `channel_agent.rs`, `channel_endpoint.rs`) | one attempt, its deadline and guard time, queue, active and completed work, two wrapping id counters | submit, poll, receive, abandon, hand-off | an answer settles only its own attempt, the bus is quiet before the next one, no work is lost |
| Node session and cursors (`HS/node_session.rs`, `measurement_transfer.rs`, `stream_recovery.rs`, `sensor-core/delivery.rs`) | phase, received / durable / released | begin_pull, accept, confirm, abandon, recover, reconcile | `released <= durable <= received`, and the same as the node's and the disk's |
| Coordinator, recording loop, worker (`HS/measurement_coordinator.rs`, `channel_recording_loop.rs`, `channel_worker.rs`) | sessions, modes, the execution in progress, recovery of each node | dispatch, persist, recover online, operate, resume, shut down | one bad node does not stop the others; what is started ends |
| Startup (`HS/channel_startup.rs`, `measurement_startup.rs`) | evidence per node, captures | discover, bootstrap, reconcile, start, take over | no start is refused for what an earlier one left |
| Scheduler and runtime (`HS/channel_scheduler.rs`, `channel_runtime.rs`) | ranks, deadlines, back-off, admission | choose the next work | no healthy node starves |
| Safe state, resume (`HS/safe_state.rs`, `channel_resume.rs`) | attempts and deadlines per node | converge a group, verify a resume | what is reported as reached was reached |
| Persistence executor (`HS/persistence_executor.rs`) | permits, write channel, pending and failed groups, completions | submit, group, commit, fail, recover, manage, shut down | a record is confirmed once, in order, when durable |
| Capture storage (`HS/capture_wal.rs`, `capture_segments.rs`, `capture_window.rs`) | write-ahead file per window, manifests, ledger | open and recover, append group, rotate, seal, publish | what was reported durable is found again, and only once |
| Archive and retention (`HS/archive_*.rs`, `retention_*.rs`, `capture_coverage_checkpoint.rs`) | coverage, checkpoints, files | cover, replicate, delete | only what is archived and old enough is deleted, and every cut is resumed |
| Time and Telemetry storage, coordinator, supervisor (`HS/time_persistence.rs`, `telemetry_persistence.rs`, `host_coordinator.rs`, `channel_supervisor.rs`) | queues, WALs, threads, health | submit, append, recover, roll over, start, supervise, stop | observations reach their file once; a stop ends |
| Operations and IPC (`HS/operations*.rs`, `bin/sensor-operations.rs`) | mailbox, ledger, audit WAL, socket | submit, poll, audit, answer, retry | the operator is told what the audit holds |
| Discovery and installation, commissioning (`HS/installation_*.rs`, `discovery*.rs`, `commissioning.rs`) | documents, evidence, scan and assignment | merge, validate, discover, scan, assign | every node is who its document says, at an address of its own |
| Protocol (`crates/sensor-protocol/`) | decoder | encode, decode, frame | both sides mean the same bytes |

`PROJECT.json` lists every component with its files, its modules and its status.

### How they interact

```
 sensor FIFO                                                       host thread of a channel           storage thread
     |  core 0                     core 1                                   |                               |
 acquisition -> ingress -> SPSC queue -> journal -> delivery session  <-> agent <-> session -> coordinator -> executor -> WAL
              (pending)                  (ring)     (token)     RS485       |        cursors   (1 record/      (groups)   |
                 ^                          |                               |                    stream)         |        v
            lifecycle / configuration    release_before <----------------- durable cursor <------- completion ----+     disk

 sensor-operations <-> IPC server -> mailbox -> channel worker (operations, safe state, commissioning) -> audit WAL
 supervisor -> channel threads -> Time / Telemetry queues -> executors -> WALs        retention: captures -> archives -> deletion
```

- Core 0 and core 1 share only the SPSC queues and the fault latch.
- The host pulls. A pull names the sequence it wants and the sequence before
  which everything is durable; the node releases the second and answers with a
  chunk, a gap or a break at the first.
- A delivery counts as completed when its answer is *queued* on the node.
- The channel thread hands one record per stream to the storage thread through a
  bounded channel and polls a second one for completions. Recovery and management
  of the repository use two more.
- After any uncertainty (late answer, lost answer, reboot, crash) the session is
  rebuilt from three accounts: the host's cursors, the capture on disk, the
  node's journal state.
- An operator's command crosses a datagram socket that may lose it, a mailbox and
  a ledger that makes its repetition harmless, and is written to the audit before
  it has an effect. Only the audit outlives the process.

### What is hard to test here

Two cores on one ring with wrapping counters; a stop that depends on the other
core; overload that discards across samples, gaps and breaks at once; a view into
a ring that is being overwritten; late requests that still move the node's
cursors; a crash between a durable write and its receipt; evidence that is stale
when recovery uses it; deadlines that pass between two reads of the clock; id
counters that wrap; a group of records of unknown fate after a failed barrier; a
crash between any two system calls of a rotation or a deletion; an operation that
is repeated after its answer was lost; a node that reboots while it is being
verified; threads that wait for each other. The `hazards` of `PROJECT.json` give
each at its line, with the properties that cover it or the reason why none does.

## 2 Modules and how they correspond to the code

Definitions keep the source's names (`prepare_pull`, `submit_record`,
`release_before`); `map` in `PROJECT.json` gives the lines of every one. Where the
code has a class without concurrency of its own, its state is a record and its
methods are operators that return status and next record; the modules with
VARIABLES compose such records with the steps of the actors that own them.
Definitions whose comment begins with "Mutant" are wrong on purpose: each is a
plausible bug of the operation next to it, and every property has one that breaks
it in its own run.

```
  MeasurementJournal <- DeliverySession <- NodeDelivery            (node: core 1 half)
                                        <- DeliveryChain           (node + line + host + disk)
                        NodeSession     <-/
  SampleIngress <- SensorStream                                    (node: core 0, queue, core 1)
  BoundedFifo <= SpscQueue                                         (refinement)
  ChannelOperations <- ChannelWorker                               (host: the channel's thread)
                    <- OperationsService                           (host: client, server, audit)
  ObservationStore <- HostSupervision                              (host: the process)
  WireCodec <- WireFormats, NodeWireFormats <- WireExchange        (both ends of the line)
  ChannelAgent  ChannelSchedule  ChannelStartup  SafeState  Commissioning  Framing  Installation
  GroupedPersistence  CaptureSegments  RetentionCleanup  RetentionCheckpoint
```

TLC explores several modules in one run where they are small: the MC module starts
a behaviour in one `part` and leaves the variables of the others alone. The parts of
such a run share nothing.

### The node

**MeasurementJournal** (`measurement_journal.h`, `stream_gap.h`,
`stream_continuity.h`). A journal is one record with the ring, both ledgers, the
four cursors, the discard counters and the prepared view. The operators follow
the methods: `append_sample`, `append_gap`, `append_continuity_break`,
the collapse of retention under overload (`discard_retention_before`), `prepare_read`
with the cut at the next gap, break, configuration revision or timing segment,
`mark_delivered`, `release_before`. Ring slots carry no sequence in the code, and none
here: `samples_between` and `sample_physical_index` do the same arithmetic.
`MaxSequence` stands for `UINT64_MAX`, so exhaustion of the sequence space is reached.

**DeliverySession** (`delivery_session.h`). Tokens counted up to `TokenModulus`, after
which a pull ends as InternalError, `prepare_pull` (validation, release, read, timing verdict, token),
`complete`, `abort`, `release`. **NodeDelivery** owns one journal and one session, and
interleaves appends with pulls, completions, aborts and releases, with any cursors and
any token. Three history variables record what the source gave each sequence, what
overload took and what the outstanding answer showed.

**SampleIngress**, **SensorStream** (`sample_ingress.h`, `source_sequencer.h`,
`sensor_runtime.h`, `core0_sensor_runtime.h`, `core1_measurement_runtime.h`,
`runtime_fault_latch.h`, `node_v2_composition.h`). Core 0 is a loop with a program
counter: read the latch, one lifecycle command, flush, acquisition, one
configuration command. Every push to the queue is a step of its own because core 1
may pop between two. The journal is abstracted to "accepts exactly the contiguous
events", which `OverloadMakesRoom` proves of the real one.

**SpscQueue**, **BoundedFifo** (`spsc_queue.h`). Load of a cursor, copy of a slot,
store of a cursor as separate steps; a slot being written reads as `Torn`. Each slot is
published by the release store that its reader acquires, so the two cursors are taken
as sequentially consistent.

**SafeState** (`safe_state.rs`, `channel_resume.rs` against `sensor_runtime.h`,
`lifecycle_handler.h`). The host brings a group of nodes to Idle, Maintenance or
Recording, or verifies that they resumed, through an agent that loses attempts. The
node executes one command at a time, answers a repeated one from memory, and
restarts after its answer.

### The line and the chain

**NodeSession**, **DeliveryChain** (`node_session.rs`, `measurement_transfer.rs`,
`stream_recovery.rs`, `measurement_coordinator.rs`, `channel_worker.rs`,
`measurement_handler.h`, `response_outbox.h`). The real journal and delivery
session on the node, a line that loses and delays requests, the host session with
its validation of every answer, the capture of each boot epoch, recovery as the
separate steps read state / create capture / reconcile, node reboots and host
crashes. Only answers to the current request reach the session: that late ones are
discarded is `AnswerBelongs` of `ChannelAgent`, proved for every instance. The capture
is an atomic durable append with a later receipt; what is below it is
`GroupedPersistence` and `CaptureSegments`.

**ChannelAgent** (`transaction.rs`, `channel_agent.rs`, `channel_endpoint.rs`). One
endpoint step polls with one reading of the clock and receives with a later one;
time is the order of those readings relative to deadline and guard time of the
attempt. All ten kinds of work share the queue, the active slot and the completed
slot. Responses are lost, delayed and reordered; the one assumption, which the
protocol makes too, is that a response does not outlive a full turn of the transaction
id. `stranded` says that the execution which drives the agent has stopped stepping the
endpoint: a restart or a commissioning whose deadline passed with its attempt on the wire
(`channel_worker.rs:1132-1149`, `911-919`).

**WireCodec**, **WireFormats**, **NodeWireFormats**, **WireExchange**
(`crates/sensor-protocol`, `node/protocol_v3`). A layout is the sequence of the fields
an encoder writes or a decoder reads. Host and node are translated each from its own
source; a payload written by one is read by the other, intact or damaged in one byte,
cut or extended. **Framing** (COBS and checksum, with scaled sizes): frames in a stream
with noise, in reads of any length.

**Commissioning** (`HS/commissioning.rs`, `channel_worker.rs`, the node's
commissioning handler and runtime, `boot_shared/`). Scan slot by slot, assignment by
broadcast, repetition, verification. A node stores the address in its configuration and in
two copies of the boot metadata, of which the newest valid one counts: each copy may be
written, kept or lost, so a sync reported failed may be the one that counts, in the rollback
too. The sync of a boot comes after the node answers, and its result is ignored.

### The host

**ChannelOperations**, **ChannelWorker** (`operations.rs`, `channel_worker.rs`,
`channel_recording_loop.rs`). The thread of one channel: one call of `step` is one poll
of the mailbox and one drive of the execution in progress or of the recording loop.
Samples not yet stored are counted, a safe-state group or a resume verification is its
outcome per node.

**OperationsService** (`bin/sensor-operations.rs`, `operations_ipc.rs`,
`operations_audit.rs`). Clients with bounded retries, a socket of their own for each
exchange, the server, the mailbox and ledger of one channel and the audit WAL with
failing appends, torn records and restarts. A request is its id and its kind.

**ChannelStartup** (`compose_channel_recording` and what it calls: a capture is read before it
is opened, so one that was cut between file and header is refused), **ChannelSchedule**
(`channel_scheduler.rs`, `channel_runtime.rs`, the work coordinator, admission),
**Installation** (merging of layered documents, validation, discovery, the collector).
Times in `ChannelSchedule` are ticks relative to now, a cursor is a backlog.

**GroupedPersistence** (`persistence_executor.rs` and its callers). The channel thread
and the storage thread with the write, completion, recovery and management channels. A
failed barrier leaves any whole prefix of the group on disk. Production keeps one record
per stream in flight, answers a failure by faulting and shutting down, and has no caller
of `recover_persistence`; the model also lets the caller have several records in flight
and recover, which the executor's interface offers and its tests use.

**CaptureSegments** (`capture_wal.rs`, `capture_segments.rs`, `capture_window.rs`).
One step per system call. A file is what readers see (page cache) and what a
barrier has covered; a process crash keeps the first, a power loss the second plus
any prefix of the rest. A start reads the first
file's header (`inspect_capture_stream_origin`) before it opens the stream; opening replays
every file: torn tail, missing header of a later file, missing manifest, missing successor, inconsistency. Three assumptions: a 64-byte
header survives whole or not at all, what is written back of an append is a prefix,
a directory entry is durable after `fsync` of the directory. A data record covers
one position; whether it seals the window is free, since it follows from timing.

**RetentionCleanup**, **RetentionCheckpoint** (`archive_coverage.rs`,
`capture_coverage_checkpoint.rs`, `archive_retention.rs`, `retention_cleanup.rs`,
`retention_checkpoint.rs`). Coverage of a segment by replicated products, grace
periods, and each deletion as unlinks, a directory barrier and a checkpoint replaced
atomically.

**ObservationStore**, **HostSupervision** (`time_persistence.rs`,
`telemetry_persistence.rs`, `host_coordinator.rs`, `channel_supervisor.rs`). Queues,
executors and WALs of both services; start with the cleanup of every step that fails,
supervision turns, rollover of a stream, stop and close in order; a repository or the file of
a new stream may fail to open.

## 3 Runs

"States" are distinct states, times are with two workers. Every property has a mutant in
`PROJECT.json`: a definition that carries a plausible bug and breaks the property in the
same run.

| Run | Module | Instance | States | Time | Result |
|---|---|---|---|---|---|
| `node_delivery` | MCNodeDelivery | ring 2, ledgers of 1, sequences 0..4, tokens mod 3; queue of 4 slots, cursors mod 16 | 126,292 | 90 s | pass |
| `node_states` | MCNodeStates | queue 1, 2 pending events, sequences 0..5; one node, 2 orderly and 2 restart attempts, 3 boots | 660,569 | 93 s | pass |
| `delivery_chain` | MCDeliveryChain | ring 1, sequences 0..2, 2 boots, 1 host crash, 2 requests on the line | 981,014 | 118 s | pass |
| `channel_worker` | MCChannelWorker | 2 requests of 8 kinds, mailbox and ledger of 1, 1 reboot, loss of port or storage; agent: all kinds x 2 works or Lifecycle x 4, transaction ids mod 2, 3 operation ids | 687,976 | 179 s | pass |
| `grouped_persistence` | GroupedPersistence | 2 streams, 3 permits, groups of 2, 3 records a stream, 2 failures, 1 management operation | 170,862 | 69 s | pass |
| `storage` | MCStorage | 2 segments, 2 products, 1 fault; 2 archives; clock 2 of the cleanup, 4 of the checkpoint; 4 positions, groups of 2, 2 crashes and 2 failing calls or 2 power losses | 1,386,569 | 90 s | pass |
| `channel_control` | MCChannelControl | documents of 2 channels with overlays over 5 wirings; 2 starts, 1 reboot; 2 nodes, one faulty | 2,990,538 | 80 s | pass |
| `interfaces` | MCInterfaces | payloads with damage, frames of scaled sizes; 2 clients, 2 ids, 2 tries, 1 restart; 2 pieces of hardware, addresses 5 to 7 with 5 configured, 3 operations, 1 power loss | 2,918,057 | 174 s | pass |
| `host_supervision` | HostSupervision | 2 channels, 2 epochs, capacity 1, 1 failure, 2 Time and 1 Telemetry record | 535,216 | 154 s | pass |
| `channel_expiry` | MCChannelAgent | 1 work, ids mod 3 | | | violation |
| `capture_barrier` | MCCaptureSegments | 3 positions, 1 crash and then 1 power loss | | | violation |
| `host_start` | HostSupervision | as `host_supervision` | | | violation |

**node_delivery.** `JournalConsistent`: cursors ordered, ledgers disjoint and inside the
retained range, one stored sample for every retained position that is neither gap nor
break. `AppendAccepts`: overload makes room, a valid contiguous event is never refused.
`DeliveryExact` has three parts. A read of *any* cursor with *any* limit shows exactly
what the source gave those sequences; the answer that is still outstanding does so until
it is settled; what is no longer retained was delivered or is counted as discarded,
sample by sample. `CursorsAdvance`: no step moves a cursor back,
and each token is handed out once, in order, so that a late one never settles another answer. `ImplementsFifo`: the
queue between the cores refines `BoundedFifo`.
A ring of two with ledgers of one is the smallest in which the ring wraps, a collapse
crosses a sample, a gap and a break, a gap is trimmed in the middle, and a ledger
overflows while the ring does not; four sequences reach the end of the sequence space
from every such state. The queue's slot index wraps four times per turn of the cursors,
so every alignment of the two wraps occurs.

**node_states.** `StreamExact`: journal, queue and pending events follow each other
without a hole and say of each sequence what the source gave it or that a sample is
missing; only a fault leaves the newest unreported. `StopDelivers`: when a stop
completes, core 1 holds the whole session and its closing break, although core 0 reads
only cursors. `StopEnds`. `SettledIsReal`: when a group is complete its nodes are
in the states they were brought to, and the evidence of a verified resume was all read in
one boot. `GroupSettles`. With one slot in the queue every push may be refused, two
pending events fill up and overflow, five sequences run out inside a recording and at
its closing break. Two attempts are one that is lost and its repetition; three boots
are one the host asked for, one nobody asked for, and the one between them.

**delivery_chain.** `CaptureExact`: every position of a capture is what the source gave
it, once, or an overflow mark for a sequence that overload really took, and nothing is
released before it is on disk. `ProtocolAgrees`: no answer fails the host's validation,
recovery never finds accounts it must refuse, and the node refuses no pull.
`EventuallyCaptured`: once crashes, reboots, losses and early timeouts stop, everything
the node holds reaches the disk. Two boots let the evidence of an old epoch meet a new
one at each step of recovery; two requests on the line are a request and one believed
lost, and a third behaves like the second.

**channel_worker.** `TaskConsistent`: what the task started is driven, Recording is
scheduled, a shutdown reported clean is clean, and no error of an inconsistent task ends
it. `AuditCovers`: the audit tells every phase the ledger shows. `MaintenanceIsQuiet`:
when EnterMaintenance succeeds, every node stands still and has been drained to its last
sample. `TransitionsEnd`. `AgentConsistent`: the attempt on the wire belongs to the
active work in the phase its answer needs, each work is in one place, no slot costs more
than its budget, no operation id is in use twice. `AnswerBelongs`: only the answer to
this very attempt ends it early, and nothing is sent before the bus is given back.
`BusRecovers`: a transaction ends, unless its execution has stopped stepping the endpoint
(section 6). Two requests let each kind wait behind or interrupt each other one; the
agent's first workload lets every kind of work meet every other, the second fills the
queue and reuses operation ids; with transaction ids modulo two every second attempt
wraps.

**grouped_persistence.** `RecordsSafe`: each record handed over is in exactly one place
and in order; what is confirmed is on disk; after a failure of unknown extent exactly
the durable prefix is confirmed and the rest retried where the repository expects it;
permits equal the records without a success, so bounded channels never overflow; a clean
stop drains. `EverySubmissionSettles`: no thread waits for ever. Three records of a
stream make a group of two with one behind it; two streams make a record that ends a
group; two failures let recovery itself fail again.

**storage.** `CaptureKept`: an open stream holds each position below its cursor once
and none above, nothing reported durable is missing, the next open accepts whatever was
cut short, or refuses a stream that was cut before its first header and holds no record, and
a published segment never changes. `DeletionSafe`: only what is archived
and old enough is deleted. `CleanupResumes`: a cleanup cut between any two calls is
taken up by the next and never refused. `StoredIsReadable`: a published archive
checkpoint can be read back. Two faults let the second hit the recovery from the first.

**channel_control.** `InventoryExact`: a host that starts records exactly the nodes its
documents enable, each under its own hardware id, alone at its address.
`RefusedStartsLoseNothing`: whatever an earlier process and a rebooting node left, evidence
and capture agree when they are read, and a capture refused for its missing header is of a
boot of which nothing was stored or released. `StartedIsComplete`: when a channel has started, what
its nodes recorded before is in the capture. `ScheduleSound`: work in flight has one
holder, the plan fits the bus. `HealthyServed`: no work of a healthy node is later than
`MaxWait`, whatever the faulty one does. The overlays add, replace, disable and conflict;
the wirings are the documented one, two nodes exchanged, an address given twice, a node
replaced by another and a node with too old firmware.

**interfaces.** `PayloadsAgree`: both sides write and read the same bytes, and no
damaged, cut or extended payload is taken for a value it does not spell.
`CleanFramesArrive`: an intact frame behind a delimiter is handed out, whatever noise or
overlong body came before. `ExitIsTruth`: what `sensor-operations` reports is in the
audit. `AuditSound`: the next start accepts the audit, no operation starts without its
start on disk, and none twice in one process. `AddressesSound`: an assignment reported
done is one the node has in every copy, no node leaves an address it runs under, and one
comes to run under an address only by an assignment that was done, was cut by a loss of
power, or whose rollback failed. Two clients with two ids and two tries are an answer lost, its repetition and
another client between them; of the three addresses one is configured, and two let a late
assignment try to move a node.

**host_supervision.** `TimeWalExact`: every Time observation the queue took is in the
WAL of its stream, in order and once, or still waits. `ReportsTruthful`: health and exit
of the process say what happened. `ProcessEnds`: once a stop is requested, every channel
and executor is closed and none waits for another (when no submitter is left behind by a
failed start: that is `host_start`).

Deadlock is not checked where the system may stop: a shut down thread, a finished group,
operation or start (`node_states`, `channel_worker`, `grouped_persistence`,
`channel_control`, `interfaces`, `host_supervision`), or a bound that is reached
(`storage`).

## 4 Fairness

- `SensorStream`: weak fairness of each core. Both run an endless poll loop without
  blocking; the watchdog is fed only while both make progress. Neither host
  commands nor samples are promised.
- `SafeState`: the group's driver runs, the agent finishes what it carries, deadlines
  pass. Nodes need not answer and may reboot.
- `ChannelAgent`: the clock, and, while the thread steps the endpoint at all, the endpoint
  step (`PollAgent \/ Receive`) and `take_completed_measurement`. `DeadlineStrands` may end
  the stepping, and nothing ends that state: `drive_restart` and `drive_commissioning` then
  return before `endpoint.step()` each time. So `BusRecovers` says that a transaction ends or
  is stranded so. Nodes need not answer, ports may fail.
- `ChannelWorker`: the loop of the channel's thread
  (`Poll \/ Start \/ Advance \/ Drive`), its shutdown, deadlines.
- `DeliveryChain` (`FairSpec`): a request leaves the line, handled or lost; the
  host's loop runs; a deadline passes when no answer is under way. Faults
  are not fair: `EventuallyCaptured` assumes only that they stop at some time.
- `GroupedPersistence`: the storage thread runs; the recording loop polls completions
  in every step (`channel_recording_loop.rs`); a reported failure is answered by recovery
  or, as production does, by shutdown (`channel_worker.rs`, `channel_supervisor.rs`).
- `HostSupervision`: every thread of the process runs: both executors, each channel,
  and the main thread's start, turns and stop. Nobody is promised to request the stop.

## 5 Proofs

Eight modules hold proofs that `tlapm` checks to the last leaf. They hold for every value
of the constants that satisfies the named assumptions of the modules, which TLC evaluates
in the runs.

| Module | Theorem | Statement |
|---|---|---|
| NodeDeliveryProofs, over MeasurementJournalProofs | `JournalStaysConsistent` | `Spec => []JournalConsistent` |
| | `OverloadMakesRoom` | `Spec => []AppendAccepts` |
| | `CursorsOnlyAdvance` | `Spec => CursorsAdvance` |
| | `DeliveryIsExact` | `Spec => []DeliveryExact` |
| | `ReadsAreFaithful` | the invariant implies that any read is faithful |
| | `QueueIsFifo` | `QueueSpec => ImplementsFifo`, the refinement of `BoundedFifo` |
| | `OwnersNeverShareASlot` | no slot is filled while the other core holds it |
| DeliveryChainProofs, over MeasurementJournalProofs | `CapturesAreExact` | `Spec => []CaptureExact` |
| | `HalvesAgree` | `Spec => []ProtocolAgrees` |
| | `ChainInOrder` | the inductive invariant behind both |
| NodeStatesProofs | `StreamIsExact` | `StreamSpec => []StreamExact` |
| | `StopsDeliver` | `StreamSpec => StopDelivers` |
| | `GroupsSettleTruly` | `Spec => []SettledIsReal` |
| ChannelAgentProofs | `AgentStaysConsistent` | `AgentSpec => []AgentConsistent` |
| | `AnswersBelong` | `AgentSpec => AnswerBelongs` |
| | `AllocatedIsFree` | a free operation id is found whenever the queue has room |
| | `TaskStaysConsistent` | `Spec => []TaskConsistent` |
| | `AuditsCover` | `Spec => []AuditCovers` |
| | `MaintenanceStaysQuiet` | `Spec => MaintenanceIsQuiet` |
| ChannelRuntimeProofs | `RecordsStaySafe` | `PersistenceSpec => []RecordsSafe` |
| | `GroupInvariant` | every record in one place, in order, and management alone |
| | `StartRefusalsLoseNothing` | `StartupSpec => []RefusedStartsLoseNothing` |
| | `StartsAreComplete` | `StartupSpec => StartedIsComplete` |
| StorageProofs | `CapturesAreKept` | `SegmentSpec => CaptureKept`, for budgets that put no crash or failing call before a loss of power |
| | `DeletionsAreSafe` | `Spec => DeletionSafe` |
| | `CleanupsResume` | `Spec => []CleanupResumes` |
| | `CheckpointStaysReadable` | `CheckpointSpec => []StoredIsReadable` |
| InterfacesProofs | `AssignmentsAreReal` | `CommSpec => AddressesSound` |
| | `CommissioningKeepsInv` | the inductive invariant behind it |
| | `ExitsAreTrue` | `ServiceSpec => []ExitIsTruth` |
| | `AuditReopensAlways` | the next process accepts the audit, starts are on disk |
| | `AuditStaysSound` | `ServiceSpec => []AuditSound`, when the ledger holds every id in use |

**Journal.** `NodeInv` is `JournalInv` (types, cursor order, prepared range inside the
retained one, both ledgers ordered and inside `[retained_from, produced)`, disjoint, and
`RingExact`), the session's type and one history event per retained sequence. The
strengthening is needed because `produced - retained_from` does not bound the ring:
gaps and breaks occupy sequences but no slots. An append into a full ring discards
retention up to behind the oldest sample; that this frees a slot and does not report
`InternalError` follows only if `sample_size` equals the number of retained positions
outside both ledgers, and this survives a discard only if the ledgers are disjoint,
ordered and cut exactly at the new `retained_from`, a trimmed gap included.
`samples_between` counts positions (`SamplesBetweenCounts`), so it is additive
(`SamplesSplit`) and depends only on the ledgers inside its range (`SamplesAgree`);
`DiscardRetention` combines this for a cut at any cursor up to `produced`.
`AppendSampleKeeps`, `PrepareReadKeeps` and their like state what each method does to the
invariant, the session's operators compose them, `NodeNext` has one case per action. That
no late token settles another answer needs no invariant: the counter only grows, and a pull
after it has run out hands out nothing (`TokensStep`).

**What a read shows.** `ExactInv` adds `ContentExact` (the ring, read at the physical index
the arithmetic gives, holds the history's sample of each sequence, and each ledger its
gaps and breaks), `LossesExact` (discard counters against the history of losses)
and `PreparedViewIntact`. The view needs the content of the ring as it was when the answer
was built: it stays because nothing below `produced` is overwritten before it is
discarded, and a discard that reaches a prepared view invalidates it.

**Queue.** `QueueInv`: what a core's loads showed stays true until its store, because only
the owner of a cursor moves it and the other one only moves away (`LoadsStayTrue`), and
every slot behind the read cursor is whole, whatever the producer is writing
(`HeldWhole`). With the capacity dividing the modulus, slots of live positions are
distinct across the wrap of both cursors, which is where a capacity that does not divide
it would fail.

**Agent.** `AgentInv`: the age of a response on the wire follows from its transaction id,
the window is closed when the bus is idle, each work is placed once and within its
budget, the attempt is owned by the active work (`AttemptOwned`), operation ids in use
are apart. `allocate_operation_id` searches upward across the wrap; that it always finds
an id is a pigeonhole over the ids the queue can hold. A thread that stops stepping its
endpoint adds no step of its own to the agent (`ThreadSteps`).

**Task.** `WorkerInv` is one invariant for `TaskConsistent`, `AuditCovers` and
`MaintenanceIsQuiet`, over any list of nodes, any mailbox and ledger and any number of
requests, samples, reboots and losses. `OpsInv`: no id is twice in the ledger, the last phase
audited is the ledger's, and the active operation is Running in it; an append to a full
ledger evicts only what has ended. `WorksSound`: the agent holds at most the one work
that was dispatched (`Dispatched`), what a draining channel has dispatched is a measurement
of the first node left to drain, a recovery owns its dispatch, and there is at most one
control work, of an execution that has not ended. `ModeSound` ties mode, execution, active
operation and workflow to each other; the automatic configuration makes it more than an
equivalence, since between two of its executions an operation is active without any.
`EntryTold` and `ResumeTold` say what each stage of a plan may rely on: quiescent from
ConvergingToIdle on, all stopped from Reconciling on, and while it drains, every intact
stream drained but for the nodes left in `drain`. They are inductive because a node that has
stopped produces nothing, and one that reboots comes back stopped with an empty tail.
`DownTold` says the same of a controlled shutdown that still reports success; any step
that fails or is late takes back its promise instead of the invariant. That no error of
an inconsistent task is ever raised follows at each `Raises`, from the guard that the code
checks there being already in the invariant. `drain` is kept as the set of positions still
to be drained, of which the coordinator serves the oldest.

**Commissioning.** `CommInv`: `CopiesAgree` says which of a node's copies of its address may
differ. A node that has taken an address has it stored; one that has not restarted yet has
it in the newest boot metadata too; memory and configuration differ only where a rollback
failed; and a node whose boot sync failed runs with older boot metadata, which no property
forbids, since its configuration decides at every boot. The bus holds at most the frame of
the attempt the worker waits for, and what a handshake answered is still so when the host
reads it, because a node that runs under an address never leaves it. That a failed sync
may be effective is why nothing is said of the boot metadata of a node whose assignment
failed.

**Operations.** `ServiceInv` joins the clients, the channel and the file: every phase that
ledger, snapshot or a datagram shows is backed by the audit (`Backed`), each request is
well formed, the active operation is Running in the ledger, and the file is whole while
the process runs and readable always. `AuditStaysSound` alone has a hypothesis,
`Cardinality(Ids) <= LedgerCapacity`: the ledger evicts finished operations
(`operations.rs:367-376`), and a retry of an evicted id is a new operation to the
process. `OPERATIONS-API-V1.md:14-19` bounds the memory the same way.

**Storage thread.** `GroupInv` gives every record its place: for each stream, the
completion channel, the successes not yet sent, the failed group, the pending queue and
the write channel hold consecutive ranges, from what is confirmed to what was handed
over, and the successes end exactly at the repository's cursor (`PlacesInOrder`). Every
step cuts one row and joins another (`SplitInOrder`, `JoinInOrder`), so it moves one of
the points between. A failed group is a run of one stream from that cursor and the disk
holds a prefix of it (`FailedIsRun`), which is what makes `confirmed_prefix` the right
cut. Permits are counted place by place (`PermitsHeld`), hence a command always finds
room and a management operation, refused while a permit is taken, has the executor to
itself (`ManagedAlone`): `pending_management` (`persistence_executor.rs:731`) is never set.
It holds for every number of streams, records and failures and every group size.

**The chain.** `ChainInv` is what the three accounts of a stream have to do with each other,
whatever is on the line. The node's journal is exact against its source (`SourceTold`, on
top of `JournalInv`: the lemmas about the journal's methods are cited, not proved again).
A capture holds the cells of its own boot or marks of what overload took from that boot
(`DiskTold`), and what the node released is on disk. The session's cursors are those of
the capture or one record ahead of it (`SessionTold`). An answer under way and the
evidence of a recovery may be old, but were true of the boot they name (`ReplyTold`,
`SeenTold`); that is the part without which neither property is inductive. A request that
the host gave up still moves the node's release cursor when it arrives: it asks for no more
than was durable when it was sent (`RequestsTold`), and durable cursors never fall.

**Core 0 to core 1.** `StreamInv`: what the journal, the queue and the pending events say
follows each other without a hole up to the next sequence, and each says of its sequences
what the source gave them (`BacklogTold`); an event that core 0 has claimed and not yet
placed is the newest (`ClaimTold`), and only a fault leaves a rest untold. `StopDelivers`
needs in addition that a stopping session was closed by its break (`StopTold`). The
assumption that an invalid sample is none of the valid values is what the two sets mean.

**Group.** `GroupInv`: the agent carries at most the work of the node being driven
(`WorkTold`); a lifecycle answer was true when it was given and stays so until the driver's
next command (`Executing`), since only commands change a node of a group that converges
where nodes do not reboot unasked, which is the case `SettledIsReal` speaks of; nodes before
the current one are settled (`ConvergeTold`); and a verification reads its evidence in the
order of the boots (`VerifyTold`), which is why evidence that ends in the boot it began in
is all of that boot.

**Startup.** `StartupInv`: what a node released is durable in the capture of its boot and what
is durable it produced (`CapturesSound`); evidence stays true of the boot in which it was
read (`Truthful`) although the node may reboot between any two questions; and each stage
has done its work for the nodes before the current one (`StageDone`). A capture without its
header is one nothing was appended to, so what a refused start leaves undone is on the node. It holds for every
list of nodes, each with any number of boots.

**Capture files.** `SegmentInv` has three parts. `Chain`: the files continue each other, a file
without its header is the last one and empty, and every file but the last is sealed and has its manifest, synchronised. `Place`: where
writer and program counter stand relative to the last file, with one clause for each system call
the thread may be about to make; whatever call is cut, recovery finds a chain. `Barriers`:
what a loss of power could take is only what the thread has just written. This part needs
the hypothesis of `CapturesAreKept`, that a budget with losses of power has no process
crash and no failing call. Without it the invariant is false: recovery reports what it
reads from the page cache without a barrier, which is disagreement 2 of section 6. The run has the
same two kinds of budget.

**Retention.** `CleanupInv`: disk and last barrier each hold only states that can be read and
that agree with the replicas (`ContentSound`); a sealed capture is whole until the server
has held every sample of it for a grace period (`CapturesHeld`), an archive until its
deadline has passed and its captures are durably gone (`ArchivesHeld`); what the disk
shows extends what is durable (`RecordsHeld`), so that a loss of power takes back no
deadline; without a loss of power a descriptor goes last (`DescriptorsLast`); and the call
in progress stands where its step says (`JobSound`). `RetentionAssumption` includes that two
indexes of one product are not of disjoint captures: the builder of archives, which is not
part of this code, gives every product an id of its own.

**Checkpoint.** The times of one archive form a chain (archived, replicated, due, deleted)
that update and publication keep, so that what `open` validates always holds of the copy
on disk.

**Model-checked only.** The invariants `InventoryExact`, `ScheduleSound`, `HealthyServed`,
`PayloadsAgree`, `CleanFramesArrive`, `TimeWalExact` and `ReportsTruthful` have no proof. Of these,
`PayloadsAgree`, `CleanFramesArrive` and the merging of documents behind `InventoryExact`
would take induction over data, which is out of the prover's reach, and `HealthyServed` is
about particular sizes: which lateness is met depends on the numbers. Out of reach are also
the liveness properties (`StopEnds`, `GroupSettles`, `EventuallyCaptured`,
`TransitionsEnd`, `BusRecovers`, `EverySubmissionSettles`, `ProcessEnds`) and anything about
`ENABLED`.

## 6 Where code and documents disagree

The first three have a run that shows them, with the quoted lines in `findings` of
`PROJECT.json`.

1. `channel_expiry` (`HS/transaction.rs:319`). When the deadline passes between the
   timer check and the receive of one endpoint step and a frame arrives, the attempt
   is quarantined without being marked as timed out. An operation then waits in
   `AwaitingResponse` until it is abandoned, a transfer makes the next poll fail.
   `TRANSACTION-POLICY.md` says that the order of timer and serial queue does not
   matter.
2. `capture_barrier` (`HS/capture_wal.rs:516`). A record written but not synchronised
   when the process dies is read back from the page cache and reported durable
   without a barrier. A power loss then removes the only copy, since the node may
   have released it.
3. `host_start` (`HS/host_coordinator.rs:560`). A start that fails after its channels
   run waits for the Telemetry executor while it still holds a submitter of it, and
   hangs instead of reporting the error.

Met while modelling, without a run of their own:

- `HS/measurement_coordinator.rs:470`: a Telemetry answer that crosses the recovery of
  its node is filed under the new boot epoch; `TELEMETRY-SERVICE.md` binds it to the
  epoch it was read in.
- `HS/channel_worker.rs:1132-1149`, `879-919`: a restart or a commissioning whose deadline
  passes with its attempt on the wire returns before `endpoint.step()`, now and at every later
  step of the thread. The timer is never polled again, so the attempt never times out, the
  quarantine never ends, the operation never ends and the recording loop, which comes after
  it, stands still until the process stops. `OPERATIONS-API-V1.md:64-67` says that the command
  is given up after the timeout on the wire and the end of the quarantine. `BusRecovers` names
  the case (`stranded`); without the exception the run finds it.
- `HS/channel_worker.rs:633-789`: a configuration read while recording takes dispatch
  events that are not its own.
- `HS/channel_worker.rs:2488-2494`, `1885-1893`: a start, and the rollover to a new boot epoch,
  read the header of a capture's first file before they open it, and
  `HS/capture_wal.rs:255-257` refuses a file shorter than a header. A process or a machine
  that stops between creating the file and writing the header therefore blocks every later
  start in that boot of the node, until the node reboots or somebody removes the file. The
  branch that would write the missing header (`capture_wal.rs:346-350`) is not reached.
  `CAPTURE-WAL-V1.md:66-67` only speaks of an incomplete last record. Nothing is lost:
  `RefusedStartsLoseNothing`, `CaptureKept`.
- `node/boot_shared/boot_shared_metadata_io.cpp:108-116`: a save that fails for one copy of the
  boot metadata may have written the other, so a failed sync can be the one that counts. The
  rollback then writes the old address over it; when that fails too (`RollbackFailed`,
  `node/runtime/commissioning_runtime.h:63-69`) the node may run after its next boot under an
  address that the host counts as not given, and answers the host only `InternalError`, as
  for every failure. `FailureIsFinal` names the case. `node/main_v2.cpp:295-298` ignores the
  result of the boot's sync, which runs after core 1 has begun to answer.
- `HS/channel_worker.rs:1322`: online recovery rolls a rebooted node's capture over
  without waiting for the records of other nodes; the refusal faults the channel with the
  healthy nodes (`adr/0011:41`).
- `HS/measurement_coordinator.rs:1243-1258`: a drain waits for a node that needs recovery
  until its deadline (`adr/0011`).
- `HS/stream_recovery.rs:138`: a capture created while the node holds undelivered samples
  first asks for a release beyond what was delivered; the node refuses until its ring has
  overwritten the old samples (`MEASUREMENT-SERVICE.md:100-104`).
- `HS/channel_runtime.rs:861`: `time_to_overflow` is rounded, not conservative
  (`COMMUNICATION-MODEL.md:148-149`).
- `HS/commissioning.rs:78-85`, `128-131`: the assignment is repeated without first asking
  the target address (`CONFIGURATION-COMMISSIONING-V5.md:115-117`); two fresh nodes can be
  given one address; a node's error answer ends the channel task.
  `HS/installation_topology.rs:365` accepts address 254, which
  `CONFIGURATION-COMMISSIONING-V5.md:73-79` reserves.
- `HS/operations.rs:367-376`: a finished operation evicted from the ledger is started again
  by a late retry; one id with two different requests, or a full ledger, ends the channel
  task.
- `HS/time_persistence.rs:549-583`: a supervision turn that grants a rollover waits for the
  Time executor, although `HS/host_coordinator.rs:285` calls it one bounded decision. The
  executor may itself be waiting (`:681`) for room in the completion channel, which only the
  waiting thread empties: then neither ends, and the stop does not either. It takes one
  completion more than the channel holds, unread, before the request is sent. The actions of
  `HostSupervision` reach it with four Time records and a capacity of one; the run, with two
  records, does not, so `ProcessEnds` is shown for backlogs below that.
- `HS/persistence_executor.rs:851-855`: a completion is sent before its permit is
  given back. A caller that has drained every completion, which is all the comment
  at line 584 asks of it, can be refused as not idle for an instant. The model has
  the step.
- `HS/retention_checkpoint.rs:257-273`: `mark_archive_deleted` does not compare its time with
  that of the capture's deletion, as the reader does (`:608`). A clock set back between the
  two leaves a checkpoint that cannot be read; the model's clock only moves forward.
- `node/runtime/sensor_runtime.h:255`: `ExitMaintenance` assigns Idle although a
  reload may have left events pending or queued; `SENSOR-RUNTIME.md:72-74` says that
  Idle is reached only without them. No data is lost: `StreamExact` holds.
- `publish_gap` of the ingress has no caller in production and is left out.

## 7 What is not modelled

Register access, time-stamp fitting and the decimating filter are numerical or I/O; of the
acquisition engine there is what it publishes. Of the node's protocol endpoint the
transmit path is missing and the COBS decoder is taken from the host's side. Of a
configuration change there is its effect on the stream, not the flash store. Of the
operation mailbox there is the command it carries, not its two queues. The boot loader and
the watchdog appear as the reboots they cause. Reports (status, metrics, telemetry
producers, USB observer) feed nothing back. Time analysis is off line and numerical.
The ungrouped executor is a group of one record. Node firmware v1 and the Python
host v1 are legacy; simulation and tools are test doubles. C++ memory order is
reduced to sequential consistency of the queue's cursors (section 2). `PROJECT.json` says of
each component what is covered.

## 8 Plan

Every component of the measurement path has its module. What is left is proof, in order
of value:

1. `HostSupervision`: `TimeWalExact`, from the relation of queue, worker and file.
2. `ChannelSchedule`: `ScheduleSound`.

Of the models: the node's two mailbox queues, the flash store of the configuration, and
the acquisition's DRDY ring against its interrupt.

## 9 Running it

```
tlc -workers 2 -config MCNodeDelivery.cfg MCNodeDelivery
for m in MeasurementJournalProofs NodeDeliveryProofs DeliveryChainProofs NodeStatesProofs \
         ChannelAgentProofs ChannelRuntimeProofs StorageProofs InterfacesProofs; do tlapm $m.tla; done
```

`runs` in `PROJECT.json` names module and cfg of every run. The proofs take some minutes
for each module from nothing; `tlapm` keeps what it proved.
