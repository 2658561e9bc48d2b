-------------------------- MODULE GroupedPersistence --------------------------
(* The storage thread of a channel and the channel that feeds it
   (GroupedPersistenceExecutor and GroupedPersistenceWorker of
   persistence_executor.rs): a bounded queue of records, groups written
   under one barrier, a failed group of unknown fate, its recovery against
   a reopened repository, management of the repository, and shutdown.

   A record is the next position of its stream.  The repository is a
   cursor per stream: what it holds in memory, and what a repository
   opened now would find, which a failed barrier may have moved. *)
EXTENDS Naturals, Sequences, FiniteSets, FiniteSetsExt, SequencesExt

CONSTANTS
    Streams,     \* the (hardware_id, boot_epoch) streams of the channel
    Capacity,    \* permits of the executor and length of its queues
    MaxGroup,    \* GroupCommitPolicy::max_records
    Window,      \* records one stream may have in flight
    MaxRecord,   \* bound: records of one stream
    MaxFailures, \* bound: failures of the repository
    MaxManaged   \* bound: management operations

ASSUME SizesAssumption ==
    /\ IsFiniteSet(Streams)
    /\ {Capacity, MaxGroup, Window, MaxRecord} \subseteq Nat \ {0}
    /\ {MaxFailures, MaxManaged} \subseteq Nat

VARIABLES
    queue,      \* write channel: commands the worker has not taken
    out,        \* completion channel
    in_flight,  \* permits taken
    worker,     \* the storage thread
    durable,    \* per stream, the cursor of the repository in use
    disk,       \* per stream, the cursor a repository opened now would find
    handed,  \* per stream, records the channel has handed over
    confirmed,  \* per stream, records the channel knows to be durable
    caller,     \* the channel thread
    budget      \* remaining failures and management operations

persistenceVars == <<queue, out, in_flight, worker, durable, disk, handed, confirmed,
          caller, budget>>

sinkVars == <<durable, disk>>
channelVars == <<handed, confirmed, caller>>

Write(s, n) == [kind |-> "write", stream |-> s, start |-> n]
Manage == [kind |-> "manage"]

\* Ok(receipt) or Err(error) for the job of a command.
Completion(command, ok) == [stream |-> command.stream, start |-> command.start, ok |-> ok]
Oks(commands) == [i \in DOMAIN commands |-> Completion(commands[i], TRUE)]

Writes == {Write(s, n) : s \in Streams, n \in 0 .. MaxRecord - 1}
Completions == {Completion(c, b) : c \in Writes, b \in BOOLEAN}

\* The next command continues the group that ends with the given one.
follows(command, previous) ==
    command.stream = previous.stream /\ command.start = previous.start + 1

\* contiguous_group_len: the longest admissible prefix of the pending queue.
group_len ==
    Max({n \in 1 .. Min({MaxGroup, Len(worker.pending)}) :
           \A i \in 2 .. n : follows(worker.pending[i], worker.pending[i - 1])})

Group(n) == SubSeq(worker.pending, 1, n)
Rest(n) == SubSeq(worker.pending, n + 1, Len(worker.pending))

PersistenceInit ==
    /\ queue = <<>>
    /\ out = <<>>
    /\ in_flight = 0
    /\ worker = [pc |-> "recv", pending |-> <<>>, failed |-> <<>>, done |-> <<>>,
                 faulted |-> FALSE, deferred |-> FALSE]
    /\ durable = [s \in Streams |-> 0]
    /\ disk = [s \in Streams |-> 0]
    /\ handed = [s \in Streams |-> 0]
    /\ confirmed = [s \in Streams |-> 0]
    /\ caller = [waits |-> "no", failure |-> FALSE, closed |-> FALSE, refused |-> "no"]
    /\ budget = [fail |-> MaxFailures, manage |-> MaxManaged]

(* The channel thread. *)
Runs == caller.waits = "no" /\ ~caller.closed

\* submit_record, when a permit is free; QueueFull and a stopped worker leave
\* the record with the session, which offers it again.
submit_record(s) ==
    /\ Runs
    /\ handed[s] < MaxRecord
    /\ handed[s] - confirmed[s] < Window
    /\ in_flight < Capacity
    /\ Len(queue) < Capacity
    /\ worker.pc # "stopped"
    /\ queue' = Append(queue, Write(s, handed[s]))
    /\ in_flight' = in_flight + 1
    /\ handed' = [handed EXCEPT ![s] = @ + 1]
    /\ UNCHANGED <<out, worker, sinkVars, confirmed, caller, budget>>

\* try_completion and settle_write_completion; shutdown drains what is left.
TakeCompletion ==
    /\ caller.waits = "no"
    /\ out # <<>>
    /\ out' = Tail(out)
    /\ IF Head(out).ok
       THEN /\ confirmed' = [confirmed EXCEPT ![Head(out).stream] = @ + 1]
            /\ UNCHANGED caller
       ELSE /\ caller' = [caller EXCEPT !.failure = TRUE]
            /\ UNCHANGED confirmed
    /\ UNCHANGED <<queue, in_flight, worker, sinkVars, handed, budget>>

\* recover_recording_sink with a repository opened after a failure was reported.
recover_recording_sink ==
    /\ Runs
    /\ caller.failure
    /\ caller' = [caller EXCEPT !.waits = "replace"]
    /\ UNCHANGED <<queue, out, in_flight, worker, sinkVars, handed, confirmed, budget>>

Drained == handed = confirmed /\ out = <<>>

\* manage_sink: refused while a permit is taken, otherwise the channel thread
\* waits for the storage thread to run the operation.
manage_sink ==
    /\ Runs
    /\ budget.manage > 0
    /\ budget' = [budget EXCEPT !.manage = @ - 1]
    /\ IF in_flight = 0
       THEN /\ queue' = Append(queue, Manage)
            /\ caller' = [caller EXCEPT !.waits = "manage"]
       ELSE /\ caller' = [caller EXCEPT
                             !.refused = IF Drained THEN "drained" ELSE "busy",
                             !.closed = ~Drained]
            /\ UNCHANGED queue
    /\ UNCHANGED <<out, in_flight, worker, sinkVars, handed, confirmed>>

\* finish_capture_stream and the rollover of resume, once the channel is quiescent.
finish_capture_stream == Drained /\ manage_sink

\* The rollover of an online recovery: the stream itself has nothing in flight,
\* the others may.  Its error faults the channel, which then shuts down.
begin_epoch_rollover(s) ==
    /\ ~Drained
    /\ handed[s] = confirmed[s]
    /\ manage_sink

\* Shutdown of the executor: no more commands, the completions are drained.
shutdown ==
    /\ Runs
    /\ caller' = [caller EXCEPT !.closed = TRUE]
    /\ UNCHANGED <<queue, out, in_flight, worker, sinkVars, handed, confirmed, budget>>

(* The storage thread. *)

\* enqueue_assigned: a command for which the worker has no room is dropped
\* with the worker.
Enqueue(command, pc) ==
    IF \/ worker.faulted
       \/ Len(worker.pending) + Len(worker.failed) + Len(worker.done) >= Capacity
    THEN [worker EXCEPT !.pc = "stopped"]
    ELSE [worker EXCEPT !.pending = Append(@, command), !.pc = pc]

\* The operation runs on the repository and its result answers the caller.
Operate ==
    /\ caller' = [caller EXCEPT !.waits = "no"]
    /\ UNCHANGED <<out, in_flight, sinkVars, handed, confirmed, budget>>

\* recv of the first command, or of none when the channel is closed.
ReceiveFirst ==
    /\ worker.pc = "recv"
    /\ queue # <<>>
    /\ queue' = Tail(queue)
    /\ IF Head(queue).kind = "manage"
       THEN Operate /\ UNCHANGED worker
       ELSE /\ worker' = Enqueue(Head(queue), "gather")
            /\ UNCHANGED <<out, in_flight, sinkVars, channelVars, budget>>

Disconnected ==
    /\ worker.pc = "recv"
    /\ queue = <<>>
    /\ caller.closed
    /\ worker' = [worker EXCEPT !.pc = "stopped"]
    /\ UNCHANGED <<queue, out, in_flight, sinkVars, channelVars, budget>>

\* recv_timeout of one more command: one that does not continue the group is
\* kept for the next and ends this one.
Gather ==
    /\ worker.pc = "gather"
    /\ Len(worker.pending) < MaxGroup
    /\ queue # <<>>
    /\ queue' = Tail(queue)
    /\ worker' = IF Head(queue).kind = "manage"
                 THEN [worker EXCEPT !.deferred = TRUE, !.pc = "persist"]
                 ELSE Enqueue(Head(queue),
                              IF follows(Head(queue), Last(worker.pending))
                              THEN "gather" ELSE "persist")
    /\ UNCHANGED <<out, in_flight, sinkVars, channelVars, budget>>

\* The group is full, max_wait is over or the channel is closed.
GroupEnds ==
    /\ worker.pc = "gather"
    /\ Len(worker.pending) >= MaxGroup \/ queue = <<>>
    /\ worker' = [worker EXCEPT !.pc = "persist"]
    /\ UNCHANGED <<queue, out, in_flight, sinkVars, channelVars, budget>>

\* The repository expects the record at the head of the group next.
Expected == worker.pending[1].start = durable[worker.pending[1].stream]

\* persist_group succeeds for a prefix: a record that seals a window ends it.
PersistGroup ==
    /\ worker.pc = "persist"
    /\ Expected
    /\ \E n \in 1 .. group_len :
         LET s == worker.pending[1].stream
         IN  /\ durable' = [durable EXCEPT ![s] = @ + n]
             /\ disk' = [disk EXCEPT ![s] = durable[s] + n]
             /\ worker' = [worker EXCEPT !.pending = Rest(n), !.done = Oks(Group(n)),
                                         !.pc = "forward"]
    /\ UNCHANGED <<queue, out, in_flight, channelVars, budget>>

Fail(n) ==
    worker' = [worker EXCEPT !.pending = Rest(n), !.failed = Group(n),
                             !.done = <<Completion(worker.pending[1], FALSE)>>,
                             !.faulted = TRUE, !.pc = "forward"]

\* GroupPersistError::Preparation: nothing was written.  A record that is not
\* the expected one always fails here.
PreparationFails ==
    /\ worker.pc = "persist"
    /\ IF Expected
       THEN /\ budget.fail > 0
            /\ budget' = [budget EXCEPT !.fail = @ - 1]
       ELSE UNCHANGED budget
    /\ Fail(1)
    /\ UNCHANGED <<queue, out, in_flight, sinkVars, channelVars>>

\* GroupPersistError::Commit: any whole records of the attempt may be there.
CommitFails ==
    /\ worker.pc = "persist"
    /\ Expected
    /\ budget.fail > 0
    /\ budget' = [budget EXCEPT !.fail = @ - 1]
    /\ \E n \in 1 .. group_len : \E k \in 0 .. n :
         /\ Fail(n)
         /\ disk' = [disk EXCEPT ![worker.pending[1].stream] = @ + k]
    /\ UNCHANGED <<queue, out, in_flight, durable, channelVars>>

\* forward_grouped_completions: send, which waits for room ...
SendCompletion ==
    /\ worker.pc = "forward"
    /\ worker.done # <<>>
    /\ Len(out) < Capacity
    /\ out' = Append(out, Head(worker.done))
    /\ worker' = [worker EXCEPT !.done = Tail(@),
                                !.pc = IF Head(worker.done).ok THEN "release" ELSE "forward"]
    /\ UNCHANGED <<queue, in_flight, sinkVars, channelVars, budget>>

\* ... then give the permit of a durable record back.
ReleasePermit ==
    /\ worker.pc = "release"
    /\ in_flight' = in_flight - 1
    /\ worker' = [worker EXCEPT !.pc = "forward"]
    /\ UNCHANGED <<queue, out, sinkVars, channelVars, budget>>

\* The head of the loop: wait for recovery, go on with what is pending, run
\* a deferred operation, or wait for the next command.
LoopAgain ==
    /\ worker.pc = "forward"
    /\ worker.done = <<>>
    /\ IF ~worker.faulted /\ worker.pending = <<>> /\ worker.deferred
       THEN /\ worker' = [worker EXCEPT !.deferred = FALSE]
            /\ Operate
       ELSE /\ worker' = [worker EXCEPT !.pc = IF worker.faulted THEN "await"
                                              ELSE IF worker.pending # <<>> THEN "persist"
                                              ELSE "recv"]
            /\ UNCHANGED <<out, in_flight, sinkVars, channelVars, budget>>
    /\ UNCHANGED queue

\* Mutant: the whole failed group is retried.
confirmed_prefix_none == 0

\* classify_group_recovery: records of the failed group below the recovered
\* cursor are durable.
confirmed_prefix == Min({disk[worker.failed[1].stream] - worker.failed[1].start,
                         Len(worker.failed)})

\* Mutant: the records to be retried are forgotten.
replace_recovered_sink_forgets ==
    /\ worker.pc = "await"
    /\ caller.waits = "replace"
    /\ durable' = disk
    /\ worker' = [worker EXCEPT
         !.done = Oks(SubSeq(worker.failed, 1, confirmed_prefix)),
         !.failed = <<>>, !.faulted = FALSE, !.pc = "forward"]
    /\ caller' = [caller EXCEPT !.waits = "no", !.failure = FALSE]
    /\ UNCHANGED <<queue, out, in_flight, disk, handed, confirmed, budget>>

\* replace_recovered_sink: confirm the durable prefix, put the rest back in
\* front.  Evidence from before the group is refused and the fault stays.
replace_recovered_sink ==
    /\ worker.pc = "await"
    /\ caller.waits = "replace"
    /\ IF disk[worker.failed[1].stream] < worker.failed[1].start
       THEN UNCHANGED <<worker, durable>>
       ELSE /\ durable' = disk
            /\ worker' = [worker EXCEPT
                 !.done = Oks(SubSeq(worker.failed, 1, confirmed_prefix)),
                 !.pending = SubSeq(worker.failed, confirmed_prefix + 1, Len(worker.failed)) \o @,
                 !.failed = <<>>,
                 !.faulted = FALSE,
                 !.pc = "forward"]
    /\ caller' = [caller EXCEPT !.waits = "no", !.failure = FALSE]
    /\ UNCHANGED <<queue, out, in_flight, disk, handed, confirmed, budget>>

\* GroupRecoveryCommand::Shutdown, or the sender is gone.
StopFaulted ==
    /\ worker.pc = "await"
    /\ caller.closed
    /\ worker' = [worker EXCEPT !.pc = "stopped"]
    /\ UNCHANGED <<queue, out, in_flight, sinkVars, channelVars, budget>>

------------------------
StorageThread ==
    \/ ReceiveFirst \/ Disconnected \/ Gather \/ GroupEnds
    \/ PersistGroup \/ PreparationFails \/ CommitFails
    \/ SendCompletion \/ ReleasePermit \/ LoopAgain
    \/ replace_recovered_sink \/ StopFaulted

ChannelThread ==
    \/ \E s \in Streams : submit_record(s) \/ begin_epoch_rollover(s)
    \/ TakeCompletion \/ recover_recording_sink \/ finish_capture_stream \/ shutdown

PersistenceNext == StorageThread \/ ChannelThread

PersistenceSpec == PersistenceInit /\ [][PersistenceNext]_persistenceVars

\* The storage thread runs whenever it can.  The channel polls the completions
\* at every step and answers a reported failure: by recovery, or, as the
\* production channel does, by faulting and shutting down.
PersistenceFairness ==
    /\ WF_persistenceVars(StorageThread)
    /\ WF_persistenceVars(TakeCompletion)
    /\ WF_persistenceVars(caller.failure /\ (recover_recording_sink \/ shutdown))

FairPersistenceSpec == PersistenceSpec /\ PersistenceFairness

------------------------
(* Properties. *)

\* Types of the queues, of the two threads and of the counters.
PersistenceTypeOK ==
    /\ queue \in Seq(Writes \cup {Manage}) /\ Len(queue) <= Capacity
    /\ out \in Seq(Completions) /\ Len(out) <= Capacity
    /\ in_flight \in 0 .. Capacity
    /\ worker \in [pc : {"recv", "gather", "persist", "forward", "release", "await", "stopped"},
                   pending : Seq(Writes), failed : Seq(Writes), done : Seq(Completions),
                   faulted : BOOLEAN, deferred : BOOLEAN]
    /\ \A f \in {durable, disk, handed, confirmed} : f \in [Streams -> 0 .. MaxRecord]
    /\ caller \in [waits : {"no", "manage", "replace"}, failure : BOOLEAN,
                   closed : BOOLEAN, refused : {"no", "drained", "busy"}]
    /\ budget \in [fail : 0 .. MaxFailures, manage : 0 .. MaxManaged]

\* A command or a completion that stands for a record not confirmed yet.
Live(c) == IF "ok" \in DOMAIN c THEN c.ok ELSE c.kind = "write"
At(row, s) == {i \in DOMAIN row : Live(row[i]) /\ row[i].stream = s}

\* The records on their way, the oldest first: what holds a permit, and all.
Accepted == worker.done \o worker.failed \o worker.pending \o queue
Unconfirmed == out \o Accepted

\* Every record handed over is in exactly one place, and in order of its
\* stream: confirmed, in a success on its way to the channel, or in the failed
\* group, the pending queue or the write channel.  A group of unknown fate is
\* neither confirmed twice nor dropped nor overtaken by later records.
RecordsInOrder ==
    \A s \in Streams :
        /\ {Unconfirmed[i].start : i \in At(Unconfirmed, s)} = confirmed[s] .. handed[s] - 1
        /\ \A i, j \in At(Unconfirmed, s) : i < j => Unconfirmed[i].start < Unconfirmed[j].start

\* The channel believes a record durable only when a repository opened now
\* would find it, also after a barrier failed and was recovered.
ConfirmedIsOnDisk == \A s \in Streams : confirmed[s] <= disk[s]

\* Outside a fault, what the worker writes next is what the repository expects,
\* so a retry is never refused as overlap or as an unrecorded range.
RetryIsExact ==
    ~worker.faulted =>
        LET row == worker.pending \o queue IN
        \A s \in Streams : \A i \in At(row, s) :
            (\A j \in At(row, s) : i <= j) => row[i].start = durable[s]

\* A permit is held for exactly the records without a success, so the bounded
\* queues never overflow and the worker never gives up for lack of room: it
\* stops only when it was told to.
PermitsExact ==
    /\ in_flight = Cardinality({i \in DOMAIN Accepted : Live(Accepted[i])})
                     + (IF worker.pc = "release" THEN 1 ELSE 0)
    /\ worker.pc = "stopped" => caller.closed

\* A shutdown without a fault loses nothing that was handed over.
CleanStopDrains ==
    worker.pc = "stopped" /\ ~worker.faulted =>
        \A s \in Streams : disk[s] = handed[s]

\* Every record is confirmed in the end, unless the channel shuts down; and a
\* shutdown ends, also when it meets a fault.  Nor does the channel thread wait for
\* an answer that does not come: a management operation or a recovery it has entered
\* is answered.
EverySubmissionSettles ==
    /\ \A s \in Streams, n \in 1 .. MaxRecord :
         handed[s] >= n ~> confirmed[s] >= n \/ caller.closed
    /\ caller.closed ~> worker.pc = "stopped" /\ out = <<>>
    /\ caller.waits # "no" ~> caller.waits = "no"

\* The executor loses nothing and invents nothing: what it was handed is in one
\* place and in order, what it confirmed is on disk, what it retries is what the
\* repository expects, its permits are exact and a clean stop drains it.
RecordsSafe ==
    /\ PersistenceTypeOK /\ RecordsInOrder /\ ConfirmedIsOnDisk
    /\ RetryIsExact /\ PermitsExact /\ CleanStopDrains
=============================================================================
