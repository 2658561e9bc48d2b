---------------------------- MODULE SensorStream ----------------------------
(* The node's two cores around the ingress queue.  Core 0 repeats
   NodeV2Composition::poll_core0: it reads the fault latch, executes one
   lifecycle command, flushes what the queue refused earlier, lets the
   acquisition publish and executes one configuration command.  Core 1
   moves one event at a time from the queue into the measurement journal.
   The queue is the bounded FIFO that SpscQueue implements; every push of
   core 0 is a step of its own, because core 1 may pop between two. *)
EXTENDS SampleIngress

CONSTANTS
  QueueCapacity,        \* slots of the ingress queue
  Samples,              \* valid samples the sensor yields
  InvalidSample,        \* a sample valid_sample_record refuses
  BreakReasons          \* breaks the acquisition reports while it runs

ASSUME StreamAssumption ==
  /\ QueueCapacity \in Nat \ {0}
  /\ InvalidSample \notin Samples \cup BreakReasons \cup {"ProcessingReset"}

VARIABLES
  state,                \* SensorRuntime::state_
  pc,                   \* where core 0 is in its loop
  in,                   \* SampleIngress
  sink_faulted,         \* MeasurementIngressSink::faulted_
  queue,                \* the ingress queue
  appended,             \* core 1 appended the front event, not yet popped it
  core1_faulted,        \* Core1MeasurementRuntime::faulted_
  latch,                \* RuntimeFaultLatch
  journal,              \* what the journal was given for each sequence
  source                \* history: what the source gave each sequence

core0 == <<state, pc, in, sink_faulted>>
core1 == <<appended, core1_faulted, latch, journal>>
streamVars == <<state, pc, in, sink_faulted, queue, core1, source>>

(* `at' is the statement core 0 is about to execute, `event' the claimed
   event of a publish, `back' where the publish returns to. *)
NoEvent == IngressEvent("None", 0, 0, "none")
At(place) == [at |-> place, event |-> NoEvent, back |-> "none"]

Content(kind, what) == [kind |-> kind, what |-> what]

(* A sensor that failed to initialise leaves the runtime faulted; a zero
   boot epoch faults core 1 and trips the latch at construction. *)
StreamInit ==
  /\ state \in {"Idle", "Faulted"}
  /\ pc = At("poll")
  /\ in = NewIngress
  /\ sink_faulted = FALSE
  /\ queue = <<>>
  /\ appended = FALSE
  /\ latch \in {"None", "InvalidBootEpoch"}
  /\ core1_faulted = (latch # "None")
  /\ journal = <<>>
  /\ source = <<>>

HasRoom == Len(queue) < QueueCapacity

------------------------
(* Core 0: the poll of Core0SensorRuntime. *)

CheckLatch ==
  /\ pc.at = "poll"
  /\ state' = IF latch # "None" THEN "Faulted" ELSE state
  /\ pc' = At("command")
  /\ UNCHANGED <<in, sink_faulted, queue, core1, source>>

Command(place, next_state) ==
  /\ pc.at = "command"
  /\ state' = next_state
  /\ pc' = At(place)
  /\ UNCHANGED <<in, sink_faulted, queue, core1, source>>

(* prepare_for_runtime may fail; a faulted sink refuses before it. *)
start ==
  /\ state = "Idle"
  /\ \E prepared \in BOOLEAN :
       Command("health", IF prepared /\ ~sink_faulted THEN "Recording"
                         ELSE "Faulted")

stop ==
  \/ state = "Recording" /\ Command("finish", state)
  \/ state = "Stopping" /\ Command("stop_command", state)

enter_maintenance == state = "Idle" /\ Command("health", "Maintenance")

exit_maintenance == state = "Maintenance" /\ Command("health", "Idle")

(* No command, GetState, a profile change, or one this state refuses or
   has already carried out. *)
other_command == Command("health", state)

(* Where core 0 is inside a flush_pending loop. *)
FlushPlaces == {"health", "health_after", "stop_command", "stop", "publish"}

Flushable == in.pending # <<>> /\ ~in.faulted /\ ~sink_faulted

flush_pending ==
  /\ pc.at \in FlushPlaces
  /\ Flushable /\ HasRoom
  /\ queue' = Append(queue, Head(in.pending))
  /\ in' = pop_pending(in)
  /\ UNCHANGED <<state, pc, sink_faulted, core1, source>>

(* The loop is over: nothing is pending, or the queue is full. *)
Flushed == pc.at \in FlushPlaces /\ ~(Flushable /\ HasRoom)

(* Mutant: a poll in Stopping does not progress the stop. *)
service_ingress_health_only ==
  /\ Flushed
  /\ pc.at \in {"health", "health_after"}
  /\ sink_faulted' = (sink_faulted \/ in.faulted)
  /\ state' = IF sink_faulted' THEN "Faulted" ELSE state
  /\ pc' = At(IF pc.at = "health" /\ state' = "Recording" THEN "update"
             ELSE "configure")
  /\ UNCHANGED <<in, queue, core1, source>>

service_ingress_health ==
  /\ Flushed
  /\ pc.at \in {"health", "health_after"}
  /\ sink_faulted' = (sink_faulted \/ in.faulted)
  /\ state' = IF sink_faulted' THEN "Faulted" ELSE state
  /\ pc' = At(CASE pc.at = "health" /\ state' = "Stopping" -> "stop"
                [] pc.at = "health" /\ state' = "Recording" -> "update"
                [] OTHER -> "configure")
  /\ UNCHANGED <<in, queue, core1, source>>

(* Mutant: stop completes although the queue still holds events. *)
settled_local == ~sink_faulted /\ ~in.faulted /\ in.pending = <<>>

settled ==
  ~sink_faulted /\ ~in.faulted /\ in.pending = <<>> /\ queue = <<>>

progress_stop ==
  /\ Flushed
  /\ pc.at \in {"stop", "stop_command"}
  /\ sink_faulted' = (sink_faulted \/ in.faulted)
  /\ state' = IF sink_faulted' THEN "Faulted"
              ELSE IF settled THEN "Idle" ELSE state
  /\ pc' = At(IF pc.at = "stop" THEN "configure" ELSE "health")
  /\ UNCHANGED <<in, queue, core1, source>>

------------------------
(* Core 0: the acquisition and its sink. *)

(* The sink hands an event to the ingress, which claims its sequences; an
   exhausted cursor makes the sink fault. *)
publish(kind, what, back) ==
  /\ ~sink_faulted
  /\ IF in.faulted \/ ~can_claim(in, 1)
     THEN /\ sink_faulted' = TRUE
          /\ pc' = At(back)
          /\ UNCHANGED <<in, source>>
     ELSE /\ source' = Append(source, Content(kind, what))
          /\ IF what = InvalidSample
             THEN /\ in' = account_missing(claim(in, 1), in.next, 1, "SourceLoss")
                  /\ sink_faulted' = in'.faulted
                  /\ pc' = At(back)
             ELSE /\ in' = claim(in, 1)
                  /\ pc' = [at |-> "publish", back |-> back,
                            event |-> IngressEvent(kind, in.next, 1, what)]
                  /\ UNCHANGED sink_faulted
  /\ UNCHANGED <<state, queue, core1>>

publish_sample(back) ==
  \E v \in Samples \cup {InvalidSample} : publish("Sample", v, back)

(* try_push of the claimed event, once nothing older is pending. *)
published ==
  /\ pc.at = "publish"
  /\ in.pending = <<>> /\ HasRoom
  /\ queue' = Append(queue, pc.event)
  /\ pc' = At(pc.back)
  /\ UNCHANGED <<state, in, sink_faulted, core1, source>>

(* The queue is full for an older event or for this one. *)
refused ==
  /\ pc.at = "publish"
  /\ ~HasRoom
  /\ in' = account_refused(in, pc.event)
  /\ sink_faulted' = in'.faulted
  /\ pc' = At(pc.back)
  /\ UNCHANGED <<state, queue, core1, source>>

Goto(place, next_state) ==
  /\ pc' = At(place)
  /\ state' = next_state
  /\ UNCHANGED <<in, sink_faulted, queue, core1, source>>

(* One event of the sensor's FIFO service: a sample or a break. *)
service_fifo(back) ==
  \/ publish_sample(back)
  \/ \E why \in BreakReasons : publish("Break", why, back)

(* AcquisitionEngine::update: any samples and breaks, then back. *)
update ==
  /\ pc.at = "update"
  /\ service_fifo("update") \/ Goto("health_after", state)

(* finish_recording: the rest of the sensor's FIFO and, if the sensor
   answered, the break that ends the session. *)
finish_recording ==
  \/ /\ pc.at = "finish"
     /\ \/ service_fifo("finish")
        \/ publish("Break", "ProcessingReset", "finished")
        \/ sink_faulted /\ Goto("finished", state)
        \/ Goto("health", "Faulted")
  \/ /\ pc.at = "finished"
     /\ Goto("stop_command", "Stopping")

(* ConfigurationRuntime::handle reloads the sensor in Maintenance or
   Faulted, which first publishes what its FIFO gathered meanwhile. *)
configure ==
  /\ pc.at = "configure"
  /\ \/ state \in {"Maintenance", "Faulted"} /\ service_fifo("configure")
     \/ Goto("poll", state)

Core0 ==
  \/ CheckLatch \/ start \/ stop \/ enter_maintenance \/ exit_maintenance
  \/ other_command \/ flush_pending \/ service_ingress_health \/ progress_stop
  \/ published \/ refused \/ update \/ finish_recording \/ configure

------------------------
(* Core 1: consume_ingress_once under poll_ingress. *)

(* What the journal holds after it accepted event `e'.  It accepts exactly
   the contiguous events (AppendAccepts of NodeDelivery). *)
with_event(e) == journal \o [k \in 1..e.count |-> Content(e.kind, e.what)]

append_front ==
  /\ ~core1_faulted /\ ~appended /\ queue # <<>>
  /\ LET e == Head(queue)
     IN  IF e.first = Len(journal)
         THEN /\ journal' = with_event(e)
              /\ appended' = TRUE
              /\ UNCHANGED <<core1_faulted, latch>>
         ELSE /\ core1_faulted' = TRUE
              /\ latch' = IF latch = "None" THEN "MeasurementJournalRejected"
                          ELSE latch
              /\ UNCHANGED <<journal, appended>>
  /\ UNCHANGED <<core0, queue, source>>

pop_front ==
  /\ appended
  /\ queue' = Tail(queue)
  /\ appended' = FALSE
  /\ UNCHANGED <<core0, core1_faulted, latch, journal, source>>

Core1 == append_front \/ pop_front

StreamNext == Core0 \/ Core1

(* Both cores keep running their loops; core 0's watchdog is fed only
   while both do.  Neither the host's commands nor the sensor's samples
   are promised. *)
StreamFairness == WF_streamVars(Core0) /\ WF_streamVars(Core1)

StreamSpec == StreamInit /\ [][StreamNext]_streamVars /\ StreamFairness

------------------------
(* Every event on its way to the journal, oldest first. *)
Pipeline ==
  SubSeq(queue, IF appended THEN 2 ELSE 1, Len(queue)) \o in.pending
    \o IF pc.at = "publish" THEN <<pc.event>> ELSE <<>>

(* What an honest account of source content `c' may say. *)
Accounts(x, c) ==
  \/ x = c /\ c.what # InvalidSample
  \/ /\ x.kind = "Gap" /\ c.kind = "Sample"
     /\ x.what \in {Unknown, IF c.what = InvalidSample THEN "SourceLoss"
                             ELSE "IngressOverflow"}

(* Nothing the source numbered is lost, reordered or counted twice on its
   way through the queue and the pending events, whatever the two cores'
   interleaving: the journal, the queue and the pending events follow each
   other without a hole, and say of each sequence what the source gave it
   or that a sample is missing.  Only a fault leaves the newest
   sequences unreported, and nothing follows them. *)
StreamExact ==
  LET starts == [i \in 1..(Len(Pipeline) + 1) |->
                   IF i = 1 THEN Len(journal) ELSE event_end(Pipeline[i - 1])]
  IN  /\ \A i \in 1..Len(Pipeline) : Pipeline[i].first = starts[i]
      /\ starts[Len(Pipeline) + 1] <= in.next
      /\ starts[Len(Pipeline) + 1] < in.next => in.faulted
      /\ \A q \in 1..Len(journal) : Accounts(journal[q], source[q])
      /\ \A i \in 1..Len(Pipeline) :
           LET e == Pipeline[i]
           IN  \A q \in e.first..(event_end(e) - 1) :
                 Accounts(Content(e.kind, e.what), source[q + 1])

(* When a stop completes, core 1's journal holds every sequence of the
   session although core 0 reads only its own cursors and the queue's, and
   the session ends with its ProcessingReset break. *)
StopDelivers ==
  [][(state = "Stopping" /\ state' = "Idle") =>
       /\ Len(journal) = in.next
       /\ journal # <<>>
       /\ journal[Len(journal)] = Content("Break", "ProcessingReset")]_streamVars

(* A stop that was begun ends: the two cores together drain the pending
   events and the queue, or the fault is reported. *)
StopEnds == state = "Stopping" ~> state \in {"Idle", "Faulted"}
=============================================================================
