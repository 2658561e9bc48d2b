----------------------------- MODULE SpscQueue -----------------------------
(* The single-producer single-consumer queue between the node's two cores
   (node/runtime/spsc_queue.h).  The producer owns the write cursor, the
   consumer the read cursor; both are 32-bit counters that wrap, and a
   slot is found by the remainder of a cursor.  A slot is written and read
   without atomicity, so a write in progress shows as Torn. *)
EXTENDS Integers, Sequences

CONSTANTS
  Capacity,             \* slots
  CursorModulus,        \* 2^32 of the uint32_t cursors
  Values,               \* what is queued
  NoValue,              \* an empty slot or nothing taken
  Torn                  \* a slot half written

(* The product's queues hold 128 or 4 slots.  A capacity that does not
   divide the modulus would let the slot index jump when a cursor wraps. *)
ASSUME QueueAssumption ==
  /\ Capacity \in Nat \ {0}
  /\ CursorModulus \in Nat
  /\ 2 * Capacity <= CursorModulus
  /\ CursorModulus % Capacity = 0
  /\ NoValue \notin Values /\ Torn \notin Values /\ Torn # NoValue

VARIABLES
  slots, write, read,   \* slots_, write_, read_
  producer,             \* where try_push is, and its value
  consumer,             \* where the consumer is, and what it copied
  taken                 \* the value the consumer last finished with

queueVars == <<slots, write, read, producer, consumer, taken>>

Idle == [at |-> "idle", value |-> NoValue]

QueueInit ==
  /\ slots = [i \in 0..(Capacity - 1) |-> NoValue]
  /\ write = 0
  /\ read = 0
  /\ producer = Idle
  /\ consumer = Idle
  /\ taken = NoValue

(* Unsigned subtraction and increment of cursors. *)
distance(w, r) == (w - r) % CursorModulus
advance(cursor) == (cursor + 1) % CursorModulus

has_room == distance(write, read) < Capacity

(* Mutant: the slot of a cursor ignores the wrap of the ring. *)
slot_shifted(cursor) == IF cursor = CursorModulus - 1 THEN 0
                        ELSE cursor % Capacity

slot(cursor) == cursor % Capacity

(* try_push: the loads and the room they show; the slot; the store. *)
TryPush ==
  /\ producer.at = "idle"
  /\ has_room
  /\ \E v \in Values : producer' = [at |-> "write", value |-> v]
  /\ UNCHANGED <<slots, write, read, consumer, taken>>

WriteSlot ==
  /\ producer.at = "write"
  /\ IF slots[slot(write)] = Torn
     THEN /\ slots' = [slots EXCEPT ![slot(write)] = producer.value]
          /\ producer' = [producer EXCEPT !.at = "store"]
     ELSE /\ slots' = [slots EXCEPT ![slot(write)] = Torn]
          /\ UNCHANGED producer
  /\ UNCHANGED <<write, read, consumer, taken>>

StoreWrite ==
  /\ producer.at = "store"
  /\ write' = advance(write)
  /\ producer' = Idle
  /\ UNCHANGED <<slots, read, consumer, taken>>

(* try_front hands out a pointer to the slot; its user copies the value. *)
TryFront ==
  /\ consumer.at = "idle"
  /\ read # write
  /\ consumer' = [at |-> "front", value |-> NoValue]
  /\ UNCHANGED <<slots, write, read, producer, taken>>

UseFront ==
  /\ consumer.at = "front"
  /\ consumer' = [at |-> "used", value |-> slots[slot(read)]]
  /\ UNCHANGED <<slots, write, read, producer, taken>>

PopFront ==
  /\ consumer.at = "used"
  /\ IF read = write
     THEN UNCHANGED <<read, taken>>
     ELSE /\ read' = advance(read)
          /\ taken' = consumer.value
  /\ consumer' = Idle
  /\ UNCHANGED <<slots, write, producer>>

QueueNext ==
  \/ TryPush \/ WriteSlot \/ StoreWrite
  \/ TryFront \/ UseFront \/ PopFront

QueueSpec == QueueInit /\ [][QueueNext]_queueVars

------------------------
(* The type of every variable; the distance never exceeds the slots. *)
QueueTypeOK ==
  /\ slots \in [0..(Capacity - 1) -> Values \cup {NoValue, Torn}]
  /\ {write, read} \subseteq 0..(CursorModulus - 1)
  /\ producer.at \in {"idle", "write", "store"}
  /\ consumer.at \in {"idle", "front", "used"}
  /\ distance(write, read) <= Capacity

(* The two cores never touch one slot at the same time: a slot the
   consumer holds a pointer to is not the one a push is filling, however
   full the queue is and wherever the cursors wrapped. *)
NoSlotRace ==
  (producer.at \in {"write", "store"} /\ consumer.at # "idle") =>
     slot(write) # slot(read)

Fifo == INSTANCE BoundedFifo WITH
  fifo <- [k \in 1..distance(write, read) |->
             slots[slot((read + k - 1) % CursorModulus)]]

(* The queue is a bounded FIFO: every value taken is the oldest one pushed
   and none is lost, repeated or torn, across the wrap of both cursors. *)
ImplementsFifo == Fifo!Spec
=============================================================================
